--------------------------- MODULE MCUserSockets ---------------------------
(* A small instance of UserSockets. *)
EXTENDS UserSockets, TLC

Interchangeable == Permutations(Connections) \cup Permutations(SessionIds)
                   \cup Permutations(Sources)
=============================================================================
