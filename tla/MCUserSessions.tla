-------------------------- MODULE MCUserSessions --------------------------
(* Model-checking instances of UserSessions. *)
EXTENDS UserSessions, TLC

\* Workers and tokens are interchangeable.
Interchangeable == Permutations(Workers) \cup Permutations(Tokens)
=============================================================================
