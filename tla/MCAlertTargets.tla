-------------------------- MODULE MCAlertTargets --------------------------
(* Model-checking instances of AlertTargets. *)
EXTENDS AlertTargets, TLC

\* Requests in progress and the accounts of a service are interchangeable.
Interchangeable == Permutations(Requests) \cup Permutations(Addresses)
=============================================================================
