----------------------------- MODULE MCFederation -----------------------------
(* Four accounts, or two and those the request makes; a federation of two  *)
(* or three of them, which its founder may have left, or none; one request *)
(* and any number of its approvals, and two other calls, at once or one    *)
(* after the other.  Approvals read no federation: pages and deletions do  *)
(* not overlap with them, and two of those come before the request.        *)
EXTENDS Federation, TLC

Symmetry == Permutations(Accounts) \cup Permutations(Federations) \cup Permutations(Calls)

Founders(f) == federations[f].subject \notin federations[f].members
               \/ federations[f].subject = federations[f].primary
MCInit == Init /\ Cardinality(accounts) \in {2, 4}
               /\ \A f \in Federations : IsOpen(f) => Founders(f)
MCSpec == MCInit /\ [][Next]_vars

Others == {o \in Calls : calls[o].kind \in {"view", "set_primary", "remove", "delete"}}
InPhases == \A r \in Requests :
  /\ Others # {} => requests[r].state \in {"none", "approved", "completed", "expired"}
  /\ Cardinality(Others) = 2 => requests[r].state = "none"
=============================================================================
