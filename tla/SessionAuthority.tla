------------------------- MODULE SessionAuthority -------------------------
(***************************************************************************)
(* What the session subsystem promises, without tokens, rows or requests.  *)
(* A user lives through eras, each ended by an account-wide revocation.    *)
(* Cernere honours sessions; a session belongs to the era in which its     *)
(* user logged in.  Only sessions of the present era are ever admitted, a  *)
(* revocation withdraws all those of its user at once, and nothing brings  *)
(* a withdrawn era back.                                                   *)
(***************************************************************************)
EXTENDS Naturals

CONSTANT Users

VARIABLES
    era,      \* era[u]: how many times the account of u has been revoked
    honoured  \* the <<user, era>> pairs of which some credential is accepted

Init ==
    /\ era = [u \in Users |-> 0]
    /\ honoured = {}

Admit(u) ==
    /\ honoured' = honoured \cup {<<u, era[u]>>}
    /\ era' = era

\* A session may end on its own: logout, expiry, reuse, a factor change.
Withdraw ==
    /\ honoured' \subseteq honoured
    /\ era' = era

Revoke(u) ==
    /\ era' = [era EXCEPT ![u] = @ + 1]
    /\ honoured' = {s \in honoured : s[1] # u}

Next == Withdraw \/ \E u \in Users : Admit(u) \/ Revoke(u)

Spec == Init /\ [][Next]_<<era, honoured>>
=============================================================================
