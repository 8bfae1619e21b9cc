--------------------------- MODULE MCAccessReview ---------------------------
(* Small instances of AccessReview for TLC.                                *)
EXTENDS AccessReview, TLC

\* Accounts are interchangeable, and so are requests.
Interchangeable == Permutations(Users) \cup Permutations(RequestIds)

\* Decisions and digests meet while accounts have been decided on twice at
\* most; the third decision is left to the states without a digest.
NoDigest ==
    /\ digest.step = "idle"
    /\ \A r \in RequestIds : requests[r] # None => requests[r].missed = "no"
TwoDecisions == \A u \in Users : users[u].revision <= 2
DigestOrDecisions == NoDigest \/ TwoDecisions
=============================================================================
