------------------------- MODULE MCPasskeyRecovery -------------------------
(* A small instance of PasskeyRecovery. *)
EXTENDS PasskeyRecovery, TLC

Interchangeable == Permutations(Keys) \cup Permutations(Codes)
                   \cup Permutations(CeremonyIds)

\* One complication at a time: a registration, a pairing, a grant, two
\* ceremonies or a second code, beside a recovery, deletions and locks.
OneOtherWay ==
    Cardinality({way \in 1 .. 5 :
        CASE way = 1 -> challenge \/ deletes > 0 \/ \E k \in Keys : passkey[k] = "verified"
          [] way = 2 -> \E p \in Pairings : pairing[p].state # "none"
          [] way = 3 -> operator > 0 \/ \E g \in Grants : grant[g].state # "none"
          [] way = 4 -> Cardinality(ceremonies) > 1
          [] way = 5 -> \A c \in Codes : code[c].state # "none"}) <= 1
=============================================================================
