------------------------ MODULE PasskeyRecovery_proofs ------------------------
(***************************************************************************)
(* Proofs about the passkeys of an account, for any number of keys, codes, *)
(* ceremonies, grants and pairings.                                        *)
(*                                                                         *)
(* The argument: a candidate belongs to one recovery request or to one     *)
(* pairing and to no other path (CandidatesHaveOneOwner), so a refusal of  *)
(* its owner leaves nothing that could promote it.  One code is active and *)
(* one request open at a time, which the recovery that confirms it uses up *)
(* (OneOfEach), and nothing is committed at an epoch before the last full  *)
(* recovery, because that recovery moved the epoch (RecoveryIsPast).       *)
(***************************************************************************)
EXTENDS PasskeyRecovery, FiniteSetTheorems, TLAPS

OneOfEach ==
  /\ \A j, k \in OpenRequests : j = k
  /\ \A c, d \in ActiveCodes : c = d

RecoveryIsPast == history.recovered <= user.epoch

(* The keys of requests and pairings are different, and never promoted by   *)
(* any other than their owner.                                              *)
RequestedKeys ==
  \A k \in Keys :
    /\ request[k].state \in {"open", "cancelled"} => passkey[k] \in {"candidate", "discarded"}
    /\ request[k].state = "completed" => passkey[k] \in {"active", "revoked"}

PairedKeys ==
  \A p \in Pairings :
    /\ pairing[p].key # NoKey =>
         /\ pairing[p].state \in {"candidate", "approved"}
         /\ request[pairing[p].key].state = "none"
         /\ \A q \in Pairings : pairing[q].key = pairing[p].key => q = p
    /\ pairing[p].state = "candidate" =>
         pairing[p].key # NoKey /\ passkey[pairing[p].key] \in {"candidate", "discarded"}
    /\ pairing[p].state = "approved" =>
         /\ ~pairing[p].refused
         /\ pairing[p].key # NoKey /\ passkey[pairing[p].key] \in {"active", "revoked"}
    /\ ~pairing[p].refused => pairing[p].misses < MaxMatch

CandidatesHaveOneOwner == RequestedKeys /\ PairedKeys

Inductive ==
  /\ TypeOK
  /\ IsFiniteSet(ActiveKeys) /\ AKeyRemains
  /\ OneOfEach
  /\ RecoveryIsPast /\ NothingFromBeforeRecovery
  /\ CandidatesHaveOneOwner

-----------------------------------------------------------------------------
(* Rows.                                                                   *)
KeyStates == {"unused", "verified", "candidate", "discarded", "active", "revoked"}

LEMMA StateTypes ==
    ASSUME TypeOK
    PROVE  /\ user.epoch \in Epochs /\ user.epoch \in Nat /\ user.generation \in Nat
           /\ user.grace \in BOOLEAN
           /\ history.recovered \in Epochs /\ history.recovered \in Nat
           /\ history.key \in [Keys -> Epochs] /\ history.code \in [Codes -> Epochs]
           /\ MaxEpoch \in Nat /\ MaxOperator \in Nat /\ MaxMatch \in Nat /\ MaxMatch > 0
           /\ Epochs \subseteq Nat
  <1>1. MaxEpoch \in Nat /\ MaxOperator \in Nat /\ MaxMatch \in Nat /\ MaxMatch > 0
    BY RecoveryAssumption
  <1>2. Epochs \subseteq Nat
    BY <1>1 DEF Epochs
  <1>3. user \in [epoch : Epochs, generation : Nat, grace : BOOLEAN]
    BY DEF TypeOK
  <1>4. history \in [recovered : Epochs, key : [Keys -> Epochs], code : [Codes -> Epochs]]
    BY DEF TypeOK
  <1> HIDE DEF Epochs
  <1> QED
    BY <1>1, <1>2, <1>3, <1>4

LEMMA RequestTypes ==
    ASSUME TypeOK, NEW k \in Keys
    PROVE  /\ request[k] \in RequestRows
           /\ request[k].state \in RequestStates /\ request[k].code \in Codes
           /\ request[k].epoch \in Epochs /\ request[k].generation \in Nat
           /\ request[k].eligible \in BOOLEAN /\ request[k].frozen \in BOOLEAN
  BY DEF TypeOK, RequestRows

LEMMA PairingTypes ==
    ASSUME TypeOK, NEW p \in Pairings
    PROVE  /\ pairing[p] \in PairingRows
           /\ pairing[p].key \in Keys \cup {NoKey}
           /\ pairing[p].misses \in 0 .. MaxMatch
  BY DEF TypeOK, PairingRows

(* A request of which the state is written. *)
LEMMA RequestRow ==
    ASSUME NEW q \in RequestRows, NEW st \in RequestStates, NEW j, j = [q EXCEPT !.state = st]
    PROVE  /\ j \in RequestRows
           /\ j.state = st /\ j.code = q.code /\ j.epoch = q.epoch
  BY DEF RequestRows

LEMMA MarkedRow ==
    ASSUME NEW q \in RequestRows, NEW j,
           j = [q EXCEPT !.eligible = TRUE] \/ j = [q EXCEPT !.frozen = TRUE]
    PROVE  j \in RequestRows /\ j.state = q.state /\ j.code = q.code /\ j.epoch = q.epoch
  BY DEF RequestRows

LEMMA GrantRow ==
    ASSUME NEW q \in GrantRows, NEW st \in {"used", "revoked"}, NEW j, j = [q EXCEPT !.state = st]
    PROVE  j \in GrantRows
  BY DEF GrantRows

LEMMA CancelledRows ==
    ASSUME TypeOK, NEW S, S \subseteq Keys
    PROVE  /\ Cancelled(S) \in [Keys -> RequestRows]
           /\ \A k \in Keys :
                /\ k \notin S => Cancelled(S)[k] = request[k]
                /\ k \in S => Cancelled(S)[k].state = "cancelled"
                /\ Cancelled(S)[k].epoch = request[k].epoch
  <1>1. Cancelled(S) = [k \in Keys |-> IF k \in S THEN [request[k] EXCEPT !.state = "cancelled"]
                                       ELSE request[k]]
    BY DEF Cancelled
  <1>2. ASSUME NEW k \in Keys, k \in S
        PROVE  /\ Cancelled(S)[k] \in RequestRows
               /\ Cancelled(S)[k].state = "cancelled" /\ Cancelled(S)[k].epoch = request[k].epoch
    <2>1. Cancelled(S)[k] = [request[k] EXCEPT !.state = "cancelled"]
      BY <1>1, <1>2
    <2> QED
      BY <2>1, RequestRow, RequestTypes DEF RequestStates
  <1>3. ASSUME NEW k \in Keys, k \notin S
        PROVE  Cancelled(S)[k] = request[k]
    BY <1>1, <1>3
  <1>4. \A k \in Keys : Cancelled(S)[k] \in RequestRows
    BY <1>2, <1>3, RequestTypes
  <1>5. Cancelled(S) \in [Keys -> RequestRows]
    BY <1>1, <1>4
  <1> QED
    BY <1>2, <1>3, <1>5

LEMMA DiscardedKeys ==
    ASSUME TypeOK, NEW S
    PROVE  /\ Discarded(S) \in [Keys -> KeyStates]
           /\ \A k \in Keys :
                \/ Discarded(S)[k] = passkey[k] /\ (k \notin S \/ passkey[k] # "candidate")
                \/ Discarded(S)[k] = "discarded" /\ passkey[k] = "candidate" /\ k \in S
  BY DEF Discarded, TypeOK, KeyStates

LEMMA InvalidatedCodes ==
    ASSUME TypeOK
    PROVE  /\ CodesInvalidated \in [Codes -> [state : {"none", "active", "used", "revoked"},
                                              generation : Nat]]
           /\ \A c \in Codes : CodesInvalidated[c].state # "active"
  BY DEF CodesInvalidated, ActiveCodes, TypeOK

(* One column of one pairing. *)
LEMMA PairingRow ==
    ASSUME NEW q \in PairingRows, NEW j,
           \/ \E st \in {"none", "made", "claimed", "candidate", "approved"} :
                 j = [q EXCEPT !.state = st]
           \/ j = [q EXCEPT !.open = FALSE]
           \/ j = [q EXCEPT !.refused = TRUE]
    PROVE  /\ j \in PairingRows /\ j.key = q.key /\ j.misses = q.misses
           /\ j.state = q.state \/ j.refused = q.refused
  BY DEF PairingRows

LEMMA MismatchRow ==
    ASSUME TypeOK, PairedKeys, NEW p \in Pairings, MismatchPairing(p)
    PROVE  /\ pairing' \in [Pairings -> PairingRows]
           /\ pairing'[p].key = pairing[p].key /\ pairing'[p].state = pairing[p].state
           /\ ~pairing'[p].refused => pairing'[p].misses < MaxMatch
           /\ \A q \in Pairings : q # p => pairing'[q] = pairing[q]
  <1> DEFINE m == pairing[p].misses + 1
             last == m >= MaxMatch
             j == [pairing[p] EXCEPT !.misses = m, !.refused = last]
  <1>1. pairing' = [pairing EXCEPT ![p] = j]
    BY PairingTypes DEF MismatchPairing, TypeOK
  <1>2. pairing[p] \in PairingRows /\ pairing[p].misses < MaxMatch
        /\ pairing[p].misses \in 0 .. MaxMatch
    BY PairingTypes DEF MismatchPairing, Approvable, PairedKeys
  <1>3. last \in BOOLEAN
    OBVIOUS
  <1>4. m \in 0 .. MaxMatch /\ (~last => m < MaxMatch)
    BY <1>2, RecoveryAssumption
  <1> HIDE DEF m, last
  <1>5. /\ j \in PairingRows /\ j.key = pairing[p].key /\ j.state = pairing[p].state
        /\ j.refused = last /\ j.misses = m
    BY <1>2, <1>3, <1>4 DEF PairingRows
  <1> HIDE DEF j
  <1>6. /\ pairing' \in [Pairings -> PairingRows] /\ pairing'[p] = j
        /\ \A q \in Pairings : q # p => pairing'[q] = pairing[q]
    BY <1>1, <1>5 DEF TypeOK
  <1> QED
    BY <1>4, <1>5, <1>6

LEMMA FinishPairingRow ==
    ASSUME TypeOK, NEW p \in Pairings, NEW k \in Keys, FinishPairing(p, k)
    PROVE  /\ pairing' \in [Pairings -> PairingRows]
           /\ pairing'[p].key = k /\ pairing'[p].state = "candidate"
           /\ ~pairing'[p].refused
           /\ pairing'[p].misses = pairing[p].misses
           /\ \A q \in Pairings : q # p => pairing'[q] = pairing[q]
  <1> DEFINE j == [pairing[p] EXCEPT !.state = "candidate", !.key = k]
  <1>1. pairing' = [pairing EXCEPT ![p] = j]
    BY PairingTypes DEF FinishPairing, TypeOK
  <1>2. /\ j \in PairingRows /\ j.key = k /\ j.state = "candidate"
        /\ j.refused = pairing[p].refused /\ j.misses = pairing[p].misses
    BY PairingTypes DEF PairingRows
  <1>3. ~pairing[p].refused
    BY DEF FinishPairing
  <1> HIDE DEF j
  <1> QED
    BY <1>1, <1>2, <1>3 DEF TypeOK

-----------------------------------------------------------------------------
(* What steps do to the keys.  A key settles when it is discarded or        *)
(* revoked; everything else happens to one key at a time.                   *)
Settles(k) ==
  \/ passkey'[k] = passkey[k]
  \/ passkey[k] = "candidate" /\ passkey'[k] = "discarded"
  \/ passkey[k] = "active" /\ passkey'[k] = "revoked"

LEMMA FewActiveKeys ==
    ASSUME IsFiniteSet(ActiveKeys), NEW k \in Keys,
           \A j \in Keys : j # k => Settles(j)
    PROVE  IsFiniteSet(ActiveKeys')
  <1>1. ActiveKeys' \subseteq ActiveKeys \cup {k}
    BY DEF ActiveKeys, Settles
  <1>2. IsFiniteSet(ActiveKeys \cup {k})
    BY FS_AddElement
  <1> QED
    BY <1>1, <1>2, FS_Subset

LEMMA SettledKeysAreFew ==
    ASSUME IsFiniteSet(ActiveKeys), \A j \in Keys : Settles(j)
    PROVE  IsFiniteSet(ActiveKeys')
  <1>1. ActiveKeys' \subseteq ActiveKeys
    BY DEF ActiveKeys, Settles
  <1> QED
    BY <1>1, FS_Subset

LEMMA EnrolledKeys ==
    ASSUME TypeOK, NEW k \in Keys, NEW S, Enrolled(k, S)
    PROVE  /\ passkey' \in [Keys -> KeyStates]
           /\ passkey'[k] = "active"
           /\ \A j \in Keys : j # k =>
                /\ Settles(j)
                /\ passkey'[j] = passkey[j] \/ passkey[j] = "active"
                /\ j \in S => passkey'[j] # "active"
  BY DEF Enrolled, TypeOK, KeyStates, Settles

LEMMA PromotedKeys ==
    ASSUME TypeOK, NEW g \in Grants, NEW k \in Keys, CompleteGrant(g, k)
    PROVE  /\ passkey' \in [Keys -> KeyStates]
           /\ passkey'[k] = "active"
           /\ \A j \in Keys : j # k =>
                /\ Settles(j)
                /\ grant[g].all => passkey'[j] # "active"
  <1> DEFINE revoke == IF grant[g].all THEN Keys ELSE grant[g].keys
  <1>1. passkey' = [x \in Keys |->
                          IF x = k THEN "active"
                          ELSE IF x \in ActiveKeys \cap revoke THEN "revoked"
                          ELSE Discarded(OpenRequests)[x]]
    BY DEF CompleteGrant
  <1>2. passkey'[k] = "active"
    BY <1>1
  <1>3. ASSUME NEW j \in Keys, j # k
        PROVE  Settles(j) /\ passkey'[j] \in KeyStates /\ (grant[g].all => passkey'[j] # "active")
    <2>1. CASE j \in ActiveKeys \cap revoke
      <3>1. passkey'[j] = "revoked" /\ passkey[j] = "active"
        BY <1>1, <1>3, <2>1 DEF ActiveKeys
      <3> QED
        BY <3>1 DEF Settles, KeyStates
    <2>2. CASE j \notin ActiveKeys \cap revoke
      <3>1. passkey'[j] = Discarded(OpenRequests)[j]
        BY <1>1, <1>3, <2>2
      <3>2. \/ passkey'[j] = passkey[j]
            \/ passkey'[j] = "discarded" /\ passkey[j] = "candidate"
        BY <3>1, DiscardedKeys
      <3>3. grant[g].all => passkey[j] # "active"
        BY <2>2 DEF ActiveKeys
      <3> QED
        BY <3>2, <3>3 DEF Settles, KeyStates, TypeOK
    <2> QED
      BY <2>1, <2>2
  <1>4. passkey' \in [Keys -> KeyStates]
    BY <1>1, <1>2, <1>3 DEF KeyStates
  <1> QED
    BY <1>2, <1>3, <1>4

-----------------------------------------------------------------------------
(* The type invariant.                                                     *)
LEMMA InitTypeOK == Init => TypeOK
  <1> SUFFICES ASSUME Init PROVE TypeOK
    OBVIOUS
  <1>0. 0 \in Epochs /\ 0 \in 0 .. MaxMatch /\ 0 \in 0 .. MaxOperator
    BY RecoveryAssumption DEF Epochs
  <1>1. user \in [epoch : Epochs, generation : Nat, grace : BOOLEAN]
    BY <1>0 DEF Init
  <1>2. passkey \in [Keys -> {"unused", "verified", "candidate", "discarded",
                             "active", "revoked"}]
    BY DEF Init
  <1>3. code \in [Codes -> [state : {"none", "active", "used", "revoked"}, generation : Nat]]
    BY DEF Init
  <1>4. request \in [Keys -> RequestRows]
    BY <1>0 DEF Init, RequestRows, RequestStates
  <1>5. pairing \in [Pairings -> PairingRows]
    BY <1>0 DEF Init, PairingRows
  <1>6. grant \in [Grants -> GrantRows]
    BY <1>0 DEF Init, GrantRows
  <1>7. history \in [recovered : Epochs, key : [Keys -> Epochs], code : [Codes -> Epochs]]
    BY <1>0 DEF Init
  <1>8. /\ challenge \in BOOLEAN /\ deletes \in Nat /\ issuing \subseteq {"grace", "proof"}
        /\ ceremonies \subseteq Ceremonies /\ operator \in 0 .. MaxOperator
    BY <1>0 DEF Init
  <1> QED
    BY <1>1, <1>2, <1>3, <1>4, <1>5, <1>6, <1>7, <1>8 DEF TypeOK

(* What a step adds to the history. *)
Histories == [recovered : Epochs, key : [Keys -> Epochs], code : [Codes -> Epochs]]

LEMMA HistoryOfKey ==
    ASSUME TypeOK, NEW k \in Keys, NEW e \in Epochs, history' = [history EXCEPT !.key[k] = e]
    PROVE  /\ history' \in Histories
           /\ history'.recovered = history.recovered /\ history'.code = history.code
           /\ history'.key[k] = e /\ \A j \in Keys : j # k => history'.key[j] = history.key[j]
  <1> DEFINE f == [history.key EXCEPT ![k] = e]
  <1>1. history \in Histories
    BY DEF TypeOK, Histories
  <1>2. f \in [Keys -> Epochs] /\ f[k] = e /\ \A j \in Keys : j # k => f[j] = history.key[j]
    BY <1>1 DEF Histories
  <1>3. history' = [history EXCEPT !.key = f]
    OBVIOUS
  <1> HIDE DEF f
  <1> QED
    BY <1>1, <1>2, <1>3 DEF Histories

LEMMA HistoryOfRecovery ==
    ASSUME TypeOK, NEW k \in Keys, NEW e \in Epochs, NEW r \in Epochs,
           history' = [history EXCEPT !.key[k] = e, !.recovered = r]
    PROVE  /\ history' \in Histories
           /\ history'.recovered = r /\ history'.code = history.code
           /\ history'.key[k] = e /\ \A j \in Keys : j # k => history'.key[j] = history.key[j]
  <1> DEFINE f == [history.key EXCEPT ![k] = e]
  <1>1. history \in Histories
    BY DEF TypeOK, Histories
  <1>2. f \in [Keys -> Epochs] /\ f[k] = e /\ \A j \in Keys : j # k => f[j] = history.key[j]
    BY <1>1 DEF Histories
  <1>3. history' = [history EXCEPT !.key = f, !.recovered = r]
    OBVIOUS
  <1> HIDE DEF f
  <1> QED
    BY <1>1, <1>2, <1>3 DEF Histories

LEMMA HistoryOfFullRecovery ==
    ASSUME TypeOK, NEW k \in Keys, user.epoch + 1 \in Epochs,
           history' = [history EXCEPT !.key[k] = user.epoch + 1, !.recovered = user.epoch + 1]
    PROVE  history'.recovered = user.epoch + 1 /\ history'.key[k] = user.epoch + 1
  <1> DEFINE f == [history.key EXCEPT ![k] = user.epoch + 1]
  <1>1. history' = [history EXCEPT !.key = f, !.recovered = user.epoch + 1]
    OBVIOUS
  <1>2. f[k] = user.epoch + 1
    BY DEF TypeOK
  <1> HIDE DEF f
  <1> QED
    BY <1>1, <1>2 DEF TypeOK

LEMMA HistoryOfCode ==
    ASSUME TypeOK, NEW c \in Codes, NEW e \in Epochs, history' = [history EXCEPT !.code[c] = e]
    PROVE  /\ history' \in Histories
           /\ history'.recovered = history.recovered /\ history'.key = history.key
           /\ history'.code[c] = e /\ \A d \in Codes : d # c => history'.code[d] = history.code[d]
  <1> DEFINE f == [history.code EXCEPT ![c] = e]
  <1>1. history \in Histories
    BY DEF TypeOK, Histories
  <1>2. f \in [Codes -> Epochs] /\ f[c] = e /\ \A d \in Codes : d # c => f[d] = history.code[d]
    BY <1>1 DEF Histories
  <1>3. history' = [history EXCEPT !.code = f]
    OBVIOUS
  <1> HIDE DEF f
  <1> QED
    BY <1>1, <1>2, <1>3 DEF Histories

(* One column of the row of a code. *)
LEMMA CodeTypes ==
    ASSUME TypeOK, NEW c \in Codes, NEW st \in {"used", "revoked"},
           code' = [code EXCEPT ![c].state = st]
    PROVE  /\ code' \in [Codes -> [state : {"none", "active", "used", "revoked"},
                                   generation : Nat]]
           /\ code'[c].state = st /\ \A d \in Codes : d # c => code'[d] = code[d]
  BY DEF TypeOK

LEMMA NextTypeOK ==
    ASSUME Inductive, [Next]_vars
    PROVE  TypeOK'
  <1> USE DEF Inductive
  <1>1. CASE RegisterBegin \/ RegisterDone
    <2>1. challenge' \in BOOLEAN
      BY <1>1 DEF RegisterBegin, RegisterDone
    <2>2. deletes' \in Nat
      BY <1>1 DEF RegisterBegin, RegisterDone, TypeOK
    <2> QED
      BY <1>1, <2>1, <2>2 DEF RegisterBegin, RegisterDone, TypeOK
  <1>2. ASSUME NEW k \in Keys, RegisterVerify(k) \/ DeletePasskey(k) PROVE TypeOK'
    BY <1>2 DEF RegisterVerify, DeletePasskey, TypeOK
  <1>3. ASSUME NEW k \in Keys, RegisterInsert(k) PROVE TypeOK'
    <2>1. passkey' \in [Keys -> KeyStates]
      BY <1>3, EnrolledKeys DEF RegisterInsert
    <2>2. history' \in Histories
      BY <1>3, StateTypes, HistoryOfKey DEF RegisterInsert
    <2> QED
      BY <1>3, <2>1, <2>2 DEF RegisterInsert, TypeOK, KeyStates, Histories
  <1>4. CASE IssueAuthorise \/ IssueRefused
    <2>1. \E S \in SUBSET {"grace", "proof"} : issuing' \in {issuing \cup S, issuing \ S}
      <3>1. CASE IssueRefused
        BY <3>1 DEF IssueRefused
      <3>2. CASE IssueAuthorise /\ InIssueGrace
        BY <3>2 DEF IssueAuthorise
      <3>3. CASE IssueAuthorise /\ ~InIssueGrace
        BY <3>3 DEF IssueAuthorise
      <3> QED
        BY <1>4, <3>1, <3>2, <3>3
    <2>2. issuing' \subseteq {"grace", "proof"}
      BY <2>1 DEF TypeOK
    <2> QED
      BY <1>4, <2>2 DEF IssueAuthorise, IssueRefused, TypeOK
  <1>5. CASE GraceEnds
    BY <1>5 DEF GraceEnds, TypeOK
  <1>6. ASSUME NEW how \in issuing, NEW c \in Codes, IssueCommit(how, c) PROVE TypeOK'
    <2>1. user' \in [epoch : Epochs, generation : Nat, grace : BOOLEAN]
      BY <1>6 DEF IssueCommit, TypeOK
    <2>2. [state |-> "active", generation |-> user.generation + 1]
            \in [state : {"none", "active", "used", "revoked"}, generation : Nat]
      BY StateTypes
    <2>3. code' \in [Codes -> [state : {"none", "active", "used", "revoked"}, generation : Nat]]
      BY <1>6, <2>2, InvalidatedCodes DEF IssueCommit
    <2>4. OpenRequests \subseteq Keys
      BY DEF OpenRequests
    <2>5. request' \in [Keys -> RequestRows] /\ passkey' \in [Keys -> KeyStates]
      BY <1>6, <2>4, CancelledRows, DiscardedKeys DEF IssueCommit
    <2>6. history' \in Histories
      BY <1>6, StateTypes, HistoryOfCode DEF IssueCommit
    <2> QED
      BY <1>6, <2>1, <2>3, <2>5, <2>6 DEF IssueCommit, TypeOK, KeyStates, Histories
  <1>7. ASSUME NEW c \in Codes, BeginRecovery(c) PROVE TypeOK'
    <2>1. PICK id \in CeremonyIds :
            ceremonies' = ceremonies \cup {[id |-> id, code |-> c, epoch |-> user.epoch,
                                            generation |-> user.generation]}
      BY <1>7 DEF BeginRecovery
    <2>2. ceremonies' \subseteq Ceremonies
      BY <2>1, StateTypes DEF Ceremonies, TypeOK
    <2> QED
      BY <1>7, <2>2 DEF BeginRecovery, TypeOK
  <1>8. ASSUME NEW c \in Codes, ResolveRecoveryConflict(c) PROVE TypeOK'
    <2> DEFINE open == {k \in OpenRequests : request[k].code = c}
    <2>1. open \subseteq Keys
      BY DEF OpenRequests
    <2>2. request' \in [Keys -> RequestRows] /\ passkey' \in [Keys -> KeyStates]
      BY <1>8, <2>1, CancelledRows, DiscardedKeys DEF ResolveRecoveryConflict
    <2>3. code' \in [Codes -> [state : {"none", "active", "used", "revoked"}, generation : Nat]]
      BY <1>8, CodeTypes DEF ResolveRecoveryConflict
    <2> QED
      BY <1>8, <2>2, <2>3 DEF ResolveRecoveryConflict, TypeOK, KeyStates
  <1>9. ASSUME NEW s \in ceremonies, FinishRefused(s) PROVE TypeOK'
    BY <1>9 DEF FinishRefused, TypeOK
  <1>10. ASSUME NEW s \in ceremonies, NEW k \in Keys, FinishRecovery(s, k) PROVE TypeOK'
    <2>1. s.code \in Codes
      BY DEF TypeOK, Ceremonies
    <2>2. [state |-> "open", code |-> s.code, epoch |-> user.epoch,
           generation |-> user.generation, eligible |-> FALSE, frozen |-> FALSE] \in RequestRows
      BY <2>1, StateTypes DEF RequestRows, RequestStates
    <2>3. request' \in [Keys -> RequestRows]
      BY <1>10, <2>2 DEF FinishRecovery, TypeOK
    <2> QED
      BY <1>10, <2>3 DEF FinishRecovery, TypeOK
  <1>11. ASSUME NEW k \in Keys, BecomesEligible(k) PROVE TypeOK'
    <2>1. request' \in [Keys -> RequestRows]
      BY <1>11, MarkedRow, RequestTypes DEF BecomesEligible, TypeOK
    <2> QED
      BY <1>11, <2>1 DEF BecomesEligible, TypeOK
  <1>12. ASSUME NEW k \in Keys, CancelRecovery(k) PROVE TypeOK'
    <2> DEFINE st == IF code[request[k].code].state = "used" THEN code[request[k].code].state
                     ELSE "revoked"
    <2>1. request' \in [Keys -> RequestRows] /\ passkey' \in [Keys -> KeyStates]
      BY <1>12, CancelledRows, DiscardedKeys DEF CancelRecovery
    <2>2. code' = [code EXCEPT ![request[k].code].state = st]
      BY <1>12 DEF CancelRecovery
    <2>3. st \in {"used", "revoked"}
      OBVIOUS
    <2> HIDE DEF st
    <2>4. code' \in [Codes -> [state : {"none", "active", "used", "revoked"}, generation : Nat]]
      BY <2>2, <2>3, RequestTypes, CodeTypes
    <2> QED
      BY <1>12, <2>1, <2>4 DEF CancelRecovery, TypeOK, KeyStates
  <1>13. CASE FreezeRecovery
    <2>1. request' = [k \in Keys |-> IF k \in OpenRequests THEN [request[k] EXCEPT !.frozen = TRUE]
                                     ELSE request[k]]
      BY <1>13 DEF FreezeRecovery
    <2>2. request' \in [Keys -> RequestRows]
      BY <2>1, MarkedRow, RequestTypes
    <2> QED
      BY <1>13, <2>2 DEF FreezeRecovery, TypeOK
  <1>14. ASSUME NEW k \in Keys, ConfirmRecovery(k) PROVE TypeOK'
    <2>1. user.epoch + 1 \in Epochs /\ user.generation + 1 \in Nat
      BY <1>14, StateTypes DEF ConfirmRecovery, Epochs
    <2>2. user' \in [epoch : Epochs, generation : Nat, grace : BOOLEAN]
      BY <1>14, <2>1 DEF ConfirmRecovery
    <2>3. passkey' \in [Keys -> KeyStates]
      BY <1>14, EnrolledKeys DEF ConfirmRecovery
    <2>4. code' \in [Codes -> [state : {"none", "active", "used", "revoked"}, generation : Nat]]
      BY <1>14, RequestTypes, CodeTypes DEF ConfirmRecovery
    <2>5. history' \in Histories
      BY <1>14, <2>1, HistoryOfRecovery DEF ConfirmRecovery
    <2>6. request' \in [Keys -> RequestRows]
      BY <1>14, RequestRow, RequestTypes DEF ConfirmRecovery, TypeOK, RequestStates
    <2> QED
      BY <1>14, <2>2, <2>3, <2>4, <2>5, <2>6 DEF ConfirmRecovery, TypeOK, KeyStates, Histories
  <1>15. ASSUME NEW g \in Grants, IssueGrant(g) PROVE TypeOK'
    <2>1. PICK keys \in SUBSET ActiveKeys :
            grant' = [grant EXCEPT ![g] = [state |-> "issued", keys |-> keys, all |-> keys = {},
                                           epoch |-> user.epoch, issuer |-> operator]]
      BY <1>15 DEF IssueGrant
    <2>2. (keys = {}) \in BOOLEAN /\ keys \in SUBSET Keys
      BY DEF ActiveKeys
    <2>3. [state |-> "issued", keys |-> keys, all |-> keys = {},
           epoch |-> user.epoch, issuer |-> operator] \in GrantRows
      BY <2>2, StateTypes DEF GrantRows, TypeOK
    <2> QED
      BY <1>15, <2>1, <2>3 DEF IssueGrant, TypeOK
  <1>16. ASSUME NEW g \in Grants, RevokeGrant(g) PROVE TypeOK'
    <2>1. grant' \in [Grants -> GrantRows]
      BY <1>16, GrantRow DEF RevokeGrant, TypeOK
    <2> QED
      BY <1>16, <2>1 DEF RevokeGrant, TypeOK
  <1>17. ASSUME NEW g \in Grants, NEW k \in Keys, CompleteGrant(g, k) PROVE TypeOK'
    <2> DEFINE r == IF grant[g].all THEN user.epoch + 1 ELSE history.recovered
    <2>1. user.epoch + 1 \in Epochs /\ user.generation + 1 \in Nat /\ r \in Epochs
      BY <1>17, StateTypes DEF CompleteGrant, Epochs
    <2>2. user' = [user EXCEPT !.epoch = user.epoch + 1, !.generation = user.generation + 1]
      BY <1>17 DEF CompleteGrant
    <2>3. user' \in [epoch : Epochs, generation : Nat, grace : BOOLEAN]
      BY <2>1, <2>2 DEF TypeOK
    <2>4. passkey' \in [Keys -> KeyStates]
      BY <1>17, PromotedKeys
    <2>5. code' \in [Codes -> [state : {"none", "active", "used", "revoked"}, generation : Nat]]
      BY <1>17, InvalidatedCodes DEF CompleteGrant
    <2>6. history' = [history EXCEPT !.key[k] = user.epoch + 1, !.recovered = r]
      BY <1>17 DEF CompleteGrant
    <2>7. history' \in Histories
      BY <2>1, <2>6, HistoryOfRecovery
    <2>8. OpenRequests \subseteq Keys
      BY DEF OpenRequests
    <2>9. request' \in [Keys -> RequestRows]
      BY <1>17, <2>8, CancelledRows DEF CompleteGrant
    <2>10. grant' \in [Grants -> GrantRows]
      BY <1>17, GrantRow DEF CompleteGrant, TypeOK
    <2> QED
      BY <1>17, <2>3, <2>4, <2>5, <2>7, <2>9, <2>10 DEF CompleteGrant, TypeOK, KeyStates, Histories
  <1>18. CASE OperatorChanges
    BY <1>18, StateTypes DEF OperatorChanges, TypeOK
  <1>19. ASSUME NEW p \in Pairings, CreatePairing(p) PROVE TypeOK'
    <2> DEFINE j == [state |-> "made", refused |-> FALSE, open |-> TRUE,
                     epoch |-> user.epoch, key |-> NoKey, misses |-> 0]
    <2>1. j \in PairingRows
      BY StateTypes DEF PairingRows
    <2>2. pairing' = [x \in Pairings |-> IF x = p THEN j
                        ELSE IF pairing[x].state = "made" THEN [pairing[x] EXCEPT !.open = FALSE]
                        ELSE pairing[x]]
      BY <1>19 DEF CreatePairing
    <2> HIDE DEF j
    <2>3. ASSUME NEW x \in Pairings PROVE pairing'[x] \in PairingRows
      BY <2>1, <2>2, PairingTypes, PairingRow
    <2>4. pairing' \in [Pairings -> PairingRows]
      BY <2>2, <2>3
    <2> QED
      BY <1>19, <2>4 DEF CreatePairing, TypeOK
  <1>20. ASSUME NEW p \in Pairings, ClaimPairing(p) \/ PairingExpires(p) PROVE TypeOK'
    <2>1. \E j : /\ j = [pairing[p] EXCEPT !.state = "claimed"]
                    \/ j = [pairing[p] EXCEPT !.open = FALSE]
                 /\ pairing' = [pairing EXCEPT ![p] = j]
      BY <1>20 DEF ClaimPairing, PairingExpires
    <2>2. PICK j : /\ j = [pairing[p] EXCEPT !.state = "claimed"]
                      \/ j = [pairing[p] EXCEPT !.open = FALSE]
                   /\ pairing' = [pairing EXCEPT ![p] = j]
      BY <2>1
    <2>3. j \in PairingRows
      BY <2>2, PairingTypes, PairingRow
    <2>4. pairing' \in [Pairings -> PairingRows]
      BY <2>2, <2>3 DEF TypeOK
    <2> QED
      BY <1>20, <2>4 DEF ClaimPairing, PairingExpires, TypeOK
  <1>21. ASSUME NEW p \in Pairings, NEW k \in Keys, FinishPairing(p, k) PROVE TypeOK'
    <2>1. pairing' \in [Pairings -> PairingRows]
      BY <1>21, FinishPairingRow
    <2>2. passkey' \in [Keys -> KeyStates]
      BY <1>21 DEF FinishPairing, TypeOK, KeyStates
    <2> QED
      BY <1>21, <2>1, <2>2 DEF FinishPairing, TypeOK, KeyStates
  <1>22. ASSUME NEW p \in Pairings, ApprovePairing(p) PROVE TypeOK'
    <2>1. pairing[p].key \in Keys
      BY <1>22 DEF ApprovePairing, Approvable, CandidatesHaveOneOwner, PairedKeys, TypeOK, PairingRows
    <2>2. pairing' \in [Pairings -> PairingRows]
      BY <1>22, PairingTypes, PairingRow DEF ApprovePairing, TypeOK
    <2>3. passkey' \in [Keys -> KeyStates]
      BY <1>22, <2>1, EnrolledKeys DEF ApprovePairing
    <2>4. history' \in Histories
      BY <1>22, <2>1, StateTypes, HistoryOfKey DEF ApprovePairing
    <2> QED
      BY <1>22, <2>2, <2>3, <2>4 DEF ApprovePairing, TypeOK, KeyStates, Histories
  <1>23. ASSUME NEW p \in Pairings, MismatchPairing(p) PROVE TypeOK'
    <2>1. pairing' \in [Pairings -> PairingRows]
      BY <1>23, MismatchRow DEF CandidatesHaveOneOwner
    <2>2. passkey' \in [Keys -> KeyStates]
      BY <1>23, DiscardedKeys DEF MismatchPairing, TypeOK, KeyStates
    <2> QED
      BY <1>23, <2>1, <2>2 DEF MismatchPairing, TypeOK, KeyStates
  <1>24. ASSUME NEW p \in Pairings, RejectPairing(p) PROVE TypeOK'
    <2>1. pairing' \in [Pairings -> PairingRows]
      BY <1>24, PairingTypes, PairingRow DEF RejectPairing, TypeOK
    <2>2. passkey' \in [Keys -> KeyStates]
      BY <1>24, DiscardedKeys DEF RejectPairing
    <2> QED
      BY <1>24, <2>1, <2>2 DEF RejectPairing, TypeOK, KeyStates
  <1>25. CASE LockAccount
    <2>1. user.epoch + 1 \in Epochs
      BY <1>25, StateTypes DEF LockAccount, Epochs
    <2>2. user' \in [epoch : Epochs, generation : Nat, grace : BOOLEAN]
      BY <1>25, <2>1 DEF LockAccount, TypeOK
    <2>3. pairing' = [p \in Pairings |-> IF pairing[p].state = "approved" THEN pairing[p]
                                         ELSE [pairing[p] EXCEPT !.open = FALSE]]
      BY <1>25 DEF LockAccount
    <2>4. ASSUME NEW p \in Pairings PROVE pairing'[p] \in PairingRows
      BY <2>3, PairingTypes, PairingRow
    <2>5. pairing' \in [Pairings -> PairingRows]
      BY <2>3, <2>4
    <2>6. OpenRequests \subseteq Keys
      BY DEF OpenRequests
    <2>7. request' \in [Keys -> RequestRows]
      BY <1>25, <2>6, CancelledRows DEF LockAccount
    <2> QED
      BY <1>25, <2>2, <2>5, <2>7 DEF LockAccount, TypeOK
  <1>26. CASE UNCHANGED vars
    BY <1>26 DEF vars, TypeOK
  <1> QED
    BY <1>1, <1>2, <1>3, <1>4, <1>5, <1>6, <1>7, <1>8, <1>9, <1>10, <1>11, <1>12, <1>13, <1>14,
       <1>15, <1>16, <1>17, <1>18, <1>19, <1>20, <1>21, <1>22, <1>23, <1>24, <1>25, <1>26 DEF Next

-----------------------------------------------------------------------------
(* An active key remains.                                                  *)
Keeps(k) ==
  \/ passkey'[k] = passkey[k]
  \/ passkey[k] # "active" /\ passkey'[k] # "active"

LEMMA FreshKeyKeeps ==
    ASSUME TypeOK, NEW k \in Keys, FreshKey(k), NEW st \in KeyStates, st # "active",
           passkey' = [passkey EXCEPT ![k] = st]
    PROVE  \A j \in Keys : Keeps(j)
  <1> TAKE j \in Keys
  <1>1. CASE j = k
    <2>1. passkey'[j] = st /\ passkey[j] = "unused"
      BY <1>1 DEF FreshKey, TypeOK
    <2> QED
      BY <2>1 DEF Keeps
  <1>2. CASE j # k
    <2>1. passkey'[j] = passkey[j]
      BY <1>2 DEF TypeOK
    <2> QED
      BY <2>1 DEF Keeps
  <1> QED
    BY <1>1, <1>2

LEMMA DiscardedKeeps ==
    ASSUME TypeOK, NEW S, passkey' = Discarded(S) \/ passkey' = passkey
    PROVE  \A j \in Keys : Keeps(j)
  <1> TAKE j \in Keys
  <1>1. CASE passkey'[j] = passkey[j]
    BY <1>1 DEF Keeps
  <1>2. CASE passkey'[j] = "discarded" /\ passkey[j] = "candidate"
    BY <1>2 DEF Keeps
  <1> QED
    BY <1>1, <1>2, DiscardedKeys

LEMMA NextAKeyRemains ==
    ASSUME Inductive, [Next]_vars
    PROVE  IsFiniteSet(ActiveKeys') /\ AKeyRemains'
  <1> USE DEF Inductive
  <1>1. CASE \A j \in Keys : Keeps(j)
    <2>1. ActiveKeys' = ActiveKeys
      BY <1>1 DEF ActiveKeys, Keeps
    <2> QED
      BY <2>1 DEF AKeyRemains
  <1>2. ASSUME NEW k \in Keys, passkey'[k] = "active", \A j \in Keys : j # k => Settles(j)
        PROVE  IsFiniteSet(ActiveKeys') /\ AKeyRemains'
    <2>1. IsFiniteSet(ActiveKeys')
      BY <1>2, FewActiveKeys
    <2> QED
      BY <1>2, <2>1 DEF AKeyRemains, ActiveKeys
  <1>3. ASSUME NEW S, \/ passkey' = Discarded(S) \/ UNCHANGED passkey
        PROVE  IsFiniteSet(ActiveKeys') /\ AKeyRemains'
    <2>1. \A j \in Keys : Keeps(j)
      BY <1>3, DiscardedKeeps
    <2> QED
      BY <1>1, <2>1
  <1>4. ASSUME NEW k \in Keys, RegisterVerify(k) PROVE IsFiniteSet(ActiveKeys') /\ AKeyRemains'
    <2>1. \A j \in Keys : Keeps(j)
      BY <1>4, FreshKeyKeeps DEF RegisterVerify, KeyStates
    <2> QED
      BY <1>1, <2>1
  <1>5. ASSUME NEW k \in Keys, RegisterInsert(k) PROVE IsFiniteSet(ActiveKeys') /\ AKeyRemains'
    BY <1>2, <1>5, EnrolledKeys DEF RegisterInsert
  <1>6. ASSUME NEW k \in Keys, DeletePasskey(k) PROVE IsFiniteSet(ActiveKeys') /\ AKeyRemains'
    <2>1. /\ k \in ActiveKeys /\ Cardinality(ActiveKeys) > 1
          /\ passkey' = [passkey EXCEPT ![k] = "revoked"]
      BY <1>6 DEF DeletePasskey, MayDelete
    <2>2. \A j \in Keys : Settles(j)
      BY <2>1 DEF Settles, ActiveKeys, TypeOK
    <2>3. ActiveKeys' = ActiveKeys \ {k}
      BY <2>1 DEF ActiveKeys, TypeOK
    <2>4. ActiveKeys # {k}
      BY <2>1, FS_Singleton
    <2> QED
      BY <2>2, <2>3, <2>4, SettledKeysAreFew DEF AKeyRemains
  <1>7. ASSUME NEW how \in issuing, NEW c \in Codes, IssueCommit(how, c)
        PROVE  IsFiniteSet(ActiveKeys') /\ AKeyRemains'
    BY <1>3, <1>7 DEF IssueCommit
  <1>8. ASSUME NEW c \in Codes, ResolveRecoveryConflict(c)
        PROVE  IsFiniteSet(ActiveKeys') /\ AKeyRemains'
    BY <1>3, <1>8 DEF ResolveRecoveryConflict
  <1>9. ASSUME NEW s \in ceremonies, NEW k \in Keys, FinishRecovery(s, k)
        PROVE  IsFiniteSet(ActiveKeys') /\ AKeyRemains'
    <2>1. \A j \in Keys : Keeps(j)
      BY <1>9, FreshKeyKeeps DEF FinishRecovery, KeyStates
    <2> QED
      BY <1>1, <2>1
  <1>10. ASSUME NEW k \in Keys, CancelRecovery(k) PROVE IsFiniteSet(ActiveKeys') /\ AKeyRemains'
    BY <1>3, <1>10 DEF CancelRecovery
  <1>11. ASSUME NEW k \in Keys, ConfirmRecovery(k) PROVE IsFiniteSet(ActiveKeys') /\ AKeyRemains'
    BY <1>2, <1>11, EnrolledKeys DEF ConfirmRecovery
  <1>12. ASSUME NEW g \in Grants, NEW k \in Keys, CompleteGrant(g, k)
         PROVE  IsFiniteSet(ActiveKeys') /\ AKeyRemains'
    BY <1>2, <1>12, PromotedKeys
  <1>13. ASSUME NEW p \in Pairings, NEW k \in Keys, FinishPairing(p, k)
         PROVE  IsFiniteSet(ActiveKeys') /\ AKeyRemains'
    <2>1. \A j \in Keys : Keeps(j)
      BY <1>13, FreshKeyKeeps DEF FinishPairing, KeyStates
    <2> QED
      BY <1>1, <2>1
  <1>14. ASSUME NEW p \in Pairings, ApprovePairing(p)
         PROVE  IsFiniteSet(ActiveKeys') /\ AKeyRemains'
    <2>1. pairing[p].key \in Keys /\ Enrolled(pairing[p].key, {})
      BY <1>14, PairingTypes DEF ApprovePairing, Approvable, CandidatesHaveOneOwner, PairedKeys
    <2> QED
      BY <1>2, <2>1, EnrolledKeys
  <1>15. ASSUME NEW p \in Pairings, MismatchPairing(p)
         PROVE  IsFiniteSet(ActiveKeys') /\ AKeyRemains'
    BY <1>3, <1>15 DEF MismatchPairing
  <1>16. ASSUME NEW p \in Pairings, RejectPairing(p)
         PROVE  IsFiniteSet(ActiveKeys') /\ AKeyRemains'
    BY <1>3, <1>16 DEF RejectPairing
  <1>17. CASE UNCHANGED passkey
    BY <1>3, <1>17
  <1> QED
    BY <1>4, <1>5, <1>6, <1>7, <1>8, <1>9, <1>10, <1>11, <1>12, <1>13, <1>14, <1>15, <1>16, <1>17
       DEF Next, vars, RegisterBegin, RegisterDone, IssueAuthorise, IssueRefused, GraceEnds,
           BeginRecovery, FinishRefused, BecomesEligible, FreezeRecovery, OperatorChanges,
           LockAccount, IssueGrant, RevokeGrant, CreatePairing, ClaimPairing, PairingExpires

-----------------------------------------------------------------------------
(* Requests and codes only close, but for the one that opens.              *)
RequestsClose ==
  \A k \in Keys :
    \/ request'[k].state = request[k].state /\ request'[k].epoch = request[k].epoch
    \/ request[k].state = "open" /\ request'[k].state = "cancelled"
    \/ request[k].state = "open" /\ request'[k].state = "completed" /\ passkey'[k] = "active"

LEMMA CancelledClose ==
    ASSUME TypeOK, NEW S, S \subseteq OpenRequests, request' = Cancelled(S)
    PROVE  RequestsClose
  <1>1. S \subseteq Keys
    BY DEF OpenRequests
  <1> QED
    BY <1>1, CancelledRows DEF RequestsClose, OpenRequests

LEMMA CompletedClose ==
    ASSUME TypeOK, NEW k \in OpenRequests, request' = [request EXCEPT ![k].state = "completed"],
           passkey'[k] = "active"
    PROVE  RequestsClose /\ request'[k].state = "completed"
  <1>1. k \in Keys /\ request[k].state = "open"
    BY DEF OpenRequests
  <1>2. request' = [request EXCEPT ![k] = [request[k] EXCEPT !.state = "completed"]]
    OBVIOUS
  <1> QED
    BY <1>1, <1>2, RequestRow, RequestTypes DEF RequestsClose, RequestStates, TypeOK

LEMMA NextRequestsClose ==
    ASSUME TypeOK, [Next]_vars, ~\E s \in ceremonies, k \in Keys : FinishRecovery(s, k)
    PROVE  RequestsClose
  <1>1. ASSUME NEW how \in issuing, NEW c \in Codes, IssueCommit(how, c) PROVE RequestsClose
    BY <1>1, CancelledClose DEF IssueCommit
  <1>2. ASSUME NEW c \in Codes, ResolveRecoveryConflict(c) PROVE RequestsClose
    BY <1>2, CancelledClose DEF ResolveRecoveryConflict
  <1>3. ASSUME NEW k \in Keys, BecomesEligible(k) PROVE RequestsClose
    <2>1. request' = [request EXCEPT ![k] = [request[k] EXCEPT !.eligible = TRUE]]
      BY <1>3 DEF BecomesEligible
    <2> QED
      BY <2>1, MarkedRow, RequestTypes DEF RequestsClose, TypeOK
  <1>4. CASE FreezeRecovery
    <2>1. request' = [k \in Keys |-> IF k \in OpenRequests THEN [request[k] EXCEPT !.frozen = TRUE]
                                     ELSE request[k]]
      BY <1>4 DEF FreezeRecovery
    <2> QED
      BY <2>1, MarkedRow, RequestTypes DEF RequestsClose
  <1>5. ASSUME NEW k \in Keys, CancelRecovery(k) PROVE RequestsClose
    BY <1>5, CancelledClose DEF CancelRecovery
  <1>6. ASSUME NEW k \in Keys, ConfirmRecovery(k) PROVE RequestsClose
    BY <1>6, EnrolledKeys, CompletedClose DEF ConfirmRecovery, MayConfirm
  <1>7. ASSUME NEW g \in Grants, NEW k \in Keys, CompleteGrant(g, k) PROVE RequestsClose
    BY <1>7, CancelledClose DEF CompleteGrant
  <1>8. CASE LockAccount
    BY <1>8, CancelledClose DEF LockAccount
  <1>9. CASE UNCHANGED request
    BY <1>9 DEF RequestsClose
  <1> QED
    BY <1>1, <1>2, <1>3, <1>4, <1>5, <1>6, <1>7, <1>8, <1>9
       DEF Next, vars, RegisterBegin, RegisterDone, RegisterVerify, RegisterInsert, DeletePasskey,
           IssueAuthorise, IssueRefused, GraceEnds, BeginRecovery, FinishRefused,
           OperatorChanges, IssueGrant, RevokeGrant, CreatePairing, ClaimPairing,
           ApprovePairing, MismatchPairing, RejectPairing, PairingExpires, FinishPairing

CodesClose ==
  \A c \in Codes : code'[c].state = "active" =>
                      code[c].state = "active" /\ history'.code[c] = history.code[c]

LEMMA CodeCloses ==
    ASSUME TypeOK, NEW c \in Codes, NEW st \in {"used", "revoked"},
           code' = [code EXCEPT ![c].state = st], history'.code = history.code
    PROVE  CodesClose /\ code'[c].state # "active"
  BY CodeTypes DEF CodesClose

LEMMA NextCodesClose ==
    ASSUME TypeOK, [Next]_vars, ~\E how \in issuing, c \in Codes : IssueCommit(how, c)
    PROVE  CodesClose
  <1>1. ASSUME NEW c \in Codes, ResolveRecoveryConflict(c) PROVE CodesClose
    BY <1>1, CodeCloses DEF ResolveRecoveryConflict
  <1>2. ASSUME NEW k \in Keys, CancelRecovery(k) PROVE CodesClose
    <2> DEFINE st == IF code[request[k].code].state = "used" THEN code[request[k].code].state
                     ELSE "revoked"
    <2>1. code' = [code EXCEPT ![request[k].code].state = st] /\ history' = history
      BY <1>2 DEF CancelRecovery
    <2>2. st \in {"used", "revoked"}
      OBVIOUS
    <2> HIDE DEF st
    <2> QED
      BY <2>1, <2>2, RequestTypes, CodeCloses
  <1>3. ASSUME NEW k \in Keys, ConfirmRecovery(k) PROVE CodesClose
    <2>1. user.epoch + 1 \in Epochs
      BY <1>3, StateTypes DEF ConfirmRecovery, Epochs
    <2>2. history'.code = history.code
      BY <1>3, <2>1, HistoryOfRecovery DEF ConfirmRecovery
    <2> QED
      BY <1>3, <2>2, RequestTypes, CodeCloses DEF ConfirmRecovery
  <1>4. ASSUME NEW g \in Grants, NEW k \in Keys, CompleteGrant(g, k) PROVE CodesClose
    BY <1>4, InvalidatedCodes DEF CompleteGrant, CodesClose
  <1>5. ASSUME UNCHANGED code, history'.code = history.code PROVE CodesClose
    BY <1>5 DEF CodesClose
  <1>6. ASSUME NEW k \in Keys, RegisterInsert(k) PROVE CodesClose
    BY <1>5, <1>6, StateTypes, HistoryOfKey DEF RegisterInsert
  <1>7. ASSUME NEW p \in Pairings, ApprovePairing(p) PROVE CodesClose
    <2>1. history'.code = history.code
      BY <1>7 DEF ApprovePairing, TypeOK
    <2> QED
      BY <1>5, <1>7, <2>1 DEF ApprovePairing
  <1>8. CASE UNCHANGED <<code, history>>
    BY <1>5, <1>8
  <1> QED
    BY <1>1, <1>2, <1>3, <1>4, <1>6, <1>7, <1>8
       DEF Next, vars, RegisterBegin, RegisterDone, RegisterVerify, DeletePasskey,
           IssueAuthorise, IssueRefused, GraceEnds, BeginRecovery, FinishRefused, FinishRecovery,
           BecomesEligible, FreezeRecovery, LockAccount,
           OperatorChanges, IssueGrant, RevokeGrant, CreatePairing, ClaimPairing,
           MismatchPairing, RejectPairing, PairingExpires, FinishPairing

LEMMA NextOneOfEach ==
    ASSUME Inductive, [Next]_vars
    PROVE  OneOfEach'
  <1> USE DEF Inductive
  <1>1. \A j, k \in OpenRequests' : j = k
    <2>1. ASSUME NEW s \in ceremonies, NEW k \in Keys, FinishRecovery(s, k)
          PROVE  \A j \in OpenRequests' : j = k
      <3>1. OpenRequests = {}
        BY <2>1 DEF FinishRecovery, MayRequest
      <3>2. \A j \in Keys : j # k => request'[j] = request[j]
        BY <2>1 DEF FinishRecovery, TypeOK
      <3> QED
        BY <3>1, <3>2 DEF OpenRequests
    <2>2. ASSUME RequestsClose PROVE OpenRequests' \subseteq OpenRequests
      BY <2>2 DEF RequestsClose, OpenRequests
    <2>3. CASE \E s \in ceremonies, k \in Keys : FinishRecovery(s, k)
      BY <2>1, <2>3
    <2>4. CASE ~\E s \in ceremonies, k \in Keys : FinishRecovery(s, k)
      BY <2>2, <2>4, NextRequestsClose DEF OneOfEach
    <2> QED
      BY <2>3, <2>4
  <1>2. \A c, d \in ActiveCodes' : c = d
    <2>1. ASSUME NEW how \in issuing, NEW c \in Codes, IssueCommit(how, c)
          PROVE  \A d \in ActiveCodes' : d = c
      <3>1. code' = [CodesInvalidated EXCEPT ![c] =
                       [state |-> "active", generation |-> user.generation + 1]]
        BY <2>1 DEF IssueCommit
      <3>2. \A d \in Codes : d # c => code'[d] = CodesInvalidated[d]
        BY <3>1 DEF CodesInvalidated
      <3> QED
        BY <3>2, InvalidatedCodes DEF ActiveCodes
    <2>2. ASSUME CodesClose PROVE ActiveCodes' \subseteq ActiveCodes
      BY <2>2 DEF CodesClose, ActiveCodes
    <2>3. CASE \E how \in issuing, c \in Codes : IssueCommit(how, c)
      BY <2>1, <2>3
    <2>4. CASE ~\E how \in issuing, c \in Codes : IssueCommit(how, c)
      BY <2>2, <2>4, NextCodesClose DEF OneOfEach
    <2> QED
      BY <2>3, <2>4
  <1> QED
    BY <1>1, <1>2 DEF OneOfEach

-----------------------------------------------------------------------------
(* A full recovery is a clean slate.                                       *)

(* Steps that leave what was the last recovery, and commit at the epoch of  *)
(* the account or later.                                                    *)
LEMMA LaterCommits ==
    ASSUME Inductive, TypeOK', history'.recovered = history.recovered,
           user'.epoch >= user.epoch,
           \A k \in Keys : passkey'[k] = "active" =>
              \/ passkey[k] = "active" /\ history'.key[k] = history.key[k]
              \/ history'.key[k] >= user.epoch,
           \A c \in Codes : code'[c].state = "active" =>
              \/ code[c].state = "active" /\ history'.code[c] = history.code[c]
              \/ history'.code[c] >= user.epoch,
           \A k \in Keys : request'[k].state = "open" =>
              \/ request[k].state = "open" /\ request'[k].epoch = request[k].epoch
              \/ request'[k].epoch >= user.epoch
    PROVE  RecoveryIsPast' /\ NothingFromBeforeRecovery'
  <1>1. /\ user.epoch \in Nat /\ user'.epoch \in Nat /\ history.recovered \in Nat
        /\ history.recovered <= user.epoch
    BY StateTypes DEF Inductive, TypeOK, Epochs, RecoveryIsPast
  <1>2. history'.key \in [Keys -> Nat] /\ history'.code \in [Codes -> Nat]
    BY DEF TypeOK, Epochs
  <1>3. \A k \in Keys : request'[k].epoch \in Nat
    BY DEF TypeOK, RequestRows, Epochs
  <1>4. RecoveryIsPast'
    BY <1>1 DEF RecoveryIsPast
  <1>5. ASSUME NEW k \in ActiveKeys' PROVE history'.key[k] >= history'.recovered
    <2>1. k \in Keys /\ passkey'[k] = "active" /\ history'.key[k] \in Nat
      BY <1>2 DEF ActiveKeys
    <2> QED
      BY <1>1, <2>1 DEF Inductive, NothingFromBeforeRecovery, ActiveKeys
  <1>6. ASSUME NEW c \in ActiveCodes' PROVE history'.code[c] >= history'.recovered
    <2>1. c \in Codes /\ code'[c].state = "active" /\ history'.code[c] \in Nat
      BY <1>2 DEF ActiveCodes
    <2> QED
      BY <1>1, <2>1 DEF Inductive, NothingFromBeforeRecovery, ActiveCodes
  <1>7. ASSUME NEW k \in OpenRequests' PROVE request'[k].epoch >= history'.recovered
    <2>1. k \in Keys /\ request'[k].state = "open" /\ request'[k].epoch \in Nat
      BY <1>3 DEF OpenRequests
    <2> QED
      BY <1>1, <2>1 DEF Inductive, NothingFromBeforeRecovery, OpenRequests
  <1> QED
    BY <1>4, <1>5, <1>6, <1>7 DEF NothingFromBeforeRecovery

(* The slate is clean after a step that leaves one key, no code and no      *)
(* request.                                                                 *)
LEMMA CleanSlate ==
    ASSUME TypeOK', user'.epoch = history'.recovered, NEW k \in Keys,
           history'.key[k] = history'.recovered,
           \A j \in Keys : j # k => passkey'[j] # "active",
           \A c \in Codes : code'[c].state # "active",
           \A j \in Keys : request'[j].state # "open"
    PROVE  RecoveryIsPast' /\ NothingFromBeforeRecovery'
  <1>1. history'.recovered \in Nat
    BY DEF TypeOK, Epochs
  <1>2. ActiveKeys' \subseteq {k} /\ ActiveCodes' = {} /\ OpenRequests' = {}
    BY DEF ActiveKeys, ActiveCodes, OpenRequests
  <1> QED
    BY <1>1, <1>2 DEF RecoveryIsPast, NothingFromBeforeRecovery

LEMMA NextNothingFromBefore ==
    ASSUME Inductive, [Next]_vars
    PROVE  RecoveryIsPast' /\ NothingFromBeforeRecovery'
  <1> DEFINE Goal == RecoveryIsPast' /\ NothingFromBeforeRecovery'
             KeyLater == \A k \in Keys : passkey'[k] = "active" =>
                            \/ passkey[k] = "active" /\ history'.key[k] = history.key[k]
                            \/ history'.key[k] >= user.epoch
             CodeLater == \A c \in Codes : code'[c].state = "active" =>
                            \/ code[c].state = "active" /\ history'.code[c] = history.code[c]
                            \/ history'.code[c] >= user.epoch
             RequestLater == \A k \in Keys : request'[k].state = "open" =>
                            \/ request[k].state = "open" /\ request'[k].epoch = request[k].epoch
                            \/ request'[k].epoch >= user.epoch
             SameSlate == history'.recovered = history.recovered /\ user'.epoch >= user.epoch
  <1>0. TypeOK /\ TypeOK' /\ user.epoch \in Nat
    BY NextTypeOK, StateTypes DEF Inductive
  <1>1. SameSlate /\ KeyLater /\ CodeLater /\ RequestLater => Goal
    BY <1>0, LaterCommits
  <1>2. RequestLater
    <2>1. CASE \E s \in ceremonies, k \in Keys : FinishRecovery(s, k)
      <3>1. PICK s \in ceremonies, k \in Keys : FinishRecovery(s, k)
        BY <2>1
      <3>2. request' = [request EXCEPT ![k] =
                      [state |-> "open", code |-> s.code, epoch |-> user.epoch,
                       generation |-> user.generation, eligible |-> FALSE, frozen |-> FALSE]]
        BY <3>1 DEF FinishRecovery
      <3>3. request'[k].epoch = user.epoch
            /\ \A j \in Keys : j # k => request'[j] = request[j]
        BY <1>0, <3>2 DEF TypeOK
      <3> QED
        BY <1>0, <3>3
    <2>2. CASE ~\E s \in ceremonies, k \in Keys : FinishRecovery(s, k)
      BY <1>0, <2>2, NextRequestsClose DEF RequestsClose
    <2> QED
      BY <2>1, <2>2
  <1>3. CodeLater
    <2>1. CASE \E how \in issuing, c \in Codes : IssueCommit(how, c)
      <3>1. PICK how \in issuing, c \in Codes : IssueCommit(how, c)
        BY <2>1
      <3>2. code' = [CodesInvalidated EXCEPT ![c] =
                       [state |-> "active", generation |-> user.generation + 1]]
        BY <3>1 DEF IssueCommit
      <3>3. \A d \in Codes : d # c => code'[d] = CodesInvalidated[d]
        BY <3>2 DEF CodesInvalidated
      <3>4. \A d \in Codes : code'[d].state = "active" => d = c
        BY <1>0, <3>3, InvalidatedCodes
      <3>5. history'.code[c] = user.epoch
        BY <1>0, <3>1, StateTypes, HistoryOfCode DEF IssueCommit
      <3> QED
        BY <1>0, <3>4, <3>5
    <2>2. CASE ~\E how \in issuing, c \in Codes : IssueCommit(how, c)
      BY <1>0, <2>2, NextCodesClose DEF CodesClose
    <2> QED
      BY <2>1, <2>2
  <1>4. ASSUME NEW S, passkey' = Discarded(S) \/ UNCHANGED passkey, history'.key = history.key,
               SameSlate
        PROVE  Goal
    <2>1. KeyLater
      BY <1>0, <1>4, DiscardedKeys
    <2> HIDE DEF KeyLater, CodeLater, RequestLater, Goal
    <2> QED
      BY <1>1, <1>2, <1>3, <1>4, <2>1
  <1>5. ASSUME NEW k \in Keys, \A j \in Keys : j # k => Settles(j), passkey'[k] = "active",
               history'.key[k] >= user.epoch,
               \A j \in Keys : j # k => history'.key[j] = history.key[j],
               SameSlate
        PROVE  Goal
    <2>1. KeyLater
      BY <1>0, <1>5 DEF Settles
    <2> HIDE DEF KeyLater, CodeLater, RequestLater, Goal
    <2> QED
      BY <1>1, <1>2, <1>3, <1>5, <2>1
  <1>6. ASSUME NEW k \in Keys, \A j \in Keys : j # k => passkey'[j] = passkey[j],
               passkey'[k] # "active", SameSlate, history'.key = history.key
        PROVE  Goal
    <2>1. KeyLater
      BY <1>0, <1>6
    <2> HIDE DEF KeyLater, CodeLater, RequestLater, Goal
    <2> QED
      BY <1>1, <1>2, <1>3, <1>6, <2>1
  <1>23. ASSUME passkey' = passkey, history' = history, user'.epoch >= user.epoch
         PROVE  Goal
    <2>1. KeyLater
      BY <1>23
    <2> HIDE DEF KeyLater, CodeLater, RequestLater, Goal
    <2> QED
      BY <1>1, <1>2, <1>3, <1>23, <2>1
  <1> HIDE DEF KeyLater, CodeLater, RequestLater, Goal
  <1>7. ASSUME NEW k \in Keys, RegisterVerify(k) \/ DeletePasskey(k) PROVE Goal
    BY <1>0, <1>6, <1>7 DEF RegisterVerify, DeletePasskey, TypeOK
  <1>8. ASSUME NEW k \in Keys, RegisterInsert(k) PROVE Goal
    <2>1. /\ passkey'[k] = "active" /\ \A j \in Keys : j # k => Settles(j)
      BY <1>0, <1>8, EnrolledKeys DEF RegisterInsert
    <2>2. /\ history'.recovered = history.recovered /\ user' = user
          /\ history'.key[k] = user.epoch
          /\ \A j \in Keys : j # k => history'.key[j] = history.key[j]
      BY <1>0, <1>8, StateTypes, HistoryOfKey DEF RegisterInsert
    <2> QED
      BY <1>0, <1>5, <2>1, <2>2
  <1>9. ASSUME NEW how \in issuing, NEW c \in Codes, IssueCommit(how, c) PROVE Goal
    <2>1. history'.recovered = history.recovered /\ history'.key = history.key
      BY <1>0, <1>9, StateTypes, HistoryOfCode DEF IssueCommit
    <2>2. user'.epoch = user.epoch
      BY <1>0, <1>9 DEF IssueCommit, TypeOK
    <2>3. passkey' = Discarded(OpenRequests)
      BY <1>9 DEF IssueCommit
    <2> QED
      BY <1>0, <1>4, <2>1, <2>2, <2>3
  <1>10. ASSUME GraceEnds PROVE Goal
    <2>1. user'.epoch = user.epoch /\ passkey' = passkey /\ history' = history
      BY <1>0, <1>10 DEF GraceEnds, TypeOK
    <2> QED
      BY <1>0, <1>23, <2>1
  <1>11. ASSUME NEW c \in Codes, ResolveRecoveryConflict(c) PROVE Goal
    BY <1>0, <1>4, <1>11 DEF ResolveRecoveryConflict
  <1>12. ASSUME NEW s \in ceremonies, NEW k \in Keys, FinishRecovery(s, k) PROVE Goal
    BY <1>0, <1>6, <1>12 DEF FinishRecovery, TypeOK
  <1>13. ASSUME NEW k \in Keys, CancelRecovery(k) PROVE Goal
    BY <1>0, <1>4, <1>13 DEF CancelRecovery
  <1>14. ASSUME NEW k \in Keys, ConfirmRecovery(k) PROVE Goal
    <2>1. user.epoch + 1 \in Epochs
      BY <1>0, <1>14, StateTypes DEF ConfirmRecovery, Epochs
    <2>2. /\ user'.epoch = user.epoch + 1 /\ history'.recovered = user.epoch + 1
          /\ history'.key[k] = user.epoch + 1
      BY <1>0, <1>14, <2>1, HistoryOfFullRecovery DEF ConfirmRecovery
    <2>3. \A j \in Keys : j # k => passkey'[j] # "active"
      BY <1>0, <1>14, EnrolledKeys DEF ConfirmRecovery
    <2>4. \A c \in Codes : code'[c].state # "active"
      <3>1. request[k].code \in ActiveCodes /\ code' = [code EXCEPT ![request[k].code].state = "used"]
        BY <1>14 DEF ConfirmRecovery, MayConfirm
      <3>2. /\ code'[request[k].code].state = "used"
            /\ \A c \in Codes : c # request[k].code => code'[c] = code[c]
        BY <1>0, <3>1, CodeTypes DEF ActiveCodes
      <3> QED
        BY <3>1, <3>2 DEF ActiveCodes, Inductive, OneOfEach
    <2>5. \A j \in Keys : request'[j].state # "open"
      <3>1. k \in OpenRequests /\ request' = [request EXCEPT ![k].state = "completed"]
        BY <1>14 DEF ConfirmRecovery, MayConfirm
      <3>3. passkey'[k] = "active"
        BY <1>0, <1>14, EnrolledKeys DEF ConfirmRecovery
      <3>2. RequestsClose /\ request'[k].state = "completed"
        BY <1>0, <3>1, <3>3, CompletedClose
      <3> QED
        BY <3>1, <3>2 DEF RequestsClose, OpenRequests, Inductive, OneOfEach
    <2> QED
      BY <1>0, <2>2, <2>3, <2>4, <2>5, CleanSlate DEF Goal
  <1>15. ASSUME NEW g \in Grants, NEW k \in Keys, CompleteGrant(g, k) PROVE Goal
    <2> DEFINE r == IF grant[g].all THEN user.epoch + 1 ELSE history.recovered
    <2>1. user.epoch + 1 \in Epochs /\ r \in Epochs
      BY <1>0, <1>15, StateTypes DEF CompleteGrant, Epochs
    <2>2. history' = [history EXCEPT !.key[k] = user.epoch + 1, !.recovered = r]
      BY <1>15 DEF CompleteGrant
    <2>3. /\ history'.recovered = r /\ history'.key[k] = user.epoch + 1
          /\ \A j \in Keys : j # k => history'.key[j] = history.key[j]
      BY <1>0, <2>1, <2>2, HistoryOfRecovery
    <2>4. user'.epoch = user.epoch + 1
      BY <1>0, <1>15 DEF CompleteGrant, TypeOK
    <2>5. /\ passkey'[k] = "active"
          /\ \A j \in Keys : j # k => Settles(j) /\ (grant[g].all => passkey'[j] # "active")
      BY <1>0, <1>15, PromotedKeys
    <2>6. ASSUME grant[g].all PROVE Goal
      <3>1. \A c \in Codes : code'[c].state # "active"
        BY <1>0, <1>15, InvalidatedCodes DEF CompleteGrant
      <3>2. \A j \in Keys : request'[j].state # "open"
        <4>1. OpenRequests \subseteq Keys /\ request' = Cancelled(OpenRequests)
          BY <1>15 DEF CompleteGrant, OpenRequests
        <4>2. /\ \A j \in Keys : j \notin OpenRequests => request'[j] = request[j]
              /\ \A j \in Keys : j \in OpenRequests => request'[j].state = "cancelled"
          BY <1>0, <4>1, CancelledRows
        <4> QED
          BY <4>2 DEF OpenRequests
      <3> QED
        BY <1>0, <2>3, <2>4, <2>5, <2>6, <3>1, <3>2, CleanSlate DEF Goal
    <2>7. ASSUME ~grant[g].all PROVE Goal
      BY <1>0, <1>5, <2>3, <2>4, <2>5, <2>7
    <2> QED
      BY <2>6, <2>7
  <1>16. ASSUME NEW p \in Pairings, NEW k \in Keys, FinishPairing(p, k) PROVE Goal
    BY <1>0, <1>6, <1>16 DEF FinishPairing, TypeOK
  <1>17. ASSUME NEW p \in Pairings, ApprovePairing(p) PROVE Goal
    <2>1. pairing[p].key \in Keys /\ Enrolled(pairing[p].key, {})
          /\ history' = [history EXCEPT !.key[pairing[p].key] = user.epoch] /\ user' = user
      BY <1>17, PairingTypes
         DEF ApprovePairing, Approvable, Inductive, CandidatesHaveOneOwner, PairedKeys
    <2>2. PICK k \in Keys : k = pairing[p].key
      BY <2>1
    <2>3. passkey'[k] = "active" /\ \A j \in Keys : j # k => Settles(j)
      BY <1>0, <2>1, <2>2, EnrolledKeys
    <2>4. /\ history'.recovered = history.recovered
          /\ history'.key[k] = user.epoch
          /\ \A j \in Keys : j # k => history'.key[j] = history.key[j]
      BY <1>0, <2>1, <2>2, StateTypes, HistoryOfKey
    <2> QED
      BY <1>0, <1>5, <2>1, <2>3, <2>4
  <1>18. ASSUME NEW p \in Pairings, MismatchPairing(p) PROVE Goal
    BY <1>0, <1>4, <1>18 DEF MismatchPairing
  <1>19. ASSUME NEW p \in Pairings, RejectPairing(p) PROVE Goal
    BY <1>0, <1>4, <1>19 DEF RejectPairing
  <1>20. ASSUME LockAccount PROVE Goal
    <2>1. user'.epoch = user.epoch + 1 /\ passkey' = passkey /\ history' = history
      BY <1>0, <1>20 DEF LockAccount, TypeOK
    <2> QED
      BY <1>0, <1>23, <2>1
  <1>21. ASSUME UNCHANGED <<user, passkey, history>> PROVE Goal
    BY <1>0, <1>21, <1>23
  <1>24. ASSUME RegisterBegin \/ RegisterDone \/ IssueAuthorise \/ IssueRefused
                \/ FreezeRecovery \/ OperatorChanges \/ UNCHANGED vars
         PROVE  Goal
    BY <1>21, <1>24
       DEF vars, RegisterBegin, RegisterDone, IssueAuthorise, IssueRefused, FreezeRecovery,
           OperatorChanges
  <1>25. ASSUME NEW c \in Codes, BeginRecovery(c) PROVE Goal
    BY <1>21, <1>25 DEF BeginRecovery
  <1>26. ASSUME NEW s \in ceremonies, FinishRefused(s) PROVE Goal
    BY <1>21, <1>26 DEF FinishRefused
  <1>27. ASSUME NEW k \in Keys, BecomesEligible(k) PROVE Goal
    BY <1>21, <1>27 DEF BecomesEligible
  <1>28. ASSUME NEW g \in Grants, IssueGrant(g) \/ RevokeGrant(g) PROVE Goal
    BY <1>21, <1>28 DEF IssueGrant, RevokeGrant
  <1>29. ASSUME NEW p \in Pairings, CreatePairing(p) \/ ClaimPairing(p) \/ PairingExpires(p)
         PROVE  Goal
    BY <1>21, <1>29 DEF CreatePairing, ClaimPairing, PairingExpires
  <1>22. Goal
    BY <1>7, <1>8, <1>9, <1>10, <1>11, <1>12, <1>13, <1>14, <1>15, <1>16, <1>17, <1>18, <1>19,
       <1>20, <1>24, <1>25, <1>26, <1>27, <1>28, <1>29 DEF Next
  <1> QED
    BY <1>22 DEF Goal

-----------------------------------------------------------------------------
(* A candidate has one owner.                                              *)

(* What happens to a key beside the promotion by its owner: a key that no   *)
(* owner has may become anything, any other settles.                        *)
Turns(k) == Settles(k) \/ passkey[k] \in {"unused", "verified"}

LEMMA EnrolledTurns ==
    ASSUME TypeOK, NEW k \in Keys, NEW S, Enrolled(k, S),
           passkey[k] \in {"unused", "verified"}
    PROVE  \A j \in Keys : Turns(j)
  BY EnrolledKeys DEF Turns

LEMMA FreshKeyTurns ==
    ASSUME TypeOK, NEW k \in Keys, FreshKey(k), NEW st \in KeyStates,
           passkey' = [passkey EXCEPT ![k] = st]
    PROVE  \A j \in Keys : Turns(j)
  BY DEF Turns, Settles, FreshKey, TypeOK

LEMMA DiscardedTurns ==
    ASSUME TypeOK, NEW S, passkey' = Discarded(S) \/ passkey' = passkey
    PROVE  \A j \in Keys : Turns(j)
  BY DiscardedKeys DEF Turns, Settles

LEMMA NextTurns ==
    ASSUME Inductive, [Next]_vars
    PROVE  \A k \in Keys :
             \/ Turns(k)
             \/ /\ request[k].state = "open"
                /\ request'[k].state = "completed" /\ passkey'[k] = "active"
             \/ \E p \in Pairings : ApprovePairing(p) /\ pairing[p].key = k
  <1> DEFINE Goal == \A k \in Keys :
             \/ Turns(k)
             \/ /\ request[k].state = "open"
                /\ request'[k].state = "completed" /\ passkey'[k] = "active"
             \/ \E p \in Pairings : ApprovePairing(p) /\ pairing[p].key = k
  <1>0. TypeOK
    BY DEF Inductive
  <1>1. ASSUME \A k \in Keys : Turns(k) PROVE Goal
    BY <1>1
  <1>2. ASSUME NEW k \in Keys, ConfirmRecovery(k) PROVE Goal
    <2>1. k \in OpenRequests /\ request' = [request EXCEPT ![k].state = "completed"]
      BY <1>2 DEF ConfirmRecovery, MayConfirm
    <2>2. passkey'[k] = "active" /\ \A j \in Keys : j # k => Settles(j)
      BY <1>0, <1>2, EnrolledKeys DEF ConfirmRecovery
    <2>3. request'[k].state = "completed"
      BY <1>0, <2>1, <2>2, CompletedClose
    <2> QED
      BY <2>1, <2>2, <2>3 DEF Turns, OpenRequests
  <1>3. ASSUME NEW p \in Pairings, ApprovePairing(p) PROVE Goal
    <2>1. pairing[p].key \in Keys /\ Enrolled(pairing[p].key, {})
      BY <1>3, PairingTypes
         DEF ApprovePairing, Approvable, Inductive, CandidatesHaveOneOwner, PairedKeys
    <2>2. \A j \in Keys : j # pairing[p].key => Settles(j)
      BY <1>0, <2>1, EnrolledKeys
    <2> QED
      BY <1>3, <2>2 DEF Turns
  <1> HIDE DEF Goal
  <1>4. ASSUME NEW k \in Keys, RegisterVerify(k) PROVE Goal
    BY <1>0, <1>1, <1>4, FreshKeyTurns DEF RegisterVerify, KeyStates
  <1>5. ASSUME NEW k \in Keys, RegisterInsert(k) PROVE Goal
    BY <1>0, <1>1, <1>5, EnrolledTurns DEF RegisterInsert
  <1>6. ASSUME NEW k \in Keys, DeletePasskey(k) PROVE Goal
    <2>1. \A j \in Keys : Turns(j)
      BY <1>0, <1>6 DEF DeletePasskey, MayDelete, ActiveKeys, Turns, Settles, TypeOK
    <2> QED
      BY <1>1, <2>1
  <1>7. ASSUME NEW how \in issuing, NEW c \in Codes, IssueCommit(how, c) PROVE Goal
    BY <1>0, <1>1, <1>7, DiscardedTurns DEF IssueCommit
  <1>8. ASSUME NEW c \in Codes, ResolveRecoveryConflict(c) PROVE Goal
    BY <1>0, <1>1, <1>8, DiscardedTurns DEF ResolveRecoveryConflict
  <1>9. ASSUME NEW s \in ceremonies, NEW k \in Keys, FinishRecovery(s, k) PROVE Goal
    BY <1>0, <1>1, <1>9, FreshKeyTurns DEF FinishRecovery, KeyStates
  <1>10. ASSUME NEW k \in Keys, CancelRecovery(k) PROVE Goal
    BY <1>0, <1>1, <1>10, DiscardedTurns DEF CancelRecovery
  <1>11. ASSUME NEW g \in Grants, NEW k \in Keys, CompleteGrant(g, k) PROVE Goal
    <2>1. \A j \in Keys : Turns(j)
      BY <1>0, <1>11, PromotedKeys DEF CompleteGrant, FreshKey, Turns
    <2> QED
      BY <1>1, <2>1
  <1>12. ASSUME NEW p \in Pairings, NEW k \in Keys, FinishPairing(p, k) PROVE Goal
    BY <1>0, <1>1, <1>12, FreshKeyTurns DEF FinishPairing, KeyStates
  <1>13. ASSUME NEW p \in Pairings, MismatchPairing(p) PROVE Goal
    BY <1>0, <1>1, <1>13, DiscardedTurns DEF MismatchPairing
  <1>14. ASSUME NEW p \in Pairings, RejectPairing(p) PROVE Goal
    BY <1>0, <1>1, <1>14, DiscardedTurns DEF RejectPairing
  <1>15. ASSUME UNCHANGED passkey PROVE Goal
    BY <1>0, <1>1, <1>15, DiscardedTurns
  <1>16. Goal
    BY <1>2, <1>3, <1>4, <1>5, <1>6, <1>7, <1>8, <1>9, <1>10, <1>11, <1>12, <1>13, <1>14, <1>15
       DEF Next, vars, RegisterBegin, RegisterDone, IssueAuthorise, IssueRefused, GraceEnds,
           BeginRecovery, FinishRefused, BecomesEligible, FreezeRecovery, OperatorChanges,
           LockAccount, IssueGrant, RevokeGrant, CreatePairing, ClaimPairing, PairingExpires
  <1> QED
    BY <1>16 DEF Goal

LEMMA UnownedKeys ==
    ASSUME TypeOK, RequestedKeys, NEW k \in Keys, passkey[k] \in {"unused", "verified"}
    PROVE  request[k].state = "none"
  BY RequestTypes DEF RequestedKeys, RequestStates

LEMMA NextRequestedKeys ==
    ASSUME Inductive, [Next]_vars
    PROVE  RequestedKeys'
  <1>0. TypeOK /\ RequestedKeys /\ PairedKeys
    BY DEF Inductive, CandidatesHaveOneOwner
  <1>1. ASSUME NEW s \in ceremonies, NEW k \in Keys, FinishRecovery(s, k) PROVE RequestedKeys'
    <2>1. /\ passkey'[k] = "candidate" /\ request'[k].state = "open"
          /\ \A j \in Keys : j # k => passkey'[j] = passkey[j] /\ request'[j] = request[j]
      BY <1>0, <1>1 DEF FinishRecovery, TypeOK
    <2> QED
      BY <1>0, <2>1 DEF RequestedKeys
  <1>2. ASSUME ~\E s \in ceremonies, k \in Keys : FinishRecovery(s, k), NEW k \in Keys
        PROVE  /\ request'[k].state \in {"open", "cancelled"} =>
                    passkey'[k] \in {"candidate", "discarded"}
               /\ request'[k].state = "completed" => passkey'[k] \in {"active", "revoked"}
    <2>1. \/ request'[k].state = request[k].state
          \/ request[k].state = "open" /\ request'[k].state = "cancelled"
          \/ request'[k].state = "completed" /\ passkey'[k] = "active"
      BY <1>0, <1>2, NextRequestsClose DEF RequestsClose
    <2>2. CASE Turns(k)
      BY <1>0, <2>1, <2>2, UnownedKeys DEF Turns, Settles, RequestedKeys
    <2>3. CASE request'[k].state = "completed" /\ passkey'[k] = "active"
      BY <2>3
    <2>4. CASE \E p \in Pairings : ApprovePairing(p) /\ pairing[p].key = k
      <3>1. request[k].state = "none" /\ request' = request
        BY <1>0, <2>4, RecoveryAssumption DEF PairedKeys, ApprovePairing
      <3> QED
        BY <3>1
    <2> QED
      BY <2>2, <2>3, <2>4, NextTurns
  <1> QED
    BY <1>1, <1>2 DEF RequestedKeys

(* Steps that give no pairing a candidate and approve none. *)
RowStays(p) ==
  /\ pairing'[p].key = pairing[p].key
  /\ \/ pairing'[p].state = pairing[p].state
     \/ {pairing[p].state, pairing'[p].state} \cap {"candidate", "approved"} = {}
  /\ pairing'[p].state = "approved" => pairing'[p].refused = pairing[p].refused
  /\ ~pairing'[p].refused => pairing'[p].misses < MaxMatch

LEMMA SameRowStays ==
    ASSUME PairedKeys, NEW p \in Pairings, pairing'[p] = pairing[p]
    PROVE  RowStays(p)
  BY DEF RowStays, PairedKeys

LEMMA ClosedRowStays ==
    ASSUME TypeOK, PairedKeys, NEW p \in Pairings, NEW j, pairing'[p] = j,
           \/ j = [pairing[p] EXCEPT !.open = FALSE]
           \/ j = [pairing[p] EXCEPT !.refused = TRUE] /\ pairing[p].state # "approved"
           \/ j = [pairing[p] EXCEPT !.state = "claimed"] /\ pairing[p].state = "made"
    PROVE  RowStays(p)
  BY PairingTypes DEF RowStays, PairedKeys, PairingRows

LEMMA NextRowsStay ==
    ASSUME Inductive, [Next]_vars, ~\E p \in Pairings, k \in Keys : FinishPairing(p, k),
           ~\E p \in Pairings : ApprovePairing(p), NEW p \in Pairings
    PROVE  RowStays(p)
  <1>0. TypeOK /\ PairedKeys
    BY DEF Inductive, CandidatesHaveOneOwner
  <1>1. ASSUME NEW q \in Pairings, CreatePairing(q) PROVE RowStays(p)
    <2>1. CASE p = q
      <3>1. /\ pairing[p].state = "none"
            /\ pairing'[p] = [state |-> "made", refused |-> FALSE, open |-> TRUE,
                         epoch |-> user.epoch, key |-> NoKey, misses |-> 0]
        BY <1>1, <2>1 DEF CreatePairing
      <3>2. pairing[p].key = NoKey
        BY <1>0, <3>1 DEF PairedKeys
      <3>3. 0 < MaxMatch
        BY RecoveryAssumption
      <3> QED
        BY <3>1, <3>2, <3>3 DEF RowStays
    <2>2. CASE p # q
      <3>1. pairing'[p] = pairing[p] \/ pairing'[p] = [pairing[p] EXCEPT !.open = FALSE]
        BY <1>1, <2>2 DEF CreatePairing
      <3> QED
        BY <1>0, <3>1, SameRowStays, ClosedRowStays
    <2> QED
      BY <2>1, <2>2
  <1>2. ASSUME NEW q \in Pairings, ClaimPairing(q) \/ RejectPairing(q) \/ PairingExpires(q)
        PROVE  RowStays(p)
    <2>1. CASE p = q
      <3>1. \/ pairing'[p] = [pairing[p] EXCEPT !.open = FALSE]
            \/ pairing'[p] = [pairing[p] EXCEPT !.refused = TRUE] /\ pairing[p].state # "approved"
            \/ pairing'[p] = [pairing[p] EXCEPT !.state = "claimed"] /\ pairing[p].state = "made"
        BY <1>0, <1>2, <2>1
           DEF ClaimPairing, RejectPairing, MayReject, PairingExpires, TypeOK
      <3> QED
        BY <1>0, <3>1, ClosedRowStays
    <2>2. CASE p # q
      <3>1. pairing'[p] = pairing[p]
        BY <1>0, <1>2, <2>2 DEF ClaimPairing, RejectPairing, PairingExpires, TypeOK
      <3> QED
        BY <1>0, <3>1, SameRowStays
    <2> QED
      BY <2>1, <2>2
  <1>3. ASSUME NEW q \in Pairings, MismatchPairing(q) PROVE RowStays(p)
    <2>1. CASE p = q
      <3>1. pairing[p].state = "candidate"
        BY <1>3, <2>1 DEF MismatchPairing, Approvable
      <3> QED
        BY <1>0, <1>3, <2>1, <3>1, MismatchRow DEF RowStays
    <2>2. CASE p # q
      BY <1>0, <1>3, <2>2, MismatchRow, SameRowStays
    <2> QED
      BY <2>1, <2>2
  <1>4. CASE LockAccount
    <2>1. pairing'[p] = pairing[p] \/ pairing'[p] = [pairing[p] EXCEPT !.open = FALSE]
      BY <1>4 DEF LockAccount
    <2> QED
      BY <1>0, <2>1, SameRowStays, ClosedRowStays
  <1>5. CASE UNCHANGED pairing
    BY <1>0, <1>5, SameRowStays
  <1> QED
    BY <1>1, <1>2, <1>3, <1>4, <1>5
       DEF Next, vars, RegisterBegin, RegisterDone, RegisterVerify, RegisterInsert, DeletePasskey,
           IssueAuthorise, IssueRefused, GraceEnds, IssueCommit, BeginRecovery,
           ResolveRecoveryConflict, FinishRefused, FinishRecovery, BecomesEligible,
           CancelRecovery, ConfirmRecovery, FreezeRecovery, OperatorChanges, IssueGrant,
           RevokeGrant, CompleteGrant

(* The request of a key that a pairing holds stays away. *)
LEMMA PairedKeyIsNotRequested ==
    ASSUME Inductive, [Next]_vars, NEW p \in Pairings, pairing[p].key # NoKey
    PROVE  pairing[p].key \in Keys /\ request'[pairing[p].key].state = "none"
  <1>0. TypeOK /\ PairedKeys
    BY DEF Inductive, CandidatesHaveOneOwner
  <1>1. /\ pairing[p].key \in Keys /\ request[pairing[p].key].state = "none"
        /\ passkey[pairing[p].key] # "unused"
    BY <1>0, PairingTypes DEF PairedKeys
  <1>2. CASE \E s \in ceremonies, k \in Keys : FinishRecovery(s, k)
    <2>1. PICK s \in ceremonies, k \in Keys : FinishRecovery(s, k)
      BY <1>2
    <2>2. passkey[k] = "unused" /\ \A j \in Keys : j # k => request'[j] = request[j]
      BY <1>0, <2>1 DEF FinishRecovery, FreshKey, TypeOK
    <2> QED
      BY <1>1, <2>2
  <1>3. CASE ~\E s \in ceremonies, k \in Keys : FinishRecovery(s, k)
    BY <1>0, <1>1, <1>3, NextRequestsClose DEF RequestsClose
  <1> QED
    BY <1>1, <1>2, <1>3

PairedRow(p) ==
    /\ pairing[p].key # NoKey =>
         /\ pairing[p].state \in {"candidate", "approved"}
         /\ request[pairing[p].key].state = "none"
         /\ \A q \in Pairings : pairing[q].key = pairing[p].key => q = p
    /\ pairing[p].state = "candidate" =>
         pairing[p].key # NoKey /\ passkey[pairing[p].key] \in {"candidate", "discarded"}
    /\ pairing[p].state = "approved" =>
         /\ ~pairing[p].refused
         /\ pairing[p].key # NoKey /\ passkey[pairing[p].key] \in {"active", "revoked"}
    /\ ~pairing[p].refused => pairing[p].misses < MaxMatch

LEMMA PairedRows == PairedKeys <=> \A p \in Pairings : PairedRow(p)
  BY DEF PairedKeys, PairedRow

(* A pairing that keeps its key while the key settles, and shares it with no *)
(* other.                                                                    *)
LEMMA RowStaysPaired ==
    ASSUME Inductive, [Next]_vars, NEW p \in Pairings, RowStays(p),
           pairing[p].key # NoKey => Settles(pairing[p].key),
           \A q \in Pairings : pairing'[q].key = pairing'[p].key /\ pairing'[p].key # NoKey =>
              q = p
    PROVE  PairedRow(p)'
  <1>0. TypeOK /\ PairedRow(p)
    BY PairedRows DEF Inductive, CandidatesHaveOneOwner
  <1>1. CASE pairing[p].key = NoKey
    <2>1. pairing[p].state \notin {"candidate", "approved"}
      BY <1>0, <1>1 DEF PairedRow
    <2>2. pairing'[p].state \notin {"candidate", "approved"}
      BY <2>1 DEF RowStays
    <2> QED
      BY <1>1, <2>2 DEF RowStays, PairedRow
  <1>2. CASE pairing[p].key # NoKey
    <2>1. pairing[p].state \in {"candidate", "approved"} /\ pairing'[p].state = pairing[p].state
      BY <1>0, <1>2 DEF PairedRow, RowStays
    <2>2. request'[pairing[p].key].state = "none" /\ Settles(pairing[p].key)
      BY <1>2, PairedKeyIsNotRequested
    <2> QED
      BY <1>0, <1>2, <2>1, <2>2 DEF PairedRow, RowStays, Settles
  <1> QED
    BY <1>1, <1>2

LEMMA NextPairedKeys ==
    ASSUME Inductive, [Next]_vars
    PROVE  PairedKeys'
  <1>0. TypeOK /\ PairedKeys /\ RequestedKeys
    BY DEF Inductive, CandidatesHaveOneOwner
  <1>1. ASSUME NEW q \in Pairings, pairing[q].key # NoKey, ~ApprovePairing(q)
        PROVE  Settles(pairing[q].key)
    <2>1. pairing[q].key \in Keys /\ request[pairing[q].key].state = "none"
          /\ passkey[pairing[q].key] \notin {"unused", "verified"}
      BY <1>0, <1>1, PairingTypes DEF PairedKeys
    <2>2. \A p \in Pairings : pairing[p].key = pairing[q].key => p = q
      BY <1>0, <1>1 DEF PairedKeys
    <2> QED
      BY <1>1, <2>1, <2>2, NextTurns DEF Turns
  <1>2. ASSUME NEW p \in Pairings, NEW k \in Keys, FinishPairing(p, k) PROVE PairedKeys'
    <2>1. /\ pairing'[p].key = k /\ pairing'[p].state = "candidate"
          /\ ~pairing'[p].refused /\ pairing'[p].misses = pairing[p].misses
          /\ \A q \in Pairings : q # p => pairing'[q] = pairing[q]
      BY <1>0, <1>2, FinishPairingRow
    <2>2. passkey[k] = "unused" /\ passkey'[k] = "candidate" /\ request'[k] = request[k]
          /\ \A j \in Keys : j # k => passkey'[j] = passkey[j]
      BY <1>0, <1>2 DEF FinishPairing, FreshKey, TypeOK
    <2>3. request[k].state = "none" /\ k # NoKey
      BY <1>0, <2>2, UnownedKeys, RecoveryAssumption
    <2>4. \A q \in Pairings : pairing[q].key # k
      BY <1>0, <2>2, <2>3 DEF PairedKeys
    <2>5. pairing[p].misses < MaxMatch /\ pairing[p].key = NoKey
      BY <1>0, <1>2 DEF FinishPairing, PairedKeys
    <2>6. PairedRow(p)'
      BY <2>1, <2>2, <2>3, <2>4, <2>5 DEF PairedRow
    <2>7. ASSUME NEW q \in Pairings, q # p PROVE PairedRow(q)'
      <3>1. pairing'[q] = pairing[q] /\ RowStays(q)
        BY <1>0, <2>1, <2>7, SameRowStays
      <3>2. pairing[q].key # NoKey => Settles(pairing[q].key)
        BY <1>0, <2>2, <2>4, PairingTypes DEF Settles
      <3>3. \A r \in Pairings : pairing'[r].key = pairing'[q].key /\ pairing'[q].key # NoKey => r = q
        BY <1>0, <2>1, <2>4, <3>1 DEF PairedKeys
      <3> QED
        BY <3>1, <3>2, <3>3, RowStaysPaired
    <2> QED
      BY <2>6, <2>7 DEF PairedKeys, PairedRow
  <1>3. ASSUME NEW p \in Pairings, ApprovePairing(p) PROVE PairedKeys'
    <2>1. pairing[p].key \in Keys /\ pairing[p].state = "candidate" /\ ~pairing[p].refused
          /\ passkey[pairing[p].key] = "candidate"
      BY <1>3, PairingTypes, <1>0 DEF ApprovePairing, Approvable, PairedKeys
    <2>2. passkey'[pairing[p].key] = "active" /\ request' = request
      BY <1>0, <1>3, <2>1, EnrolledKeys DEF ApprovePairing
    <2>3. pairing' = [pairing EXCEPT ![p] = [pairing[p] EXCEPT !.state = "approved"]]
      BY <1>3 DEF ApprovePairing
    <2>4. /\ pairing'[p].key = pairing[p].key /\ pairing'[p].state = "approved"
          /\ ~pairing'[p].refused /\ pairing'[p].misses = pairing[p].misses
          /\ \A q \in Pairings : q # p => pairing'[q] = pairing[q]
      BY <1>0, <2>1, <2>3, PairingTypes DEF TypeOK, PairingRows
    <2>5. \A q \in Pairings : pairing'[q].key = pairing[q].key
      BY <2>4
    <2>6. PairedRow(p)'
      BY <1>0, <2>1, <2>2, <2>4, <2>5 DEF PairedRow, PairedKeys
    <2>7. ASSUME NEW q \in Pairings, q # p PROVE PairedRow(q)'
      <3>1. RowStays(q)
        BY <1>0, <2>4, <2>7, SameRowStays
      <3>2. pairing[q].key # NoKey => Settles(pairing[q].key)
        <4>1. ASSUME pairing[q].key # NoKey PROVE Settles(pairing[q].key)
          <5>1. pairing[q].key \in Keys /\ pairing[q].key # pairing[p].key
            BY <1>0, <2>7, <4>1, PairingTypes DEF PairedKeys
          <5> QED
            BY <1>0, <1>3, <2>1, <5>1, EnrolledKeys DEF ApprovePairing
        <4> QED
          BY <4>1
      <3>3. \A r \in Pairings : pairing'[r].key = pairing'[q].key /\ pairing'[q].key # NoKey => r = q
        BY <1>0, <2>5 DEF PairedKeys
      <3> QED
        BY <3>1, <3>2, <3>3, RowStaysPaired
    <2> QED
      BY <2>6, <2>7 DEF PairedKeys, PairedRow
  <1>4. ASSUME ~\E p \in Pairings, k \in Keys : FinishPairing(p, k),
               ~\E p \in Pairings : ApprovePairing(p)
        PROVE  PairedKeys'
    <2>1. \A p \in Pairings : RowStays(p)
      BY <1>4, NextRowsStay
    <2>2. \A p \in Pairings : pairing'[p].key = pairing[p].key
      BY <2>1 DEF RowStays
    <2>3. ASSUME NEW q \in Pairings PROVE PairedRow(q)'
      <3>1. \A r \in Pairings : pairing'[r].key = pairing'[q].key /\ pairing'[q].key # NoKey => r = q
        BY <1>0, <2>2 DEF PairedKeys
      <3> QED
        BY <1>1, <1>4, <2>1, <3>1, RowStaysPaired
    <2> QED
      BY <2>3 DEF PairedKeys, PairedRow
  <1> QED
    BY <1>2, <1>3, <1>4

-----------------------------------------------------------------------------
(* The inductive invariant, and what follows from it.                      *)
LEMMA InitInductive == Init => Inductive
  <1> SUFFICES ASSUME Init PROVE Inductive
    OBVIOUS
  <1>1. TypeOK
    BY InitTypeOK
  <1>2. IsFiniteSet(ActiveKeys) /\ AKeyRemains
    <2>1. PICK k \in Keys : passkey = [x \in Keys |-> IF x = k THEN "active" ELSE "unused"]
      BY DEF Init
    <2>2. ActiveKeys = {k}
      BY <2>1 DEF ActiveKeys
    <2> QED
      BY <2>2, FS_Singleton DEF AKeyRemains
  <1>3. \A k \in Keys : request[k].state = "none"
    BY DEF Init
  <1>4. \A c \in Codes : code[c].state = "none"
    BY DEF Init
  <1>5. OpenRequests = {} /\ ActiveCodes = {}
    BY <1>3, <1>4 DEF OpenRequests, ActiveCodes
  <1>6. OneOfEach
    BY <1>5 DEF OneOfEach
  <1>7. /\ history.recovered = 0 /\ user.epoch = 0 /\ \A k \in Keys : history.key[k] = 0
    BY DEF Init
  <1>8. RecoveryIsPast /\ NothingFromBeforeRecovery
    BY <1>5, <1>7 DEF RecoveryIsPast, NothingFromBeforeRecovery, ActiveKeys
  <1>9. RequestedKeys
    BY <1>3 DEF RequestedKeys
  <1>10. \A p \in Pairings : /\ pairing[p].state = "none" /\ pairing[p].key = NoKey
                             /\ pairing[p].misses = 0
    BY DEF Init
  <1>11. PairedKeys
    BY <1>10, RecoveryAssumption DEF PairedKeys
  <1> QED
    BY <1>1, <1>2, <1>6, <1>8, <1>9, <1>11 DEF Inductive, CandidatesHaveOneOwner

(* The inductive invariant holds of every reachable state. *)
THEOREM SpecInductive == Spec => []Inductive
  <1>1. Init => Inductive
    BY InitInductive
  <1>2. Inductive /\ [Next]_vars => Inductive'
    BY NextTypeOK, NextAKeyRemains, NextOneOfEach, NextNothingFromBefore, NextRequestedKeys,
       NextPairedKeys
       DEF Inductive, CandidatesHaveOneOwner
  <1> QED
    BY <1>1, <1>2, PTL DEF Spec

(* Rows keep their types, through every path by which keys come and go.     *)
THEOREM TypeCorrect == Spec => []TypeOK
  <1>1. Inductive => TypeOK
    BY DEF Inductive
  <1> QED
    BY <1>1, SpecInductive, PTL

(* Deletions, recoveries and grants, in any order, leave the owner a        *)
(* passkey that is active: deletePasskey counts them under the lock of the  *)
(* user, and whatever else revokes keys inserts one.                        *)
THEOREM KeysRemain == Spec => []AKeyRemains
  <1>1. Inductive => AKeyRemains
    BY DEF Inductive
  <1> QED
    BY <1>1, SpecInductive, PTL

LEMMA AtMostOneIsFew ==
    ASSUME NEW S, \A x, y \in S : x = y
    PROVE  Cardinality(S) <= 1
  <1>1. CASE S = {}
    BY <1>1, FS_EmptySet
  <1>2. CASE S # {}
    <2>1. PICK x \in S : TRUE
      BY <1>2
    <2>2. S = {x}
      BY <2>1
    <2> QED
      BY <2>2, FS_Singleton
  <1> QED
    BY <1>1, <1>2

(* No scan of a code and no finish opens a recovery request beside one that *)
(* is open: finishRecoveryWithCode looks again under the lock of the user.  *)
THEOREM OneRequestIsOpen == Spec => []OneOpenRequest
  <1>1. Inductive => OneOpenRequest
    BY AtMostOneIsFew DEF Inductive, OneOfEach, OneOpenRequest
  <1> QED
    BY <1>1, SpecInductive, PTL

(* After a recovery that revokes every key, no key, code or request that    *)
(* was committed at an earlier epoch is in force.                           *)
THEOREM CleanSlateIsKept == Spec => []NothingFromBeforeRecovery
  <1>1. Inductive => NothingFromBeforeRecovery
    BY DEF Inductive
  <1> QED
    BY <1>1, SpecInductive, PTL

(* A candidate that was cancelled or rejected never becomes a passkey, by   *)
(* whichever path, although rejectPairing holds no row of the user.         *)
THEOREM RefusedKeysStayOut == Spec => []NoKeyFromARefusedRequest
  <1>1. Inductive => NoKeyFromARefusedRequest
    <2> SUFFICES ASSUME Inductive PROVE NoKeyFromARefusedRequest
      OBVIOUS
    <2>1. RequestedKeys /\ PairedKeys
      BY DEF Inductive, CandidatesHaveOneOwner
    <2>2. \A k \in Keys : request[k].state = "cancelled" => passkey[k] \notin {"active", "revoked"}
      BY <2>1 DEF RequestedKeys
    <2>3. \A p \in Pairings : pairing[p].refused /\ pairing[p].key # NoKey =>
             passkey[pairing[p].key] \notin {"active", "revoked"}
      BY <2>1 DEF PairedKeys
    <2> QED
      BY <2>2, <2>3 DEF NoKeyFromARefusedRequest
  <1> QED
    BY <1>1, SpecInductive, PTL
=============================================================================
