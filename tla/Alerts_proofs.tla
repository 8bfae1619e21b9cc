---------------------------- MODULE Alerts_proofs ----------------------------
(***************************************************************************)
(* Proofs about the alerts of security events: the worker that delivers    *)
(* them (NotificationOutbox), then the addresses they go to                *)
(* (AlertTargets), for any rows, processes, requests, channels and bounds. *)
(*                                                                         *)
(* The invariant of the worker is a ledger.  Every process that holds a    *)
(* row is paid for by a lease of the row that ran out or by the one that   *)
(* is running (LeasesPay), every attempt beyond MAX_ATTEMPTS by a lease    *)
(* that ran out that no failure write below the limit has used yet         *)
(* (AttemptsPay), and every message by a lost success, a lease, or the one *)
(* that settles the row (MessagesPay).                                     *)
(*                                                                         *)
(* The addresses rest on the lock of the user's row, which one request     *)
(* holds (HoldersAreAlone): a start knows the live row of its channel      *)
(* until it inserts, and a removal keeps, with the flag it read, the       *)
(* recipients its event was recorded with (Knows).                         *)
(***************************************************************************)
EXTENDS NotificationOutbox, AlertTargets, FiniteSetTheorems, TLAPS

-----------------------------------------------------------------------------
(* The alert worker (NotificationOutbox).                                  *)

\* A process with batch B that is about to write x holds r; its failure will
\* put r back; it is not about to record a delivery of r.
Has(B, x, r) == (\E i \in B : i.row = r) \/ (x # NoItem /\ x.item.row = r)

HasEarly(B, x, r) ==
    \/ \E i \in B : i.row = r /\ ~Exhausted(i)
    \/ x # NoItem /\ x.item.row = r /\ ~Exhausted(x.item)

HasUndelivered(B, x, r) ==
    Has(B, x, r) /\ ~(x # NoItem /\ x.item.row = r /\ x.write = "delivered")

\* The same of all processes, with batches B and results X.
HoldersIn(B, X, r) == {p \in Processes : Has(B[p], X[p], r)}
EarlyIn(B, X, r) == {p \in Processes : HasEarly(B[p], X[p], r)}
UndeliveredIn(B, X, r) == {p \in Processes : HasUndelivered(B[p], X[p], r)}

Early(r) == EarlyIn(batch, result, r)
Undelivered(r) == UndeliveredIn(batch, result, r)

Running(r) == IF row[r].lease = "held" THEN 1 ELSE 0

\* Only the Discord sender refuses for good.
RefusalsAreDiscord ==
    \A p \in Processes :
        result[p] # NoItem /\ result[p].write = "permanent" => result[p].item.row \in Discord

TypeInvariant == TypeOK /\ RefusalsAreDiscord

\* A batch has one item for each row, and the item in delivery has left it.
OneItemPerRow ==
    \A p \in Processes :
        /\ \A i, j \in batch[p] : i.row = j.row => i = j
        /\ result[p] # NoItem => \A i \in batch[p] : i.row # result[p].item.row

LeasesPay(r) == Cardinality(Holders(r)) <= lapses[r] + Running(r)

AttemptsPay(r) ==
    /\ row[r].attempts <= MaxAttempts + lapses[r]
    /\ ~Settled(r) /\ row[r].attempts >= MaxAttempts =>
        row[r].attempts + Cardinality(Early(r)) + 1 <= MaxAttempts + lapses[r] + Running(r)

MessagesPay(r) ==
    sent[r] + Cardinality(Undelivered(r))
        <= lost[r] + lapses[r] + (IF Settled(r) THEN 1 ELSE Running(r))

SettledRowsRest(r) ==
    /\ Settled(r) => row[r].lease # "held"
    /\ row[r].delivered /\ row[r].failed => lapses[r] > 0

Balanced(r) ==
    /\ IsFiniteSet(Holders(r))
    /\ LeasesPay(r) /\ AttemptsPay(r) /\ MessagesPay(r) /\ SettledRowsRest(r)

Ledger == \A r \in Rows : Balanced(r)

LedgerInvariant == TypeInvariant /\ OneItemPerRow /\ Ledger

-----------------------------------------------------------------------------
\* The UPDATE of leaseDue gives a row again.
LEMMA LeaseOfRow ==
    ASSUME NEW x \in OutboxRow PROVE [x EXCEPT !.lease = "held"] \in OutboxRow
BY DEF OutboxRow

LEMMA AttemptsOfRow ==
    ASSUME NEW x \in OutboxRow, NEW n \in Nat PROVE [x EXCEPT !.attempts = n] \in OutboxRow
BY DEF OutboxRow

LEMMA LeasedRow ==
    ASSUME NEW x \in OutboxRow
    PROVE [x EXCEPT !.lease = "held", !.attempts = @ + 1] \in OutboxRow
<1>1. x.attempts + 1 \in Nat
  BY DEF OutboxRow
<1>2. [x EXCEPT !.lease = "held"] \in OutboxRow
  BY LeaseOfRow
<1> QED
  BY <1>1, <1>2, AttemptsOfRow, Zenon

\* The two updates that end a delivery keep the row a row, and the attempts.
LEMMA DeliveredRow ==
    ASSUME NEW x \in OutboxRow
    PROVE [x EXCEPT !.delivered = TRUE, !.lease = "none"] \in OutboxRow
BY DEF OutboxRow

LEMMA FailedRow ==
    ASSUME NEW x \in OutboxRow, NEW f \in BOOLEAN, NEW d \in BOOLEAN
    PROVE  LET y == [x EXCEPT !.lease = "none", !.failed = f, !.due = d]
           IN  y \in OutboxRow /\ y.attempts = x.attempts /\ y.failed = f
BY DEF OutboxRow

\* An update of one row writes that row only.
LEMMA OneRowWritten ==
    ASSUME NEW S, NEW f \in [Rows -> S], NEW r \in Rows, NEW y \in S
    PROVE  /\ [f EXCEPT ![r] = y] \in [Rows -> S]
           /\ [f EXCEPT ![r] = y][r] = y
           /\ \A s \in Rows \ {r} : [f EXCEPT ![r] = y][s] = f[s]
OBVIOUS

\* The type invariant holds at the start and is kept by every statement.
LEMMA TypeInit == Init => TypeInvariant
BY OutboxAssumption DEF Init, TypeInvariant, TypeOK, RefusalsAreDiscord, OutboxRow

LEMMA TypeStep == TypeInvariant /\ [Next]_vars => TypeInvariant'
<1> SUFFICES ASSUME TypeInvariant, [Next]_vars PROVE TypeInvariant'
  OBVIOUS
<1> USE DEF TypeInvariant, history
<1>1. ASSUME NEW r \in Rows, Record(r) PROVE TypeInvariant'
  BY <1>1 DEF TypeOK, RefusalsAreDiscord, Record, OutboxRow
<1>2. ASSUME NEW r \in Rows, LeaseLapses(r) PROVE TypeInvariant'
  BY <1>2 DEF TypeOK, RefusalsAreDiscord, LeaseLapses, OutboxRow
<1>3. ASSUME NEW r \in Rows, BackoffEnds(r) PROVE TypeInvariant'
  BY <1>3 DEF TypeOK, RefusalsAreDiscord, BackoffEnds, OutboxRow
<1>4. ASSUME NEW p \in Processes, Lease(p) PROVE TypeInvariant'
  <2>1. PICK S \in SUBSET {r \in Rows : Leasable(r)} :
          /\ row' = [r \in Rows |-> IF r \in S
                      THEN [row[r] EXCEPT !.lease = "held", !.attempts = @ + 1]
                      ELSE row[r]]
          /\ batch' = [batch EXCEPT ![p] =
                        {[row |-> r, attempts |-> row[r].attempts + 1] : r \in S}]
    BY <1>4 DEF Lease
  <2>2. row' \in [Rows -> OutboxRow]
    <3>1. ASSUME NEW r \in Rows PROVE row[r] \in OutboxRow
      BY DEF TypeOK
    <3>2. ASSUME NEW r \in Rows
          PROVE [row[r] EXCEPT !.lease = "held", !.attempts = @ + 1] \in OutboxRow
      BY <3>1, <3>2, LeasedRow
    <3> QED
      BY <2>1, <3>1, <3>2
  <2>3. {[row |-> r, attempts |-> row[r].attempts + 1] : r \in S} \subseteq Item
    BY DEF TypeOK, RefusalsAreDiscord, OutboxRow, Item
  <2>4. batch' \in [Processes -> SUBSET Item]
    BY <2>1, <2>3 DEF TypeOK
  <2> QED
    BY <1>4, <2>2, <2>4 DEF Lease, TypeOK, RefusalsAreDiscord
<1>5. ASSUME NEW p \in Processes, DeliverOne(p) PROVE TypeInvariant'
  <2>1. PICK item \in batch[p] : \E outcome \in OutcomesOf(item) : Deliver(p, item, outcome)
    BY <1>5 DEF DeliverOne
  <2>2. PICK outcome \in OutcomesOf(item) : Deliver(p, item, outcome)
    BY <2>1
  <2>3. item \in Item /\ item.row \in Rows
    BY DEF TypeOK, RefusalsAreDiscord, Item
  <2>4. outcome \in Outcome
    BY DEF OutcomesOf
  <2>5. [item |-> item,
         write |-> IF outcome = "unacknowledged" THEN "temporary" ELSE outcome] \in Result
    BY <2>3, <2>4 DEF Result, Outcome
  <2>6. outcome = "permanent" => item.row \in Discord
    BY DEF OutcomesOf
  <2> QED
    BY <2>2, <2>3, <2>5, <2>6, NoItemIsNoResult DEF Deliver, TypeOK, RefusalsAreDiscord
<1>6. ASSUME NEW p \in Processes, WriteDelivered(p) PROVE TypeInvariant'
  <2>1. result[p].item.row \in Rows
    BY <1>6 DEF TypeOK, RefusalsAreDiscord, WriteDelivered, Result, Item
  <2>2. row' \in [Rows -> OutboxRow]
    <3>1. row \in [Rows -> OutboxRow]
      BY DEF TypeOK
    <3>2. row' = [row EXCEPT ![result[p].item.row] =
                    [row[result[p].item.row] EXCEPT !.delivered = TRUE, !.lease = "none"]]
      BY <1>6, Zenon DEF WriteDelivered
    <3> QED
      BY <2>1, <3>1, <3>2, DeliveredRow, OneRowWritten
  <2>3. /\ result' \in [Processes -> Result \cup {NoItem}]
        /\ \A q \in Processes : result'[q] \in {result[q], NoItem}
    BY <1>6 DEF TypeOK, WriteDelivered
  <2>4. UNCHANGED <<batch, degraded, sent, lost, lapses, mishaps>>
    BY <1>6 DEF WriteDelivered
  <2> QED
    BY <2>2, <2>3, <2>4 DEF TypeOK, RefusalsAreDiscord
<1>7. ASSUME NEW p \in Processes, WriteDeliveredFails(p) PROVE TypeInvariant'
  <2>1. result[p] \in Result /\ result[p].item.row \in Rows
    BY <1>7 DEF TypeOK, RefusalsAreDiscord, WriteDeliveredFails, Result, Item
  <2>2. [result[p] EXCEPT !.write = "temporary"] \in Result
    BY <2>1 DEF Result
  <2>3. result' \in [Processes -> Result \cup {NoItem}]
    BY <1>7, <2>2 DEF TypeOK, RefusalsAreDiscord, WriteDeliveredFails
  <2> QED
    BY <1>7, <2>1, <2>3 DEF TypeOK, RefusalsAreDiscord, WriteDeliveredFails
<1>8. ASSUME NEW p \in Processes, MarkDegraded(p) PROVE TypeInvariant'
  <2>1. result[p] \in Result
    BY <1>8 DEF TypeOK, RefusalsAreDiscord, MarkDegraded
  <2>2. [result[p] EXCEPT !.write = "marked"] \in Result
    BY <2>1 DEF Result
  <2>3. result' \in [Processes -> Result \cup {NoItem}]
    BY <1>8, <2>2 DEF TypeOK, RefusalsAreDiscord, MarkDegraded
  <2> QED
    BY <1>8, <2>3 DEF TypeOK, RefusalsAreDiscord, MarkDegraded
<1>9. ASSUME NEW p \in Processes, WriteFailure(p) PROVE TypeInvariant'
  <2>1. result[p].item.row \in Rows
    BY <1>9 DEF TypeOK, RefusalsAreDiscord, WriteFailure, Result, Item
  <2>2. row' \in [Rows -> OutboxRow]
    <3>1. row \in [Rows -> OutboxRow]
      BY DEF TypeOK
    <3> DEFINE r == result[p].item.row
               givenUp == result[p].write = "marked" \/ Exhausted(result[p].item)
               written == [row[r] EXCEPT !.lease = "none",
                                         !.failed = row[r].failed \/ givenUp,
                                         !.due = row[r].due /\ givenUp]
    <3>2. row' = [row EXCEPT ![r] = written]
      BY <1>9, Zenon DEF WriteFailure
    <3>3. row[r] \in OutboxRow
      BY <2>1, <3>1
    <3>4. written \in OutboxRow
      BY <3>3, FailedRow
    <3> HIDE DEF written
    <3> QED
      BY <2>1, <3>1, <3>2, <3>4, OneRowWritten
  <2>3. /\ result' \in [Processes -> Result \cup {NoItem}]
        /\ \A q \in Processes : result'[q] \in {result[q], NoItem}
    BY <1>9 DEF TypeOK, WriteFailure
  <2>4. UNCHANGED <<batch, degraded, sent, lost, lapses, mishaps>>
    BY <1>9 DEF WriteFailure
  <2> QED
    BY <2>2, <2>3, <2>4 DEF TypeOK, RefusalsAreDiscord
<1>10. ASSUME NEW p \in Processes, DrainAborts(p) \/ Crash(p) PROVE TypeInvariant'
  BY <1>10 DEF TypeOK, RefusalsAreDiscord, DrainAborts, Crash
<1>11. CASE UNCHANGED vars
  BY <1>11 DEF TypeOK, RefusalsAreDiscord, vars
<1> QED
  BY <1>1, <1>2, <1>3, <1>4, <1>5, <1>6, <1>7, <1>8, <1>9, <1>10, <1>11
  DEF Next, WriteResult

\* TypeOK holds in every reachable state.
THEOREM TypeCorrect == Spec => []TypeOK
<1>1. TypeInvariant => TypeOK
  BY DEF TypeInvariant
<1> QED
  BY TypeInit, TypeStep, <1>1, PTL DEF Spec

-----------------------------------------------------------------------------
\* The holders of a row, said of each process.
LEMMA HoldersSet ==
    ASSUME NEW B, NEW X, NEW r
    PROVE  {p \in Processes :
              \E i \in B[p] \cup (IF X[p] = NoItem THEN {} ELSE {X[p].item}) : i.row = r}
             = HoldersIn(B, X, r)
<1>1. ASSUME NEW p \in Processes
      PROVE  (\E i \in B[p] \cup (IF X[p] = NoItem THEN {} ELSE {X[p].item}) : i.row = r)
               <=> Has(B[p], X[p], r)
  BY DEF Has
<1> QED
  BY <1>1 DEF HoldersIn

LEMMA HoldersHave ==
    ASSUME NEW r PROVE Holders(r) = HoldersIn(batch, result, r)
BY HoldersSet DEF Holders, Holding

\* A step of process p moves only p in and out of the sets.
LEMMA HoldersMove ==
    ASSUME NEW p \in Processes, NEW r, NEW B, NEW X, NEW B1, NEW X1,
           \A q \in Processes \ {p} : B1[q] = B[q] /\ X1[q] = X[q]
    PROVE  /\ Has(B1[p], X1[p], r) => HoldersIn(B1, X1, r) = HoldersIn(B, X, r) \cup {p}
           /\ ~Has(B1[p], X1[p], r) => HoldersIn(B1, X1, r) = HoldersIn(B, X, r) \ {p}
BY DEF HoldersIn

LEMMA EarlyMove ==
    ASSUME NEW p \in Processes, NEW r, NEW B, NEW X, NEW B1, NEW X1,
           \A q \in Processes \ {p} : B1[q] = B[q] /\ X1[q] = X[q]
    PROVE  /\ HasEarly(B1[p], X1[p], r) => EarlyIn(B1, X1, r) = EarlyIn(B, X, r) \cup {p}
           /\ ~HasEarly(B1[p], X1[p], r) => EarlyIn(B1, X1, r) = EarlyIn(B, X, r) \ {p}
BY DEF EarlyIn

LEMMA UndeliveredMove ==
    ASSUME NEW p \in Processes, NEW r, NEW B, NEW X, NEW B1, NEW X1,
           \A q \in Processes \ {p} : B1[q] = B[q] /\ X1[q] = X[q]
    PROVE  /\ HasUndelivered(B1[p], X1[p], r) =>
                UndeliveredIn(B1, X1, r) = UndeliveredIn(B, X, r) \cup {p}
           /\ ~HasUndelivered(B1[p], X1[p], r) =>
                UndeliveredIn(B1, X1, r) = UndeliveredIn(B, X, r) \ {p}
BY DEF UndeliveredIn

\* The same for the sets before and after a step of process p.
LEMMA StepMoves ==
    ASSUME NEW p \in Processes, NEW r \in Rows,
           \A q \in Processes \ {p} : batch'[q] = batch[q] /\ result'[q] = result[q]
    PROVE  /\ Has(batch'[p], result'[p], r) => Holders(r)' = Holders(r) \cup {p}
           /\ ~Has(batch'[p], result'[p], r) => Holders(r)' = Holders(r) \ {p}
           /\ HasEarly(batch'[p], result'[p], r) => Early(r)' = Early(r) \cup {p}
           /\ ~HasEarly(batch'[p], result'[p], r) => Early(r)' = Early(r) \ {p}
           /\ HasUndelivered(batch'[p], result'[p], r) => Undelivered(r)' = Undelivered(r) \cup {p}
           /\ ~HasUndelivered(batch'[p], result'[p], r) => Undelivered(r)' = Undelivered(r) \ {p}
<1>2. Holders(r)' = HoldersIn(batch', result', r)
  BY HoldersSet DEF Holders, Holding
<1>3. /\ Has(batch'[p], result'[p], r) =>
           HoldersIn(batch', result', r) = HoldersIn(batch, result, r) \cup {p}
      /\ ~Has(batch'[p], result'[p], r) =>
           HoldersIn(batch', result', r) = HoldersIn(batch, result, r) \ {p}
  BY HoldersMove
<1>4. /\ HasEarly(batch'[p], result'[p], r) => Early(r)' = Early(r) \cup {p}
      /\ ~HasEarly(batch'[p], result'[p], r) => Early(r)' = Early(r) \ {p}
  BY EarlyMove DEF Early
<1>5. /\ HasUndelivered(batch'[p], result'[p], r) => Undelivered(r)' = Undelivered(r) \cup {p}
      /\ ~HasUndelivered(batch'[p], result'[p], r) => Undelivered(r)' = Undelivered(r) \ {p}
  BY UndeliveredMove DEF Undelivered
<1> QED
  BY <1>2, <1>3, <1>4, <1>5, HoldersHave

\* The sets that the ledger counts, and their sizes.
LEMMA Sizes ==
    ASSUME LedgerInvariant, NEW r \in Rows
    PROVE  /\ IsFiniteSet(Holders(r)) /\ IsFiniteSet(Early(r)) /\ IsFiniteSet(Undelivered(r))
           /\ Cardinality(Holders(r)) \in Nat
           /\ Cardinality(Early(r)) \in Nat /\ Cardinality(Undelivered(r)) \in Nat
           /\ Cardinality(Early(r)) <= Cardinality(Holders(r))
           /\ Cardinality(Undelivered(r)) <= Cardinality(Holders(r))
<1>1. IsFiniteSet(Holders(r))
  BY DEF LedgerInvariant, Ledger, Balanced
<1>2. Early(r) \in SUBSET Holders(r) /\ Undelivered(r) \in SUBSET Holders(r)
  BY HoldersHave DEF Early, Undelivered, HoldersIn, EarlyIn, UndeliveredIn, HasEarly, HasUndelivered, Has
<1> QED
  BY <1>1, <1>2, FS_Subset, FS_CardinalityType

\* Whether a process is in them.
LEMMA Membership ==
    ASSUME NEW p \in Processes, NEW r \in Rows
    PROVE  /\ p \in Holders(r) <=> Has(batch[p], result[p], r)
           /\ p \in Early(r) <=> HasEarly(batch[p], result[p], r)
           /\ p \in Undelivered(r) <=> HasUndelivered(batch[p], result[p], r)
BY HoldersHave DEF Early, Undelivered, HoldersIn, EarlyIn, UndeliveredIn

\* A step that changes nothing for its process leaves the set alone.
LEMMA StepStays ==
    ASSUME NEW p \in Processes, NEW r \in Rows,
           \A q \in Processes \ {p} : batch'[q] = batch[q] /\ result'[q] = result[q]
    PROVE  /\ (Has(batch'[p], result'[p], r) <=> Has(batch[p], result[p], r))
                => Holders(r)' = Holders(r)
           /\ (HasEarly(batch'[p], result'[p], r) <=> HasEarly(batch[p], result[p], r))
                => Early(r)' = Early(r)
           /\ (HasUndelivered(batch'[p], result'[p], r) <=> HasUndelivered(batch[p], result[p], r))
                => Undelivered(r)' = Undelivered(r)
<1>1. \A S : (p \in S => S \cup {p} = S) /\ (p \notin S => S \ {p} = S)
  OBVIOUS
<1>2. ASSUME Has(batch'[p], result'[p], r) <=> Has(batch[p], result[p], r)
      PROVE  Holders(r)' = Holders(r)
  BY <1>1, <1>2, StepMoves, Membership
<1>3. ASSUME HasEarly(batch'[p], result'[p], r) <=> HasEarly(batch[p], result[p], r)
      PROVE  Early(r)' = Early(r)
  BY <1>1, <1>3, StepMoves, Membership
<1>4. ASSUME HasUndelivered(batch'[p], result'[p], r) <=> HasUndelivered(batch[p], result[p], r)
      PROVE  Undelivered(r)' = Undelivered(r)
  BY <1>1, <1>4, StepMoves, Membership
<1> QED
  BY <1>2, <1>3, <1>4

\* One process more, one process less.
LEMMA Join ==
    ASSUME NEW S, NEW x, IsFiniteSet(S), x \notin S
    PROVE  IsFiniteSet(S \cup {x}) /\ Cardinality(S \cup {x}) = Cardinality(S) + 1
BY FS_AddElement

LEMMA Leave ==
    ASSUME NEW S, NEW x, IsFiniteSet(S), x \in S
    PROVE  /\ IsFiniteSet(S \ {x}) /\ Cardinality(S \ {x}) = Cardinality(S) - 1
BY FS_RemoveElement

\* The types of the numbers in the ledger.
LEMMA Numbers ==
    ASSUME TypeInvariant, NEW r \in Rows
    PROVE  /\ row[r].attempts \in Nat /\ sent[r] \in Nat /\ lost[r] \in Nat
           /\ lapses[r] \in Nat /\ Running(r) \in {0, 1}
           /\ MaxAttempts \in Nat /\ MaxAttempts > 0
BY OutboxAssumption DEF TypeInvariant, TypeOK, OutboxRow, Running

\* A step that moves no item leaves the sets of the ledger alone.
LEMMA NothingMoves ==
    ASSUME UNCHANGED <<batch, result>>, NEW r \in Rows
    PROVE  /\ Holders(r)' = Holders(r) /\ Early(r)' = Early(r)
           /\ Undelivered(r)' = Undelivered(r)
BY DEF Holders, Holding, Early, Undelivered

\* Recording an alert and the end of a delay keep the books.
LEMMA RowBecomesDue ==
    ASSUME LedgerInvariant, NEW s \in Rows, Record(s) \/ BackoffEnds(s), NEW r \in Rows
    PROVE  Balanced(r)'
<1> USE DEF history
<1>1. UNCHANGED <<batch, result, lapses, lost, sent>>
  BY DEF Record, BackoffEnds
<1>2. /\ row'[r].attempts = row[r].attempts /\ row'[r].lease = row[r].lease
      /\ row'[r].delivered = row[r].delivered /\ row'[r].failed = row[r].failed
  BY DEF Record, BackoffEnds, LedgerInvariant, TypeInvariant, TypeOK, OutboxRow
<1>3. Balanced(r)
  BY DEF LedgerInvariant, Ledger
<1> QED
  BY <1>1, <1>2, <1>3, NothingMoves
  DEF Balanced, LeasesPay, AttemptsPay, MessagesPay, SettledRowsRest, Settled, Running

\* A lease that runs out moves its unit from Running to lapses.
LEMMA LapseIsPaid ==
    ASSUME LedgerInvariant, NEW s \in Rows, LeaseLapses(s), NEW r \in Rows
    PROVE  Balanced(r)'
<1> USE DEF history
<1>1. UNCHANGED <<batch, result, lost, sent>>
  BY DEF LeaseLapses
<1>2. /\ row'[r].attempts = row[r].attempts
      /\ row'[r].delivered = row[r].delivered /\ row'[r].failed = row[r].failed
      /\ row'[r].lease = IF r = s THEN "lapsed" ELSE row[r].lease
      /\ lapses'[r] = IF r = s THEN lapses[r] + 1 ELSE lapses[r]
  BY DEF LeaseLapses, LedgerInvariant, TypeInvariant, TypeOK, OutboxRow
<1>3. Balanced(r) /\ TypeInvariant
  BY DEF LedgerInvariant, Ledger
<1>4. row[s].lease = "held"
  BY DEF LeaseLapses
<1> QED
  BY <1>1, <1>2, <1>3, <1>4, NothingMoves, Sizes, Numbers
  DEF Balanced, LeasesPay, AttemptsPay, MessagesPay, SettledRowsRest, Settled, Running

\* A new lease makes its process the only new holder, paid for by the lease.
LEMMA LeaseIsPaid ==
    ASSUME LedgerInvariant, NEW p \in Processes, Lease(p), NEW r \in Rows
    PROVE  Balanced(r)'
<1> USE DEF history
<1>1. PICK S \in SUBSET {s \in Rows : Leasable(s)} :
        /\ row' = [s \in Rows |-> IF s \in S
                    THEN [row[s] EXCEPT !.lease = "held", !.attempts = @ + 1]
                    ELSE row[s]]
        /\ batch' = [batch EXCEPT ![p] =
                      {[row |-> s, attempts |-> row[s].attempts + 1] : s \in S}]
  BY DEF Lease
<1>2. Idle(p) /\ UNCHANGED <<result, sent, lost, lapses>>
  BY DEF Lease
<1>3. TypeInvariant /\ TypeOK /\ Balanced(r)
  BY DEF LedgerInvariant, Ledger, TypeInvariant
<1>4. result[p] = NoItem /\ batch[p] = {}
  BY <1>2 DEF Idle, Holding
<1>5. /\ \A q \in Processes \ {p} : batch'[q] = batch[q] /\ result'[q] = result[q]
      /\ batch'[p] = {[row |-> s, attempts |-> row[s].attempts + 1] : s \in S}
      /\ result'[p] = NoItem
  BY <1>1, <1>2, <1>3, <1>4 DEF TypeOK
<1>6. p \notin Holders(r) /\ p \notin Early(r) /\ p \notin Undelivered(r)
  BY <1>4, HoldersHave
  DEF Early, Undelivered, HoldersIn, EarlyIn, UndeliveredIn, Has, HasEarly, HasUndelivered
<1>6a. /\ Has(batch'[p], result'[p], r) => Holders(r)' = Holders(r) \cup {p}
       /\ ~Has(batch'[p], result'[p], r) => Holders(r)' = Holders(r) \ {p}
       /\ HasEarly(batch'[p], result'[p], r) => Early(r)' = Early(r) \cup {p}
       /\ ~HasEarly(batch'[p], result'[p], r) => Early(r)' = Early(r) \ {p}
       /\ HasUndelivered(batch'[p], result'[p], r) => Undelivered(r)' = Undelivered(r) \cup {p}
       /\ ~HasUndelivered(batch'[p], result'[p], r) => Undelivered(r)' = Undelivered(r) \ {p}
  BY <1>5, StepMoves
<1>7. CASE r \in S
  <2> DEFINE item == [row |-> r, attempts |-> row[r].attempts + 1]
  <2>0. /\ item \in batch'[p] /\ item.row = r /\ item.attempts = row[r].attempts + 1
        /\ \A i \in batch'[p] : i.row = r => i = item
    BY <1>5, <1>7
  <2> HIDE DEF item
  <2>1. Has(batch'[p], result'[p], r) /\ HasUndelivered(batch'[p], result'[p], r)
    BY <1>5, <2>0 DEF Has, HasUndelivered
  <2>2. HasEarly(batch'[p], result'[p], r) <=> row[r].attempts + 1 < MaxAttempts
    <3>1. HasEarly(batch'[p], result'[p], r) <=> ~Exhausted(item)
      BY <1>5, <2>0 DEF HasEarly
    <3> QED
      BY <1>3, <2>0, <3>1, Numbers DEF Exhausted
  <2>3. /\ Holders(r)' = Holders(r) \cup {p}
        /\ Undelivered(r)' = Undelivered(r) \cup {p}
        /\ row[r].attempts + 1 < MaxAttempts => Early(r)' = Early(r) \cup {p}
        /\ ~(row[r].attempts + 1 < MaxAttempts) => Early(r)' = Early(r)
    <3>1. Early(r) \ {p} = Early(r)
      BY <1>6
    <3>2. Holders(r)' = Holders(r) \cup {p}
      BY <1>6a, <2>1
    <3>3. Undelivered(r)' = Undelivered(r) \cup {p}
      BY <1>6a, <2>1
    <3>4. ASSUME row[r].attempts + 1 < MaxAttempts PROVE Early(r)' = Early(r) \cup {p}
      BY <1>6a, <2>2, <3>4
    <3>5. ASSUME ~(row[r].attempts + 1 < MaxAttempts) PROVE Early(r)' = Early(r) \ {p}
      BY <1>6a, <2>2, <3>5
    <3> QED
      BY <3>1, <3>2, <3>3, <3>4, <3>5, Zenon
  <2>4. ~Settled(r) /\ row[r].lease # "held"
    BY <1>7 DEF Leasable
  <2>5. row[r] \in OutboxRow
    BY <1>3 DEF TypeOK
  <2>6. /\ row'[r].attempts = row[r].attempts + 1 /\ row'[r].lease = "held"
        /\ row'[r].delivered = row[r].delivered /\ row'[r].failed = row[r].failed
    BY <1>1, <1>7, <2>5 DEF OutboxRow
  <2>7. /\ IsFiniteSet(Holders(r)')
        /\ Cardinality(Holders(r)') = Cardinality(Holders(r)) + 1
        /\ Cardinality(Undelivered(r)') = Cardinality(Undelivered(r)) + 1
        /\ row[r].attempts + 1 < MaxAttempts => Cardinality(Early(r)') = Cardinality(Early(r)) + 1
        /\ ~(row[r].attempts + 1 < MaxAttempts) => Cardinality(Early(r)') = Cardinality(Early(r))
    <3>1. /\ IsFiniteSet(Holders(r)) /\ IsFiniteSet(Early(r)) /\ IsFiniteSet(Undelivered(r))
      BY Sizes
    <3>2. /\ IsFiniteSet(Holders(r)') /\ Cardinality(Holders(r)') = Cardinality(Holders(r)) + 1
      BY <1>6, <2>3, <3>1, Join
    <3>3. Cardinality(Undelivered(r)') = Cardinality(Undelivered(r)) + 1
      BY <1>6, <2>3, <3>1, Join
    <3>4. row[r].attempts + 1 < MaxAttempts => Cardinality(Early(r)') = Cardinality(Early(r)) + 1
      BY <1>6, <2>3, <3>1, Join
    <3> QED
      BY <2>3, <3>2, <3>3, <3>4
  <2> QED
    BY <1>2, <1>3, <2>4, <2>6, <2>7, Sizes, Numbers
    DEF Balanced, LeasesPay, AttemptsPay, MessagesPay, SettledRowsRest, Settled, Running
<1>8. CASE r \notin S
  <2>1. /\ Holders(r)' = Holders(r) /\ Undelivered(r)' = Undelivered(r)
        /\ Early(r)' = Early(r)
    <3>1. /\ ~Has(batch'[p], result'[p], r) /\ ~HasEarly(batch'[p], result'[p], r)
          /\ ~HasUndelivered(batch'[p], result'[p], r)
      BY <1>5, <1>8 DEF Has, HasEarly, HasUndelivered
    <3> QED
      BY <1>6, <1>6a, <3>1
  <2>2. row'[r] = row[r]
    BY <1>1, <1>8
  <2> QED
    BY <1>2, <1>3, <2>1, <2>2
    DEF Balanced, LeasesPay, AttemptsPay, MessagesPay, SettledRowsRest, Settled, Running
<1> QED
  BY <1>7, <1>8

\* A delivery takes its item from the batch to the result: a success is paid
\* for by the item that is no longer undelivered, or it is a lost one.
LEMMA DeliveryIsPaid ==
    ASSUME LedgerInvariant, NEW p \in Processes, DeliverOne(p), NEW r \in Rows
    PROVE  Balanced(r)'
<1> USE DEF history
<1>1. PICK item \in batch[p] : \E outcome \in OutcomesOf(item) : Deliver(p, item, outcome)
  BY DEF DeliverOne
<1>2. PICK outcome \in Outcome : Deliver(p, item, outcome)
  BY <1>1 DEF OutcomesOf
<1>3. TypeOK /\ TypeInvariant /\ OneItemPerRow /\ Balanced(r)
  BY DEF LedgerInvariant, Ledger, TypeInvariant
<1> DEFINE written == [item |-> item, write |-> IF outcome = "unacknowledged"
                                                THEN "temporary" ELSE outcome]
<1>4. /\ result[p] = NoItem /\ UNCHANGED <<row, lapses>>
      /\ \A q \in Processes \ {p} : batch'[q] = batch[q] /\ result'[q] = result[q]
      /\ batch'[p] = batch[p] \ {item} /\ result'[p] = written
  BY <1>2, <1>3 DEF Deliver, TypeOK
<1>5. written # NoItem /\ written.item = item /\ item.row \in Rows
  <2>1. item \in Item
    BY <1>3 DEF TypeOK
  <2>2. written \in Result
    BY <2>1 DEF Result, Outcome
  <2> QED
    BY <2>1, <2>2, NoItemIsNoResult DEF Item
<1>6. written.write = "delivered" <=> outcome = "delivered"
  OBVIOUS
<1> HIDE DEF written
<1>7. /\ Has(batch'[p], result'[p], r) <=> Has(batch[p], result[p], r)
      /\ HasEarly(batch'[p], result'[p], r) <=> HasEarly(batch[p], result[p], r)
  BY <1>4, <1>5 DEF Has, HasEarly
<1>8. HasUndelivered(batch'[p], result'[p], r)
        <=> HasUndelivered(batch[p], result[p], r) /\ ~(item.row = r /\ outcome = "delivered")
  BY <1>4, <1>5, <1>6, <1>7 DEF HasUndelivered
<1>9. Holders(r)' = Holders(r) /\ Early(r)' = Early(r)
  BY <1>4, <1>7, StepStays
<1>10. CASE item.row = r /\ outcome = "delivered"
  <2>1. p \in Undelivered(r)
    BY <1>1, <1>4, <1>10, Membership DEF HasUndelivered, Has
  <2>2. Undelivered(r)' = Undelivered(r) \ {p}
    BY <1>4, <1>8, <1>10, StepMoves
  <2>3. Cardinality(Undelivered(r)') = Cardinality(Undelivered(r)) - 1
    BY <2>1, <2>2, Sizes, Leave
  <2>4. sent'[r] = sent[r] + 1 /\ lost'[r] = lost[r]
    BY <1>2, <1>3, <1>10 DEF Deliver, TypeOK
  <2> QED
    BY <1>3, <1>4, <1>9, <2>3, <2>4, Sizes, Numbers
    DEF Balanced, LeasesPay, AttemptsPay, MessagesPay, SettledRowsRest, Settled, Running
<1>11. CASE ~(item.row = r /\ outcome = "delivered")
  <2>2. Undelivered(r)' = Undelivered(r)
    BY <1>4, <1>8, <1>11, StepStays
  <2>3. \/ sent'[r] = sent[r] /\ lost'[r] = lost[r]
        \/ sent'[r] = sent[r] + 1 /\ lost'[r] = lost[r] + 1
    BY <1>2, <1>3, <1>5, <1>11 DEF Deliver, TypeOK, Outcome
  <2> QED
    BY <1>3, <1>4, <1>9, <2>2, <2>3, Sizes, Numbers
    DEF Balanced, LeasesPay, AttemptsPay, MessagesPay, SettledRowsRest, Settled, Running
<1> QED
  BY <1>10, <1>11

\* A process that drops what it holds leaves the sets.
LEMMA DropIsPaid ==
    ASSUME LedgerInvariant, NEW p \in Processes, DrainAborts(p) \/ Crash(p), NEW r \in Rows
    PROVE  Balanced(r)'
<1> USE DEF history
<1>1. TypeOK /\ TypeInvariant /\ Balanced(r)
  BY DEF LedgerInvariant, Ledger, TypeInvariant
<1>2. /\ UNCHANGED <<row, sent, lost, lapses>>
      /\ \A q \in Processes \ {p} : batch'[q] = batch[q] /\ result'[q] = result[q]
      /\ batch'[p] = {} /\ result'[p] = NoItem
  BY <1>1 DEF DrainAborts, Crash, TypeOK
<1>3. /\ ~Has(batch'[p], result'[p], r) /\ ~HasEarly(batch'[p], result'[p], r)
      /\ ~HasUndelivered(batch'[p], result'[p], r)
  BY <1>2 DEF Has, HasEarly, HasUndelivered
<1>4. /\ Holders(r)' = Holders(r) \ {p} /\ Early(r)' = Early(r) \ {p}
      /\ Undelivered(r)' = Undelivered(r) \ {p}
  BY <1>2, <1>3, StepMoves
<1>5. /\ IsFiniteSet(Holders(r)')
      /\ Cardinality(Holders(r)') \in Nat /\ Cardinality(Holders(r)') <= Cardinality(Holders(r))
  BY <1>4, Sizes, FS_Subset, FS_CardinalityType
<1>6. /\ Cardinality(Early(r)') \in Nat /\ Cardinality(Early(r)') <= Cardinality(Early(r))
  BY <1>4, Sizes, FS_Subset, FS_CardinalityType
<1>7. /\ Cardinality(Undelivered(r)') \in Nat
      /\ Cardinality(Undelivered(r)') <= Cardinality(Undelivered(r))
  BY <1>4, Sizes, FS_Subset, FS_CardinalityType
<1> QED
  BY <1>1, <1>2, <1>5, <1>6, <1>7, Sizes, Numbers
  DEF Balanced, LeasesPay, AttemptsPay, MessagesPay, SettledRowsRest, Settled, Running

\* A row that is written delivered is settled: the message is the one that
\* settles it.
LEMMA SuccessIsPaid ==
    ASSUME LedgerInvariant, NEW p \in Processes, WriteDelivered(p), NEW r \in Rows
    PROVE  Balanced(r)'
<1> USE DEF history
<1>1. TypeOK /\ TypeInvariant /\ OneItemPerRow /\ Balanced(r)
  BY DEF LedgerInvariant, Ledger, TypeInvariant
<1>2. /\ UNCHANGED <<sent, lost, lapses>>
      /\ \A q \in Processes \ {p} : batch'[q] = batch[q] /\ result'[q] = result[q]
      /\ batch'[p] = batch[p] /\ result'[p] = NoItem
      /\ result[p] # NoItem /\ result[p].write = "delivered"
  BY <1>1 DEF WriteDelivered, TypeOK
<1>3. CASE result[p].item.row = r
  <2>1. \A i \in batch[p] : i.row # r
    BY <1>1, <1>2, <1>3 DEF OneItemPerRow
  <2>2. /\ Has(batch[p], result[p], r) /\ ~Has(batch'[p], result'[p], r)
        /\ ~HasEarly(batch'[p], result'[p], r)
        /\ ~HasUndelivered(batch[p], result[p], r) /\ ~HasUndelivered(batch'[p], result'[p], r)
    BY <1>2, <1>3, <2>1 DEF Has, HasEarly, HasUndelivered
  <2>3. /\ Holders(r)' = Holders(r) \ {p} /\ Early(r)' = Early(r) \ {p}
    BY <1>2, <2>2, StepMoves
  <2>4. Undelivered(r)' = Undelivered(r)
    BY <1>2, <2>2, StepStays
  <2>5. p \in Holders(r)
    BY <2>2, Membership
  <2>6. /\ IsFiniteSet(Holders(r)') /\ Cardinality(Holders(r)') = Cardinality(Holders(r)) - 1
    BY <2>3, <2>5, Sizes, Leave
  <2>8. /\ row'[r].attempts = row[r].attempts /\ row'[r].lease = "none"
        /\ row'[r].delivered /\ row'[r].failed = row[r].failed
    BY <1>1, <1>3 DEF WriteDelivered, TypeOK, OutboxRow
  <2>9. Cardinality(Holders(r)) >= 1
    BY <2>6, Sizes, FS_CardinalityType
  <2>10. /\ LeasesPay(r)' /\ AttemptsPay(r)' /\ MessagesPay(r)'
    BY <1>1, <1>2, <2>4, <2>6, <2>8, Sizes, Numbers
    DEF Balanced, LeasesPay, AttemptsPay, MessagesPay, SettledRowsRest, Settled, Running
  <2>11. SettledRowsRest(r)'
    BY <1>1, <1>2, <2>8, <2>9, Sizes, Numbers
    DEF Balanced, LeasesPay, SettledRowsRest, Settled, Running
  <2> QED
    BY <2>6, <2>10, <2>11 DEF Balanced
<1>4. CASE result[p].item.row # r
  <2>1. /\ Has(batch'[p], result'[p], r) <=> Has(batch[p], result[p], r)
        /\ HasEarly(batch'[p], result'[p], r) <=> HasEarly(batch[p], result[p], r)
        /\ HasUndelivered(batch'[p], result'[p], r) <=> HasUndelivered(batch[p], result[p], r)
    BY <1>2, <1>4 DEF Has, HasEarly, HasUndelivered
  <2>2. /\ Holders(r)' = Holders(r) /\ Early(r)' = Early(r)
        /\ Undelivered(r)' = Undelivered(r)
    BY <1>2, <2>1, StepStays
  <2>3. row'[r] = row[r]
    BY <1>1, <1>4 DEF WriteDelivered, TypeOK
  <2> QED
    BY <1>1, <1>2, <2>2, <2>3
    DEF Balanced, LeasesPay, AttemptsPay, MessagesPay, SettledRowsRest, Settled, Running
<1> QED
  BY <1>3, <1>4

\* A success whose write fails is one that was lost.
LEMMA LostSuccessIsPaid ==
    ASSUME LedgerInvariant, NEW p \in Processes, WriteDeliveredFails(p), NEW r \in Rows
    PROVE  Balanced(r)'
<1> USE DEF history
<1>1. TypeOK /\ TypeInvariant /\ OneItemPerRow /\ Balanced(r)
  BY DEF LedgerInvariant, Ledger, TypeInvariant
<1>2. /\ UNCHANGED <<row, sent, lapses>>
      /\ \A q \in Processes \ {p} : batch'[q] = batch[q] /\ result'[q] = result[q]
      /\ batch'[p] = batch[p] /\ result'[p] = [result[p] EXCEPT !.write = "temporary"]
      /\ result[p] # NoItem /\ result[p].write = "delivered"
  BY <1>1 DEF WriteDeliveredFails, TypeOK
<1>3. result'[p] # NoItem /\ result'[p].item = result[p].item /\ result'[p].write = "temporary"
  <2>1. result[p] \in Result
    BY <1>1, <1>2 DEF TypeOK
  <2>2. [result[p] EXCEPT !.write = "temporary"] \in Result
    BY <2>1 DEF Result
  <2> QED
    BY <1>2, <2>1, <2>2, NoItemIsNoResult DEF Result
<1>4. /\ Has(batch'[p], result'[p], r) <=> Has(batch[p], result[p], r)
      /\ HasEarly(batch'[p], result'[p], r) <=> HasEarly(batch[p], result[p], r)
  BY <1>2, <1>3 DEF Has, HasEarly
<1>5. Holders(r)' = Holders(r) /\ Early(r)' = Early(r)
  BY <1>2, <1>4, StepStays
<1>6. CASE result[p].item.row = r
  <2>1. HasUndelivered(batch'[p], result'[p], r) /\ ~HasUndelivered(batch[p], result[p], r)
    BY <1>2, <1>3, <1>6 DEF Has, HasUndelivered
  <2>2. Undelivered(r)' = Undelivered(r) \cup {p} /\ p \notin Undelivered(r)
    BY <1>2, <2>1, StepMoves, Membership
  <2>3. Cardinality(Undelivered(r)') = Cardinality(Undelivered(r)) + 1
    BY <2>2, Sizes, Join
  <2>4. lost'[r] = lost[r] + 1
    BY <1>1, <1>6 DEF WriteDeliveredFails, TypeOK
  <2> QED
    BY <1>1, <1>2, <1>5, <2>3, <2>4, Sizes, Numbers
    DEF Balanced, LeasesPay, AttemptsPay, MessagesPay, SettledRowsRest, Settled, Running
<1>7. CASE result[p].item.row # r
  <2>1. HasUndelivered(batch'[p], result'[p], r) <=> HasUndelivered(batch[p], result[p], r)
    BY <1>2, <1>3, <1>7 DEF Has, HasUndelivered
  <2>2. Undelivered(r)' = Undelivered(r)
    BY <1>2, <2>1, StepStays
  <2>3. lost'[r] = lost[r]
    BY <1>1, <1>7 DEF WriteDeliveredFails, TypeOK
  <2> QED
    BY <1>1, <1>2, <1>5, <2>2, <2>3
    DEF Balanced, LeasesPay, AttemptsPay, MessagesPay, SettledRowsRest, Settled, Running
<1> QED
  BY <1>6, <1>7

\* Marking the target degraded moves nothing.
LEMMA MarkIsFree ==
    ASSUME LedgerInvariant, NEW p \in Processes, MarkDegraded(p), NEW r \in Rows
    PROVE  Balanced(r)'
<1> USE DEF history
<1>1. TypeOK /\ TypeInvariant /\ Balanced(r)
  BY DEF LedgerInvariant, Ledger, TypeInvariant
<1>2. /\ UNCHANGED <<row, sent, lost, lapses>>
      /\ \A q \in Processes \ {p} : batch'[q] = batch[q] /\ result'[q] = result[q]
      /\ batch'[p] = batch[p] /\ result'[p] = [result[p] EXCEPT !.write = "marked"]
      /\ result[p] # NoItem /\ result[p].write = "permanent"
  BY <1>1 DEF MarkDegraded, TypeOK
<1>3. result'[p] # NoItem /\ result'[p].item = result[p].item /\ result'[p].write = "marked"
  <2>1. result[p] \in Result
    BY <1>1, <1>2 DEF TypeOK
  <2>2. [result[p] EXCEPT !.write = "marked"] \in Result
    BY <2>1 DEF Result
  <2> QED
    BY <1>2, <2>1, <2>2, NoItemIsNoResult DEF Result
<1>4. /\ Has(batch'[p], result'[p], r) <=> Has(batch[p], result[p], r)
      /\ HasEarly(batch'[p], result'[p], r) <=> HasEarly(batch[p], result[p], r)
  BY <1>2, <1>3 DEF Has, HasEarly
<1>5. HasUndelivered(batch'[p], result'[p], r) <=> HasUndelivered(batch[p], result[p], r)
  BY <1>2, <1>3, <1>4 DEF HasUndelivered
<1>6. Holders(r)' = Holders(r) /\ Early(r)' = Early(r) /\ Undelivered(r)' = Undelivered(r)
  BY <1>2, <1>4, <1>5, StepStays
<1> QED
  BY <1>1, <1>2, <1>6
  DEF Balanced, LeasesPay, AttemptsPay, MessagesPay, SettledRowsRest, Settled, Running

\* A failure write may clear the lease of another holder: its own attempt,
\* which was below the limit if the row goes back, pays for the next lease.
LEMMA FailureIsPaid ==
    ASSUME LedgerInvariant, NEW p \in Processes, WriteFailure(p), NEW r \in Rows
    PROVE  Balanced(r)'
<1> USE DEF history
<1>1. TypeOK /\ TypeInvariant /\ OneItemPerRow /\ Balanced(r)
  BY DEF LedgerInvariant, Ledger, TypeInvariant
<1>2. /\ UNCHANGED <<sent, lost, lapses>>
      /\ \A q \in Processes \ {p} : batch'[q] = batch[q] /\ result'[q] = result[q]
      /\ batch'[p] = batch[p] /\ result'[p] = NoItem
      /\ result[p] # NoItem /\ result[p].write # "delivered"
  BY <1>1 DEF WriteFailure, TypeOK
<1>3. CASE result[p].item.row = r
  <2> DEFINE givenUp == result[p].write = "marked" \/ Exhausted(result[p].item)
  <2>1. \A i \in batch[p] : i.row # r
    BY <1>1, <1>2, <1>3 DEF OneItemPerRow
  <2>2. /\ Has(batch[p], result[p], r) /\ ~Has(batch'[p], result'[p], r)
        /\ ~HasEarly(batch'[p], result'[p], r)
        /\ HasUndelivered(batch[p], result[p], r) /\ ~HasUndelivered(batch'[p], result'[p], r)
    BY <1>2, <1>3, <2>1 DEF Has, HasEarly, HasUndelivered
  <2>3. ~givenUp => HasEarly(batch[p], result[p], r)
    BY <1>2, <1>3 DEF HasEarly
  <2>4. /\ Holders(r)' = Holders(r) \ {p} /\ Early(r)' = Early(r) \ {p}
        /\ Undelivered(r)' = Undelivered(r) \ {p}
    BY <1>2, <2>2, StepMoves
  <2>5. p \in Holders(r) /\ p \in Undelivered(r) /\ (~givenUp => p \in Early(r))
    BY <2>2, <2>3, Membership
  <2>6. /\ IsFiniteSet(Holders(r)') /\ Cardinality(Holders(r)') = Cardinality(Holders(r)) - 1
        /\ Cardinality(Undelivered(r)') = Cardinality(Undelivered(r)) - 1
    <3>1. IsFiniteSet(Holders(r)) /\ IsFiniteSet(Undelivered(r))
      BY Sizes
    <3>2. /\ IsFiniteSet(Holders(r)') /\ Cardinality(Holders(r)') = Cardinality(Holders(r)) - 1
      BY <2>4, <2>5, <3>1, Leave
    <3>3. Cardinality(Undelivered(r)') = Cardinality(Undelivered(r)) - 1
      BY <2>4, <2>5, <3>1, Leave
    <3> QED
      BY <3>2, <3>3
  <2>7. ~givenUp => Cardinality(Early(r)') = Cardinality(Early(r)) - 1
    BY <2>4, <2>5, Sizes, Leave
  <2>8. /\ row'[r].attempts = row[r].attempts /\ row'[r].lease = "none"
        /\ row'[r].delivered = row[r].delivered /\ row'[r].failed = (row[r].failed \/ givenUp)
    BY <1>1, <1>3 DEF WriteFailure, TypeOK, OutboxRow
  <2> HIDE DEF givenUp
  <2>9. Cardinality(Holders(r)) >= 1
    BY <2>6, Sizes, FS_CardinalityType
  <2>10. LeasesPay(r)' /\ MessagesPay(r)'
    BY <1>1, <1>2, <2>6, <2>8, Sizes, Numbers
    DEF Balanced, LeasesPay, MessagesPay, SettledRowsRest, Settled, Running
  <2>11. AttemptsPay(r)'
    <3>1. row[r].attempts <= MaxAttempts + lapses[r]
      BY <1>1 DEF Balanced, AttemptsPay
    <3>2. ASSUME ~Settled(r)', row[r].attempts >= MaxAttempts
          PROVE  row[r].attempts + Cardinality(Early(r)') + 1 <= MaxAttempts + lapses[r]
      <4>1. ~givenUp /\ ~Settled(r)
        BY <2>8, <3>2 DEF Settled
      <4>2. row[r].attempts + Cardinality(Early(r)) + 1 <= MaxAttempts + lapses[r] + Running(r)
        BY <1>1, <3>2, <4>1 DEF Balanced, AttemptsPay
      <4> QED
        BY <1>1, <2>7, <4>1, <4>2, Sizes, Numbers
    <3>3. Running(r)' = 0
      BY <2>8 DEF Running
    <3> QED
      BY <1>1, <1>2, <2>8, <3>1, <3>2, <3>3, Numbers DEF AttemptsPay
  <2>12. SettledRowsRest(r)'
    BY <1>1, <1>2, <2>8, <2>9, Sizes, Numbers
    DEF Balanced, LeasesPay, SettledRowsRest, Settled, Running
  <2> QED
    BY <2>6, <2>10, <2>11, <2>12 DEF Balanced
<1>4. CASE result[p].item.row # r
  <2>1. /\ Has(batch'[p], result'[p], r) <=> Has(batch[p], result[p], r)
        /\ HasEarly(batch'[p], result'[p], r) <=> HasEarly(batch[p], result[p], r)
        /\ HasUndelivered(batch'[p], result'[p], r) <=> HasUndelivered(batch[p], result[p], r)
    BY <1>2, <1>4 DEF Has, HasEarly, HasUndelivered
  <2>2. /\ Holders(r)' = Holders(r) /\ Early(r)' = Early(r)
        /\ Undelivered(r)' = Undelivered(r)
    BY <1>2, <2>1, StepStays
  <2>3. row'[r] = row[r]
    BY <1>1, <1>4 DEF WriteFailure, TypeOK
  <2> QED
    BY <1>1, <1>2, <2>2, <2>3
    DEF Balanced, LeasesPay, AttemptsPay, MessagesPay, SettledRowsRest, Settled, Running
<1> QED
  BY <1>3, <1>4

\* A lease fills the batch of an idle process with one item per row, and a
\* delivery takes its item out of it.
LEMMA OneItemPerRowStep ==
    ASSUME LedgerInvariant, [Next]_vars PROVE OneItemPerRow'
<1> USE DEF history
<1>0. TypeOK /\ OneItemPerRow
  BY DEF LedgerInvariant, TypeInvariant
<1>1. CASE UNCHANGED <<batch, result>>
  BY <1>0, <1>1 DEF OneItemPerRow
<1>2. ASSUME NEW p \in Processes, Lease(p) PROVE OneItemPerRow'
  <2>1. PICK S \in SUBSET {r \in Rows : Leasable(r)} :
          batch' = [batch EXCEPT ![p] =
                     {[row |-> r, attempts |-> row[r].attempts + 1] : r \in S}]
    BY <1>2 DEF Lease
  <2>2. result' = result /\ result[p] = NoItem
    BY <1>2 DEF Lease, Idle, Holding
  <2>3. batch'[p] = {[row |-> r, attempts |-> row[r].attempts + 1] : r \in S}
    BY <1>0, <2>1 DEF TypeOK
  <2>4. \A i, j \in batch'[p] : i.row = j.row => i = j
    BY <2>3
  <2>5. \A q \in Processes \ {p} : batch'[q] = batch[q]
    BY <1>0, <2>1 DEF TypeOK
  <2> QED
    BY <1>0, <2>2, <2>4, <2>5 DEF OneItemPerRow
<1>3. ASSUME NEW p \in Processes, DeliverOne(p) PROVE OneItemPerRow'
  <2>1. PICK item \in batch[p] : \E outcome \in OutcomesOf(item) : Deliver(p, item, outcome)
    BY <1>3 DEF DeliverOne
  <2>2. PICK outcome : Deliver(p, item, outcome)
    BY <2>1
  <2>3. /\ batch'[p] = batch[p] \ {item} /\ result'[p].item = item
        /\ \A q \in Processes \ {p} : batch'[q] = batch[q] /\ result'[q] = result[q]
    BY <1>0, <2>2 DEF Deliver, TypeOK
  <2>4. \A i \in batch'[p] : i.row # item.row
    BY <1>0, <2>3 DEF OneItemPerRow
  <2> QED
    BY <1>0, <2>3, <2>4 DEF OneItemPerRow
<1>4. ASSUME NEW p \in Processes, WriteDelivered(p) \/ WriteFailure(p) PROVE OneItemPerRow'
  <2>1. batch' = batch /\ \A q \in Processes : result'[q] \in {result[q], NoItem}
    BY <1>0, <1>4 DEF WriteDelivered, WriteFailure, TypeOK
  <2> QED
    BY <1>0, <2>1 DEF OneItemPerRow
<1>5. ASSUME NEW p \in Processes, WriteDeliveredFails(p) \/ MarkDegraded(p) PROVE OneItemPerRow'
  <2>1. batch' = batch /\ \A q \in Processes : result[q] = NoItem => result'[q] = NoItem
    BY <1>0, <1>5 DEF WriteDeliveredFails, MarkDegraded, TypeOK
  <2>2. \A q \in Processes : result[q] # NoItem => result'[q].item = result[q].item
    BY <1>0, <1>5 DEF WriteDeliveredFails, MarkDegraded, TypeOK, Result
  <2> QED
    BY <1>0, <2>1, <2>2 DEF OneItemPerRow
<1>6. ASSUME NEW p \in Processes, DrainAborts(p) \/ Crash(p) PROVE OneItemPerRow'
  <2>1. /\ batch'[p] = {} /\ result'[p] = NoItem
        /\ \A q \in Processes \ {p} : batch'[q] = batch[q] /\ result'[q] = result[q]
    BY <1>0, <1>6 DEF DrainAborts, Crash, TypeOK
  <2> QED
    BY <1>0, <2>1 DEF OneItemPerRow
<1> QED
  BY <1>1, <1>2, <1>3, <1>4, <1>5, <1>6
  DEF Next, WriteResult, Record, LeaseLapses, BackoffEnds, vars

-----------------------------------------------------------------------------
\* The books are balanced at the start, and every step keeps them so.
LEMMA LedgerInit == Init => LedgerInvariant
<1> SUFFICES ASSUME Init PROVE LedgerInvariant
  OBVIOUS
<1>1. OneItemPerRow
  BY DEF Init, OneItemPerRow
<1>2. ASSUME NEW r \in Rows PROVE Balanced(r)
  <2>1. Holders(r) = {} /\ Early(r) = {} /\ Undelivered(r) = {}
    BY HoldersHave DEF Init, Early, Undelivered, HoldersIn, EarlyIn, UndeliveredIn,
                       Has, HasEarly, HasUndelivered
  <2>2. IsFiniteSet(Holders(r)) /\ Cardinality(Holders(r)) = 0
        /\ Cardinality(Early(r)) = 0 /\ Cardinality(Undelivered(r)) = 0
    BY <2>1, FS_EmptySet
  <2>3. /\ row[r].attempts = 0 /\ row[r].lease = "none"
        /\ ~row[r].delivered /\ ~row[r].failed
        /\ sent[r] = 0 /\ lost[r] = 0 /\ lapses[r] = 0
    BY DEF Init
  <2>4. MaxAttempts \in Nat /\ MaxAttempts > 0
    BY OutboxAssumption
  <2> QED
    BY <2>2, <2>3, <2>4
    DEF Balanced, LeasesPay, AttemptsPay, MessagesPay, SettledRowsRest, Settled, Running
<1> QED
  BY <1>1, <1>2, TypeInit DEF LedgerInvariant, Ledger

LEMMA LedgerStep == LedgerInvariant /\ [Next]_vars => LedgerInvariant'
<1> SUFFICES ASSUME LedgerInvariant, [Next]_vars PROVE LedgerInvariant'
  OBVIOUS
<1>1. TypeInvariant'
  BY TypeStep DEF LedgerInvariant
<1>2. ASSUME NEW r \in Rows PROVE Balanced(r)'
  <2>1. CASE UNCHANGED vars
    <3>1. Balanced(r)
      BY DEF LedgerInvariant, Ledger
    <3> QED
      BY <2>1, <3>1, NothingMoves
      DEF vars, history, Balanced, LeasesPay, AttemptsPay, MessagesPay, SettledRowsRest,
          Settled, Running
  <2>2. ASSUME NEW s \in Rows, Record(s) \/ LeaseLapses(s) \/ BackoffEnds(s)
        PROVE  Balanced(r)'
    BY <2>2, RowBecomesDue, LapseIsPaid
  <2>3. ASSUME NEW p \in Processes,
               \/ Lease(p) \/ DeliverOne(p) \/ WriteResult(p)
               \/ WriteDeliveredFails(p) \/ DrainAborts(p) \/ Crash(p)
        PROVE  Balanced(r)'
    BY <2>3, LeaseIsPaid, DeliveryIsPaid, SuccessIsPaid, LostSuccessIsPaid, MarkIsFree,
       FailureIsPaid, DropIsPaid DEF WriteResult
  <2> QED
    BY <2>1, <2>2, <2>3 DEF Next
<1> QED
  BY <1>1, <1>2, OneItemPerRowStep DEF LedgerInvariant, Ledger

\* A row is attempted at most MAX_ATTEMPTS times plus once for each lease of it
\* that ran out, for any number of processes and rows.
THEOREM AttemptsAreBounded == Spec => []AttemptsBounded
<1>1. LedgerInvariant => AttemptsBounded
  BY DEF LedgerInvariant, Ledger, Balanced, AttemptsPay, AttemptsBounded
<1> QED
  BY LedgerInit, LedgerStep, <1>1, PTL DEF Spec

\* Every repeated message has a lost success or a lapsed lease behind it.
THEOREM DuplicatesAreExplained == Spec => []DuplicatesHaveACause
<1>1. LedgerInvariant => DuplicatesHaveACause
  <2> SUFFICES ASSUME LedgerInvariant, NEW r \in Rows
               PROVE  sent[r] <= 1 + lost[r] + lapses[r]
    BY DEF DuplicatesHaveACause
  <2>1. MessagesPay(r) /\ TypeInvariant
    BY DEF LedgerInvariant, Ledger, Balanced
  <2> QED
    BY <2>1, Sizes, Numbers DEF MessagesPay
<1> QED
  BY LedgerInit, LedgerStep, <1>1, PTL DEF Spec

\* Without a lapsed lease a row has one holder and one outcome.
THEOREM ContentionIsExplained == Spec => []ContentionNeedsALapse
<1>1. LedgerInvariant => ContentionNeedsALapse
  <2> SUFFICES ASSUME LedgerInvariant, NEW r \in Rows,
                      \/ row[r].delivered /\ row[r].failed
                      \/ Cardinality(Holders(r)) > 1
               PROVE  lapses[r] > 0
    BY DEF ContentionNeedsALapse
  <2>1. LeasesPay(r) /\ SettledRowsRest(r) /\ TypeInvariant
    BY DEF LedgerInvariant, Ledger, Balanced
  <2> QED
    BY <2>1, Sizes, Numbers DEF LeasesPay, SettledRowsRest
<1> QED
  BY LedgerInit, LedgerStep, <1>1, PTL DEF Spec

-----------------------------------------------------------------------------
\* What a process knows of its rows: no item was leased more often than its row,
\* and a row about to be failed for good has its target marked.
CausesKnown ==
    /\ \A p \in Processes : \A i \in batch[p] : i.attempts <= row[i.row].attempts
    /\ \A p \in Processes : result[p] # NoItem =>
        /\ result[p].item.attempts <= row[result[p].item.row].attempts
        /\ result[p].write = "marked" => result[p].item.row \in degraded

CauseInvariant == TypeInvariant /\ CausesKnown /\ GivenUpForCause

LEMMA CauseStep == CauseInvariant /\ [Next]_vars => CauseInvariant'
<1> SUFFICES ASSUME CauseInvariant, [Next]_vars PROVE CausesKnown' /\ GivenUpForCause'
  BY TypeStep DEF CauseInvariant
<1> USE DEF history
<1>0. /\ TypeOK /\ CausesKnown /\ GivenUpForCause
      /\ \A p \in Processes : \A i \in batch[p] : i.row \in Rows /\ i.attempts \in Nat
      /\ \A p \in Processes : result[p] # NoItem =>
            result[p].item.row \in Rows /\ result[p].item.attempts \in Nat
      /\ \A r \in Rows : row[r].attempts \in Nat
  BY DEF CauseInvariant, TypeInvariant, TypeOK, Item, Result, OutboxRow
<1>1. ASSUME UNCHANGED <<batch, result, degraded>>,
             \A r \in Rows : row'[r].attempts = row[r].attempts /\ row'[r].failed = row[r].failed
      PROVE  CausesKnown' /\ GivenUpForCause'
  BY <1>0, <1>1 DEF CausesKnown, GivenUpForCause
<1>2. CASE UNCHANGED vars
  BY <1>1, <1>2 DEF vars
<1>3. ASSUME NEW s \in Rows, Record(s) \/ LeaseLapses(s) \/ BackoffEnds(s)
      PROVE  CausesKnown' /\ GivenUpForCause'
  BY <1>0, <1>1, <1>3 DEF Record, LeaseLapses, BackoffEnds, TypeOK, OutboxRow
<1>4. ASSUME NEW p \in Processes, Lease(p) PROVE CausesKnown' /\ GivenUpForCause'
  <2>1. PICK S \in SUBSET {r \in Rows : Leasable(r)} :
          /\ row' = [r \in Rows |-> IF r \in S
                      THEN [row[r] EXCEPT !.lease = "held", !.attempts = @ + 1]
                      ELSE row[r]]
          /\ batch' = [batch EXCEPT ![p] =
                        {[row |-> r, attempts |-> row[r].attempts + 1] : r \in S}]
    BY <1>4 DEF Lease
  <2>2. UNCHANGED <<result, degraded>>
    BY <1>4 DEF Lease
  <2>3. \A r \in Rows : row[r] \in OutboxRow
    BY <1>0 DEF TypeOK
  <2>4. \A r \in Rows : /\ row'[r].attempts = IF r \in S THEN row[r].attempts + 1
                                                      ELSE row[r].attempts
                        /\ row'[r].failed = row[r].failed
    BY <2>1, <2>3 DEF OutboxRow
  <2>5. \A r \in Rows : row'[r].attempts >= row[r].attempts /\ row'[r].attempts \in Nat
    BY <1>0, <2>4
  <2>6. \A i \in batch'[p] : i.attempts <= row'[i.row].attempts
    <3>1. batch'[p] = {[row |-> r, attempts |-> row[r].attempts + 1] : r \in S}
      BY <1>0, <2>1 DEF TypeOK
    <3> QED
      BY <1>0, <2>4, <3>1
  <2>7. \A q \in Processes \ {p} : batch'[q] = batch[q]
    BY <1>0, <2>1 DEF TypeOK
  <2>8. \A q \in Processes : \A i \in batch'[q] : i.attempts <= row'[i.row].attempts
    <3> SUFFICES ASSUME NEW q \in Processes, q # p, NEW i \in batch[q]
                 PROVE  i.attempts <= row'[i.row].attempts
      BY <2>6, <2>7
    <3>1. i.row \in Rows /\ i.attempts \in Nat /\ i.attempts <= row[i.row].attempts
      BY <1>0 DEF CausesKnown
    <3> QED
      BY <1>0, <2>5, <3>1
  <2>9. \A q \in Processes : result[q] # NoItem =>
          result[q].item.attempts <= row'[result[q].item.row].attempts
    <3> SUFFICES ASSUME NEW q \in Processes, result[q] # NoItem
                 PROVE  result[q].item.attempts <= row'[result[q].item.row].attempts
      OBVIOUS
    <3>1. /\ result[q].item.row \in Rows /\ result[q].item.attempts \in Nat
          /\ result[q].item.attempts <= row[result[q].item.row].attempts
      BY <1>0 DEF CausesKnown
    <3> QED
      BY <1>0, <2>5, <3>1
  <2>10. CausesKnown'
    BY <1>0, <2>2, <2>8, <2>9 DEF CausesKnown
  <2>11. GivenUpForCause'
    <3> SUFFICES ASSUME NEW r \in Rows, row'[r].failed
                 PROVE  row'[r].attempts >= MaxAttempts \/ r \in degraded'
      BY DEF GivenUpForCause
    <3>1. row[r].attempts >= MaxAttempts \/ r \in degraded
      BY <1>0, <2>4 DEF GivenUpForCause
    <3> QED
      BY <1>0, <2>2, <2>5, <3>1, OutboxAssumption
  <2> QED
    BY <2>10, <2>11
<1>5. ASSUME NEW p \in Processes, DeliverOne(p) PROVE CausesKnown' /\ GivenUpForCause'
  <2>1. PICK item \in batch[p] : \E outcome \in OutcomesOf(item) : Deliver(p, item, outcome)
    BY <1>5 DEF DeliverOne
  <2>2. PICK outcome \in Outcome : Deliver(p, item, outcome)
    BY <2>1 DEF OutcomesOf
  <2>3. /\ UNCHANGED <<row, degraded>>
        /\ batch'[p] = batch[p] \ {item}
        /\ result'[p].item = item /\ result'[p].write # "marked"
        /\ \A q \in Processes \ {p} : batch'[q] = batch[q] /\ result'[q] = result[q]
    BY <1>0, <2>2 DEF Deliver, TypeOK, Outcome
  <2> QED
    BY <1>0, <2>3 DEF CausesKnown, GivenUpForCause
<1>6. ASSUME NEW p \in Processes, WriteDelivered(p) PROVE CausesKnown' /\ GivenUpForCause'
  <2>1. /\ UNCHANGED <<batch, degraded>>
        /\ \A q \in Processes : result'[q] \in {result[q], NoItem}
        /\ \A r \in Rows : row'[r].attempts = row[r].attempts /\ row'[r].failed = row[r].failed
    BY <1>0, <1>6 DEF WriteDelivered, TypeOK, OutboxRow
  <2> QED
    BY <1>0, <2>1 DEF CausesKnown, GivenUpForCause
<1>7. ASSUME NEW p \in Processes, WriteDeliveredFails(p) PROVE CausesKnown' /\ GivenUpForCause'
  <2>1. /\ UNCHANGED <<row, batch, degraded>> /\ result[p] # NoItem
        /\ result'[p].item = result[p].item /\ result'[p].write # "marked"
        /\ \A q \in Processes \ {p} : result'[q] = result[q]
    BY <1>0, <1>7 DEF WriteDeliveredFails, TypeOK, Result
  <2> QED
    BY <1>0, <2>1 DEF CausesKnown, GivenUpForCause
<1>8. ASSUME NEW p \in Processes, MarkDegraded(p) PROVE CausesKnown' /\ GivenUpForCause'
  <2>1. /\ UNCHANGED <<row, batch>> /\ result[p] # NoItem
        /\ degraded' = degraded \cup {result[p].item.row}
        /\ result'[p].item = result[p].item
        /\ \A q \in Processes \ {p} : result'[q] = result[q]
    BY <1>0, <1>8 DEF MarkDegraded, TypeOK, Result
  <2> QED
    BY <1>0, <2>1 DEF CausesKnown, GivenUpForCause
<1>9. ASSUME NEW p \in Processes, WriteFailure(p) PROVE CausesKnown' /\ GivenUpForCause'
  <2> DEFINE r == result[p].item.row
             givenUp == result[p].write = "marked" \/ Exhausted(result[p].item)
  <2>1. /\ UNCHANGED <<batch, degraded>> /\ result[p] # NoItem /\ r \in Rows
        /\ \A q \in Processes : result'[q] \in {result[q], NoItem}
    <3>1. result \in [Processes -> Result \cup {NoItem}] /\ result[p] # NoItem
      <4>1. result \in [Processes -> Result \cup {NoItem}]
        BY <1>0 DEF TypeOK
      <4>2. result[p] # NoItem
        BY <1>9 DEF WriteFailure
      <4> QED
        BY <4>1, <4>2
    <3>2. r \in Rows
      BY <1>0, <3>1
    <3>3. UNCHANGED <<batch, degraded>> /\ result' = [result EXCEPT ![p] = NoItem]
      BY <1>9 DEF WriteFailure
    <3> QED
      BY <3>1, <3>2, <3>3
  <2> DEFINE written == [row[r] EXCEPT !.lease = "none",
                                       !.failed = row[r].failed \/ givenUp,
                                       !.due = row[r].due /\ givenUp]
  <2>a. row' = [row EXCEPT ![r] = written]
    BY <1>9, Zenon DEF WriteFailure
  <2>b. row \in [Rows -> OutboxRow] /\ row[r] \in OutboxRow
    BY <1>0, <2>1 DEF TypeOK
  <2>c. /\ written \in OutboxRow /\ written.attempts = row[r].attempts
        /\ (written.failed => row[r].failed \/ givenUp)
    <3> HIDE DEF givenUp
    <3> QED
      BY <2>b, FailedRow
  <2>d. row'[r] = written /\ \A s \in Rows \ {r} : row'[s] = row[s]
    <3> HIDE DEF written
    <3> QED
      BY <2>1, <2>a, <2>b, <2>c, OneRowWritten
  <2>e. /\ row'[r].attempts = row[r].attempts
        /\ (row'[r].failed => row[r].failed \/ givenUp)
    BY <2>c, <2>d, Zenon
  <2>2. givenUp => row[r].attempts >= MaxAttempts \/ r \in degraded
    BY <1>0, <2>1, OutboxAssumption DEF CausesKnown, Exhausted
  <2>3. GivenUpForCause'
    BY <1>0, <2>1, <2>2, <2>d, <2>e DEF GivenUpForCause
  <2>4. \A s \in Rows : row'[s].attempts = row[s].attempts
    BY <2>d, <2>e
  <2> QED
    BY <1>0, <2>1, <2>3, <2>4 DEF CausesKnown
<1>10. ASSUME NEW p \in Processes, DrainAborts(p) \/ Crash(p)
       PROVE  CausesKnown' /\ GivenUpForCause'
  <2>1. /\ UNCHANGED <<row, degraded>>
        /\ batch'[p] = {} /\ result'[p] = NoItem
        /\ \A q \in Processes \ {p} : batch'[q] = batch[q] /\ result'[q] = result[q]
    BY <1>0, <1>10 DEF DrainAborts, Crash, TypeOK
  <2> QED
    BY <1>0, <2>1 DEF CausesKnown, GivenUpForCause
<1> QED
  BY <1>2, <1>3, <1>4, <1>5, <1>6, <1>7, <1>8, <1>9, <1>10 DEF Next, WriteResult

\* A row is given up after MAX_ATTEMPTS or with its target marked degraded.
THEOREM RowsAreGivenUpForCause == Spec => []GivenUpForCause
<1>1. Init => CauseInvariant
  BY TypeInit DEF Init, CauseInvariant, CausesKnown, GivenUpForCause
<1>2. CauseInvariant => GivenUpForCause
  BY DEF CauseInvariant
<1> QED
  BY <1>1, <1>2, CauseStep, PTL DEF Spec

-----------------------------------------------------------------------------
(* Where the alerts go (AlertTargets).                                     *)

HoldersAreAlone == \A p, q \in Requests : HoldsUser(p) /\ HoldsUser(q) => p = q

VerifiedAreReceived == \A i \in Ids : targets[i].verified => i \in received

Confirmed(d) == \E i \in received : DestinationOf(i) = d

(* What a start, a check and a removal know while they are under way.      *)
StartKnows(p) ==
    /\ At(p, {"insert"}) =>
         /\ request[p].target \in Ids \cup {0}
         /\ Live(request[p].channel) \subseteq {request[p].target}
    /\ At(p, {"send", "undo"}) => request[p].target \in Ids

CheckKnows(p) == At(p, {"verify", "check"}) => request[p].code \in received \cup {Wrong}

RemovalKnows(p) ==
    /\ At(p, {"announce", "mark", "unlink"}) =>
         /\ request[p].target \in Ids \cup {0}
         /\ request[p].verified => request[p].target # 0 /\ targets[request[p].target].verified
         /\ \A d \in request[p].to : Confirmed(d)
    /\ At(p, {"announce", "mark"}) => request[p].target # 0
    /\ At(p, {"announce"}) => request[p].verified
    /\ At(p, {"mark", "unlink"}) /\ request[p].verified
       /\ targets[request[p].target].removal = "no" =>
         DestinationOf(request[p].target) \in request[p].to

Knows(p) == StartKnows(p) /\ CheckKnows(p) /\ RemovalKnows(p)

TargetsInductive ==
    /\ TargetsTypeOK
    /\ HoldersAreAlone /\ OneLiveTarget
    /\ VerifiedAreReceived /\ AlertsGoToConfirmedAddresses
    /\ ConfirmedRemovalIsAnnounced
    /\ \A p \in Requests : Knows(p)

-----------------------------------------------------------------------------
(* Rows.                                                                   *)

LEMMA RowTypes ==
    ASSUME TargetsTypeOK
    PROVE  /\ Len(targets) \in Nat /\ Ids = 1 .. Len(targets) /\ 0 \notin Ids
           /\ \A i \in Ids : targets[i] \in Target
           /\ \A c : Live(c) \subseteq Ids
  BY DEF TargetsTypeOK, Ids, Live

(* A row that is written keeps its place.                                  *)
LEMMA RowWritten ==
    ASSUME TargetsTypeOK, NEW i \in Ids, NEW written \in Target
    PROVE  LET rows == [targets EXCEPT ![i] = written] IN
           /\ rows \in Seq(Target) /\ Len(rows) = Len(targets)
           /\ \A j \in Ids : rows[j] = IF j = i THEN written ELSE targets[j]
  BY DEF TargetsTypeOK, Ids

(* What no step takes back: rows keep their destination, a verified row    *)
(* stays verified, a removed one removed, and a code that arrived did.     *)
RowsLast ==
    /\ Len(targets) <= Len(targets')
    /\ \A i \in Ids :
         /\ targets'[i].channel = targets[i].channel
         /\ targets'[i].address = targets[i].address
         /\ targets[i].verified => targets'[i].verified
         /\ targets[i].removal # "no" => targets'[i].removal = targets[i].removal
    /\ received \subseteq received'

LEMMA LastingRows ==
    ASSUME TargetsTypeOK, TargetsTypeOK', RowsLast
    PROVE  /\ Ids \subseteq Ids'
           /\ \A i \in Ids : DestinationOf(i)' = DestinationOf(i)
           /\ \A d : Confirmed(d) => Confirmed(d)'
  <1>1. Ids \subseteq Ids'
    BY DEF TargetsTypeOK, RowsLast, Ids
  <1>2. ASSUME NEW i \in Ids PROVE DestinationOf(i)' = DestinationOf(i)
    BY <1>1 DEF RowsLast, DestinationOf
  <1>3. ASSUME NEW d, Confirmed(d) PROVE Confirmed(d)'
    <2>1. PICK i \in received : DestinationOf(i) = d
      BY <1>3 DEF Confirmed
    <2>2. i \in Ids /\ i \in received'
      BY <2>1 DEF TargetsTypeOK, Ids, RowsLast
    <2> QED
      BY <1>2, <2>1, <2>2 DEF Confirmed
  <1> QED
    BY <1>1, <1>2, <1>3

(* No row is added in the channels that a start has looked at.             *)
NoneAdded == \A p \in Requests : At(p, {"insert"})' /\ request'[p] = request[p] =>
    \A i \in Ids' : targets'[i].channel = request[p].channel /\ targets'[i].removal = "no"
        => i \in Ids /\ targets[i].removal = "no"

(* A request that does not move goes on knowing what it knows.             *)
LEMMA KnowsStill ==
    ASSUME TargetsInductive, TargetsTypeOK', RowsLast, NoneAdded,
           NEW p \in Requests, request'[p] = request[p]
    PROVE  Knows(p)'
  <1>0. TargetsTypeOK /\ Knows(p)
    BY DEF TargetsInductive
  <1>1. /\ Ids \subseteq Ids' /\ 0 \notin Ids
        /\ \A i \in Ids : DestinationOf(i)' = DestinationOf(i)
        /\ \A d : Confirmed(d) => Confirmed(d)'
    BY <1>0, LastingRows, RowTypes
  <1>2. PICK r : r = request[p]
    OBVIOUS
  <1>3. ASSUME NEW steps PROVE At(p, steps)' <=> At(p, steps)
    BY DEF At
  <1>4. CheckKnows(p)'
    BY <1>0, <1>3 DEF Knows, CheckKnows, RowsLast
  <1>5. StartKnows(p)'
    <2>1. CASE At(p, {"insert"})
      <3>1. At(p, {"insert"})'
        BY <1>3, <2>1
      <3>2. /\ r.target \in Ids \cup {0}
            /\ Live(r.channel) \subseteq {r.target}
        BY <1>0, <1>2, <2>1 DEF Knows, StartKnows
      <3>3. Live(r.channel)' \subseteq Live(r.channel)
        BY <1>2, <3>1 DEF NoneAdded, Live, RowsLast
      <3>4. ~At(p, {"send", "undo"})'
        BY <3>1 DEF At
      <3> QED
        BY <1>1, <1>2, <3>2, <3>3, <3>4 DEF StartKnows
    <2>2. CASE ~At(p, {"insert"})
      BY <1>0, <1>1, <1>3, <2>2 DEF Knows, StartKnows
    <2> QED
      BY <2>1, <2>2
  <1>6. RemovalKnows(p)'
    <2>0. SUFFICES ASSUME At(p, {"announce", "mark", "unlink"}) PROVE RemovalKnows(p)'
      <3>1. CASE ~At(p, {"announce", "mark", "unlink"})
        <4>1. ~At(p, {"announce", "mark", "unlink"})'
          BY <1>3, <3>1
        <4> QED
          BY <4>1 DEF RemovalKnows, At
      <3> QED
        BY <3>1
    <2>1. /\ r.target \in Ids \cup {0}
          /\ r.verified => r.target # 0 /\ targets[r.target].verified
          /\ \A d \in r.to : Confirmed(d)
          /\ At(p, {"announce", "mark"}) => r.target # 0
          /\ At(p, {"announce"}) => r.verified
          /\ At(p, {"mark", "unlink"}) /\ r.verified /\ targets[r.target].removal = "no" =>
               DestinationOf(r.target) \in r.to
      BY <1>0, <1>2, <2>0 DEF Knows, RemovalKnows
    <2>2. /\ r.target \in Ids' \cup {0}
          /\ r.verified => r.target # 0 /\ targets'[r.target].verified
          /\ \A d \in r.to : Confirmed(d)'
      BY <1>1, <2>1 DEF RowsLast
    <2>3. ASSUME At(p, {"mark", "unlink"}), r.verified, targets'[r.target].removal = "no"
          PROVE  DestinationOf(r.target)' \in r.to
      BY <1>1, <2>1, <2>3 DEF RowsLast
    <2> QED
      BY <1>2, <1>3, <2>1, <2>2, <2>3 DEF RemovalKnows
  <1> QED
    BY <1>4, <1>5, <1>6 DEF Knows

-----------------------------------------------------------------------------
(* Steps.                                                                  *)

(* Nothing is added and nothing removed comes back.                        *)
RowsOnlyEnd ==
    /\ Len(targets') = Len(targets)
    /\ \A i \in Ids : targets'[i].removal = "no" => targets[i].removal = "no"

OnlyMoves(p) == \A q \in Requests : q # p => request'[q] = request[q]

EventsAreConfirmed ==
    /\ events \subseteq events'
    /\ \A e \in events' : e \in events \/ \A d \in e.to : Confirmed(d)

NewlyAnnounced ==
    \A i \in Ids : targets'[i].removal = "verified" /\ targets[i].removal # "verified" =>
        \E e \in events' :
            e.kind = "removed" /\ e.target = i /\ DestinationOf(i) \in e.to

LEMMA EventsStay ==
    ASSUME TargetsInductive, TargetsTypeOK', RowsLast, EventsAreConfirmed
    PROVE  AlertsGoToConfirmedAddresses'
  <1>1. \A d : Confirmed(d) => Confirmed(d)'
    BY LastingRows DEF TargetsInductive
  <1>2. ASSUME NEW e \in events', NEW d \in e.to PROVE Confirmed(d)'
    BY <1>1, <1>2 DEF TargetsInductive, AlertsGoToConfirmedAddresses, EventsAreConfirmed, Confirmed
  <1> QED
    BY <1>2 DEF AlertsGoToConfirmedAddresses, Confirmed

LEMMA RemovalsStay ==
    ASSUME TargetsInductive, TargetsTypeOK', RowsLast, EventsAreConfirmed, NewlyAnnounced,
           \A i \in Ids' : i \in Ids \/ targets'[i].removal # "verified"
    PROVE  ConfirmedRemovalIsAnnounced'
  <1>1. \A i \in Ids : DestinationOf(i)' = DestinationOf(i)
    BY LastingRows DEF TargetsInductive
  <1>2. ASSUME NEW i \in Ids', targets'[i].removal = "verified"
        PROVE  \E e \in events' : e.kind = "removed" /\ e.target = i /\ DestinationOf(i)' \in e.to
    <2>1. i \in Ids
      BY <1>2
    <2>2. \E e \in events' : e.kind = "removed" /\ e.target = i /\ DestinationOf(i) \in e.to
      <3>1. CASE targets[i].removal = "verified"
        BY <2>1, <3>1
           DEF TargetsInductive, ConfirmedRemovalIsAnnounced, EventsAreConfirmed
      <3>2. CASE targets[i].removal # "verified"
        BY <1>2, <2>1, <3>2 DEF NewlyAnnounced
      <3> QED
        BY <3>1, <3>2
    <2> QED
      BY <1>1, <2>1, <2>2
  <1> QED
    BY <1>2 DEF ConfirmedRemovalIsAnnounced

LEMMA HoldersStayAlone ==
    ASSUME TargetsInductive, NEW p \in Requests, OnlyMoves(p),
           HoldsUser(p)' => HoldsUser(p) \/ MayLockUser(p)
    PROVE  HoldersAreAlone'
  <1>1. ASSUME NEW q \in Requests, q # p PROVE HoldsUser(q)' <=> HoldsUser(q)
    BY <1>1 DEF OnlyMoves, HoldsUser, At
  <1>2. ASSUME NEW q \in Requests, q # p, HoldsUser(p)' PROVE ~HoldsUser(q)
    BY <1>2 DEF TargetsInductive, HoldersAreAlone, MayLockUser
  <1> QED
    BY <1>1, <1>2 DEF TargetsInductive, HoldersAreAlone

(* A step of p that writes rows at most.                                   *)
LEMMA WritesRows ==
    ASSUME TargetsInductive, TargetsTypeOK', RowsLast, RowsOnlyEnd, EventsAreConfirmed,
           NewlyAnnounced, VerifiedAreReceived',
           NEW p \in Requests, OnlyMoves(p), Knows(p)',
           HoldsUser(p)' => HoldsUser(p) \/ MayLockUser(p)
    PROVE  TargetsInductive'
  <1>1. Ids' = Ids
    BY DEF RowsOnlyEnd, Ids
  <1>2. OneLiveTarget'
    <2>1. \A i, j \in Ids :
            /\ targets[i].removal = "no" /\ targets[j].removal = "no"
            /\ targets[i].channel = targets[j].channel
            => i = j
      BY DEF TargetsInductive, OneLiveTarget
    <2> QED
      BY <1>1, <2>1 DEF RowsOnlyEnd, RowsLast, OneLiveTarget
  <1>3. NoneAdded
    BY <1>1 DEF NoneAdded, RowsOnlyEnd
  <1>4. \A q \in Requests : Knows(q)'
    BY <1>3, KnowsStill DEF OnlyMoves
  <1>5. AlertsGoToConfirmedAddresses' /\ ConfirmedRemovalIsAnnounced' /\ HoldersAreAlone'
    BY <1>1, EventsStay, RemovalsStay, HoldersStayAlone
  <1> QED
    BY <1>2, <1>4, <1>5 DEF TargetsInductive

(* A step of p that writes none.                                           *)
LEMMA WritesNone ==
    ASSUME TargetsInductive, TargetsTypeOK', UNCHANGED <<targets, events>>,
           received \subseteq received',
           NEW p \in Requests, OnlyMoves(p), Knows(p)',
           HoldsUser(p)' => HoldsUser(p) \/ MayLockUser(p)
    PROVE  TargetsInductive'
  <1>1. RowsLast /\ RowsOnlyEnd /\ EventsAreConfirmed /\ NewlyAnnounced
    BY RowTypes DEF RowsLast, RowsOnlyEnd, EventsAreConfirmed, NewlyAnnounced, TargetsInductive
  <1>2. VerifiedAreReceived'
    BY DEF TargetsInductive, VerifiedAreReceived, Ids
  <1> QED
    BY <1>1, <1>2, WritesRows

-----------------------------------------------------------------------------
(* Requests.                                                               *)

LEMMA PutRequest ==
    ASSUME TargetsTypeOK, NEW p \in Requests, NEW r \in Request \cup {NoRequest},
           request' = [request EXCEPT ![p] = r]
    PROVE  /\ request' \in [Requests -> Request \cup {NoRequest}]
           /\ request'[p] = r /\ OnlyMoves(p)
  BY DEF TargetsTypeOK, OnlyMoves

LEMMA RequestTypes ==
    ASSUME TargetsTypeOK, NEW p \in Requests, request[p] # NoRequest
    PROVE  /\ At(p, {"start", "replace", "insert"}) =>
                /\ request[p].channel \in Channels /\ request[p].address \in Addresses
           /\ At(p, {"insert", "send", "undo", "announce", "mark", "unlink"}) =>
                request[p].target \in Nat
           /\ At(p, {"verify", "check"}) => request[p].channel \in Channels /\ request[p].code \in Nat
           /\ At(p, {"announce", "mark", "unlink"}) =>
                /\ request[p].channel \in Channels
                /\ request[p].verified \in BOOLEAN /\ request[p].unlinks \in BOOLEAN
                /\ request[p].to \in SUBSET Destination
  <1>1. request[p] \in Request
    BY DEF TargetsTypeOK
  <1> QED
    BY <1>1 DEF Request, At

LEMMA DoneKnows ==
    ASSUME NEW p, request'[p] = NoRequest
    PROVE  Knows(p)' /\ ~HoldsUser(p)'
  BY DEF Knows, StartKnows, CheckKnows, RemovalKnows, HoldsUser, At

-----------------------------------------------------------------------------
(* Types.                                                                  *)

LEMMA RemovedRows ==
    ASSUME TargetsTypeOK, NEW i \in Ids, NEW how \in {"replaced", "unreachable", "unverified", "verified"}
    PROVE  /\ Removed(targets, i, how) \in Seq(Target)
           /\ Len(Removed(targets, i, how)) = Len(targets)
           /\ \A j \in Ids :
                /\ Removed(targets, i, how)[j].channel = targets[j].channel
                /\ Removed(targets, i, how)[j].address = targets[j].address
                /\ Removed(targets, i, how)[j].verified = targets[j].verified
                /\ Removed(targets, i, how)[j].removal =
                     IF j = i /\ targets[j].removal = "no" THEN how ELSE targets[j].removal
  <1> DEFINE to == IF targets[i].removal = "no" THEN how ELSE targets[i].removal
             written == [targets[i] EXCEPT !.removal = to]
  <1>1. targets[i] \in Target
    BY RowTypes
  <1>2. /\ written \in Target /\ written.removal = to
        /\ written.channel = targets[i].channel /\ written.address = targets[i].address
        /\ written.verified = targets[i].verified
    BY <1>1 DEF Target
  <1>3. Removed(targets, i, how) = [targets EXCEPT ![i] = written]
    BY DEF Removed
  <1> HIDE DEF written
  <1> QED
    BY <1>2, <1>3, RowWritten

LEMMA RecipientsTypes ==
    ASSUME TargetsTypeOK
    PROVE  Recipients \in SUBSET Destination
  BY RowTypes DEF Recipients, DestinationOf, Destination, Target

LEMMA EventTypes ==
    ASSUME TargetsTypeOK, NEW p \in Requests, At(p, {"announce", "mark", "unlink"})
    PROVE  EventsOf(request[p]) \subseteq Event
  BY RequestTypes DEF EventsOf, Event, At

(* The request after a step that only moves it on.                         *)
LEMMA GoneTo ==
    ASSUME TargetsTypeOK, NEW p \in Requests, NEW step, Goto(p, step), request[p] # NoRequest,
           \/ At(p, {"start"}) /\ step = "replace"
           \/ At(p, {"verify"}) /\ step = "check"
           \/ At(p, {"send"}) /\ step = "undo"
           \/ At(p, {"mark"}) /\ step = "unlink"
    PROVE  /\ request' \in [Requests -> Request \cup {NoRequest}]
           /\ OnlyMoves(p)
           /\ request'[p].at = step
           /\ At(p, {"send"}) => request'[p].target = request[p].target
           /\ At(p, {"verify"}) => request'[p].code = request[p].code
           /\ At(p, {"mark"}) =>
                /\ request'[p].channel = request[p].channel
                /\ request'[p].target = request[p].target
                /\ request'[p].verified = request[p].verified
                /\ request'[p].to = request[p].to
  <1> DEFINE r == [request[p] EXCEPT !.at = step]
  <1>1. request[p] \in Request
    BY DEF TargetsTypeOK
  <1>2. /\ r \in Request /\ r.at = step
        /\ At(p, {"send"}) => r.target = request[p].target
        /\ At(p, {"verify"}) => r.code = request[p].code
        /\ At(p, {"mark"}) =>
             /\ r.channel = request[p].channel /\ r.target = request[p].target
             /\ r.verified = request[p].verified /\ r.to = request[p].to
    <2>1. CASE At(p, {"start"}) /\ step = "replace"
      BY <1>1, <2>1 DEF Request, At
    <2>2. CASE At(p, {"verify"}) /\ step = "check"
      BY <1>1, <2>2 DEF Request, At
    <2>3. CASE At(p, {"send"}) /\ step = "undo"
      BY <1>1, <2>3 DEF Request, At
    <2>4. CASE At(p, {"mark"}) /\ step = "unlink"
      BY <1>1, <2>4 DEF Request, At
    <2> QED
      BY <2>1, <2>2, <2>3, <2>4
  <1>3. request' = [request EXCEPT ![p] = r]
    BY DEF Goto
  <1> HIDE DEF r
  <1> QED
    BY <1>2, <1>3, PutRequest

LEMMA DoneTypes ==
    ASSUME TargetsTypeOK, NEW p \in Requests, Done(p)
    PROVE  /\ request' \in [Requests -> Request \cup {NoRequest}]
           /\ OnlyMoves(p) /\ Knows(p)' /\ ~HoldsUser(p)'
  <1>1. request' = [request EXCEPT ![p] = NoRequest]
    BY DEF Done
  <1> QED
    BY <1>1, PutRequest, DoneKnows

LEMMA BegunTypes ==
    ASSUME TargetsTypeOK, NEW p \in Requests, NEW r \in Request, Begin(p, r)
    PROVE  /\ request' \in [Requests -> Request \cup {NoRequest}]
           /\ OnlyMoves(p) /\ request'[p] = r
  <1>1. request' = [request EXCEPT ![p] = r]
    BY DEF Begin
  <1> QED
    BY <1>1, PutRequest

-----------------------------------------------------------------------------
(* Actions.                                                                *)

LEMMA LinkAccountKeeps ==
    ASSUME TargetsInductive, NEW c \in Channels, NEW a \in Addresses, LinkAccount(c, a)
    PROVE  TargetsInductive'
  <1>1. TargetsTypeOK'
    BY DEF TargetsInductive, TargetsTypeOK, LinkAccount
  <1>2. UNCHANGED <<targets, request, events, received>>
    BY DEF LinkAccount
  <1> QED
    BY <1>1, <1>2 DEF TargetsInductive, HoldersAreAlone, OneLiveTarget, VerifiedAreReceived,
       AlertsGoToConfirmedAddresses, ConfirmedRemovalIsAnnounced, Knows, StartKnows, CheckKnows,
       RemovalKnows, Confirmed, At, HoldsUser, Ids, Live, DestinationOf

LEMMA ReadLinkKeeps ==
    ASSUME TargetsInductive, NEW p \in Requests, NEW c \in Channels, ReadLink(p, c)
    PROVE  TargetsInductive'
  <1>0. TargetsTypeOK /\ UNCHANGED <<linked, targets, events, received>>
    BY DEF TargetsInductive, ReadLink
  <1>1. PICK r : r = [at |-> "start", channel |-> c, address |-> linked[c]]
    OBVIOUS
  <1>2. r \in Request
    BY <1>0, <1>1 DEF TargetsTypeOK, ReadLink, Request
  <1>3. /\ request' \in [Requests -> Request \cup {NoRequest}]
        /\ OnlyMoves(p) /\ request'[p] = r
    BY <1>0, <1>1, <1>2, BegunTypes DEF ReadLink
  <1>4. TargetsTypeOK'
    BY <1>0, <1>3 DEF TargetsTypeOK
  <1>5. Knows(p)' /\ ~HoldsUser(p)'
    BY <1>1, <1>3 DEF Knows, StartKnows, CheckKnows, RemovalKnows, HoldsUser, At
  <1> QED
    BY <1>0, <1>3, <1>4, <1>5, WritesNone

LEMMA LockUserKeeps ==
    ASSUME TargetsInductive, NEW p \in Requests, LockUser(p)
    PROVE  TargetsInductive'
  <1>0. /\ TargetsTypeOK /\ UNCHANGED <<linked, targets, events, received>>
        /\ At(p, {"start", "verify"}) /\ MayLockUser(p) /\ Knows(p) /\ request[p] # NoRequest
    BY DEF TargetsInductive, LockUser, At
  <1>1. CASE At(p, {"start"})
    <2>1. Goto(p, "replace")
      BY <1>1 DEF LockUser, At
    <2>2. /\ request' \in [Requests -> Request \cup {NoRequest}]
          /\ OnlyMoves(p) /\ request'[p].at = "replace"
      BY <1>0, <1>1, <2>1, GoneTo
    <2>3. TargetsTypeOK'
      BY <1>0, <2>2 DEF TargetsTypeOK
    <2>4. Knows(p)'
      BY <2>2 DEF Knows, StartKnows, CheckKnows, RemovalKnows, At
    <2> QED
      BY <1>0, <2>2, <2>3, <2>4, WritesNone
  <1>2. CASE At(p, {"verify"})
    <2>1. Goto(p, "check")
      BY <1>2 DEF LockUser, At
    <2>2. /\ request' \in [Requests -> Request \cup {NoRequest}]
          /\ OnlyMoves(p) /\ request'[p].at = "check" /\ request'[p].code = request[p].code
      BY <1>0, <1>2, <2>1, GoneTo
    <2>3. TargetsTypeOK'
      BY <1>0, <2>2 DEF TargetsTypeOK
    <2>4. request[p].code \in received \cup {Wrong}
      BY <1>0, <1>2 DEF Knows, CheckKnows, At
    <2>5. Knows(p)'
      BY <1>0, <2>2, <2>4 DEF Knows, StartKnows, CheckKnows, RemovalKnows, At
    <2> QED
      BY <1>0, <2>2, <2>3, <2>5, WritesNone
  <1> QED
    BY <1>0, <1>1, <1>2 DEF At

LEMMA SelectTargetKeeps ==
    ASSUME TargetsInductive, NEW p \in Requests, SelectTarget(p)
    PROVE  TargetsInductive'
  <1>0. /\ TargetsTypeOK /\ UNCHANGED <<linked, targets, events, received>>
        /\ At(p, {"replace"}) /\ request[p] # NoRequest
    BY DEF TargetsInductive, SelectTarget, At
  <1>1. PICK c : c = request[p].channel
    OBVIOUS
  <1>2. PICK i \in IF Live(c) = {} THEN {0} ELSE Live(c) :
          request' = [request EXCEPT ![p] =
              [at |-> "insert", channel |-> request[p].channel, address |-> request[p].address,
               target |-> i]]
    BY <1>1 DEF SelectTarget
  <1>3. /\ i \in Ids \cup {0} /\ i \in Nat
        /\ Live(c) \subseteq {i}
    <2>1. Live(c) \subseteq Ids /\ Ids \subseteq Nat
      BY <1>0, RowTypes
    <2>2. \A j, k \in Live(c) : j = k
      BY DEF TargetsInductive, OneLiveTarget, Live
    <2> QED
      BY <2>1, <2>2
  <1>4. PICK r : r = [at |-> "insert", channel |-> request[p].channel,
                      address |-> request[p].address, target |-> i]
    OBVIOUS
  <1>5. r \in Request
    BY <1>0, <1>3, <1>4, RequestTypes DEF Request, At
  <1>6. /\ request' \in [Requests -> Request \cup {NoRequest}]
        /\ OnlyMoves(p) /\ request'[p] = r
    BY <1>0, <1>2, <1>4, <1>5, PutRequest
  <1>7. TargetsTypeOK'
    BY <1>0, <1>6 DEF TargetsTypeOK
  <1>8. /\ StartKnows(p)'
    <2>1. Live(c)' = Live(c) /\ Ids' = Ids
      BY <1>0 DEF Live, Ids
    <2> QED
      BY <1>1, <1>3, <1>4, <1>6, <2>1 DEF StartKnows, At
  <1>9. Knows(p)' /\ HoldsUser(p)
    BY <1>0, <1>4, <1>6, <1>8 DEF Knows, CheckKnows, RemovalKnows, HoldsUser, At
  <1> QED
    BY <1>0, <1>6, <1>7, <1>9, WritesNone

(* Rows of which at most the one at i is removed.                          *)
LEMMA RemovalLasts ==
    ASSUME TargetsTypeOK, NEW i \in Ids,
           NEW how \in {"replaced", "unreachable", "unverified", "verified"},
           targets' = Removed(targets, i, how), received \subseteq received'
    PROVE  RowsLast /\ RowsOnlyEnd /\ targets' \in Seq(Target) /\ Ids' = Ids
  <1>1. /\ targets' \in Seq(Target) /\ Len(targets') = Len(targets)
        /\ \A j \in Ids :
             /\ targets'[j].channel = targets[j].channel
             /\ targets'[j].address = targets[j].address
             /\ targets'[j].verified = targets[j].verified
             /\ targets'[j].removal =
                  IF j = i /\ targets[j].removal = "no" THEN how ELSE targets[j].removal
    BY RemovedRows
  <1> QED
    BY <1>1, RowTypes DEF RowsLast, RowsOnlyEnd, Ids

LEMMA InsertTargetKeeps ==
    ASSUME TargetsInductive, NEW p \in Requests, InsertTarget(p)
    PROVE  TargetsInductive'
  <1> DEFINE r == request[p]
             n == Len(targets) + 1
             base == IF r.target = 0 THEN targets ELSE Removed(targets, r.target, "replaced")
             new == [channel |-> r.channel, address |-> r.address, open |-> TRUE,
                     attempts |-> 0, verified |-> FALSE, removal |-> "no", wrong |-> 0]
  <1>0. /\ TargetsTypeOK /\ UNCHANGED <<linked, events, received>>
        /\ At(p, {"insert"}) /\ request[p] # NoRequest /\ Knows(p) /\ Len(targets) \in Nat
        /\ targets' = Append(base, new)
        /\ request' = [request EXCEPT ![p] = [at |-> "send", target |-> n]]
    BY RowTypes DEF TargetsInductive, InsertTarget, At
  <1>1. /\ r.target \in Ids \cup {0} /\ Live(r.channel) \subseteq {r.target}
    BY <1>0 DEF Knows, StartKnows
  <1>2. /\ base \in Seq(Target) /\ Len(base) = Len(targets)
        /\ \A j \in Ids :
             /\ base[j].channel = targets[j].channel /\ base[j].address = targets[j].address
             /\ base[j].verified = targets[j].verified
             /\ targets[j].removal # "no" => base[j].removal = targets[j].removal
             /\ base[j].removal = "no" => targets[j].removal = "no" /\ j # r.target
             /\ base[j].removal = "verified" => targets[j].removal = "verified"
    <2>1. CASE r.target = 0
      BY <1>0, <2>1, RowTypes DEF TargetsTypeOK
    <2>2. CASE r.target # 0
      <3>1. r.target \in Ids
        BY <1>1, <2>2
      <3> HIDE DEF r
      <3>2. base = Removed(targets, r.target, "replaced")
        BY <2>2
      <3> QED
        BY <1>0, <3>1, <3>2, RemovedRows
    <2> QED
      BY <2>1, <2>2
  <1>3. new \in Target
    BY <1>0, RequestTypes DEF Target, At
  <1>4. PICK written : written = new
    OBVIOUS
  <1>5. written \in Target /\ written.verified = FALSE /\ written.removal = "no" /\ written.channel = r.channel
    BY <1>3, <1>4
  <1>6. PICK rows : rows = base
    OBVIOUS
  <1>7. PICK c : c = r.channel
    OBVIOUS
  <1>8. PICK t : t = r.target
    OBVIOUS
  <1>9. /\ targets' = Append(rows, written) /\ rows \in Seq(Target) /\ Len(rows) = Len(targets)
        /\ \A j \in Ids :
             /\ rows[j].channel = targets[j].channel /\ rows[j].address = targets[j].address
             /\ rows[j].verified = targets[j].verified
             /\ targets[j].removal # "no" => rows[j].removal = targets[j].removal
             /\ rows[j].removal = "no" => targets[j].removal = "no" /\ j # t
             /\ rows[j].removal = "verified" => targets[j].removal = "verified"
    BY <1>0, <1>2, <1>4, <1>6, <1>8
  <1>10. Live(c) \subseteq {t} /\ written.channel = c /\ written.removal = "no" /\ written.verified = FALSE
    BY <1>1, <1>5, <1>7, <1>8
  <1>11. [at |-> "send", target |-> n] \in Request
    BY <1>0 DEF Request
  <1> HIDE DEF base, new
  <1>12. /\ targets' \in Seq(Target) /\ Len(targets') = n /\ Ids = 1 .. (n - 1) /\ Ids' = 1 .. n
         /\ \A j \in Ids : targets'[j] = rows[j]
         /\ targets'[n] = written /\ n \in Nat
    BY <1>0, <1>5, <1>9 DEF Ids
  <1>13. /\ request' \in [Requests -> Request \cup {NoRequest}]
         /\ OnlyMoves(p) /\ request'[p] = [at |-> "send", target |-> n]
    BY <1>0, <1>11, PutRequest
  <1>14. TargetsTypeOK'
    <2>1. received' \subseteq Ids'
      BY <1>0, <1>12 DEF TargetsTypeOK
    <2> QED
      BY <1>0, <1>12, <1>13, <2>1 DEF TargetsTypeOK, Ids
  <1>15. RowsLast
    BY <1>0, <1>9, <1>12 DEF RowsLast
  <1>16. NoneAdded
    <2>1. ASSUME NEW q \in Requests, At(q, {"insert"})', request'[q] = request[q] PROVE FALSE
      <3>1. q # p
        BY <1>13, <2>1 DEF At
      <3>2. At(q, {"insert"})
        BY <2>1 DEF At
      <3> QED
        BY <1>0, <3>1, <3>2 DEF TargetsInductive, HoldersAreAlone, HoldsUser, At
    <2> QED
      BY <2>1 DEF NoneAdded
  <1>17. Knows(p)'
    <2>1. /\ request'[p].at = "send" /\ request'[p].target = n /\ n \in Ids'
      BY <1>12, <1>13
    <2> HIDE DEF n
    <2> QED
      BY <2>1 DEF Knows, StartKnows, CheckKnows, RemovalKnows, At
  <1>18. \A q \in Requests : Knows(q)'
    BY <1>13, <1>14, <1>15, <1>16, <1>17, KnowsStill DEF OnlyMoves
  <1>19. OneLiveTarget'
    <2>1. ASSUME NEW i \in Ids, targets'[i].removal = "no" PROVE targets'[i].channel # c
      BY <1>9, <1>10, <1>12, <2>1 DEF Live
    <2>2. ASSUME NEW i \in Ids, NEW j \in Ids, targets'[i].removal = "no", targets'[j].removal = "no",
                 targets'[i].channel = targets'[j].channel
          PROVE  i = j
      BY <1>9, <1>12, <2>2 DEF TargetsInductive, OneLiveTarget
    <2>3. \A i \in Ids' : i \in Ids \/ i = n
      BY <1>12
    <2> QED
      BY <1>10, <1>12, <2>1, <2>2, <2>3 DEF OneLiveTarget
  <1>20. VerifiedAreReceived'
    BY <1>0, <1>9, <1>10, <1>12 DEF TargetsInductive, VerifiedAreReceived
  <1>21. EventsAreConfirmed /\ NewlyAnnounced
    BY <1>0, <1>9, <1>12 DEF EventsAreConfirmed, NewlyAnnounced
  <1>22. \A i \in Ids' : i \in Ids \/ targets'[i].removal # "verified"
    BY <1>10, <1>12
  <1>23. ~HoldsUser(p)'
    BY <1>13 DEF HoldsUser, At
  <1> QED
    BY <1>13, <1>14, <1>15, <1>18, <1>19, <1>20, <1>21, <1>22, <1>23,
       EventsStay, RemovalsStay, HoldersStayAlone DEF TargetsInductive

LEMMA SendCodeKeeps ==
    ASSUME TargetsInductive, NEW p \in Requests, SendCode(p)
    PROVE  TargetsInductive'
  <1>0. /\ TargetsTypeOK /\ UNCHANGED <<linked, targets, events>>
        /\ At(p, {"send"}) /\ request[p] # NoRequest /\ request[p].target \in Ids
    BY DEF TargetsInductive, SendCode, At, Knows, StartKnows
  <1>1. received \subseteq received' /\ received' \subseteq Ids
    BY <1>0 DEF SendCode, TargetsTypeOK, Ids
  <1>2. CASE Done(p)
    BY <1>0, <1>1, <1>2, DoneTypes, WritesNone DEF TargetsTypeOK, Ids
  <1>3. CASE Goto(p, "undo")
    <2>1. /\ request' \in [Requests -> Request \cup {NoRequest}]
          /\ OnlyMoves(p) /\ request'[p].at = "undo" /\ request'[p].target = request[p].target
      BY <1>0, <1>3, GoneTo
    <2>2. TargetsTypeOK'
      BY <1>0, <1>1, <2>1 DEF TargetsTypeOK, Ids
    <2>3. Ids' = Ids
      BY <1>0 DEF Ids
    <2>4. Knows(p)' /\ ~HoldsUser(p)'
      BY <1>0, <2>1, <2>3 DEF Knows, StartKnows, CheckKnows, RemovalKnows, HoldsUser, At
    <2> QED
      BY <1>0, <1>1, <2>1, <2>2, <2>4, WritesNone
  <1> QED
    BY <1>2, <1>3 DEF SendCode

LEMMA RemoveUnreachableKeeps ==
    ASSUME TargetsInductive, NEW p \in Requests, RemoveUnreachable(p)
    PROVE  TargetsInductive'
  <1>0. /\ TargetsTypeOK /\ UNCHANGED <<linked, events, received>>
        /\ request[p].target \in Ids /\ Done(p)
        /\ targets' = Removed(targets, request[p].target, "unreachable")
    BY DEF TargetsInductive, RemoveUnreachable, At, Knows, StartKnows
  <1>1. PICK i \in Ids : i = request[p].target
    BY <1>0
  <1>2. RowsLast /\ RowsOnlyEnd /\ targets' \in Seq(Target) /\ Ids' = Ids
    BY <1>0, <1>1, RemovalLasts
  <1>3. /\ request' \in [Requests -> Request \cup {NoRequest}]
        /\ OnlyMoves(p) /\ Knows(p)' /\ ~HoldsUser(p)'
    BY <1>0, DoneTypes
  <1>4. TargetsTypeOK'
    BY <1>0, <1>2, <1>3 DEF TargetsTypeOK, Ids
  <1>5. \A j \in Ids :
          /\ targets'[j].verified = targets[j].verified
          /\ targets'[j].removal = "verified" => targets[j].removal = "verified"
    BY <1>0, <1>1, RemovedRows
  <1>6. VerifiedAreReceived' /\ NewlyAnnounced /\ EventsAreConfirmed
    BY <1>0, <1>2, <1>5
       DEF TargetsInductive, VerifiedAreReceived, NewlyAnnounced, EventsAreConfirmed
  <1> QED
    BY <1>2, <1>3, <1>4, <1>6, WritesRows

LEMMA SubmitCodeKeeps ==
    ASSUME TargetsInductive, NEW p \in Requests, NEW c \in Channels,
           NEW code \in received \cup {Wrong}, SubmitCode(p, c, code)
    PROVE  TargetsInductive'
  <1>0. TargetsTypeOK /\ UNCHANGED <<linked, targets, events, received>>
    BY DEF TargetsInductive, SubmitCode
  <1>1. PICK r : r = [at |-> "verify", channel |-> c, code |-> code]
    OBVIOUS
  <1>2. r \in Request
    BY <1>0, <1>1 DEF TargetsTypeOK, Request, Wrong
  <1>3. /\ request' \in [Requests -> Request \cup {NoRequest}]
        /\ OnlyMoves(p) /\ request'[p] = r
    BY <1>0, <1>1, <1>2, BegunTypes DEF SubmitCode
  <1>4. TargetsTypeOK'
    BY <1>0, <1>3 DEF TargetsTypeOK
  <1>5. Knows(p)' /\ ~HoldsUser(p)'
    BY <1>0, <1>1, <1>3 DEF Knows, StartKnows, CheckKnows, RemovalKnows, HoldsUser, At
  <1> QED
    BY <1>0, <1>3, <1>4, <1>5, WritesNone

(* Rows of which the one at i is written, in other fields than its place   *)
(* and its removal.                                                        *)
LEMMA WriteLasts ==
    ASSUME TargetsTypeOK, NEW i \in Ids, NEW written \in Target, targets' = [targets EXCEPT ![i] = written],
           written.channel = targets[i].channel, written.address = targets[i].address,
           written.removal = targets[i].removal, targets[i].verified => written.verified,
           received \subseteq received'
    PROVE  /\ RowsLast /\ RowsOnlyEnd /\ NewlyAnnounced
           /\ targets' \in Seq(Target) /\ Ids' = Ids
           /\ \A j \in Ids : targets'[j].verified => targets[j].verified \/ (j = i /\ written.verified)
  <1>1. /\ targets' \in Seq(Target) /\ Len(targets') = Len(targets)
        /\ \A j \in Ids : targets'[j] = IF j = i THEN written ELSE targets[j]
    BY RowWritten
  <1> QED
    BY <1>1, RowTypes DEF RowsLast, RowsOnlyEnd, NewlyAnnounced, Ids

LEMMA RecipientsAreConfirmed ==
    ASSUME TargetsInductive
    PROVE  \A d \in Recipients : Confirmed(d)
  BY DEF TargetsInductive, VerifiedAreReceived, Recipients, Confirmed

LEMMA CheckCodeKeeps ==
    ASSUME TargetsInductive, NEW p \in Requests, CheckCode(p)
    PROVE  TargetsInductive'
  <1>0. /\ TargetsTypeOK /\ UNCHANGED <<linked, received>>
        /\ At(p, {"check"}) /\ request[p].code \in received \cup {Wrong} /\ Done(p)
    BY DEF TargetsInductive, CheckCode, At, Knows, CheckKnows
  <1>1. PICK i \in Ids :
          \/ /\ Matches(request[p].code, i)
             /\ events' = events \cup {[kind |-> "added", target |-> i, to |-> Recipients]}
             /\ targets' = [targets EXCEPT ![i].verified = TRUE, ![i].open = FALSE]
          \/ targets' = WrongCode(i) /\ UNCHANGED events
    BY <1>0, RowTypes DEF CheckCode
  <1>2. /\ request' \in [Requests -> Request \cup {NoRequest}]
        /\ OnlyMoves(p) /\ Knows(p)' /\ ~HoldsUser(p)'
    BY <1>0, DoneTypes
  <1>3. targets[i] \in Target /\ i \in Nat
    BY <1>0, RowTypes
  <1>4. CASE /\ Matches(request[p].code, i)
             /\ events' = events \cup {[kind |-> "added", target |-> i, to |-> Recipients]}
             /\ targets' = [targets EXCEPT ![i].verified = TRUE, ![i].open = FALSE]
    <2> DEFINE written == [targets[i] EXCEPT !.verified = TRUE, !.open = FALSE]
    <2>1. /\ written \in Target
          /\ written.channel = targets[i].channel /\ written.address = targets[i].address
          /\ written.removal = targets[i].removal /\ written.verified
      BY <1>3 DEF Target
    <2>2. targets' = [targets EXCEPT ![i] = written]
      <3>1. i \in DOMAIN targets
        BY <1>0 DEF TargetsTypeOK, Ids
      <3> QED
        BY <1>4, <3>1
    <2> HIDE DEF written
    <2>3. /\ RowsLast /\ RowsOnlyEnd /\ NewlyAnnounced
          /\ targets' \in Seq(Target) /\ Ids' = Ids
          /\ \A j \in Ids : targets'[j].verified => targets[j].verified \/ j = i
      BY <1>0, <2>1, <2>2, WriteLasts
    <2>4. i \in received
      BY <1>0, <1>4, RowTypes DEF Matches, Wrong
    <2>5. VerifiedAreReceived'
      BY <1>0, <2>3, <2>4 DEF TargetsInductive, VerifiedAreReceived
    <2>6. EventsAreConfirmed
      BY <1>4, RecipientsAreConfirmed DEF EventsAreConfirmed
    <2>7. events' \subseteq Event
      BY <1>0, <1>3, <1>4, RecipientsTypes DEF TargetsTypeOK, Event
    <2>8. TargetsTypeOK'
      BY <1>0, <1>2, <2>3, <2>7 DEF TargetsTypeOK, Ids
    <2> QED
      BY <1>2, <2>3, <2>5, <2>6, <2>8, WritesRows
  <1>5. CASE targets' = WrongCode(i) /\ UNCHANGED events
    <2> DEFINE written == [targets[i] EXCEPT !.wrong = @ + 1]
    <2>1. /\ written \in Target
          /\ written.channel = targets[i].channel /\ written.address = targets[i].address
          /\ written.removal = targets[i].removal /\ written.verified = targets[i].verified
      BY <1>3 DEF Target
    <2>2. targets' = [targets EXCEPT ![i] = written]
      BY <1>5 DEF WrongCode
    <2> HIDE DEF written
    <2>3. /\ RowsLast /\ RowsOnlyEnd /\ NewlyAnnounced
          /\ targets' \in Seq(Target) /\ Ids' = Ids
          /\ \A j \in Ids : targets'[j].verified => targets[j].verified
      BY <1>0, <2>1, <2>2, WriteLasts
    <2>4. VerifiedAreReceived' /\ EventsAreConfirmed
      BY <1>0, <1>5, <2>3 DEF TargetsInductive, VerifiedAreReceived, EventsAreConfirmed
    <2>5. TargetsTypeOK'
      BY <1>0, <1>2, <1>5, <2>3 DEF TargetsTypeOK, Ids
    <2> QED
      BY <1>2, <2>3, <2>4, <2>5, WritesRows
  <1> QED
    BY <1>1, <1>4, <1>5

LEMMA ReadTargetKeeps ==
    ASSUME TargetsInductive, NEW p \in Requests, NEW c \in Channels, NEW unlinks \in BOOLEAN,
           ReadTarget(p, c, unlinks)
    PROVE  TargetsInductive'
  <1>0. TargetsTypeOK /\ UNCHANGED <<linked, targets, events, received>>
    BY DEF TargetsInductive, ReadTarget
  <1> DEFINE Verified(i) == i # 0 /\ targets[i].verified
             Step(i) == IF i = 0 THEN "unlink" ELSE IF Verified(i) THEN "announce" ELSE "mark"
             Reads(i) == [at |-> Step(i), channel |-> c, target |-> i,
                          verified |-> Verified(i), unlinks |-> unlinks, to |-> {}]
  <1>1. PICK i \in IF Live(c) = {} THEN {0} ELSE Live(c) : Begin(p, Reads(i))
    BY DEF ReadTarget
  <1>2. i \in Ids \cup {0} /\ i \in Nat /\ Verified(i) \in BOOLEAN
    BY <1>0, RowTypes DEF Target
  <1>3. PICK r : r = Reads(i)
    OBVIOUS
  <1>4. /\ r.target = i /\ r.to = {} /\ r.at = Step(i)
        /\ r.verified <=> Verified(i)
    BY <1>2, <1>3
  <1>5. r \in Request
    BY <1>2, <1>3 DEF Request
  <1>6. /\ request' \in [Requests -> Request \cup {NoRequest}]
        /\ OnlyMoves(p) /\ request'[p] = r
    BY <1>0, <1>1, <1>3, <1>5, BegunTypes
  <1>7. TargetsTypeOK'
    BY <1>0, <1>6 DEF TargetsTypeOK
  <1>8. PICK v \in BOOLEAN : v = Verified(i)
    BY <1>2
  <1>9. /\ r.at \in {"unlink", "announce", "mark"} /\ r.to = {} /\ r.target = i
        /\ r.verified <=> v
        /\ v => i # 0 /\ targets'[i].verified /\ r.at = "announce"
        /\ r.at \in {"announce", "mark"} => i # 0
        /\ r.at = "announce" => v
        /\ i \in Ids' \cup {0}
    BY <1>0, <1>2, <1>4, <1>8 DEF Ids
  <1> HIDE DEF Reads, Verified, Step
  <1>10. StartKnows(p)' /\ CheckKnows(p)' /\ ~HoldsUser(p)'
    BY <1>6, <1>9 DEF StartKnows, CheckKnows, HoldsUser, At
  <1>11. RemovalKnows(p)'
    BY <1>6, <1>9 DEF RemovalKnows, At
  <1> QED
    BY <1>0, <1>6, <1>7, <1>10, <1>11, WritesNone DEF Knows

LEMMA AnnounceRemovalKeeps ==
    ASSUME TargetsInductive, NEW p \in Requests, AnnounceRemoval(p)
    PROVE  TargetsInductive'
  <1> DEFINE r == [request[p] EXCEPT !.at = "mark", !.to = Recipients]
  <1>0. /\ TargetsTypeOK /\ UNCHANGED <<linked, targets, events, received>>
        /\ At(p, {"announce"}) /\ request[p] # NoRequest /\ request[p] \in Request
    BY DEF TargetsInductive, TargetsTypeOK, AnnounceRemoval, At
  <1>1. /\ r \in Request /\ r.at = "mark" /\ r.to = Recipients
        /\ r.target = request[p].target /\ r.verified = request[p].verified
    BY <1>0, RecipientsTypes DEF Request, At
  <1>2. request' = [request EXCEPT ![p] = r]
    <2>1. p \in DOMAIN request
      BY <1>0 DEF TargetsTypeOK
    <2> QED
      BY <2>1 DEF AnnounceRemoval
  <1> HIDE DEF r
  <1>3. /\ request' \in [Requests -> Request \cup {NoRequest}]
        /\ OnlyMoves(p) /\ request'[p] = r
    BY <1>0, <1>1, <1>2, PutRequest
  <1>4. TargetsTypeOK'
    BY <1>0, <1>3 DEF TargetsTypeOK
  <1>5. PICK i : i = request[p].target
    OBVIOUS
  <1>6. i \in Ids /\ targets[i].verified /\ i # 0
    BY <1>0, <1>5, RowTypes DEF TargetsInductive, Knows, RemovalKnows, At
  <1>7. PICK to : to = Recipients
    OBVIOUS
  <1>8. /\ \A d \in to : Confirmed(d)
        /\ targets[i].removal = "no" => DestinationOf(i) \in to
    BY <1>6, <1>7, RecipientsAreConfirmed DEF Recipients
  <1>9. /\ r.at = "mark" /\ r.to = to /\ r.target = i
        /\ Ids' = Ids /\ targets' = targets
        /\ DestinationOf(i)' = DestinationOf(i)
        /\ \A d : Confirmed(d)' <=> Confirmed(d)
    BY <1>0, <1>1, <1>5, <1>7 DEF Ids, Confirmed, DestinationOf
  <1>10. StartKnows(p)' /\ CheckKnows(p)' /\ ~HoldsUser(p)'
    BY <1>3, <1>9 DEF StartKnows, CheckKnows, HoldsUser, At
  <1>11. RemovalKnows(p)'
    BY <1>3, <1>6, <1>8, <1>9 DEF RemovalKnows, At
  <1> QED
    BY <1>0, <1>3, <1>4, <1>10, <1>11, WritesNone DEF Knows

(* The end of a removal: the row is removed and the event committed.       *)
LEMMA RemovesKeeps ==
    ASSUME TargetsInductive, NEW p \in Requests, At(p, {"mark", "unlink"}),
           linked' \in [Channels -> Addresses \cup {Unlinked}], UNCHANGED received, Done(p),
           targets' = IF request[p].target = 0 THEN targets
                      ELSE Removed(targets, request[p].target, HowOf(request[p])),
           events' = events \cup EventsOf(request[p])
    PROVE  TargetsInductive'
  <1>0. TargetsTypeOK /\ RemovalKnows(p)
    BY DEF TargetsInductive, Knows
  <1>1. PICK i, v, to : i = request[p].target /\ v = request[p].verified /\ to = request[p].to
    OBVIOUS
  <1>2. /\ i \in Ids \cup {0} /\ v \in BOOLEAN
        /\ v => i # 0 /\ targets[i].verified
        /\ \A d \in to : Confirmed(d)
        /\ v /\ targets[i].removal = "no" => DestinationOf(i) \in to
    BY <1>0, <1>1, RequestTypes DEF RemovalKnows, At
  <1>3. events' = IF v THEN events \cup {[kind |-> "removed", target |-> i, to |-> to]} ELSE events
    BY <1>1 DEF EventsOf
  <1>4. /\ request' \in [Requests -> Request \cup {NoRequest}]
        /\ OnlyMoves(p) /\ Knows(p)' /\ ~HoldsUser(p)'
    BY <1>0, DoneTypes
  <1>5. EventsAreConfirmed
    BY <1>2, <1>3 DEF EventsAreConfirmed
  <1>6. events' \subseteq Event
    BY <1>0, EventTypes DEF TargetsTypeOK, At
  <1>7. CASE i = 0
    <2>1. UNCHANGED <<targets, events>>
      BY <1>1, <1>2, <1>3, <1>7
    <2>2. TargetsTypeOK'
      BY <1>0, <1>4, <2>1 DEF TargetsTypeOK
    <2> QED
      BY <1>4, <2>1, <2>2, WritesNone
  <1>8. CASE i # 0
    <2>1. PICK how \in {"unverified", "verified"} : how = IF v THEN "verified" ELSE "unverified"
      BY <1>2
    <2>2. targets' = Removed(targets, i, how) /\ i \in Ids
      BY <1>1, <1>2, <1>8, <2>1 DEF HowOf
    <2>3. RowsLast /\ RowsOnlyEnd /\ targets' \in Seq(Target) /\ Ids' = Ids
      BY <1>0, <2>2, RemovalLasts
    <2>4. \A j \in Ids :
            /\ targets'[j].verified = targets[j].verified
            /\ targets'[j].removal =
                 IF j = i /\ targets[j].removal = "no" THEN how ELSE targets[j].removal
      BY <1>0, <2>2, RemovedRows
    <2>5. TargetsTypeOK'
      BY <1>0, <1>4, <1>6, <2>3 DEF TargetsTypeOK, Ids
    <2>6. VerifiedAreReceived'
      BY <2>3, <2>4 DEF TargetsInductive, VerifiedAreReceived
    <2>7. NewlyAnnounced
      <3>1. SUFFICES ASSUME NEW j \in Ids, targets'[j].removal = "verified",
                            targets[j].removal # "verified"
                     PROVE  \E e \in events' : /\ e.kind = "removed" /\ e.target = j
                                               /\ DestinationOf(j) \in e.to
        BY DEF NewlyAnnounced
      <3>2. j = i /\ v /\ targets[i].removal = "no"
        BY <1>2, <2>1, <2>4, <3>1
      <3>3. PICK e : e = [kind |-> "removed", target |-> i, to |-> to]
        OBVIOUS
      <3>4. e \in events' /\ e.kind = "removed" /\ e.target = j /\ e.to = to
        BY <1>3, <3>2, <3>3
      <3>5. DestinationOf(j) \in e.to
        BY <1>2, <3>2, <3>4
      <3> QED
        BY <3>4, <3>5
    <2> QED
      BY <1>4, <1>5, <2>3, <2>5, <2>6, <2>7, WritesRows
  <1> QED
    BY <1>7, <1>8

LEMMA MarkRemovedKeeps ==
    ASSUME TargetsInductive, NEW p \in Requests, MarkRemoved(p)
    PROVE  TargetsInductive'
  <1>0. /\ TargetsTypeOK /\ RemovalKnows(p) /\ UNCHANGED <<linked, received>>
        /\ At(p, {"mark"}) /\ request[p] # NoRequest
    BY DEF TargetsInductive, MarkRemoved, At, Knows
  <1>1. CASE request[p].unlinks
    <2>1. Goto(p, "unlink") /\ UNCHANGED <<targets, events>>
      BY <1>1 DEF MarkRemoved
    <2>2. PICK i, v, to : i = request[p].target /\ v = request[p].verified /\ to = request[p].to
      OBVIOUS
    <2>3. /\ request' \in [Requests -> Request \cup {NoRequest}]
          /\ OnlyMoves(p) /\ request'[p].at = "unlink"
          /\ request'[p].target = i /\ request'[p].verified = v /\ request'[p].to = to
      BY <1>0, <2>1, <2>2, GoneTo
    <2>4. TargetsTypeOK'
      BY <1>0, <2>1, <2>3 DEF TargetsTypeOK
    <2>5. /\ i \in Ids /\ i # 0
          /\ v => targets[i].verified
          /\ \A d \in to : Confirmed(d)
          /\ v /\ targets[i].removal = "no" => DestinationOf(i) \in to
      BY <1>0, <2>2 DEF RemovalKnows, At
    <2>6. /\ Ids' = Ids /\ targets' = targets /\ DestinationOf(i)' = DestinationOf(i)
          /\ \A d : Confirmed(d)' <=> Confirmed(d)
      BY <1>0, <2>1 DEF Ids, Confirmed, DestinationOf
    <2>7. StartKnows(p)' /\ CheckKnows(p)' /\ ~HoldsUser(p)'
      BY <2>3 DEF StartKnows, CheckKnows, HoldsUser, At
    <2>8. RemovalKnows(p)'
      BY <2>3, <2>5, <2>6 DEF RemovalKnows, At
    <2> QED
      BY <1>0, <2>1, <2>3, <2>4, <2>7, <2>8, WritesNone DEF Knows
  <1>2. CASE ~request[p].unlinks
    <2>1. request[p].target # 0 /\ At(p, {"mark", "unlink"})
      BY <1>0 DEF RemovalKnows, At
    <2> QED
      BY <1>0, <1>2, <2>1, RemovesKeeps DEF MarkRemoved, TargetsTypeOK
  <1> QED
    BY <1>1, <1>2

LEMMA UnlinkAccountKeeps ==
    ASSUME TargetsInductive, NEW p \in Requests, UnlinkAccount(p)
    PROVE  TargetsInductive'
  <1>1. At(p, {"mark", "unlink"}) /\ UNCHANGED received /\ Done(p)
    BY DEF UnlinkAccount, At
  <1>2. /\ linked' = [linked EXCEPT ![request[p].channel] = Unlinked]
        /\ targets' = IF request[p].target = 0 THEN targets
                      ELSE Removed(targets, request[p].target, HowOf(request[p]))
        /\ events' = events \cup EventsOf(request[p])
    BY DEF UnlinkAccount
  <1>3. linked' \in [Channels -> Addresses \cup {Unlinked}]
    BY <1>2 DEF TargetsInductive, TargetsTypeOK
  <1> QED
    BY <1>1, <1>2, <1>3, RemovesKeeps

LEMMA FailKeeps ==
    ASSUME TargetsInductive, NEW p \in Requests, Fail(p)
    PROVE  TargetsInductive'
  <1>0. /\ TargetsTypeOK /\ UNCHANGED <<linked, targets, events>> /\ Done(p)
        /\ request[p] # NoRequest
    BY DEF TargetsInductive, Fail
  <1>1. received \subseteq received' /\ received' \subseteq Ids
    <2>1. CASE request[p].at = "send"
      BY <1>0, <2>1 DEF Fail, TargetsInductive, TargetsTypeOK, Knows, StartKnows, At, Ids
    <2>2. CASE request[p].at # "send"
      BY <1>0, <2>2 DEF Fail, TargetsTypeOK, Ids
    <2> QED
      BY <2>1, <2>2
  <1> QED
    BY <1>0, <1>1, DoneTypes, WritesNone DEF TargetsTypeOK, Ids

LEMMA CodeExpiresKeeps ==
    ASSUME TargetsInductive, NEW i \in Ids, CodeExpires(i)
    PROVE  TargetsInductive'
  <1> DEFINE written == [targets[i] EXCEPT !.open = FALSE]
  <1>0. TargetsTypeOK /\ UNCHANGED <<linked, request, events, received>>
    BY DEF TargetsInductive, CodeExpires
  <1>1. targets[i] \in Target
    BY <1>0, RowTypes
  <1>2. /\ written \in Target
        /\ written.channel = targets[i].channel /\ written.address = targets[i].address
        /\ written.removal = targets[i].removal /\ written.verified = targets[i].verified
    BY <1>1 DEF Target
  <1>3. targets' = [targets EXCEPT ![i] = written]
    BY DEF CodeExpires
  <1> HIDE DEF written
  <1>4. /\ RowsLast /\ RowsOnlyEnd /\ NewlyAnnounced
        /\ targets' \in Seq(Target) /\ Ids' = Ids
        /\ \A j \in Ids : targets'[j].verified => targets[j].verified
    BY <1>0, <1>2, <1>3, WriteLasts
  <1>5. TargetsTypeOK'
    BY <1>0, <1>4 DEF TargetsTypeOK, Ids
  <1>6. VerifiedAreReceived' /\ EventsAreConfirmed
    BY <1>0, <1>4 DEF TargetsInductive, VerifiedAreReceived, EventsAreConfirmed
  <1>7. CASE Requests # {}
    <2>1. PICK p \in Requests : TRUE
      BY <1>7
    <2>2. OnlyMoves(p) /\ (HoldsUser(p)' => HoldsUser(p))
      BY <1>0 DEF OnlyMoves, HoldsUser, At
    <2>3. NoneAdded
      BY <1>4 DEF NoneAdded, RowsOnlyEnd
    <2>4. Knows(p)'
      BY <1>0, <1>4, <1>5, <2>3, KnowsStill
    <2> QED
      BY <1>4, <1>5, <1>6, <2>2, <2>4, WritesRows
  <1>8. CASE Requests = {}
    <2>1. OneLiveTarget'
      BY <1>4 DEF TargetsInductive, OneLiveTarget, RowsOnlyEnd, RowsLast
    <2> QED
      BY <1>4, <1>5, <1>6, <1>8, <2>1, EventsStay, RemovalsStay
         DEF TargetsInductive, HoldersAreAlone
  <1> QED
    BY <1>7, <1>8

LEMMA TargetsStep == TargetsInductive /\ [TargetsNext]_targetVars => TargetsInductive'
  <1> SUFFICES ASSUME TargetsInductive, [TargetsNext]_targetVars PROVE TargetsInductive'
    OBVIOUS
  <1>1. CASE UNCHANGED targetVars
    BY <1>1 DEF targetVars, TargetsInductive, TargetsTypeOK, HoldersAreAlone, OneLiveTarget,
       VerifiedAreReceived, AlertsGoToConfirmedAddresses, ConfirmedRemovalIsAnnounced, Knows,
       StartKnows, CheckKnows, RemovalKnows, Confirmed, At, HoldsUser, Ids, Live, DestinationOf
  <1>2. ASSUME NEW c \in Channels, NEW a \in Addresses, LinkAccount(c, a) PROVE TargetsInductive'
    BY <1>2, LinkAccountKeeps
  <1>3. ASSUME NEW p \in Requests, NEW c \in Channels,
               \/ ReadLink(p, c)
               \/ \E code \in received \cup {Wrong} : SubmitCode(p, c, code)
               \/ \E unlinks \in BOOLEAN : ReadTarget(p, c, unlinks)
        PROVE  TargetsInductive'
    BY <1>3, ReadLinkKeeps, SubmitCodeKeeps, ReadTargetKeeps
  <1>4. ASSUME NEW p \in Requests,
               \/ LockUser(p) \/ SelectTarget(p) \/ InsertTarget(p) \/ SendCode(p)
               \/ RemoveUnreachable(p) \/ CheckCode(p)
               \/ AnnounceRemoval(p) \/ MarkRemoved(p) \/ UnlinkAccount(p) \/ Fail(p)
        PROVE  TargetsInductive'
    BY <1>4, LockUserKeeps, SelectTargetKeeps, InsertTargetKeeps, SendCodeKeeps,
       RemoveUnreachableKeeps, CheckCodeKeeps, AnnounceRemovalKeeps, MarkRemovedKeeps,
       UnlinkAccountKeeps, FailKeeps
  <1>5. ASSUME NEW i \in Ids, CodeExpires(i) PROVE TargetsInductive'
    BY <1>5, CodeExpiresKeeps
  <1> QED
    BY <1>1, <1>2, <1>3, <1>4, <1>5 DEF TargetsNext

LEMMA TargetsBegin == TargetsInit => TargetsInductive
  <1> SUFFICES ASSUME TargetsInit PROVE TargetsInductive
    OBVIOUS
  <1>1. TargetsTypeOK /\ Ids = {}
    BY DEF TargetsInit, TargetsTypeOK, Ids, Target
  <1>2. \A p \in Requests : request[p] = NoRequest
    BY DEF TargetsInit
  <1> QED
    BY <1>1, <1>2 DEF TargetsInit, TargetsInductive, HoldersAreAlone, OneLiveTarget,
       VerifiedAreReceived, AlertsGoToConfirmedAddresses, ConfirmedRemovalIsAnnounced, Knows,
       StartKnows, CheckKnows, RemovalKnows, At, HoldsUser

(* The inductive invariant holds of every reachable state.                 *)
THEOREM TargetsInvariant == TargetsSpec => []TargetsInductive
  BY TargetsBegin, TargetsStep, PTL DEF TargetsSpec

(* Rows, requests and events keep their types.                             *)
THEOREM TargetTypes == TargetsSpec => []TargetsTypeOK
  <1>1. TargetsInductive => TargetsTypeOK
    BY DEF TargetsInductive
  <1> QED
    BY <1>1, TargetsInvariant, PTL

(* However starts, checks and removals overlap, a channel has one row that *)
(* is not removed at most: startAlertTarget selects and inserts under the  *)
(* lock of the user.                                                       *)
THEOREM TargetsAreOne == TargetsSpec => []OneLiveTarget
  <1>1. TargetsInductive => OneLiveTarget
    BY DEF TargetsInductive
  <1> QED
    BY <1>1, TargetsInvariant, PTL

(* Every recipient of an event is an address where a code arrived.         *)
THEOREM RecipientsConfirmed == TargetsSpec => []AlertsGoToConfirmedAddresses
  <1>1. TargetsInductive => AlertsGoToConfirmedAddresses
    BY DEF TargetsInductive
  <1> QED
    BY <1>1, TargetsInvariant, PTL

(* A verified row that its owner removes was told so at its own address.   *)
THEOREM RemovalsAnnounced == TargetsSpec => []ConfirmedRemovalIsAnnounced
  <1>1. TargetsInductive => ConfirmedRemovalIsAnnounced
    BY DEF TargetsInductive
  <1> QED
    BY <1>1, TargetsInvariant, PTL

=============================================================================
