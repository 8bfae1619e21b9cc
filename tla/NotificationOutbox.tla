------------------------- MODULE NotificationOutbox -------------------------
(***************************************************************************)
(* Delivery of security alerts: the table notification_outbox and the      *)
(* worker that every server process runs (server/src/notify/outbox-        *)
(* worker.ts).                                                             *)
(*                                                                         *)
(* A row is leased for a minute together with up to BATCH others in one    *)
(* UPDATE over SELECT ... FOR UPDATE SKIP LOCKED, and the rows of a batch  *)
(* are then delivered one after the other.  The database updates of a      *)
(* delivery are conditional on the row's id alone, so a process whose      *)
(* lease ran out while it was delivering still writes its result.          *)
(*                                                                         *)
(* Each action is one database statement or one call of the channel.       *)
(* Time is two actions, LeaseLapses and BackoffEnds.                       *)
(***************************************************************************)
EXTENDS Naturals, FiniteSets

CONSTANTS
    Rows,         \* rows of notification_outbox
    Discord,      \* those of them whose channel is discord
    Processes,    \* server processes, each with one outbox worker
    MaxAttempts,  \* MAX_ATTEMPTS
    Batch,        \* BATCH
    NoItem,       \* a process that is not writing a result
    MaxOverruns,  \* bound: times a row's lease runs out under a live process
    MaxMishaps    \* bound: failed statements and crashes, all processes

ASSUME OutboxAssumption ==
    /\ Discord \subseteq Rows
    /\ MaxAttempts \in Nat \ {0}
    /\ Batch \in Nat \ {0}
    /\ MaxOverruns \in Nat /\ MaxMishaps \in Nat

VARIABLES
    row,       \* the columns of each row that the worker reads or writes
    batch,     \* the leased rows that each process has not delivered yet
    result,    \* the delivery whose result each process is about to write
    degraded,  \* the rows whose target was marked degraded
    sent,      \* history: messages handed to the recipient, per row
    lost,      \* history: deliveries whose success was lost, per row
    lapses,    \* history: leases that ran out, per row
    mishaps    \* failed database statements and crashes so far

history == <<sent, lost, lapses>>
vars == <<row, batch, result, degraded, sent, lost, lapses, mishaps>>

-----------------------------------------------------------------------------
OutboxRow == [recorded : BOOLEAN, due : BOOLEAN,
              lease : {"none", "held", "lapsed"}, attempts : Nat,
              delivered : BOOLEAN, failed : BOOLEAN]

\* An element of the array that leaseDue returns: the row, and attempts as it
\* was at the lease.
Item == [row : Rows, attempts : Nat]

\* How a delivery ended: sent and acknowledged, sent without the answer
\* arriving, refused for now, or refused by Discord for good.
Outcome == {"delivered", "unacknowledged", "temporary", "permanent"}

\* What the process will write next.  "marked": the target is degraded and
\* the row is to be failed.
Result == [item : Item, write : {"delivered", "temporary", "permanent", "marked"}]

ASSUME NoItemIsNoResult == NoItem \notin Result

TypeOK ==
    /\ row \in [Rows -> OutboxRow]
    /\ batch \in [Processes -> SUBSET Item]
    /\ result \in [Processes -> Result \cup {NoItem}]
    /\ degraded \subseteq Discord
    /\ sent \in [Rows -> Nat] /\ lost \in [Rows -> Nat] /\ lapses \in [Rows -> Nat]
    /\ mishaps \in Nat

Init ==
    /\ row = [r \in Rows |-> [recorded |-> FALSE, due |-> FALSE, lease |-> "none",
                              attempts |-> 0, delivered |-> FALSE, failed |-> FALSE]]
    /\ batch = [p \in Processes |-> {}]
    /\ result = [p \in Processes |-> NoItem]
    /\ degraded = {}
    /\ sent = [r \in Rows |-> 0]
    /\ lost = [r \in Rows |-> 0]
    /\ lapses = [r \in Rows |-> 0]
    /\ mishaps = 0

-----------------------------------------------------------------------------
Settled(r) == row[r].delivered \/ row[r].failed

\* Faulty variants: without the condition on leased_until, with leased_until
\* IS NULL only, without delivered_at IS NULL.
LeasableWhileHeld(r) == row[r].recorded /\ ~Settled(r) /\ row[r].due

LeasableWhenFree(r) ==
    row[r].recorded /\ ~Settled(r) /\ row[r].due /\ row[r].lease = "none"

LeasableWhenDelivered(r) ==
    row[r].recorded /\ ~row[r].failed /\ row[r].due /\ row[r].lease # "held"

\* The WHERE clause of leaseDue.
Leasable(r) ==
    /\ row[r].recorded
    /\ ~Settled(r)
    /\ row[r].due
    /\ row[r].lease # "held"

\* The items a process still has to deliver or whose result it has to write.
Holding(p) ==
    batch[p] \cup (IF result[p] = NoItem THEN {} ELSE {result[p].item})

Holders(r) == {p \in Processes : \E i \in Holding(p) : i.row = r}

Abandoned(r) == Holders(r) = {}

\* `running`: the interval timer starts no second drain.
Idle(p) == Holding(p) = {}

\* Only the Discord sender throws an error that is permanent.
OutcomesOf(item) == {o \in Outcome : o = "permanent" => item.row \in Discord}

\* Faulty variants: one attempt too many, one too few.
ExhaustedOneLate(item) == item.attempts > MaxAttempts

ExhaustedOneEarly(item) == item.attempts >= MaxAttempts - 1

\* `exhausted`, from the number of attempts the row had when it was leased.
Exhausted(item) == item.attempts >= MaxAttempts

-----------------------------------------------------------------------------
\* recordSecurityEvent commits: the row is due at once.
Record(r) ==
    /\ ~row[r].recorded
    /\ row' = [row EXCEPT ![r].recorded = TRUE, ![r].due = TRUE]
    /\ UNCHANGED <<batch, result, degraded, history, mishaps>>

\* leaseDue: as many due rows as the batch takes, each counted as attempted.
\* SKIP LOCKED and the statement's atomicity keep two processes apart here.
Lease(p) ==
    /\ Idle(p)
    /\ \E S \in SUBSET {r \in Rows : Leasable(r)} :
        /\ S # {} /\ Cardinality(S) <= Batch
        /\ Cardinality(S) < Batch => \A r \in Rows : Leasable(r) => r \in S
        /\ row' = [r \in Rows |-> IF r \in S
                     THEN [row[r] EXCEPT !.lease = "held", !.attempts = @ + 1]
                     ELSE row[r]]
        /\ batch' = [batch EXCEPT ![p] =
                       {[row |-> r, attempts |-> row[r].attempts + 1] : r \in S}]
    /\ UNCHANGED <<result, degraded, history, mishaps>>

\* deliverAlert returns or throws.
Deliver(p, item, outcome) ==
    /\ result[p] = NoItem
    /\ item \in batch[p]
    /\ batch' = [batch EXCEPT ![p] = @ \ {item}]
    /\ result' = [result EXCEPT ![p] =
                    [item |-> item,
                     write |-> IF outcome = "unacknowledged" THEN "temporary" ELSE outcome]]
    /\ sent' = IF outcome \in {"delivered", "unacknowledged"}
               THEN [sent EXCEPT ![item.row] = @ + 1] ELSE sent
    /\ lost' = IF outcome = "unacknowledged"
               THEN [lost EXCEPT ![item.row] = @ + 1] ELSE lost
    /\ UNCHANGED <<row, degraded, lapses, mishaps>>

\* The update after a delivery that succeeded.
WriteDelivered(p) ==
    /\ result[p] # NoItem /\ result[p].write = "delivered"
    /\ LET r == result[p].item.row
       IN row' = [row EXCEPT ![r].delivered = TRUE, ![r].lease = "none"]
    /\ result' = [result EXCEPT ![p] = NoItem]
    /\ UNCHANGED <<batch, degraded, history, mishaps>>

\* That update throws inside the try block: the delivery is treated as one
\* that failed, and the message will be sent again.
WriteDeliveredFails(p) ==
    /\ result[p] # NoItem /\ result[p].write = "delivered"
    /\ mishaps < MaxMishaps
    /\ mishaps' = mishaps + 1
    /\ result' = [result EXCEPT ![p].write = "temporary"]
    /\ lost' = [lost EXCEPT ![result[p].item.row] = @ + 1]
    /\ UNCHANGED <<row, batch, degraded, sent, lapses>>

\* markAlertTargetDegraded, before the row is failed.
MarkDegraded(p) ==
    /\ result[p] # NoItem /\ result[p].write = "permanent"
    /\ degraded' = degraded \cup {result[p].item.row}
    /\ result' = [result EXCEPT ![p].write = "marked"]
    /\ UNCHANGED <<row, batch, history, mishaps>>

\* The update in the catch block: given up, or due again after a delay.
WriteFailure(p) ==
    /\ result[p] # NoItem /\ result[p].write \in {"temporary", "marked"}
    /\ LET item == result[p].item
           givenUp == result[p].write = "marked" \/ Exhausted(item)
       IN row' = [row EXCEPT ![item.row].lease = "none",
                             ![item.row].failed = @ \/ givenUp,
                             ![item.row].due = @ /\ givenUp]
    /\ result' = [result EXCEPT ![p] = NoItem]
    /\ UNCHANGED <<batch, degraded, history, mishaps>>

\* A statement of the catch block throws: drainOutboxOnce rejects and the rest
\* of the batch is abandoned with its leases.
DrainAborts(p) ==
    /\ result[p] # NoItem /\ result[p].write # "delivered"
    /\ mishaps < MaxMishaps
    /\ mishaps' = mishaps + 1
    /\ batch' = [batch EXCEPT ![p] = {}]
    /\ result' = [result EXCEPT ![p] = NoItem]
    /\ UNCHANGED <<row, degraded, history>>

\* The process stops and is started again; what it was doing is lost.
Crash(p) ==
    /\ ~Idle(p)
    /\ mishaps < MaxMishaps
    /\ mishaps' = mishaps + 1
    /\ batch' = [batch EXCEPT ![p] = {}]
    /\ result' = [result EXCEPT ![p] = NoItem]
    /\ UNCHANGED <<row, degraded, history>>

\* leased_until passes.  Nothing renews a lease, and nothing bounds the time
\* the deliveries of a batch take.
LeaseLapses(r) ==
    /\ row[r].lease = "held"
    /\ Abandoned(r) \/ lapses[r] < MaxOverruns
    /\ row' = [row EXCEPT ![r].lease = "lapsed"]
    /\ lapses' = [lapses EXCEPT ![r] = @ + 1]
    /\ UNCHANGED <<batch, result, degraded, sent, lost, mishaps>>

\* next_attempt_at passes.
BackoffEnds(r) ==
    /\ row[r].recorded /\ ~Settled(r) /\ ~row[r].due
    /\ row' = [row EXCEPT ![r].due = TRUE]
    /\ UNCHANGED <<batch, result, degraded, history, mishaps>>

WriteResult(p) == WriteDelivered(p) \/ MarkDegraded(p) \/ WriteFailure(p)

DeliverOne(p) ==
    \E item \in batch[p] : \E outcome \in OutcomesOf(item) : Deliver(p, item, outcome)

Next ==
    \/ \E r \in Rows : Record(r) \/ LeaseLapses(r) \/ BackoffEnds(r)
    \/ \E p \in Processes :
        \/ Lease(p) \/ DeliverOne(p) \/ WriteResult(p)
        \/ WriteDeliveredFails(p) \/ DrainAborts(p) \/ Crash(p)

\* A worker polls for ever, a delivery returns (the HTTP and mail clients time
\* out by themselves) and clocks go on.  Nothing obliges an alert to be
\* recorded, a statement to fail, a process to crash or a live process to
\* outlast its lease.
Fairness ==
    /\ \A p \in Processes :
        WF_vars(Lease(p)) /\ WF_vars(DeliverOne(p)) /\ WF_vars(WriteResult(p))
    /\ \A r \in Rows :
        WF_vars(BackoffEnds(r)) /\ WF_vars(Abandoned(r) /\ LeaseLapses(r))

Spec == Init /\ [][Next]_vars
FairSpec == Spec /\ Fairness

-----------------------------------------------------------------------------
(* Properties *)

\* A row is attempted at most MAX_ATTEMPTS times, and once more for each of
\* its leases that ran out: a lease that a late failure write clears under the
\* feet of the next holder (the update names the id only) is paid for by the
\* attempt that write belongs to.
AttemptsBounded ==
    \A r \in Rows : row[r].attempts <= MaxAttempts + lapses[r]

\* A recipient sees a message a second time only for a reason: the answer to a
\* delivery or the write of delivered_at was lost, or a lease ran out (after a
\* crash or under a process that is too slow).
DuplicatesHaveACause ==
    \A r \in Rows : sent[r] <= 1 + lost[r] + lapses[r]

\* A row ends both delivered and failed, and two processes hold one row, only
\* after a lease of it ran out.
ContentionNeedsALapse ==
    \A r \in Rows :
        (row[r].delivered /\ row[r].failed) \/ Cardinality(Holders(r)) > 1
            => lapses[r] > 0

\* A row is given up after MAX_ATTEMPTS or once its target shows the user that
\* alerts do not arrive, never otherwise.
GivenUpForCause ==
    \A r \in Rows : row[r].failed => row[r].attempts >= MaxAttempts \/ r \in degraded

\* Every alert that was recorded is delivered or given up, whatever crashes,
\* lapses and lost writes happen on the way.
AlertsSettle == \A r \in Rows : row[r].recorded ~> Settled(r)
=============================================================================
