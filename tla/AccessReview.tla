---------------------------- MODULE AccessReview ----------------------------
(***************************************************************************)
(* Who may use Cernere: the access status of an account, the registration  *)
(* requests of its owner, the decisions of administrators, the appointment *)
(* of an administrator by the operator, the deletion of an account, and    *)
(* the digest that tells administrators of new requests.                   *)
(*                                                                         *)
(* An administrator decides from a page that was loaded earlier.  The      *)
(* decision is a transaction that holds the rows of the administrator and  *)
(* of the account (`deciding`); withdrawing a request takes neither lock   *)
(* and may commit between the decision's read of the request and its write.*)
(* What a decision does to sessions, sockets and devices is the subject of *)
(* UserSessions, UserSockets and DeviceSessions.                           *)
(***************************************************************************)
EXTENDS Naturals, FiniteSets

CONSTANTS
    Users,        \* account ids
    RequestIds,   \* ids of registration requests
    None,         \* no page, no decision, no request
    MaxRevision   \* bound on access_revision

Statuses  == {"pending", "active", "locked"}
Decisions == {"approve", "reject", "lock", "unlock"}

\* The administrator's list entry for an account.
Items == [target : Users, status : Statuses, revision : 0 .. MaxRevision,
          request : RequestIds \cup {None}]

\* A decision of which the rows are locked and read, and a line of the audit.
Verdicts == [item : Items, decision : Decisions, before : Statuses,
             request : RequestIds \cup {None}]
AuditLines == [actor : Users \cup {None}, target : Users, expected : 0 .. MaxRevision,
               before : Statuses, after : Statuses, seen : Statuses]

\* `told` and `missed` are history: an administrator was told of the request;
\* why a digest that should have counted it did not.
Misses == {"no", "late", "failed", "restart", "nobody"}
RequestRows == [user : Users, told : BOOLEAN, missed : Misses,
                state : {"open", "withdrawn", "approved", "rejected"}]

ASSUME ReviewAssumption ==
    /\ MaxRevision \in Nat \ {0}
    /\ None \notin RequestIds \cup RequestRows

VARIABLES
    users,     \* users: role, access_status, access_revision
    deleted,   \* accounts whose row is gone; users keeps what it last was
    requests,  \* registration_requests by id
    pages,     \* the entry an administrator is looking at
    deciding,  \* per administrator: the decision whose transaction is open
    audit,     \* access_decisions
    applying,  \* per account: an application under way, new or overtaken by a digest
    digest,    \* the running digest, and what was created since lastDigestAt
    trail      \* history: the statuses each account has had, oldest first

vars == <<users, deleted, requests, pages, deciding, audit, applying, digest, trail>>

-----------------------------------------------------------------------------
Accounts == [role : {"general", "admin"}, status : Statuses,
             revision : 0 .. MaxRevision]

Digests == [step : {"idle", "count"}, fresh : SUBSET RequestIds,
            batch : SUBSET RequestIds]

TypeOK ==
    /\ users \in [Users -> Accounts]
    /\ deleted \subseteq Users
    /\ requests \in [RequestIds -> RequestRows \cup {None}]
    /\ pages \in [Users -> Items \cup {None}]
    /\ deciding \in [Users -> Verdicts \cup {None}]
    /\ audit \subseteq AuditLines
    /\ applying \in [Users -> {"no", "new", "overtaken"}]
    /\ digest \in Digests
    /\ trail \in [Users -> [0 .. MaxRevision -> Statuses \cup {None}]]

\* A sign-up begins pending; one that a venue has vouched for is active at
\* once, with a line of the audit that has no actor.
VouchedFor(u) == [actor |-> None, target |-> u, expected |-> 0, before |-> "pending",
                  after |-> "active", seen |-> "pending"]

Init ==
    /\ \E venue \in SUBSET Users :
          /\ users = [u \in Users |->
                 IF u \in venue THEN [role |-> "general", status |-> "active", revision |-> 1]
                 ELSE [role |-> "general", status |-> "pending", revision |-> 0]]
          /\ trail = [u \in Users |-> [n \in 0 .. MaxRevision |->
                         CASE n = 0 -> "pending"
                           [] n = 1 /\ u \in venue -> "active"
                           [] OTHER -> None]]
          /\ audit = {VouchedFor(u) : u \in venue}
    /\ deleted = {}
    /\ requests = [r \in RequestIds |-> None]
    /\ pages = [u \in Users |-> None]
    /\ deciding = [u \in Users |-> None]
    /\ applying = [u \in Users |-> "no"]
    /\ digest = [step |-> "idle", fresh |-> {}, batch |-> {}]

-----------------------------------------------------------------------------
OpenRequests(u) ==
    {r \in RequestIds : requests[r] # None /\ requests[r].user = u
                                           /\ requests[r].state = "open"}

RequestOf(u) == IF OpenRequests(u) = {} THEN None ELSE CHOOSE r \in OpenRequests(u) : TRUE

\* The rows of users that open decisions hold.
\* Faulty variant: the rows are read without FOR UPDATE.
NoRows == {}

HeldRows == UNION {{a, deciding[a].item.target} : a \in {x \in Users : deciding[x] # None}}

Administers(u) == u \notin deleted /\ users[u].role = "admin" /\ users[u].status = "active"

Transition == [approve |-> [from |-> {"pending"}, to |-> "active"],
               reject  |-> [from |-> {"pending"}, to |-> "locked"],
               lock    |-> [from |-> {"active", "pending"}, to |-> "locked"],
               unlock  |-> [from |-> {"locked"}, to |-> "active"]]

\* The status and revision of an account move together, and its history grows.
ChangeStatus(u, status, role) ==
    /\ users[u].revision < MaxRevision
    /\ users' = [users EXCEPT ![u] = [role |-> role, status |-> status,
                                      revision |-> @.revision + 1]]
    /\ trail' = [trail EXCEPT ![u][users[u].revision + 1] = status]

-----------------------------------------------------------------------------
(* The owner of an account.                                                *)

\* The transaction begins; the created_at of its row is this moment.
ApplyBegin(u) ==
    /\ applying[u] = "no"
    /\ u \notin deleted /\ users[u].status = "pending"
    /\ applying' = [applying EXCEPT ![u] = "new"]
    /\ UNCHANGED <<users, deleted, requests, pages, deciding, audit, digest, trail>>

\* Faulty variant: the status is checked before the lock only.
MayApplyUnchecked(u) == u \notin HeldRows \cup deleted /\ OpenRequests(u) = {}

MayApply(u) ==
    /\ u \notin HeldRows \cup deleted
    /\ users[u].status = "pending"
    /\ OpenRequests(u) = {}

\* Under the lock of the account's row.  A row older than the last digest is
\* counted as fresh by none that follows.
ApplyCommit(u) ==
    /\ applying[u] # "no"
    /\ MayApply(u)
    /\ \E r \in RequestIds :
          /\ requests[r] = None
          /\ requests' = [requests EXCEPT ![r] =
                 [user |-> u, state |-> "open", told |-> FALSE,
                  missed |-> IF applying[u] = "overtaken" THEN "late" ELSE "no"]]
          /\ digest' = IF applying[u] = "new"
                       THEN [digest EXCEPT !.fresh = @ \cup {r}] ELSE digest
    /\ applying' = [applying EXCEPT ![u] = "no"]
    /\ UNCHANGED <<users, deleted, pages, deciding, audit, trail>>

ApplyRefused(u) ==
    /\ applying[u] # "no"
    /\ u \notin HeldRows
    /\ applying' = [applying EXCEPT ![u] = "no"]
    /\ UNCHANGED <<users, deleted, requests, pages, deciding, audit, digest, trail>>

\* One update, without the lock of the account.
Withdraw(u) ==
    /\ OpenRequests(u) # {}
    /\ requests' = [r \in RequestIds |->
                       IF r \in OpenRequests(u)
                       THEN [requests[r] EXCEPT !.state = "withdrawn"] ELSE requests[r]]
    /\ UNCHANGED <<users, deleted, pages, deciding, audit, applying, digest, trail>>

-----------------------------------------------------------------------------
(* Administrators.                                                         *)

\* The page loads the list and one entry is looked at.
LoadPage(a, u) ==
    /\ Administers(a)
    /\ u # a /\ u \notin deleted
    /\ deciding[a] = None
    /\ pages' = [pages EXCEPT ![a] = [target |-> u, status |-> users[u].status,
                                      revision |-> users[u].revision,
                                      request |-> RequestOf(u)]]
    /\ UNCHANGED <<users, deleted, requests, deciding, audit, applying, digest, trail>>

\* The last administrator check of the code is part of the guard, although the
\* one who decides is always another active administrator.
KeepsAnAdministrator(u, to) ==
    (to = "locked" /\ Administers(u)) => \E o \in Users \ {u} : Administers(o)

\* Faulty variant: a decision is applied to whatever the account has become.
UnchangedOrNot(item) == TRUE

Unchanged(item) == users[item.target].revision = item.revision

\* Both rows are locked in the order of the ids, the checks made, and the open
\* request read without a lock of its own.
DecideRead(a, d) ==
    /\ pages[a] # None
    /\ deciding[a] = None
    /\ HeldRows \cap {a, pages[a].target} = {}
    /\ LET item == pages[a] IN
          /\ Administers(a)
          /\ item.target \notin deleted
          /\ Unchanged(item)
          /\ users[item.target].status \in Transition[d].from
          /\ KeepsAnAdministrator(item.target, Transition[d].to)
          /\ deciding' = [deciding EXCEPT ![a] =
                 [item |-> item, decision |-> d, before |-> users[item.target].status,
                  request |-> RequestOf(item.target)]]
    /\ UNCHANGED <<users, deleted, requests, pages, audit, applying, digest, trail>>

\* unlock leaves a request alone.
Closes(v) == v.request # None /\ v.decision # "unlock"

\* The request is written by its id, whatever its state has become.
DecidedState(v) == IF v.decision = "approve" THEN "approved" ELSE "rejected"

DecideWrite(a) ==
    /\ deciding[a] # None
    /\ LET v == deciding[a]
           u == v.item.target IN
          /\ ChangeStatus(u, Transition[v.decision].to, users[u].role)
          /\ requests' = IF Closes(v)
                         THEN [requests EXCEPT ![v.request].state = DecidedState(v)]
                         ELSE requests
          /\ audit' = audit \cup
                 {[actor |-> a, target |-> u, expected |-> v.item.revision,
                   before |-> v.before, after |-> Transition[v.decision].to,
                   seen |-> v.item.status]}
    /\ deciding' = [deciding EXCEPT ![a] = None]
    /\ pages' = [pages EXCEPT ![a] = None]
    /\ UNCHANGED <<deleted, applying, digest>>

\* The transaction fails and is rolled back.
DecideFails(a) ==
    /\ deciding[a] # None
    /\ deciding' = [deciding EXCEPT ![a] = None]
    /\ pages' = [pages EXCEPT ![a] = None]
    /\ UNCHANGED <<users, deleted, requests, audit, applying, digest, trail>>

\* Faulty variant: the account's row is read without its lock.
GrantAdminRoleUnlocked(u) ==
    /\ u \notin deleted /\ ~Administers(u)
    /\ ChangeStatus(u, "active", "admin")
    /\ UNCHANGED <<deleted, requests, pages, deciding, audit, applying, digest>>

\* The operator makes an account an active administrator.  No request is
\* closed, and nothing is added to the audit.
GrantAdminRole(u) ==
    /\ u \notin HeldRows
    /\ u \notin deleted /\ ~Administers(u)
    /\ ChangeStatus(u, "active", "admin")
    /\ UNCHANGED <<deleted, requests, pages, deciding, audit, applying, digest>>

-----------------------------------------------------------------------------
(* The deletion of an account.                                             *)

\* Requests of an account go with its row.
Owned(u) == {r \in RequestIds : requests[r] # None /\ requests[r].user = u}

\* By its owner, by an administrator, or from the list of those who left.  It
\* was authorised when it was asked for, so its status may be any by now, and
\* nothing asks whether it is the last administrator.  The row takes its
\* requests and its lines of the audit with it, and leaves those it decided.
EraseAccount(u) ==
    /\ u \notin HeldRows \cup deleted
    /\ deleted' = deleted \cup {u}
    /\ requests' = [r \in RequestIds |-> IF r \in Owned(u) THEN None ELSE requests[r]]
    /\ digest' = [digest EXCEPT !.fresh = @ \ Owned(u), !.batch = @ \ Owned(u)]
    /\ audit' = {[l EXCEPT !.actor = IF @ = u THEN None ELSE @] :
                     l \in {k \in audit : k.target # u}}
    /\ UNCHANGED <<users, pages, deciding, applying, trail>>

-----------------------------------------------------------------------------
(* The digest for administrators, every fifteen minutes.                   *)

DigestBegin ==
    /\ digest.step = "idle"
    /\ digest.fresh # {} \/ \E u \in Users : applying[u] = "new"
    /\ digest' = [step |-> "count", fresh |-> {}, batch |-> digest.fresh]
    /\ applying' = [u \in Users |-> IF applying[u] = "new" THEN "overtaken" ELSE applying[u]]
    /\ UNCHANGED <<users, deleted, requests, pages, deciding, audit, trail>>

IsOpen(r) == requests[r].state = "open"

\* The number of open requests goes to every active administrator, when one of
\* the fresh ones is still open.  When there is none, nobody is told.
Announced ==
    IF \E r \in digest.batch : IsOpen(r)
    THEN {r \in RequestIds : requests[r] # None /\ IsOpen(r)} ELSE {}

\* Faulty variant: the moment of the digest is taken when it ends, and what was
\* created in the meantime is older than it.
DigestEndedAfter(fresh) == {}

DigestEndedAt(fresh) == fresh

Told(rows) ==
    [r \in RequestIds |-> IF r \in rows THEN [requests[r] EXCEPT !.told = TRUE] ELSE requests[r]]

Missed(rows, why) ==
    [r \in RequestIds |-> IF r \in rows /\ IsOpen(r) /\ ~requests[r].told
                          THEN [requests[r] EXCEPT !.missed = why] ELSE requests[r]]

DigestCount ==
    /\ digest.step = "count"
    /\ requests' = IF \E u \in Users : Administers(u) THEN Told(Announced)
                                                     ELSE Missed(Announced, "nobody")
    /\ digest' = [step |-> "idle", fresh |-> DigestEndedAt(digest.fresh), batch |-> {}]
    /\ UNCHANGED <<users, deleted, pages, deciding, audit, applying, trail>>

\* A query throws: the interval has passed and its requests are not fresh again.
DigestFails ==
    /\ digest.step = "count"
    /\ requests' = Missed(digest.batch, "failed")
    /\ digest' = [digest EXCEPT !.step = "idle", !.batch = {}]
    /\ UNCHANGED <<users, deleted, pages, deciding, audit, applying, trail>>

\* The process ends and starts again.  Transactions under way are rolled back;
\* lastDigestAt was in memory, so that the next digest counts from now.
Restart ==
    /\ requests' = Missed(digest.fresh \cup digest.batch, "restart")
    /\ digest' = [step |-> "idle", fresh |-> {}, batch |-> {}]
    /\ applying' = [u \in Users |-> "no"]
    /\ deciding' = [a \in Users |-> None]
    /\ pages' = [a \in Users |-> IF deciding[a] = None THEN pages[a] ELSE None]
    /\ UNCHANGED <<users, deleted, audit, trail>>

-----------------------------------------------------------------------------
Next ==
    \/ \E u \in Users :
          \/ ApplyBegin(u) \/ ApplyCommit(u) \/ ApplyRefused(u) \/ Withdraw(u)
          \/ DecideWrite(u) \/ DecideFails(u) \/ GrantAdminRole(u)
          \/ EraseAccount(u)
          \/ \E a \in Users : LoadPage(a, u)
          \/ \E d \in Decisions : DecideRead(u, d)
    \/ DigestBegin \/ DigestCount \/ DigestFails \/ Restart

Spec == Init /\ [][Next]_vars

-----------------------------------------------------------------------------
\* Nothing but the deletion of the last active administrator leaves none: two
\* who lock each other at the same moment, each from a page that showed the
\* other as active, or one who locks another while its own account is being
\* deleted, do not leave the server without anybody who can unlock.
AnAdministratorRemains ==
    [][(\E u \in Users : Administers(u)) =>
          \/ \E u \in Users : Administers(u)'
          \/ \E u \in Users : Administers(u) /\ EraseAccount(u)]_vars

\* A decision changes the status its administrator saw: no line of the audit
\* was decided on a page that had gone stale.
DecidedAsReviewed ==
    \A l \in audit : l.seen = l.before /\ trail[l.target][l.expected] = l.before

\* The audit explains the status: one line per revision, each from the status
\* before to the status after it, and a revision without a line is the
\* operator's appointment, which makes the account active.
AuditExplainsStatus ==
    \A u \in Users \ deleted : \A n \in 1 .. users[u].revision :
        LET lines == {l \in audit : l.target = u /\ l.expected = n - 1} IN
            /\ Cardinality(lines) <= 1
            /\ \A l \in lines : l.before = trail[u][n - 1] /\ l.after = trail[u][n]
            /\ lines = {} => trail[u][n] = "active" /\ users[u].role = "admin"

\* An account has one open request at most, and a request waits only while its
\* account does: an application that overlaps another, or a decision, leaves
\* nothing behind.  The operator's appointment is the exception, it closes no
\* request.
RequestsAwaitReview ==
    \A u \in Users : OpenRequests(u) # {} =>
        /\ Cardinality(OpenRequests(u)) = 1
        /\ users[u].status = "pending" \/ users[u].role = "admin"

\* An open request that administrators were not told of and that no digest has
\* before it.
Overlooked(r) ==
    /\ requests[r] # None /\ IsOpen(r) /\ ~requests[r].told
    /\ r \notin digest.fresh \cup digest.batch

\* Administrators hear of every open request, by this digest or the next,
\* unless a digest failed, the process was restarted, nobody was active as an
\* administrator, or the row is older than the digest it was too late for.
NoRequestIsOverlooked == \A r \in RequestIds : Overlooked(r) => requests[r].missed # "no"
=============================================================================
