-------------------------- MODULE AccessReview_proofs --------------------------
(***************************************************************************)
(* Proofs about the review of accounts, for any number of accounts,        *)
(* administrators at work and registration requests.                       *)
(*                                                                         *)
(* The argument: an open decision holds the rows of its administrator and  *)
(* of its account, so what it has read of them is still so when it writes  *)
(* (RowsAreHeld); only the request was read without a lock, and what may   *)
(* have happened to it is that it was withdrawn (RequestsAreRead).  A      *)
(* revision dates a status: the history of an account is written at the    *)
(* next revision alone (PagesAreDated).  A deletion waits for the row it   *)
(* removes, so no open decision is on a deleted account.                   *)
(***************************************************************************)
EXTENDS AccessReview, FiniteSetTheorems, TLAPS

(* The rows of an open decision are as it read them, and nobody else's. *)
RowsAreHeld ==
  \A a \in Users : deciding[a] # None =>
    /\ pages[a] # None /\ deciding[a].item = pages[a]
    /\ Administers(a)
    /\ users[deciding[a].item.target].revision = deciding[a].item.revision
    /\ users[deciding[a].item.target].status = deciding[a].before
    /\ deciding[a].before \in Transition[deciding[a].decision].from
    /\ \A b \in Users : deciding[b] # None /\ b # a =>
          {a, deciding[a].item.target} \cap {b, deciding[b].item.target} = {}

(* What an administrator looks at was so at the revision shown. *)
PagesAreDated ==
  /\ \A u \in Users : trail[u][users[u].revision] = users[u].status
  /\ \A a \in Users : pages[a] # None =>
       /\ pages[a].target # a
       /\ pages[a].revision <= users[pages[a].target].revision
       /\ trail[pages[a].target][pages[a].revision] = pages[a].status

AuditIsDated == \A l \in audit : l.expected < users[l.target].revision

(* AuditExplainsStatus without counting. *)
LineOf(u, n) == {l \in audit : l.target = u /\ l.expected = n - 1}

StepsAreExplained ==
  \A u \in Users \ deleted : \A n \in 1 .. users[u].revision :
    /\ \A l, k \in LineOf(u, n) : l = k
    /\ \A l \in LineOf(u, n) : l.before = trail[u][n - 1] /\ l.after = trail[u][n]
    /\ LineOf(u, n) = {} => trail[u][n] = "active" /\ users[u].role = "admin"

OpenRequestsAwait ==
  \A u \in Users :
    /\ \A r, s \in OpenRequests(u) : r = s
    /\ OpenRequests(u) # {} => users[u].status = "pending" \/ users[u].role = "admin"

(* The request an open decision has read: still the only one that may be    *)
(* open, and if it is not open it was withdrawn.                            *)
RequestsAreRead ==
  \A a \in Users : deciding[a] # None =>
    /\ deciding[a].request # None =>
         /\ requests[deciding[a].request] # None
         /\ requests[deciding[a].request].user = deciding[a].item.target
    /\ deciding[a].decision # "unlock" =>
         \A r \in OpenRequests(deciding[a].item.target) : r = deciding[a].request

DigestsKnow ==
  /\ \A r \in digest.fresh \cup digest.batch : requests[r] # None
  /\ digest.step = "idle" => digest.batch = {}

Inductive ==
  /\ TypeOK
  /\ RowsAreHeld
  /\ PagesAreDated
  /\ AuditIsDated /\ DecidedAsReviewed /\ StepsAreExplained
  /\ OpenRequestsAwait /\ RequestsAreRead
  /\ DigestsKnow /\ NoRequestIsOverlooked

-----------------------------------------------------------------------------
(* Rows and records.                                                       *)

LEMMA VerdictTypes ==
    ASSUME TypeOK, NEW a \in Users, deciding[a] # None
    PROVE  /\ deciding[a] \in Verdicts
           /\ deciding[a].item \in Items
           /\ deciding[a].item.target \in Users
           /\ deciding[a].item.revision \in 0 .. MaxRevision
           /\ deciding[a].item.status \in Statuses
           /\ deciding[a].decision \in Decisions
           /\ deciding[a].before \in Statuses
           /\ deciding[a].request \in RequestIds \cup {None}
  <1>1. deciding[a] \in Verdicts
    BY DEF TypeOK
  <1>2. deciding[a].item \in Items
    BY <1>1 DEF Verdicts
  <1> QED
    BY <1>1, <1>2 DEF Verdicts, Items

LEMMA PageTypes ==
    ASSUME TypeOK, NEW a \in Users, pages[a] # None
    PROVE  /\ pages[a] \in Items
           /\ pages[a].target \in Users
           /\ pages[a].revision \in 0 .. MaxRevision
           /\ pages[a].status \in Statuses
  BY DEF TypeOK, Items

LEMMA AccountTypes ==
    ASSUME TypeOK, NEW u \in Users
    PROVE  /\ users[u] \in Accounts
           /\ users[u].role \in {"general", "admin"}
           /\ users[u].status \in Statuses
           /\ users[u].revision \in 0 .. MaxRevision
           /\ users[u].revision \in Nat
  BY ReviewAssumption DEF TypeOK, Accounts

LEMMA TransitionTypes ==
    ASSUME NEW d \in Decisions
    PROVE  /\ Transition[d].to \in Statuses
           /\ Transition[d].to # "pending"
           /\ d # "unlock" => Transition[d].from \subseteq {"active", "pending"}
           /\ d = "unlock" => Transition[d].from = {"locked"}
  BY DEF Decisions, Transition, Statuses

LEMMA RequestOfType ==
    ASSUME NEW u \in Users
    PROVE  /\ RequestOf(u) \in RequestIds \cup {None}
           /\ RequestOf(u) # None => RequestOf(u) \in OpenRequests(u)
           /\ RequestOf(u) = None => OpenRequests(u) = {}
  <1>1. CASE OpenRequests(u) = {}
    BY <1>1 DEF RequestOf
  <1>2. CASE OpenRequests(u) # {}
    <2>1. RequestOf(u) = CHOOSE r \in OpenRequests(u) : TRUE
      BY <1>2 DEF RequestOf
    <2>2. RequestOf(u) \in OpenRequests(u)
      BY <1>2, <2>1
    <2>3. RequestOf(u) \in RequestIds
      BY <2>2 DEF OpenRequests
    <2> QED
      BY <2>2, <2>3, ReviewAssumption
  <1> QED
    BY <1>1, <1>2

(* A change of status writes one account, and its history at one revision. *)
LEMMA StatusChanges ==
    ASSUME TypeOK, NEW u \in Users, NEW st \in Statuses, NEW ro \in {"general", "admin"},
           ChangeStatus(u, st, ro)
    PROVE  /\ users' \in [Users -> Accounts]
           /\ trail' \in [Users -> [0 .. MaxRevision -> Statuses \cup {None}]]
           /\ users[u].revision < MaxRevision
           /\ users'[u].role = ro /\ users'[u].status = st
           /\ users'[u].revision = users[u].revision + 1
           /\ trail'[u][users[u].revision + 1] = st
           /\ \A n \in 0 .. users[u].revision : trail'[u][n] = trail[u][n]
           /\ \A o \in Users : o # u => users'[o] = users[o] /\ trail'[o] = trail[o]
  <1> DEFINE n0 == users[u].revision
             j == [role |-> ro, status |-> st, revision |-> n0 + 1]
  <1>1. n0 \in Nat /\ n0 < MaxRevision /\ MaxRevision \in Nat
    BY AccountTypes, ReviewAssumption DEF ChangeStatus
  <1>2. j \in Accounts
    BY <1>1 DEF Accounts
  <1>3. users' = [users EXCEPT ![u] = j]
    BY DEF ChangeStatus
  <1>4. trail' = [trail EXCEPT ![u] = [trail[u] EXCEPT ![n0 + 1] = st]]
    BY DEF ChangeStatus
  <1>5. users \in [Users -> Accounts] /\ trail[u] \in [0 .. MaxRevision -> Statuses \cup {None}]
        /\ trail \in [Users -> [0 .. MaxRevision -> Statuses \cup {None}]]
    BY DEF TypeOK
  <1>6. /\ users' \in [Users -> Accounts] /\ users'[u] = j
        /\ \A o \in Users : o # u => users'[o] = users[o]
    BY <1>2, <1>3, <1>5
  <1>7. j.role = ro /\ j.status = st /\ j.revision = n0 + 1
    OBVIOUS
  <1> DEFINE t == [trail[u] EXCEPT ![n0 + 1] = st]
  <1>8. t \in [0 .. MaxRevision -> Statuses \cup {None}] /\ t[n0 + 1] = st
        /\ \A n \in 0 .. n0 : t[n] = trail[u][n]
    BY <1>1, <1>5
  <1>9. trail' = [trail EXCEPT ![u] = t]
    BY <1>4
  <1> HIDE DEF j, t
  <1>10. /\ trail' \in [Users -> [0 .. MaxRevision -> Statuses \cup {None}]]
         /\ trail'[u] = t
         /\ \A o \in Users : o # u => trail'[o] = trail[o]
    BY <1>5, <1>8, <1>9
  <1> QED
    BY <1>1, <1>6, <1>7, <1>8, <1>10

-----------------------------------------------------------------------------
(* Writes to the requests.  All but the insertion of a new one only close  *)
(* requests or mark them.                                                  *)
Settles ==
  \A r \in RequestIds :
    /\ requests'[r] \in RequestRows \cup {None}
    /\ requests'[r] = None <=> requests[r] = None
    /\ requests[r] # None =>
         /\ requests'[r].user = requests[r].user
         /\ requests'[r].state = "open" => requests[r].state = "open"

LEMMA SameSettles ==
    ASSUME TypeOK, requests' = requests
    PROVE  requests' \in [RequestIds -> RequestRows \cup {None}] /\ Settles
  BY DEF TypeOK, Settles

LEMMA RowIsNotNone ==
    ASSUME TypeOK, NEW r \in RequestIds, requests[r] # None
    PROVE  requests[r] \in RequestRows
  BY DEF TypeOK

LEMMA StateRow ==
    ASSUME NEW q \in RequestRows, NEW st \in {"open", "withdrawn", "approved", "rejected"},
           NEW j, j = [q EXCEPT !.state = st]
    PROVE  /\ j \in RequestRows /\ j # None
           /\ j.state = st /\ j.user = q.user
  BY ReviewAssumption DEF RequestRows

LEMMA ToldRow ==
    ASSUME NEW q \in RequestRows, NEW j, j = [q EXCEPT !.told = TRUE]
    PROVE  /\ j \in RequestRows /\ j # None
           /\ j.told /\ j.user = q.user /\ j.state = q.state
  BY ReviewAssumption DEF RequestRows

LEMMA MissedRow ==
    ASSUME NEW q \in RequestRows, NEW why \in Misses, NEW j, j = [q EXCEPT !.missed = why]
    PROVE  /\ j \in RequestRows /\ j # None
           /\ j.missed = why /\ j.user = q.user /\ j.state = q.state
  BY ReviewAssumption DEF RequestRows

LEMMA WithdrawSettles ==
    ASSUME TypeOK, NEW u \in Users, Withdraw(u)
    PROVE  /\ requests' \in [RequestIds -> RequestRows \cup {None}] /\ Settles
           /\ \A r \in RequestIds :
                \/ requests'[r] = requests[r]
                \/ requests[r] # None /\ requests'[r].state = "withdrawn"
  <1>1. requests' = [r \in RequestIds |->
                       IF r \in OpenRequests(u)
                       THEN [requests[r] EXCEPT !.state = "withdrawn"] ELSE requests[r]]
    BY DEF Withdraw
  <1>2. ASSUME NEW r \in RequestIds
        PROVE  /\ requests'[r] \in RequestRows \cup {None}
               /\ requests'[r] = None <=> requests[r] = None
               /\ requests[r] # None =>
                    /\ requests'[r].user = requests[r].user
                    /\ requests'[r].state = "open" => requests[r].state = "open"
               /\ \/ requests'[r] = requests[r]
                  \/ requests[r] # None /\ requests'[r].state = "withdrawn"
    <2>1. CASE r \in OpenRequests(u)
      <3>1. requests'[r] = [requests[r] EXCEPT !.state = "withdrawn"]
        BY <1>1, <2>1
      <3>2. requests[r] \in RequestRows /\ requests[r] # None /\ requests[r].state = "open"
        BY <2>1, RowIsNotNone DEF OpenRequests
      <3>3. requests'[r] \in RequestRows /\ requests'[r].state = "withdrawn"
            /\ requests'[r].user = requests[r].user
        BY <3>1, <3>2, StateRow
      <3> QED
        BY <3>2, <3>3, ReviewAssumption
    <2>2. CASE r \notin OpenRequests(u)
      BY <1>1, <2>2 DEF TypeOK
    <2> QED
      BY <2>1, <2>2
  <1> QED
    BY <1>1, <1>2 DEF Settles

LEMMA DecideWriteSettles ==
    ASSUME TypeOK, RequestsAreRead, NEW a \in Users, DecideWrite(a)
    PROVE  /\ requests' \in [RequestIds -> RequestRows \cup {None}] /\ Settles
           /\ \A r \in RequestIds :
                \/ requests'[r] = requests[r]
                \/ requests[r] # None /\ requests'[r].state # "open"
           /\ deciding[a].request # None /\ deciding[a].decision # "unlock" =>
                requests'[deciding[a].request].state # "open"
  <1> DEFINE v == deciding[a]
  <1>0. v # None
    BY DEF DecideWrite
  <1>1. CASE Closes(v)
    <2>1. v.request \in RequestIds /\ requests[v.request] # None
      BY <1>0, <1>1, VerdictTypes DEF Closes, RequestsAreRead
    <2>2. requests[v.request] \in RequestRows
      BY <2>1, RowIsNotNone
    <2> DEFINE j == [requests[v.request] EXCEPT !.state = DecidedState(v)]
    <2>3. DecidedState(v) \in {"approved", "rejected"}
      BY DEF DecidedState
    <2>4. requests' = [requests EXCEPT ![v.request] = j]
      BY <1>1 DEF DecideWrite
    <2>5. j \in RequestRows /\ j.state = DecidedState(v) /\ j.user = requests[v.request].user
      BY <2>2, <2>3, StateRow
    <2> HIDE DEF j, v
    <2>6. /\ requests' \in [RequestIds -> RequestRows \cup {None}]
          /\ requests'[v.request] = j
          /\ \A r \in RequestIds : r # v.request => requests'[r] = requests[r]
      BY <2>1, <2>4, <2>5 DEF TypeOK
    <2>7. j # None
      BY <2>5, ReviewAssumption
    <2>8. Settles
      BY <2>1, <2>2, <2>3, <2>5, <2>6, <2>7 DEF Settles, TypeOK
    <2> QED
      BY <2>1, <2>3, <2>5, <2>6, <2>8 DEF v
  <1>2. CASE ~Closes(v)
    <2>1. requests' = requests
      BY <1>2 DEF DecideWrite
    <2>2. ~(v.request # None /\ v.decision # "unlock")
      BY <1>2 DEF Closes
    <2> QED
      BY <2>1, <2>2, SameSettles
  <1> QED
    BY <1>1, <1>2

(* A digest marks requests, it neither closes nor opens any. *)
LEMMA ToldSettles ==
    ASSUME TypeOK, NEW S, \A r \in S : r \in RequestIds /\ requests[r] # None,
           requests' = Told(S)
    PROVE  /\ requests' \in [RequestIds -> RequestRows \cup {None}] /\ Settles
           /\ \A r \in RequestIds : r \notin S => requests'[r] = requests[r]
           /\ \A r \in S : requests'[r].told
  <1>1. requests' = [r \in RequestIds |->
                        IF r \in S THEN [requests[r] EXCEPT !.told = TRUE] ELSE requests[r]]
    BY DEF Told
  <1>2. ASSUME NEW r \in S
        PROVE  /\ requests'[r] \in RequestRows /\ requests[r] # None
               /\ requests'[r] # None
               /\ requests'[r].user = requests[r].user
               /\ requests'[r].state = requests[r].state
               /\ requests'[r].told
    <2>1. r \in RequestIds /\ requests[r] # None
      OBVIOUS
    <2>2. requests[r] \in RequestRows
      BY <2>1, RowIsNotNone
    <2>3. requests'[r] = [requests[r] EXCEPT !.told = TRUE]
      BY <1>1, <2>1
    <2> QED
      BY <2>1, <2>2, <2>3, ToldRow
  <1>3. \A r \in RequestIds : r \notin S => requests'[r] = requests[r]
    BY <1>1
  <1>4. requests' \in [RequestIds -> RequestRows \cup {None}]
    BY <1>1, <1>2, <1>3 DEF TypeOK
  <1>5. Settles
    BY <1>2, <1>3, <1>4 DEF Settles
  <1> QED
    BY <1>2, <1>3, <1>4, <1>5

LEMMA MissedSettles ==
    ASSUME TypeOK, NEW S, \A r \in S : r \in RequestIds /\ requests[r] # None,
           NEW why \in Misses, requests' = Missed(S, why)
    PROVE  /\ requests' \in [RequestIds -> RequestRows \cup {None}] /\ Settles
           /\ \A r \in RequestIds : r \notin S => requests'[r] = requests[r]
           /\ \A r \in S : \/ requests'[r] = requests[r] /\ (~IsOpen(r) \/ requests[r].told)
                           \/ requests'[r].missed = why
  <1>1. requests' = [r \in RequestIds |->
                        IF r \in S /\ IsOpen(r) /\ ~requests[r].told
                        THEN [requests[r] EXCEPT !.missed = why] ELSE requests[r]]
    BY DEF Missed
  <1>2. ASSUME NEW r \in S, IsOpen(r), ~requests[r].told
        PROVE  /\ requests'[r] \in RequestRows /\ requests[r] # None
               /\ requests'[r] # None
               /\ requests'[r].user = requests[r].user
               /\ requests'[r].state = requests[r].state
               /\ requests'[r].missed = why
    <2>1. r \in RequestIds /\ requests[r] # None
      OBVIOUS
    <2>2. requests[r] \in RequestRows
      BY <2>1, RowIsNotNone
    <2>3. requests'[r] = [requests[r] EXCEPT !.missed = why]
      BY <1>1, <1>2, <2>1
    <2> QED
      BY <2>1, <2>2, <2>3, MissedRow
  <1>3. \A r \in RequestIds :
          ~(r \in S /\ IsOpen(r) /\ ~requests[r].told) => requests'[r] = requests[r]
    BY <1>1
  <1>4. requests' \in [RequestIds -> RequestRows \cup {None}]
    BY <1>1, <1>2, <1>3 DEF TypeOK
  <1>5. Settles
    BY <1>2, <1>3, <1>4 DEF Settles
  <1> QED
    BY <1>2, <1>3, <1>4, <1>5

LEMMA DigestCountSettles ==
    ASSUME TypeOK, DigestCount
    PROVE  /\ requests' \in [RequestIds -> RequestRows \cup {None}] /\ Settles
           /\ \A r \in RequestIds : r \notin Announced => requests'[r] = requests[r]
           /\ \A r \in Announced : \/ requests'[r].told
                                   \/ requests'[r] = requests[r] /\ requests[r].told
                                   \/ requests'[r].missed = "nobody"
  <1>1. \A r \in Announced : r \in RequestIds /\ requests[r] # None /\ IsOpen(r)
    BY DEF Announced
  <1>2. CASE \E u \in Users : Administers(u)
    <2>1. requests' = Told(Announced)
      BY <1>2 DEF DigestCount
    <2> QED
      BY <1>1, <2>1, ToldSettles
  <1>3. CASE ~\E u \in Users : Administers(u)
    <2>1. requests' = Missed(Announced, "nobody")
      BY <1>3 DEF DigestCount
    <2> QED
      BY <1>1, <2>1, MissedSettles DEF Misses
  <1> QED
    BY <1>2, <1>3

LEMMA DigestFailsSettles ==
    ASSUME TypeOK, DigestsKnow, DigestFails
    PROVE  /\ requests' \in [RequestIds -> RequestRows \cup {None}] /\ Settles
           /\ \A r \in RequestIds : r \notin digest.batch => requests'[r] = requests[r]
           /\ \A r \in digest.batch :
                 \/ requests'[r] = requests[r] /\ (~IsOpen(r) \/ requests[r].told)
                 \/ requests'[r].missed = "failed"
  <1>1. \A r \in digest.batch : r \in RequestIds /\ requests[r] # None
    BY DEF TypeOK, Digests, DigestsKnow
  <1>2. requests' = Missed(digest.batch, "failed")
    BY DEF DigestFails
  <1> QED
    BY <1>1, <1>2, MissedSettles DEF Misses

LEMMA RestartSettles ==
    ASSUME TypeOK, DigestsKnow, Restart
    PROVE  /\ requests' \in [RequestIds -> RequestRows \cup {None}] /\ Settles
           /\ \A r \in RequestIds :
                 r \notin digest.fresh \cup digest.batch => requests'[r] = requests[r]
           /\ \A r \in digest.fresh \cup digest.batch :
                 \/ requests'[r] = requests[r] /\ (~IsOpen(r) \/ requests[r].told)
                 \/ requests'[r].missed = "restart"
  <1>1. PICK S : S = digest.fresh \cup digest.batch
    OBVIOUS
  <1>2. \A r \in S : r \in RequestIds /\ requests[r] # None
    BY <1>1 DEF TypeOK, Digests, DigestsKnow
  <1>3. requests' = Missed(S, "restart")
    BY <1>1 DEF Restart
  <1>4. "restart" \in Misses
    BY DEF Misses
  <1>5. /\ requests' \in [RequestIds -> RequestRows \cup {None}] /\ Settles
        /\ \A r \in RequestIds : r \notin S => requests'[r] = requests[r]
        /\ \A r \in S : \/ requests'[r] = requests[r] /\ (~IsOpen(r) \/ requests[r].told)
                        \/ requests'[r].missed = "restart"
    BY <1>2, <1>3, <1>4, MissedSettles
  <1> QED
    BY <1>1, <1>5

(* What a restart leaves of the decisions and pages. *)
LEMMA RestartEnds ==
    ASSUME TypeOK, Restart
    PROVE  /\ users' = users /\ deleted' = deleted /\ audit' = audit /\ trail' = trail
           /\ \A a \in Users : deciding'[a] = None
           /\ \A a \in Users : pages'[a] # None => pages'[a] = pages[a]
           /\ deciding' \in [Users -> Verdicts \cup {None}]
           /\ pages' \in [Users -> Items \cup {None}]
           /\ applying' \in [Users -> {"no", "new", "overtaken"}]
           /\ digest' = [step |-> "idle", fresh |-> {}, batch |-> {}]
  BY DEF Restart, TypeOK

(* What a deletion leaves of the requests and of the audit. *)
LEMMA EraseRequests ==
    ASSUME TypeOK, NEW u \in Users, EraseAccount(u)
    PROVE  /\ requests' \in [RequestIds -> RequestRows \cup {None}]
           /\ \A r \in RequestIds :
                \/ requests'[r] = requests[r] /\ r \notin Owned(u)
                \/ requests'[r] = None /\ r \in Owned(u)
           /\ \A o \in Users : OpenRequests(o)' \subseteq OpenRequests(o)
           /\ digest' \in Digests /\ digest'.step = digest.step
           /\ digest'.fresh = digest.fresh \ Owned(u)
           /\ digest'.batch = digest.batch \ Owned(u)
  <1>1. requests' = [r \in RequestIds |-> IF r \in Owned(u) THEN None ELSE requests[r]]
    BY DEF EraseAccount
  <1>2. \A r \in RequestIds :
                \/ requests'[r] = requests[r] /\ r \notin Owned(u)
                \/ requests'[r] = None /\ r \in Owned(u)
    BY <1>1
  <1>3. requests' \in [RequestIds -> RequestRows \cup {None}]
    BY <1>1 DEF TypeOK
  <1>4. \A o \in Users : OpenRequests(o)' \subseteq OpenRequests(o)
    BY <1>2 DEF OpenRequests
  <1>5. /\ digest' \in Digests /\ digest'.step = digest.step
        /\ digest'.fresh = digest.fresh \ Owned(u)
        /\ digest'.batch = digest.batch \ Owned(u)
    BY DEF EraseAccount, TypeOK, Digests
  <1> QED
    BY <1>2, <1>3, <1>4, <1>5

LEMMA EraseAudit ==
    ASSUME TypeOK, NEW u \in Users, EraseAccount(u)
    PROVE  /\ audit' \subseteq AuditLines
           /\ \A l \in audit' : \E k \in audit :
                 /\ l = [k EXCEPT !.actor = IF @ = u THEN None ELSE @]
                 /\ l.target = k.target /\ l.expected = k.expected
                 /\ l.before = k.before /\ l.after = k.after /\ l.seen = k.seen
           /\ \A k \in audit : k.target # u =>
                 \E l \in audit' : l.target = k.target /\ l.expected = k.expected
  <1>1. audit' = {[l EXCEPT !.actor = IF @ = u THEN None ELSE @] :
                      l \in {k \in audit : k.target # u}}
    BY DEF EraseAccount
  <1>2. ASSUME NEW k \in audit, NEW l, l = [k EXCEPT !.actor = IF @ = u THEN None ELSE @]
        PROVE  /\ l \in AuditLines
               /\ l.target = k.target /\ l.expected = k.expected
               /\ l.before = k.before /\ l.after = k.after /\ l.seen = k.seen
    BY <1>2 DEF TypeOK, AuditLines
  <1>3. ASSUME NEW l \in audit'
        PROVE  \E k \in audit : l = [k EXCEPT !.actor = IF @ = u THEN None ELSE @]
    BY <1>1
  <1>4. ASSUME NEW k \in audit, k.target # u
        PROVE  \E l \in audit' : l.target = k.target /\ l.expected = k.expected
    <2>1. PICK l : l = [k EXCEPT !.actor = IF @ = u THEN None ELSE @]
      OBVIOUS
    <2>2. l \in audit'
      BY <1>1, <1>4, <2>1
    <2> QED
      BY <1>2, <2>1, <2>2
  <1> QED
    BY <1>2, <1>3, <1>4

-----------------------------------------------------------------------------
(* What a decision writes.                                                 *)
LEMMA DecisionWrites ==
    ASSUME Inductive, NEW a \in Users, DecideWrite(a)
    PROVE  LET v == deciding[a]
               u == v.item.target IN
           /\ v # None /\ u \in Users /\ u # a /\ Administers(a)
           /\ v.decision \in Decisions
           /\ users[u].revision \in 0 .. MaxRevision
           /\ v.item.revision = users[u].revision
           /\ v.before = users[u].status /\ v.item.status = v.before
           /\ v.before = trail[u][users[u].revision]
           /\ v.before \in Transition[v.decision].from
           /\ ChangeStatus(u, Transition[v.decision].to, users[u].role)
           /\ Transition[v.decision].to \in Statuses
           /\ Transition[v.decision].to # "pending"
           /\ users[u].role \in {"general", "admin"}
  <1> DEFINE v == deciding[a]
             u == v.item.target
  <1>1. v # None
    BY DEF DecideWrite
  <1>2. u \in Users /\ v.decision \in Decisions
    BY <1>1, VerdictTypes DEF Inductive
  <1>3. pages[a] # None /\ v.item = pages[a]
    BY <1>1 DEF Inductive, RowsAreHeld
  <1>4. /\ Administers(a) /\ users[u].revision = v.item.revision
        /\ users[u].status = v.before /\ v.before \in Transition[v.decision].from
    BY <1>1 DEF Inductive, RowsAreHeld
  <1>5. u # a /\ trail[u][v.item.revision] = v.item.status
    BY <1>3 DEF Inductive, PagesAreDated
  <1>6. trail[u][users[u].revision] = users[u].status
    BY <1>2 DEF Inductive, PagesAreDated
  <1>7. ChangeStatus(u, Transition[v.decision].to, users[u].role)
    BY DEF DecideWrite
  <1>8. Transition[v.decision].to \in Statuses /\ Transition[v.decision].to # "pending"
    BY <1>2, TransitionTypes
  <1>9. users[u].role \in {"general", "admin"} /\ users[u].revision \in 0 .. MaxRevision
    BY <1>2, AccountTypes DEF Inductive
  <1> HIDE DEF v
  <1> QED
    BY <1>1, <1>2, <1>4, <1>5, <1>6, <1>7, <1>8, <1>9 DEF v

-----------------------------------------------------------------------------
(* The type invariant.                                                     *)
LEMMA InitTypeOK == Init => TypeOK
  <1> SUFFICES ASSUME Init PROVE TypeOK
    OBVIOUS
  <1>1. PICK venue \in SUBSET Users :
          /\ users = [u \in Users |->
                 IF u \in venue THEN [role |-> "general", status |-> "active", revision |-> 1]
                 ELSE [role |-> "general", status |-> "pending", revision |-> 0]]
          /\ trail = [u \in Users |-> [n \in 0 .. MaxRevision |->
                         CASE n = 0 -> "pending"
                           [] n = 1 /\ u \in venue -> "active"
                           [] OTHER -> None]]
          /\ audit = {VouchedFor(u) : u \in venue}
    BY DEF Init
  <1>2. 0 \in 0 .. MaxRevision /\ 1 \in 0 .. MaxRevision
    BY ReviewAssumption
  <1>3. users \in [Users -> Accounts]
    BY <1>1, <1>2 DEF Accounts, Statuses
  <1>4. trail \in [Users -> [0 .. MaxRevision -> Statuses \cup {None}]]
    BY <1>1 DEF Statuses
  <1>5. audit \subseteq AuditLines
    BY <1>1, <1>2 DEF AuditLines, VouchedFor, Statuses
  <1>6. /\ deleted \subseteq Users
        /\ requests \in [RequestIds -> RequestRows \cup {None}]
        /\ pages \in [Users -> Items \cup {None}]
        /\ deciding \in [Users -> Verdicts \cup {None}]
        /\ applying \in [Users -> {"no", "new", "overtaken"}]
    BY DEF Init
  <1>7. digest \in Digests
    BY DEF Init, Digests
  <1> QED
    BY <1>3, <1>4, <1>5, <1>6, <1>7 DEF TypeOK

LEMMA NextTypeOK ==
    ASSUME Inductive, [Next]_vars
    PROVE  TypeOK'
  <1> USE DEF Inductive
  <1>1. ASSUME NEW u \in Users, ApplyBegin(u) \/ ApplyRefused(u) PROVE TypeOK'
    BY <1>1 DEF ApplyBegin, ApplyRefused, TypeOK
  <1>2. ASSUME NEW u \in Users, ApplyCommit(u) PROVE TypeOK'
    <2>1. PICK r \in RequestIds :
          /\ requests[r] = None
          /\ requests' = [requests EXCEPT ![r] =
                 [user |-> u, state |-> "open", told |-> FALSE,
                  missed |-> IF applying[u] = "overtaken" THEN "late" ELSE "no"]]
          /\ digest' = IF applying[u] = "new"
                       THEN [digest EXCEPT !.fresh = @ \cup {r}] ELSE digest
      BY <1>2 DEF ApplyCommit
    <2>2. (IF applying[u] = "overtaken" THEN "late" ELSE "no") \in Misses
      BY DEF Misses
    <2>3. [user |-> u, state |-> "open", told |-> FALSE,
           missed |-> IF applying[u] = "overtaken" THEN "late" ELSE "no"] \in RequestRows
      BY <2>2 DEF RequestRows
    <2>4. requests' \in [RequestIds -> RequestRows \cup {None}]
      BY <2>1, <2>3 DEF TypeOK
    <2>5. digest' \in Digests
      BY <2>1 DEF TypeOK, Digests
    <2> QED
      BY <1>2, <2>4, <2>5 DEF ApplyCommit, TypeOK
  <1>3. ASSUME NEW u \in Users, Withdraw(u) PROVE TypeOK'
    <2>1. requests' \in [RequestIds -> RequestRows \cup {None}]
      BY <1>3, WithdrawSettles
    <2> QED
      BY <1>3, <2>1 DEF Withdraw, TypeOK
  <1>4. ASSUME NEW a \in Users, NEW u \in Users, LoadPage(a, u) PROVE TypeOK'
    <2>1. [target |-> u, status |-> users[u].status, revision |-> users[u].revision,
           request |-> RequestOf(u)] \in Items
      BY AccountTypes, RequestOfType DEF Items
    <2> QED
      BY <1>4, <2>1 DEF LoadPage, TypeOK
  <1>5. ASSUME NEW a \in Users, NEW d \in Decisions, DecideRead(a, d) PROVE TypeOK'
    <2> DEFINE v == [item |-> pages[a], decision |-> d, before |-> users[pages[a].target].status,
                     request |-> RequestOf(pages[a].target)]
    <2>1. pages[a] \in Items /\ pages[a].target \in Users
      BY <1>5, PageTypes DEF DecideRead
    <2>2. v \in Verdicts
      BY <2>1, AccountTypes, RequestOfType DEF Verdicts
    <2>3. deciding' = [deciding EXCEPT ![a] = v]
      BY <1>5 DEF DecideRead
    <2> HIDE DEF v
    <2> QED
      BY <1>5, <2>2, <2>3 DEF DecideRead, TypeOK
  <1>6. ASSUME NEW a \in Users, DecideWrite(a) PROVE TypeOK'
    <2> DEFINE v == deciding[a]
               u == v.item.target
               l == [actor |-> a, target |-> u, expected |-> v.item.revision,
                     before |-> v.before, after |-> Transition[v.decision].to,
                     seen |-> v.item.status]
    <2>1. /\ users' \in [Users -> Accounts]
          /\ trail' \in [Users -> [0 .. MaxRevision -> Statuses \cup {None}]]
      BY <1>6, DecisionWrites, StatusChanges
    <2>2. requests' \in [RequestIds -> RequestRows \cup {None}]
      BY <1>6, DecideWriteSettles
    <2>3. v # None
      BY <1>6 DEF DecideWrite
    <2>4. l \in AuditLines
      BY <1>6, <2>3, VerdictTypes, TransitionTypes DEF AuditLines
    <2>5. audit' = audit \cup {l}
      BY <1>6 DEF DecideWrite
    <2>6. audit' \subseteq AuditLines
      BY <2>4, <2>5 DEF TypeOK
    <2>7. deciding' = [deciding EXCEPT ![a] = None] /\ pages' = [pages EXCEPT ![a] = None]
          /\ applying' = applying /\ digest' = digest /\ deleted' = deleted
      BY <1>6 DEF DecideWrite
    <2> QED
      BY <2>1, <2>2, <2>6, <2>7 DEF TypeOK
  <1>7. ASSUME NEW a \in Users, DecideFails(a) PROVE TypeOK'
    BY <1>7 DEF DecideFails, TypeOK
  <1>8. ASSUME NEW u \in Users, GrantAdminRole(u) PROVE TypeOK'
    <2>1. ChangeStatus(u, "active", "admin")
      BY <1>8 DEF GrantAdminRole
    <2>2. /\ users' \in [Users -> Accounts]
          /\ trail' \in [Users -> [0 .. MaxRevision -> Statuses \cup {None}]]
      BY <2>1, StatusChanges DEF Statuses
    <2> QED
      BY <1>8, <2>2 DEF GrantAdminRole, TypeOK
  <1>9. CASE DigestBegin
    BY <1>9 DEF DigestBegin, TypeOK, Digests
  <1>10. CASE DigestCount
    <2>1. requests' \in [RequestIds -> RequestRows \cup {None}]
      BY <1>10, DigestCountSettles
    <2> QED
      BY <1>10, <2>1 DEF DigestCount, DigestEndedAt, TypeOK, Digests
  <1>11. CASE DigestFails
    <2>1. requests' \in [RequestIds -> RequestRows \cup {None}]
      BY <1>11, DigestFailsSettles
    <2> QED
      BY <1>11, <2>1 DEF DigestFails, TypeOK, Digests
  <1>12. ASSUME NEW u \in Users, EraseAccount(u) PROVE TypeOK'
    <2>1. /\ requests' \in [RequestIds -> RequestRows \cup {None}] /\ digest' \in Digests
          /\ audit' \subseteq AuditLines
      BY <1>12, EraseRequests, EraseAudit
    <2>2. /\ users' = users /\ pages' = pages /\ deciding' = deciding
          /\ applying' = applying /\ trail' = trail /\ deleted' = deleted \cup {u}
      BY <1>12 DEF EraseAccount
    <2> QED
      BY <2>1, <2>2 DEF TypeOK
  <1>13. CASE Restart
    <2>1. digest' \in Digests
      BY <1>13, RestartEnds DEF Digests
    <2> QED
      BY <1>13, <2>1, RestartSettles, RestartEnds DEF TypeOK
  <1>14. CASE UNCHANGED vars
    BY <1>14 DEF vars, TypeOK
  <1> QED
    BY <1>1, <1>2, <1>3, <1>4, <1>5, <1>6, <1>7, <1>8, <1>9, <1>10, <1>11, <1>12, <1>13, <1>14
       DEF Next

-----------------------------------------------------------------------------
(* Open decisions.                                                         *)
LEMMA HeldRowsAre ==
    ASSUME NEW u
    PROVE  u \in HeldRows <=>
             \E a \in Users : deciding[a] # None /\ u \in {a, deciding[a].item.target}
  BY DEF HeldRows

(* A change of status of one account leaves alone the decisions that do not *)
(* hold it.                                                                 *)
LEMMA OtherRowsAreHeld ==
    ASSUME Inductive, NEW u \in Users, NEW st \in Statuses, NEW ro \in {"general", "admin"},
           ChangeStatus(u, st, ro), deleted' = deleted,
           \A b \in Users : deciding'[b] # None =>
              deciding'[b] = deciding[b] /\ pages'[b] = pages[b]
              /\ u \notin {b, deciding[b].item.target}
    PROVE  RowsAreHeld'
  <1>1. \A o \in Users : o # u => users'[o] = users[o]
    BY StatusChanges DEF Inductive
  <1> SUFFICES ASSUME NEW a \in Users, deciding'[a] # None
               PROVE  /\ pages'[a] # None /\ deciding'[a].item = pages'[a]
                      /\ Administers(a)'
                      /\ users'[deciding'[a].item.target].revision = deciding'[a].item.revision
                      /\ users'[deciding'[a].item.target].status = deciding'[a].before
                      /\ deciding'[a].before \in Transition[deciding'[a].decision].from
                      /\ \A b \in Users : deciding'[b] # None /\ b # a =>
                            {a, deciding'[a].item.target} \cap {b, deciding'[b].item.target} = {}
    BY DEF RowsAreHeld
  <1>2. /\ deciding'[a] = deciding[a] /\ pages'[a] = pages[a] /\ deciding[a] # None
        /\ u # a /\ u # deciding[a].item.target
    OBVIOUS
  <1>3. deciding[a].item.target \in Users
    BY <1>2, VerdictTypes DEF Inductive
  <1>4. users'[a] = users[a] /\ users'[deciding[a].item.target] = users[deciding[a].item.target]
    BY <1>1, <1>2, <1>3
  <1>5. /\ pages[a] # None /\ deciding[a].item = pages[a]
        /\ Administers(a)
        /\ users[deciding[a].item.target].revision = deciding[a].item.revision
        /\ users[deciding[a].item.target].status = deciding[a].before
        /\ deciding[a].before \in Transition[deciding[a].decision].from
        /\ \A b \in Users : deciding[b] # None /\ b # a =>
              {a, deciding[a].item.target} \cap {b, deciding[b].item.target} = {}
    BY <1>2 DEF Inductive, RowsAreHeld
  <1>6. Administers(a)'
    BY <1>4, <1>5 DEF Administers
  <1>7. \A b \in Users : deciding'[b] # None => deciding'[b] = deciding[b]
    OBVIOUS
  <1> QED
    BY <1>2, <1>4, <1>5, <1>6, <1>7

LEMMA NextRowsAreHeld ==
    ASSUME Inductive, [Next]_vars
    PROVE  RowsAreHeld'
  <1> USE DEF Inductive
  <1>1. CASE UNCHANGED <<users, deleted, pages, deciding>>
    BY <1>1 DEF RowsAreHeld, Administers
  <1>2. ASSUME NEW a \in Users, NEW u \in Users, LoadPage(a, u) PROVE RowsAreHeld'
    <2>1. users' = users /\ deleted' = deleted /\ deciding' = deciding /\ deciding[a] = None
          /\ \A b \in Users : b # a => pages'[b] = pages[b]
      BY <1>2 DEF LoadPage, TypeOK
    <2> QED
      BY <2>1 DEF RowsAreHeld, Administers
  <1>3. ASSUME NEW a \in Users, NEW d \in Decisions, DecideRead(a, d) PROVE RowsAreHeld'
    <2> DEFINE v == [item |-> pages[a], decision |-> d, before |-> users[pages[a].target].status,
                     request |-> RequestOf(pages[a].target)]
    <2>1. /\ users' = users /\ deleted' = deleted /\ pages' = pages
          /\ deciding' = [deciding EXCEPT ![a] = v]
          /\ pages[a] # None /\ deciding[a] = None
          /\ HeldRows \cap {a, pages[a].target} = {}
          /\ Administers(a)
          /\ users[pages[a].target].revision = pages[a].revision
          /\ users[pages[a].target].status \in Transition[d].from
      BY <1>3 DEF DecideRead, Unchanged
    <2>2. v.item = pages[a] /\ v.decision = d /\ v.before = users[pages[a].target].status
      OBVIOUS
    <2> HIDE DEF v
    <2>3. deciding'[a] = v /\ \A b \in Users : b # a => deciding'[b] = deciding[b]
      BY <2>1 DEF TypeOK
    <2>4. ASSUME NEW b \in Users, b # a, deciding[b] # None
          PROVE  {a, pages[a].target} \cap {b, deciding[b].item.target} = {}
      BY <2>1, <2>4, HeldRowsAre
    <2>5. \A b \in Users : Administers(b)' <=> Administers(b)
      BY <2>1 DEF Administers
    <2> SUFFICES ASSUME NEW c \in Users, deciding'[c] # None
                 PROVE  /\ pages'[c] # None /\ deciding'[c].item = pages'[c]
                        /\ Administers(c)'
                        /\ users'[deciding'[c].item.target].revision = deciding'[c].item.revision
                        /\ users'[deciding'[c].item.target].status = deciding'[c].before
                        /\ deciding'[c].before \in Transition[deciding'[c].decision].from
                        /\ \A b \in Users : deciding'[b] # None /\ b # c =>
                             {c, deciding'[c].item.target} \cap {b, deciding'[b].item.target} = {}
      BY DEF RowsAreHeld
    <2>6. CASE c = a
      BY <2>1, <2>2, <2>3, <2>4, <2>5, <2>6
    <2>7. CASE c # a
      <3>1. deciding'[c] = deciding[c] /\ deciding[c] # None
        BY <2>3, <2>7
      <3>2. {c, deciding[c].item.target} \cap {a, pages[a].target} = {}
        BY <2>4, <2>7, <3>1
      <3>3. \A b \in Users : deciding'[b] # None /\ b # c =>
              {c, deciding'[c].item.target} \cap {b, deciding'[b].item.target} = {}
        BY <2>2, <2>3, <3>1, <3>2 DEF RowsAreHeld
      <3> QED
        BY <2>1, <2>5, <3>1, <3>3 DEF RowsAreHeld
    <2> QED
      BY <2>6, <2>7
  <1>4. ASSUME NEW a \in Users, DecideWrite(a) PROVE RowsAreHeld'
    <2> DEFINE v == deciding[a]
               u == v.item.target
    <2>1. /\ v # None /\ u \in Users /\ Transition[v.decision].to \in Statuses
          /\ users[u].role \in {"general", "admin"}
          /\ ChangeStatus(u, Transition[v.decision].to, users[u].role)
      BY <1>4, DecisionWrites
    <2>2. deciding' = [deciding EXCEPT ![a] = None] /\ pages' = [pages EXCEPT ![a] = None]
          /\ deleted' = deleted
      BY <1>4 DEF DecideWrite
    <2>3. ASSUME NEW b \in Users, deciding'[b] # None
          PROVE  deciding'[b] = deciding[b] /\ pages'[b] = pages[b] /\ b # a
      BY <2>2, <2>3 DEF TypeOK
    <2>4. ASSUME NEW b \in Users, deciding'[b] # None
          PROVE  u \notin {b, deciding[b].item.target}
      BY <2>1, <2>3, <2>4 DEF RowsAreHeld
    <2> HIDE DEF u, v
    <2> QED
      BY <2>1, <2>2, <2>3, <2>4, OtherRowsAreHeld
  <1>5. ASSUME NEW a \in Users, DecideFails(a) PROVE RowsAreHeld'
    <2>1. /\ users' = users /\ deleted' = deleted
          /\ \A b \in Users : deciding'[b] # None =>
               deciding'[b] = deciding[b] /\ pages'[b] = pages[b]
      BY <1>5 DEF DecideFails, TypeOK
    <2> QED
      BY <2>1 DEF RowsAreHeld, Administers
  <1>6. ASSUME NEW u \in Users, GrantAdminRole(u) PROVE RowsAreHeld'
    <2>1. ChangeStatus(u, "active", "admin") /\ u \notin HeldRows
          /\ deciding' = deciding /\ pages' = pages /\ deleted' = deleted
      BY <1>6 DEF GrantAdminRole
    <2>2. \A b \in Users : deciding[b] # None => u \notin {b, deciding[b].item.target}
      BY <2>1, HeldRowsAre
    <2> QED
      BY <2>1, <2>2, OtherRowsAreHeld DEF Statuses
  <1>7. ASSUME NEW u \in Users, EraseAccount(u) PROVE RowsAreHeld'
    <2>1. /\ users' = users /\ deciding' = deciding /\ pages' = pages
          /\ u \notin HeldRows /\ deleted' = deleted \cup {u}
      BY <1>7 DEF EraseAccount
    <2>2. \A b \in Users : deciding[b] # None => u # b
      BY <2>1, HeldRowsAre
    <2> QED
      BY <2>1, <2>2 DEF RowsAreHeld, Administers
  <1>8. CASE Restart
    BY <1>8, RestartEnds DEF RowsAreHeld
  <1> QED
    BY <1>1, <1>2, <1>3, <1>4, <1>5, <1>6, <1>7, <1>8
       DEF Next, vars, ApplyBegin, ApplyCommit, ApplyRefused, Withdraw,
           DigestBegin, DigestCount, DigestFails

-----------------------------------------------------------------------------
(* Pages and the audit.                                                    *)

(* A change of status leaves every earlier entry of the history.           *)
LEMMA HistoryStays ==
    ASSUME Inductive, NEW u \in Users, NEW st \in Statuses, NEW ro \in {"general", "admin"},
           ChangeStatus(u, st, ro), NEW o \in Users, NEW n \in 0 .. users[o].revision
    PROVE  /\ trail'[o][n] = trail[o][n]
           /\ users[o].revision <= users'[o].revision
           /\ n \in 0 .. users'[o].revision
  <1>1. users[o].revision \in Nat
    BY AccountTypes DEF Inductive
  <1>2. CASE o = u
    BY <1>1, <1>2, StatusChanges DEF Inductive
  <1>3. CASE o # u
    BY <1>1, <1>3, StatusChanges DEF Inductive
  <1> QED
    BY <1>2, <1>3

LEMMA NextPagesAreDated ==
    ASSUME Inductive, [Next]_vars
    PROVE  PagesAreDated'
  <1> USE DEF Inductive
  <1>1. CASE UNCHANGED <<users, pages, trail>>
    BY <1>1 DEF PagesAreDated
  <1>2. ASSUME NEW a \in Users, NEW u \in Users, LoadPage(a, u) PROVE PagesAreDated'
    <2> DEFINE p == [target |-> u, status |-> users[u].status, revision |-> users[u].revision,
                     request |-> RequestOf(u)]
    <2>1. p.target = u /\ p.status = users[u].status /\ p.revision = users[u].revision
      OBVIOUS
    <2>2. users' = users /\ trail' = trail /\ u # a /\ pages' = [pages EXCEPT ![a] = p]
      BY <1>2 DEF LoadPage
    <2> HIDE DEF p
    <2>3. pages'[a] = p /\ \A b \in Users : b # a => pages'[b] = pages[b]
      BY <2>2 DEF TypeOK
    <2>4. users[u].revision \in Nat
      BY AccountTypes
    <2> QED
      BY <2>1, <2>2, <2>3, <2>4 DEF PagesAreDated
  <1>3. ASSUME NEW u \in Users, NEW st \in Statuses, NEW ro \in {"general", "admin"},
               ChangeStatus(u, st, ro),
               \A b \in Users : pages'[b] # None => pages'[b] = pages[b]
        PROVE  PagesAreDated'
    <2>1. ASSUME NEW o \in Users PROVE trail'[o][users'[o].revision] = users'[o].status
      <3>1. CASE o = u
        BY <1>3, <3>1, StatusChanges
      <3>2. CASE o # u
        BY <1>3, <3>2, StatusChanges DEF PagesAreDated
      <3> QED
        BY <3>1, <3>2
    <2>2. ASSUME NEW a \in Users, pages'[a] # None
          PROVE  /\ pages'[a].target # a
                 /\ pages'[a].revision <= users'[pages'[a].target].revision
                 /\ trail'[pages'[a].target][pages'[a].revision] = pages'[a].status
      <3> DEFINE t == pages[a].target
                 n == pages[a].revision
      <3>1. pages'[a] = pages[a] /\ pages[a] # None
        BY <1>3, <2>2
      <3>2. t \in Users /\ n \in 0 .. MaxRevision
        BY <3>1, PageTypes
      <3>3. t # a /\ n <= users[t].revision /\ trail[t][n] = pages[a].status
        BY <3>1 DEF PagesAreDated
      <3>4. users[t].revision \in Nat /\ MaxRevision \in Nat
        BY <3>2, AccountTypes, ReviewAssumption
      <3>5. n \in 0 .. users[t].revision
        BY <3>2, <3>3, <3>4
      <3>6. trail'[t][n] = trail[t][n] /\ n \in 0 .. users'[t].revision
        BY <1>3, <3>2, <3>5, HistoryStays
      <3> QED
        BY <3>1, <3>3, <3>6
    <2> QED
      BY <2>1, <2>2 DEF PagesAreDated
  <1>4. ASSUME NEW a \in Users, DecideWrite(a) PROVE PagesAreDated'
    <2>1. /\ deciding[a].item.target \in Users
          /\ Transition[deciding[a].decision].to \in Statuses
          /\ users[deciding[a].item.target].role \in {"general", "admin"}
          /\ ChangeStatus(deciding[a].item.target, Transition[deciding[a].decision].to,
                          users[deciding[a].item.target].role)
      BY <1>4, DecisionWrites
    <2>2. \A b \in Users : pages'[b] # None => pages'[b] = pages[b]
      BY <1>4 DEF DecideWrite, TypeOK
    <2> QED
      BY <1>3, <2>1, <2>2
  <1>5. ASSUME NEW a \in Users, DecideFails(a) PROVE PagesAreDated'
    <2>1. /\ users' = users /\ trail' = trail
          /\ \A b \in Users : pages'[b] # None => pages'[b] = pages[b]
      BY <1>5 DEF DecideFails, TypeOK
    <2> QED
      BY <2>1 DEF PagesAreDated
  <1>6. ASSUME NEW u \in Users, GrantAdminRole(u) PROVE PagesAreDated'
    BY <1>3, <1>6 DEF GrantAdminRole, Statuses
  <1>7. CASE Restart
    BY <1>7, RestartEnds DEF PagesAreDated
  <1> QED
    BY <1>1, <1>2, <1>4, <1>5, <1>6, <1>7
       DEF Next, vars, ApplyBegin, ApplyCommit, ApplyRefused, Withdraw, DecideRead,
           EraseAccount, DigestBegin, DigestCount, DigestFails

(* The line a decision adds. *)
Line(a) == [actor |-> a, target |-> deciding[a].item.target,
            expected |-> deciding[a].item.revision, before |-> deciding[a].before,
            after |-> Transition[deciding[a].decision].to, seen |-> deciding[a].item.status]

LEMMA LineIs ==
    ASSUME Inductive, NEW a \in Users, DecideWrite(a)
    PROVE  LET u == deciding[a].item.target IN
           /\ audit' = audit \cup {Line(a)}
           /\ u \in Users /\ users[u].revision \in Nat
           /\ Line(a).target = u /\ Line(a).expected = users[u].revision
           /\ Line(a).before = trail[u][users[u].revision]
           /\ Line(a).after = Transition[deciding[a].decision].to
           /\ Line(a).seen = Line(a).before
           /\ ChangeStatus(u, Line(a).after, users[u].role)
           /\ Line(a).after \in Statuses /\ users[u].role \in {"general", "admin"}
  <1> DEFINE u == deciding[a].item.target
  <1>1. audit' = audit \cup {Line(a)}
    BY DEF DecideWrite, Line
  <1>2. /\ u \in Users /\ deciding[a].item.revision = users[u].revision
        /\ deciding[a].item.status = deciding[a].before
        /\ deciding[a].before = trail[u][users[u].revision]
        /\ ChangeStatus(u, Transition[deciding[a].decision].to, users[u].role)
        /\ Transition[deciding[a].decision].to \in Statuses
        /\ users[u].role \in {"general", "admin"}
    BY DecisionWrites
  <1>3. users[u].revision \in Nat
    BY <1>2, AccountTypes DEF Inductive
  <1>4. /\ Line(a).target = u /\ Line(a).expected = deciding[a].item.revision
        /\ Line(a).before = deciding[a].before
        /\ Line(a).after = Transition[deciding[a].decision].to
        /\ Line(a).seen = deciding[a].item.status
    BY DEF Line
  <1> QED
    BY <1>1, <1>2, <1>3, <1>4

LEMMA AuditTypes ==
    ASSUME TypeOK, NEW l \in audit
    PROVE  l \in AuditLines /\ l.target \in Users /\ l.expected \in 0 .. MaxRevision
           /\ l.expected \in Nat
  BY ReviewAssumption DEF TypeOK, AuditLines

LEMMA NextAuditIsDated ==
    ASSUME Inductive, [Next]_vars
    PROVE  AuditIsDated' /\ DecidedAsReviewed'
  <1> USE DEF Inductive
  <1>1. CASE UNCHANGED <<users, audit, trail>>
    BY <1>1 DEF AuditIsDated, DecidedAsReviewed
  <1>2. ASSUME NEW u \in Users, NEW st \in Statuses, NEW ro \in {"general", "admin"},
               ChangeStatus(u, st, ro), NEW l \in audit
        PROVE  /\ l.expected < users'[l.target].revision
               /\ l.seen = l.before /\ trail'[l.target][l.expected] = l.before
    <2>1. l.target \in Users /\ l.expected \in Nat /\ users[l.target].revision \in Nat
      BY AuditTypes, AccountTypes
    <2>2. l.expected < users[l.target].revision
      BY DEF AuditIsDated
    <2>3. l.seen = l.before /\ trail[l.target][l.expected] = l.before
      BY DEF DecidedAsReviewed
    <2>4. l.expected \in 0 .. users[l.target].revision
      BY <2>1, <2>2
    <2>5. /\ trail'[l.target][l.expected] = trail[l.target][l.expected]
          /\ users[l.target].revision <= users'[l.target].revision
      BY <1>2, <2>1, <2>4, HistoryStays
    <2>6. l.target = u \/ users'[l.target] = users[l.target]
      BY <1>2, <2>1, StatusChanges
    <2>7. users'[l.target].revision \in Nat
      BY <1>2, <2>1, <2>6, StatusChanges
    <2> QED
      BY <2>1, <2>2, <2>3, <2>5, <2>7
  <1>3. ASSUME NEW a \in Users, DecideWrite(a) PROVE AuditIsDated' /\ DecidedAsReviewed'
    <2> DEFINE u == deciding[a].item.target
    <2>1. /\ audit' = audit \cup {Line(a)}
          /\ u \in Users /\ users[u].revision \in Nat
          /\ Line(a).target = u /\ Line(a).expected = users[u].revision
          /\ Line(a).before = trail[u][users[u].revision]
          /\ Line(a).seen = Line(a).before
          /\ ChangeStatus(u, Line(a).after, users[u].role)
          /\ Line(a).after \in Statuses /\ users[u].role \in {"general", "admin"}
      BY <1>3, LineIs
    <2> HIDE DEF u
    <2>2. \A l \in audit : /\ l.expected < users'[l.target].revision
                           /\ l.seen = l.before /\ trail'[l.target][l.expected] = l.before
      BY <1>2, <2>1
    <2>3. users'[u].revision = users[u].revision + 1
          /\ trail'[u][users[u].revision] = trail[u][users[u].revision]
      BY <2>1, StatusChanges
    <2> QED
      BY <2>1, <2>2, <2>3 DEF AuditIsDated, DecidedAsReviewed
  <1>4. ASSUME NEW u \in Users, GrantAdminRole(u) PROVE AuditIsDated' /\ DecidedAsReviewed'
    <2>1. ChangeStatus(u, "active", "admin") /\ audit' = audit
      BY <1>4 DEF GrantAdminRole
    <2> QED
      BY <1>2, <2>1 DEF Statuses, AuditIsDated, DecidedAsReviewed
  <1>5. ASSUME NEW u \in Users, EraseAccount(u) PROVE AuditIsDated' /\ DecidedAsReviewed'
    <2>1. users' = users /\ trail' = trail
      BY <1>5 DEF EraseAccount
    <2>2. \A l \in audit' : \E k \in audit :
             /\ l.target = k.target /\ l.expected = k.expected
             /\ l.before = k.before /\ l.seen = k.seen
      BY <1>5, EraseAudit
    <2> QED
      BY <2>1, <2>2 DEF AuditIsDated, DecidedAsReviewed
  <1> QED
    BY <1>1, <1>3, <1>4, <1>5
       DEF Next, vars, ApplyBegin, ApplyCommit, ApplyRefused, Withdraw, LoadPage, DecideRead,
           DecideFails, DigestBegin, DigestCount, DigestFails, Restart

(* The steps of one account that did not change. *)
LEMMA StepStays ==
    ASSUME Inductive, NEW u \in Users, NEW st \in Statuses, NEW ro \in {"general", "admin"},
           ChangeStatus(u, st, ro), NEW o \in Users \ deleted, NEW n \in 1 .. users[o].revision,
           LineOf(o, n)' = LineOf(o, n), o = u => ro = "admin" \/ ro = users[u].role
    PROVE  /\ \A l, k \in LineOf(o, n)' : l = k
           /\ \A l \in LineOf(o, n)' : l.before = trail'[o][n - 1] /\ l.after = trail'[o][n]
           /\ LineOf(o, n)' = {} => trail'[o][n] = "active" /\ users'[o].role = "admin"
  <1>1. users[o].revision \in Nat
    BY AccountTypes DEF Inductive
  <1>2. n \in 0 .. users[o].revision /\ n - 1 \in 0 .. users[o].revision
    BY <1>1
  <1>3. trail'[o][n] = trail[o][n] /\ trail'[o][n - 1] = trail[o][n - 1]
    BY <1>2, HistoryStays
  <1>4. users[o].role = "admin" => users'[o].role = "admin"
    BY StatusChanges DEF Inductive
  <1>5. /\ \A l, k \in LineOf(o, n) : l = k
        /\ \A l \in LineOf(o, n) : l.before = trail[o][n - 1] /\ l.after = trail[o][n]
        /\ LineOf(o, n) = {} => trail[o][n] = "active" /\ users[o].role = "admin"
    BY DEF Inductive, StepsAreExplained
  <1> QED
    BY <1>3, <1>4, <1>5

(* The step of a decision, whose line is k. *)
LEMMA DecisionIsExplained ==
    ASSUME Inductive, NEW u \in Users, NEW r \in Nat, r = users[u].revision,
           NEW k, k.target = u, k.expected = r, k.before = trail[u][r],
           k.after \in Statuses, ChangeStatus(u, k.after, users[u].role),
           audit' = audit \cup {k}, deleted' = deleted
    PROVE  StepsAreExplained'
  <1> USE DEF Inductive
  <1>1. users[u].role \in {"general", "admin"} /\ (r + 1) - 1 = r /\ r \in 0 .. r
    BY AccountTypes
  <1>2. /\ users'[u].revision = r + 1 /\ trail'[u][r + 1] = k.after
        /\ trail'[u][r] = trail[u][r]
        /\ \A o \in Users : o # u => users'[o] = users[o]
    BY <1>1, StatusChanges
  <1>3. ASSUME NEW o \in Users, NEW n \in 1 .. users[o].revision
        PROVE  LineOf(o, n)' = LineOf(o, n)
    <2>1. users[o].revision \in Nat
      BY AccountTypes
    <2>2. ~(o = u /\ r = n - 1)
      BY <2>1
    <2> QED
      BY <2>2 DEF LineOf
  <1>4. LineOf(u, r + 1)' = {k}
    <2>1. \A l \in audit : l.target = u => l.expected < r
      BY DEF AuditIsDated
    <2>2. \A l \in audit : ~(l.target = u /\ l.expected = (r + 1) - 1)
      BY <1>1, <2>1, AuditTypes
    <2> QED
      BY <1>1, <2>2 DEF LineOf
  <1> SUFFICES ASSUME NEW o \in Users \ deleted, NEW n \in 1 .. users'[o].revision
               PROVE  /\ \A l, m \in LineOf(o, n)' : l = m
                      /\ \A l \in LineOf(o, n)' : l.before = trail'[o][n - 1] /\ l.after = trail'[o][n]
                      /\ LineOf(o, n)' = {} => trail'[o][n] = "active" /\ users'[o].role = "admin"
    BY DEF StepsAreExplained
  <1>5. CASE o = u /\ n = r + 1
    BY <1>1, <1>2, <1>4, <1>5
  <1>6. CASE ~(o = u /\ n = r + 1)
    <2>1. n \in 1 .. users[o].revision
      BY <1>2, <1>6
    <2>2. LineOf(o, n)' = LineOf(o, n)
      BY <1>3, <2>1
    <2> QED
      BY <1>1, <2>1, <2>2, StepStays
  <1> QED
    BY <1>5, <1>6

(* The step of the operator's appointment, which has no line. *)
LEMMA AppointmentIsExplained ==
    ASSUME Inductive, NEW u \in Users, NEW r \in Nat, r = users[u].revision,
           ChangeStatus(u, "active", "admin"), audit' = audit, deleted' = deleted
    PROVE  StepsAreExplained'
  <1> USE DEF Inductive
  <1>1. "active" \in Statuses
    BY DEF Statuses
  <1>2. /\ users'[u].revision = r + 1 /\ trail'[u][r + 1] = "active"
        /\ users'[u].role = "admin"
        /\ \A o \in Users : o # u => users'[o] = users[o]
    BY <1>1, StatusChanges
  <1>3. \A o \in Users : \A n : LineOf(o, n)' = LineOf(o, n)
    BY DEF LineOf
  <1>4. LineOf(u, r + 1) = {}
    <2>1. \A l \in audit : l.target = u => l.expected < r
      BY DEF AuditIsDated
    <2>2. \A l \in audit : ~(l.target = u /\ l.expected = (r + 1) - 1)
      BY <2>1, AuditTypes
    <2> QED
      BY <2>2 DEF LineOf
  <1> SUFFICES ASSUME NEW o \in Users \ deleted, NEW n \in 1 .. users'[o].revision
               PROVE  /\ \A l, m \in LineOf(o, n)' : l = m
                      /\ \A l \in LineOf(o, n)' : l.before = trail'[o][n - 1] /\ l.after = trail'[o][n]
                      /\ LineOf(o, n)' = {} => trail'[o][n] = "active" /\ users'[o].role = "admin"
    BY DEF StepsAreExplained
  <1>5. CASE o = u /\ n = r + 1
    BY <1>2, <1>3, <1>4, <1>5
  <1>6. CASE ~(o = u /\ n = r + 1)
    <2>1. n \in 1 .. users[o].revision
      BY <1>2, <1>6
    <2> QED
      BY <1>1, <1>3, <2>1, StepStays
  <1> QED
    BY <1>5, <1>6

LEMMA NextStepsAreExplained ==
    ASSUME Inductive, [Next]_vars
    PROVE  StepsAreExplained'
  <1>1. CASE UNCHANGED <<users, deleted, audit, trail>>
    BY <1>1 DEF StepsAreExplained, LineOf, Inductive
  <1>2. ASSUME NEW a \in Users, DecideWrite(a) PROVE StepsAreExplained'
    <2>1. PICK k : k = Line(a)
      OBVIOUS
    <2>2. PICK u \in Users : u = deciding[a].item.target
      BY <1>2, LineIs
    <2>3. deleted' = deleted
      BY <1>2 DEF DecideWrite
    <2> QED
      BY <1>2, <2>1, <2>2, <2>3, LineIs, DecisionIsExplained
  <1>3. ASSUME NEW u \in Users, GrantAdminRole(u) PROVE StepsAreExplained'
    <2>1. ChangeStatus(u, "active", "admin") /\ audit' = audit /\ deleted' = deleted
      BY <1>3 DEF GrantAdminRole
    <2> QED
      BY <2>1, AccountTypes, AppointmentIsExplained DEF Inductive
  <1>4. ASSUME NEW u \in Users, EraseAccount(u) PROVE StepsAreExplained'
    <2>1. users' = users /\ trail' = trail /\ deleted' = deleted \cup {u}
      BY <1>4 DEF EraseAccount
    <2> SUFFICES ASSUME NEW o \in Users \ deleted, o # u, NEW n \in 1 .. users[o].revision
                 PROVE  /\ \A l, m \in LineOf(o, n)' : l = m
                        /\ \A l \in LineOf(o, n)' : l.before = trail[o][n - 1]
                                                   /\ l.after = trail[o][n]
                        /\ LineOf(o, n)' = {} => trail[o][n] = "active" /\ users[o].role = "admin"
      BY <2>1 DEF StepsAreExplained, LineOf
    <2>2. /\ \A l, k \in LineOf(o, n) : l = k
          /\ \A l \in LineOf(o, n) : l.before = trail[o][n - 1] /\ l.after = trail[o][n]
          /\ LineOf(o, n) = {} => trail[o][n] = "active" /\ users[o].role = "admin"
      BY DEF Inductive, StepsAreExplained
    <2>3. ASSUME NEW l \in LineOf(o, n)'
          PROVE  \E k \in LineOf(o, n) :
                   /\ l = [k EXCEPT !.actor = IF @ = u THEN None ELSE @]
                   /\ l.before = k.before /\ l.after = k.after
      BY <1>4, EraseAudit DEF Inductive, LineOf
    <2>4. LineOf(o, n) # {} => LineOf(o, n)' # {}
      BY <1>4, EraseAudit DEF Inductive, LineOf
    <2> QED
      BY <2>2, <2>3, <2>4
  <1> QED
    BY <1>1, <1>2, <1>3, <1>4
       DEF Next, vars, ApplyBegin, ApplyCommit, ApplyRefused, Withdraw, LoadPage, DecideRead,
           DecideFails, DigestBegin, DigestCount, DigestFails, Restart

-----------------------------------------------------------------------------
(* Open requests.                                                          *)
LEMMA SettlesOpen ==
    ASSUME TypeOK, Settles, NEW u \in Users
    PROVE  OpenRequests(u)' \subseteq OpenRequests(u)
  BY DEF Settles, OpenRequests

LEMMA OpenRequestIs ==
    ASSUME NEW u \in Users, NEW r
    PROVE  r \in OpenRequests(u) <=> /\ r \in RequestIds /\ requests[r] # None
                                     /\ requests[r].user = u /\ requests[r].state = "open"
  BY DEF OpenRequests

(* Requests that only close, statuses that stay. *)
LEMMA SettledAwait ==
    ASSUME Inductive, Settles, users' = users
    PROVE  OpenRequestsAwait'
  <1>1. \A u \in Users : OpenRequests(u)' \subseteq OpenRequests(u)
    BY SettlesOpen DEF Inductive
  <1> QED
    BY <1>1 DEF Inductive, OpenRequestsAwait

(* Requests that only close, decisions that stay or end. *)
LEMMA SettledRead ==
    ASSUME Inductive, Settles,
           \A a \in Users : deciding'[a] # None => deciding'[a] = deciding[a]
    PROVE  RequestsAreRead'
  <1> SUFFICES ASSUME NEW a \in Users, deciding'[a] # None
               PROVE  /\ deciding'[a].request # None =>
                           /\ requests'[deciding'[a].request] # None
                           /\ requests'[deciding'[a].request].user = deciding'[a].item.target
                      /\ deciding'[a].decision # "unlock" =>
                           \A r \in OpenRequests(deciding[a].item.target)' : r = deciding'[a].request
    BY DEF RequestsAreRead, OpenRequests
  <1>1. deciding'[a] = deciding[a] /\ deciding[a] # None
    OBVIOUS
  <1>2. deciding[a].item.target \in Users /\ deciding[a].request \in RequestIds \cup {None}
    BY <1>1, VerdictTypes DEF Inductive
  <1> QED
    BY <1>1, <1>2, SettlesOpen DEF Inductive, RequestsAreRead, Settles

LEMMA ApplyCommitOpens ==
    ASSUME Inductive, NEW u \in Users, ApplyCommit(u)
    PROVE  \E r \in RequestIds :
             /\ requests[r] = None
             /\ requests'[r] # None
             /\ \A p \in RequestIds : p # r => requests'[p] = requests[p]
             /\ OpenRequests(u)' = {r}
             /\ \A o \in Users : o # u => OpenRequests(o)' = OpenRequests(o)
             /\ requests'[r].missed # "no" \/ r \in digest'.fresh
             /\ digest'.batch = digest.batch /\ digest'.step = digest.step
             /\ digest.fresh \subseteq digest'.fresh
             /\ digest'.fresh \subseteq digest.fresh \cup {r}
  <1> DEFINE q == [user |-> u, state |-> "open", told |-> FALSE,
                   missed |-> IF applying[u] = "overtaken" THEN "late" ELSE "no"]
  <1>1. PICK r \in RequestIds :
          /\ requests[r] = None
          /\ requests' = [requests EXCEPT ![r] = q]
          /\ digest' = IF applying[u] = "new"
                       THEN [digest EXCEPT !.fresh = @ \cup {r}] ELSE digest
    BY DEF ApplyCommit
  <1>2. q \in RequestRows
    <2>1. (IF applying[u] = "overtaken" THEN "late" ELSE "no") \in Misses
      BY DEF Misses
    <2> QED
      BY <2>1 DEF RequestRows
  <1>3. /\ q # None /\ q.user = u /\ q.state = "open"
        /\ applying[u] = "overtaken" => q.missed # "no"
    BY <1>2, ReviewAssumption
  <1> HIDE DEF q
  <1>4. requests'[r] = q /\ \A p \in RequestIds : p # r => requests'[p] = requests[p]
    BY <1>1 DEF Inductive, TypeOK
  <1>5. OpenRequests(u) = {}
    BY DEF ApplyCommit, MayApply
  <1>6. OpenRequests(u)' = {r}
    <2>1. r \in OpenRequests(u)'
      BY <1>3, <1>4 DEF OpenRequests
    <2>2. \A p \in OpenRequests(u)' : p = r
      BY <1>4, <1>5 DEF OpenRequests
    <2> QED
      BY <2>1, <2>2
  <1>7. \A o \in Users : o # u => OpenRequests(o)' = OpenRequests(o)
    BY <1>1, <1>3, <1>4 DEF OpenRequests
  <1>8. applying[u] \in {"new", "overtaken"} /\ digest \in Digests
    BY DEF ApplyCommit, Inductive, TypeOK
  <1>9. /\ applying[u] = "new" => r \in digest'.fresh
        /\ digest'.batch = digest.batch /\ digest'.step = digest.step
        /\ digest.fresh \subseteq digest'.fresh
        /\ digest'.fresh \subseteq digest.fresh \cup {r}
    BY <1>1, <1>8 DEF Digests
  <1>10. requests'[r].missed # "no" \/ r \in digest'.fresh
    BY <1>3, <1>4, <1>8, <1>9
  <1> QED
    BY <1>1, <1>3, <1>4, <1>6, <1>7, <1>9, <1>10

(* A decision leaves no open request, unless the account was locked before. *)
LEMMA DecideWriteCloses ==
    ASSUME Inductive, NEW a \in Users, DecideWrite(a), deciding[a].decision # "unlock",
           NEW t \in Users, t = deciding[a].item.target
    PROVE  OpenRequests(t)' = {}
  <1> DEFINE v == deciding[a]
  <1>1. v # None /\ v.item.target \in Users
    BY DecisionWrites
  <1>2. Settles /\ (v.request # None => requests'[v.request].state # "open")
    BY DecideWriteSettles DEF Inductive
  <1>3. \A r \in OpenRequests(v.item.target) : r = v.request
    BY <1>1 DEF Inductive, RequestsAreRead
  <1>4. OpenRequests(t)' \subseteq OpenRequests(t)
    BY <1>2, SettlesOpen DEF Inductive
  <1>5. ASSUME NEW r \in OpenRequests(t)' PROVE FALSE
    <2>1. r \in RequestIds /\ requests'[r].state = "open"
      BY <1>5 DEF OpenRequests
    <2>2. r = v.request /\ r # None
      BY <1>3, <1>4, <1>5, <2>1, ReviewAssumption
    <2> QED
      BY <1>2, <2>1, <2>2
  <1> QED
    BY <1>5

LEMMA NextOpenRequestsAwait ==
    ASSUME Inductive, [Next]_vars
    PROVE  OpenRequestsAwait'
  <1> USE DEF Inductive
  <1>1. CASE users' = users /\ Settles
    BY <1>1, SettledAwait
  <1>2. ASSUME NEW u \in Users, ApplyCommit(u) PROVE OpenRequestsAwait'
    <2>1. PICK r \in RequestIds :
             /\ OpenRequests(u)' = {r}
             /\ \A o \in Users : o # u => OpenRequests(o)' = OpenRequests(o)
      BY <1>2, ApplyCommitOpens
    <2>2. users' = users /\ users[u].status = "pending"
      BY <1>2 DEF ApplyCommit, MayApply
    <2> QED
      BY <2>1, <2>2 DEF OpenRequestsAwait
  <1>3. ASSUME NEW a \in Users, DecideWrite(a) PROVE OpenRequestsAwait'
    <2>1. PICK t \in Users : t = deciding[a].item.target
      BY <1>3, DecisionWrites
    <2>2. /\ ChangeStatus(t, Transition[deciding[a].decision].to, users[t].role)
          /\ Transition[deciding[a].decision].to \in Statuses
          /\ users[t].role \in {"general", "admin"}
          /\ users[t].status \in Transition[deciding[a].decision].from
          /\ deciding[a].decision \in Decisions
      BY <1>3, <2>1, DecisionWrites
    <2>3. users'[t].role = users[t].role /\ \A o \in Users : o # t => users'[o] = users[o]
      BY <2>2, StatusChanges
    <2>4. \A o \in Users : OpenRequests(o)' \subseteq OpenRequests(o)
      BY <1>3, DecideWriteSettles, SettlesOpen
    <2>5. OpenRequests(t)' # {} => users'[t].role = "admin"
      <3>1. CASE deciding[a].decision = "unlock"
        <4>1. users[t].status = "locked"
          BY <2>2, <3>1, TransitionTypes
        <4> QED
          BY <2>3, <2>4, <4>1 DEF OpenRequestsAwait
      <3>2. CASE deciding[a].decision # "unlock"
        BY <1>3, <2>1, <3>2, DecideWriteCloses
      <3> QED
        BY <3>1, <3>2
    <2> QED
      BY <2>3, <2>4, <2>5 DEF OpenRequestsAwait
  <1>4. ASSUME NEW u \in Users, GrantAdminRole(u) PROVE OpenRequestsAwait'
    <2>1. /\ users'[u].role = "admin"
          /\ \A o \in Users : o # u => users'[o] = users[o]
      BY <1>4, StatusChanges DEF GrantAdminRole, Statuses
    <2>2. \A o \in Users : OpenRequests(o)' = OpenRequests(o)
      BY <1>4 DEF GrantAdminRole, OpenRequests
    <2> QED
      BY <2>1, <2>2 DEF OpenRequestsAwait
  <1>5. ASSUME NEW u \in Users, Withdraw(u) PROVE OpenRequestsAwait'
    <2>1. users' = users /\ Settles
      BY <1>5, WithdrawSettles DEF Withdraw
    <2> QED
      BY <1>1, <2>1
  <1>6. CASE DigestCount \/ DigestFails \/ Restart
    <2>1. users' = users /\ Settles
      BY <1>6, DigestCountSettles, DigestFailsSettles, RestartSettles
         DEF DigestCount, DigestFails, Restart
    <2> QED
      BY <1>1, <2>1
  <1>7. CASE UNCHANGED <<users, requests>>
    BY <1>1, <1>7, SameSettles
  <1>8. ASSUME NEW u \in Users, EraseAccount(u) PROVE OpenRequestsAwait'
    <2>1. users' = users /\ \A o \in Users : OpenRequests(o)' \subseteq OpenRequests(o)
      BY <1>8, EraseRequests DEF EraseAccount
    <2> QED
      BY <2>1 DEF OpenRequestsAwait
  <1> QED
    BY <1>2, <1>3, <1>4, <1>5, <1>6, <1>7, <1>8
       DEF Next, vars, ApplyBegin, ApplyRefused, LoadPage, DecideRead, DecideFails, DigestBegin

LEMMA NextRequestsAreRead ==
    ASSUME Inductive, [Next]_vars
    PROVE  RequestsAreRead'
  <1> USE DEF Inductive
  <1>1. CASE Settles /\ \A a \in Users : deciding'[a] # None => deciding'[a] = deciding[a]
    BY <1>1, SettledRead
  <1>2. ASSUME NEW u \in Users, ApplyCommit(u) PROVE RequestsAreRead'
    <2>1. PICK r \in RequestIds :
             /\ requests[r] = None
             /\ \A p \in RequestIds : p # r => requests'[p] = requests[p]
             /\ \A o \in Users : o # u => OpenRequests(o)' = OpenRequests(o)
      BY <1>2, ApplyCommitOpens
    <2>2. deciding' = deciding /\ u \notin HeldRows
      BY <1>2 DEF ApplyCommit, MayApply
    <2> SUFFICES ASSUME NEW a \in Users, deciding[a] # None
                 PROVE  /\ deciding[a].request # None =>
                             /\ requests'[deciding[a].request] # None
                             /\ requests'[deciding[a].request].user = deciding[a].item.target
                        /\ deciding[a].decision # "unlock" =>
                             \A p \in OpenRequests(deciding[a].item.target)' : p = deciding[a].request
      BY <2>2 DEF RequestsAreRead, OpenRequests
    <2>3. deciding[a].item.target \in Users /\ deciding[a].request \in RequestIds \cup {None}
      BY VerdictTypes
    <2>4. deciding[a].item.target # u
      BY <2>2, HeldRowsAre
    <2>5. PICK t \in Users : t = deciding[a].item.target
      BY <2>3
    <2>6. OpenRequests(t)' = OpenRequests(t)
      BY <2>1, <2>4, <2>5
    <2>7. OpenRequests(deciding[a].item.target)' = OpenRequests(deciding[a].item.target)
      BY <2>2, <2>5, <2>6 DEF OpenRequests
    <2> QED
      BY <2>1, <2>3, <2>7 DEF RequestsAreRead
  <1>3. ASSUME NEW a \in Users, NEW d \in Decisions, DecideRead(a, d) PROVE RequestsAreRead'
    <2> DEFINE v == [item |-> pages[a], decision |-> d, before |-> users[pages[a].target].status,
                     request |-> RequestOf(pages[a].target)]
    <2>1. deciding' = [deciding EXCEPT ![a] = v] /\ requests' = requests /\ pages[a] # None
      BY <1>3 DEF DecideRead
    <2>2. PICK t \in Users : t = pages[a].target
      BY <2>1, PageTypes
    <2>3. v.item.target = t /\ v.request = RequestOf(t)
      BY <2>2
    <2> HIDE DEF v
    <2>4. deciding'[a] = v /\ \A b \in Users : b # a => deciding'[b] = deciding[b]
      BY <2>1 DEF TypeOK
    <2>5. v.request # None => requests[v.request] # None /\ requests[v.request].user = t
      BY <2>3, RequestOfType, OpenRequestIs
    <2>6. \A r \in OpenRequests(t) : r = v.request
      BY <2>3, RequestOfType DEF OpenRequestsAwait
    <2>7. \A b \in Users : b # a /\ deciding'[b] # None =>
            /\ deciding'[b].request # None =>
                 /\ requests'[deciding'[b].request] # None
                 /\ requests'[deciding'[b].request].user = deciding'[b].item.target
            /\ deciding'[b].decision # "unlock" =>
                 \A r \in OpenRequests(deciding[b].item.target) : r = deciding'[b].request
      BY <2>1, <2>4 DEF RequestsAreRead
    <2>8. \A b \in Users : OpenRequests(deciding[b].item.target)' =
              {r \in RequestIds : requests[r] # None /\ requests[r].user = deciding'[b].item.target
                                           /\ requests[r].state = "open"}
      BY <2>1 DEF OpenRequests
    <2> QED
      BY <2>1, <2>3, <2>4, <2>5, <2>6, <2>7, <2>8 DEF RequestsAreRead, OpenRequests
  <1>4. ASSUME NEW a \in Users, DecideWrite(a) PROVE RequestsAreRead'
    <2>1. Settles
      BY <1>4, DecideWriteSettles
    <2>2. \A b \in Users : deciding'[b] # None => deciding'[b] = deciding[b]
      BY <1>4 DEF DecideWrite, TypeOK
    <2> QED
      BY <1>1, <2>1, <2>2
  <1>5. ASSUME NEW a \in Users, DecideFails(a) PROVE RequestsAreRead'
    <2>1. Settles
      BY <1>5, SameSettles DEF DecideFails
    <2>2. \A b \in Users : deciding'[b] # None => deciding'[b] = deciding[b]
      BY <1>5 DEF DecideFails, TypeOK
    <2> QED
      BY <1>1, <2>1, <2>2
  <1>6. ASSUME NEW u \in Users, Withdraw(u) PROVE RequestsAreRead'
    <2>1. deciding' = deciding /\ Settles
      BY <1>6, WithdrawSettles DEF Withdraw
    <2> QED
      BY <1>1, <2>1
  <1>7. CASE DigestCount \/ DigestFails
    <2>1. deciding' = deciding /\ Settles
      BY <1>7, DigestCountSettles, DigestFailsSettles DEF DigestCount, DigestFails
    <2> QED
      BY <1>1, <2>1
  <1>8. CASE UNCHANGED <<deciding, requests>>
    BY <1>1, <1>8, SameSettles
  <1>9. ASSUME NEW u \in Users, EraseAccount(u) PROVE RequestsAreRead'
    <2>1. deciding' = deciding /\ u \notin HeldRows
      BY <1>9 DEF EraseAccount
    <2> SUFFICES ASSUME NEW a \in Users, deciding[a] # None
                 PROVE  /\ deciding[a].request # None =>
                             /\ requests'[deciding[a].request] # None
                             /\ requests'[deciding[a].request].user = deciding[a].item.target
                        /\ deciding[a].decision # "unlock" =>
                             \A p \in OpenRequests(deciding[a].item.target)' : p = deciding[a].request
      BY <2>1 DEF RequestsAreRead, OpenRequests
    <2>2. PICK t \in Users : t = deciding[a].item.target
      BY VerdictTypes
    <2>3. t # u /\ deciding[a].request \in RequestIds \cup {None}
      BY <2>1, <2>2, HeldRowsAre, VerdictTypes
    <2>4. deciding[a].request # None => requests'[deciding[a].request] = requests[deciding[a].request]
      BY <1>9, <2>2, <2>3, EraseRequests DEF RequestsAreRead, Owned
    <2>5. OpenRequests(t)' \subseteq OpenRequests(t)
      BY <1>9, EraseRequests
    <2>6. OpenRequests(deciding[a].item.target)' = OpenRequests(t)'
      BY <2>1, <2>2 DEF OpenRequests
    <2> QED
      BY <2>2, <2>4, <2>5, <2>6 DEF RequestsAreRead
  <1>10. CASE Restart
    BY <1>10, RestartEnds DEF RequestsAreRead
  <1> QED
    BY <1>2, <1>3, <1>4, <1>5, <1>6, <1>7, <1>8, <1>9, <1>10
       DEF Next, vars, ApplyBegin, ApplyRefused, LoadPage, GrantAdminRole, DigestBegin

-----------------------------------------------------------------------------
(* The digest.                                                             *)
LEMMA NextDigestsKnow ==
    ASSUME Inductive, [Next]_vars
    PROVE  DigestsKnow'
  <1> USE DEF Inductive
  <1>1. CASE Settles /\ digest' = digest
    BY <1>1 DEF Settles, DigestsKnow, TypeOK, Digests
  <1>2. ASSUME NEW u \in Users, ApplyCommit(u) PROVE DigestsKnow'
    <2>1. PICK r \in RequestIds :
             /\ requests'[r] # None
             /\ \A p \in RequestIds : p # r => requests'[p] = requests[p]
             /\ digest'.batch = digest.batch /\ digest'.step = digest.step
             /\ digest'.fresh \subseteq digest.fresh \cup {r}
      BY <1>2, ApplyCommitOpens
    <2>2. digest.fresh \subseteq RequestIds /\ digest.batch \subseteq RequestIds
      BY DEF TypeOK, Digests
    <2> QED
      BY <2>1, <2>2 DEF DigestsKnow
  <1>3. ASSUME NEW u \in Users, Withdraw(u) PROVE DigestsKnow'
    BY <1>1, <1>3, WithdrawSettles DEF Withdraw
  <1>4. ASSUME NEW a \in Users, DecideWrite(a) PROVE DigestsKnow'
    <2>1. Settles /\ digest' = digest
      BY <1>4, DecideWriteSettles DEF DecideWrite
    <2> QED
      BY <1>1, <2>1
  <1>5. CASE DigestBegin
    BY <1>5 DEF DigestBegin, DigestsKnow
  <1>6. CASE DigestCount
    <2>1. Settles /\ digest' = [step |-> "idle", fresh |-> digest.fresh, batch |-> {}]
      BY <1>6, DigestCountSettles DEF DigestCount, DigestEndedAt
    <2> QED
      BY <2>1 DEF Settles, DigestsKnow, TypeOK, Digests
  <1>7. CASE DigestFails
    <2>1. Settles /\ digest' = [digest EXCEPT !.step = "idle", !.batch = {}]
      BY <1>7, DigestFailsSettles DEF DigestFails
    <2>2. digest'.fresh = digest.fresh /\ digest'.batch = {}
      BY <2>1 DEF TypeOK, Digests
    <2> QED
      BY <2>1, <2>2 DEF Settles, DigestsKnow, TypeOK, Digests
  <1>8. CASE UNCHANGED <<requests, digest>>
    BY <1>1, <1>8, SameSettles
  <1>9. ASSUME NEW u \in Users, EraseAccount(u) PROVE DigestsKnow'
    <2>1. digest.fresh \subseteq RequestIds /\ digest.batch \subseteq RequestIds
      BY DEF TypeOK, Digests
    <2> QED
      BY <1>9, <2>1, EraseRequests DEF DigestsKnow
  <1>10. CASE Restart
    BY <1>10, RestartEnds DEF DigestsKnow
  <1> QED
    BY <1>2, <1>3, <1>4, <1>5, <1>6, <1>7, <1>8, <1>9, <1>10
       DEF Next, vars, ApplyBegin, ApplyRefused, LoadPage, DecideRead, DecideFails, GrantAdminRole

LEMMA NextNoRequestIsOverlooked ==
    ASSUME Inductive, [Next]_vars
    PROVE  NoRequestIsOverlooked'
  <1> USE DEF Inductive
  \* Writes that change a request only by closing it.
  <1>1. CASE /\ digest' = digest
             /\ \A r \in RequestIds : \/ requests'[r] = requests[r]
                                      \/ requests'[r].state # "open"
    BY <1>1 DEF NoRequestIsOverlooked, Overlooked, IsOpen
  <1>2. ASSUME NEW u \in Users, ApplyCommit(u) PROVE NoRequestIsOverlooked'
    <2>1. PICK r \in RequestIds :
             /\ \A p \in RequestIds : p # r => requests'[p] = requests[p]
             /\ requests'[r].missed # "no" \/ r \in digest'.fresh
             /\ digest'.batch = digest.batch
             /\ digest.fresh \subseteq digest'.fresh
      BY <1>2, ApplyCommitOpens
    <2> QED
      BY <2>1 DEF NoRequestIsOverlooked, Overlooked, IsOpen
  <1>3. ASSUME NEW u \in Users, Withdraw(u) PROVE NoRequestIsOverlooked'
    <2>1. \A r \in RequestIds : requests'[r] = requests[r] \/ requests'[r].state # "open"
      BY <1>3, WithdrawSettles
    <2> QED
      BY <1>1, <1>3, <2>1 DEF Withdraw
  <1>4. ASSUME NEW a \in Users, DecideWrite(a) PROVE NoRequestIsOverlooked'
    <2>1. \A r \in RequestIds : requests'[r] = requests[r] \/ requests'[r].state # "open"
      BY <1>4, DecideWriteSettles
    <2>2. digest' = digest
      BY <1>4 DEF DecideWrite
    <2> QED
      BY <1>1, <2>1, <2>2
  <1>5. CASE DigestBegin
    <2>1. /\ requests' = requests /\ digest.step = "idle"
          /\ digest' = [step |-> "count", fresh |-> {}, batch |-> digest.fresh]
      BY <1>5 DEF DigestBegin
    <2>2. digest.batch = {}
      BY <2>1 DEF DigestsKnow
    <2> QED
      BY <2>1, <2>2 DEF NoRequestIsOverlooked, Overlooked, IsOpen
  <1>6. CASE DigestCount
    <2>1. /\ \A r \in RequestIds : r \notin Announced => requests'[r] = requests[r]
          /\ \A r \in Announced : \/ requests'[r].told
                                  \/ requests'[r] = requests[r] /\ requests[r].told
                                  \/ requests'[r].missed = "nobody"
      BY <1>6, DigestCountSettles
    <2>2. digest'.fresh = digest.fresh
      BY <1>6 DEF DigestCount, DigestEndedAt
    <2>3. ASSUME NEW r \in RequestIds, requests[r] # None, IsOpen(r), r \notin Announced
          PROVE  r \notin digest.batch
      BY <2>3 DEF Announced
    <2> QED
      BY <2>1, <2>2, <2>3 DEF NoRequestIsOverlooked, Overlooked, IsOpen
  <1>7. CASE DigestFails
    <2>1. /\ \A r \in RequestIds : r \notin digest.batch => requests'[r] = requests[r]
          /\ \A r \in digest.batch :
                \/ requests'[r] = requests[r] /\ (~IsOpen(r) \/ requests[r].told)
                \/ requests'[r].missed = "failed"
      BY <1>7, DigestFailsSettles
    <2>2. digest'.fresh = digest.fresh
      BY <1>7 DEF DigestFails, TypeOK, Digests
    <2> QED
      BY <2>1, <2>2 DEF NoRequestIsOverlooked, Overlooked, IsOpen
  <1>8. CASE UNCHANGED <<requests, digest>>
    BY <1>1, <1>8
  <1>9. ASSUME NEW u \in Users, EraseAccount(u) PROVE NoRequestIsOverlooked'
    <2>1. /\ \A r \in RequestIds : \/ requests'[r] = requests[r] /\ r \notin Owned(u)
                                   \/ requests'[r] = None /\ r \in Owned(u)
          /\ digest'.fresh = digest.fresh \ Owned(u)
          /\ digest'.batch = digest.batch \ Owned(u)
      BY <1>9, EraseRequests
    <2> QED
      BY <2>1 DEF NoRequestIsOverlooked, Overlooked, IsOpen
  <1>10. CASE Restart
    <2>1. /\ \A r \in RequestIds :
                r \notin digest.fresh \cup digest.batch => requests'[r] = requests[r]
          /\ \A r \in digest.fresh \cup digest.batch :
                \/ requests'[r] = requests[r] /\ (~IsOpen(r) \/ requests[r].told)
                \/ requests'[r].missed = "restart"
      BY <1>10, RestartSettles
    <2> QED
      BY <2>1 DEF NoRequestIsOverlooked, Overlooked, IsOpen
  <1> QED
    BY <1>2, <1>3, <1>4, <1>5, <1>6, <1>7, <1>8, <1>9, <1>10
       DEF Next, vars, ApplyBegin, ApplyRefused, LoadPage, DecideRead, DecideFails, GrantAdminRole

-----------------------------------------------------------------------------
(* Administrators.                                                         *)
LEMMA AdministratorsStay ==
    ASSUME Inductive, [Next]_vars, NEW b \in Users, Administers(b)
    PROVE  \/ \E u \in Users : Administers(u)'
           \/ \E u \in Users : Administers(u) /\ EraseAccount(u)
  <1> DEFINE Goal == \/ \E u \in Users : Administers(u)'
                     \/ \E u \in Users : Administers(u) /\ EraseAccount(u)
  <1> USE DEF Inductive
  <1>1. CASE users' = users /\ deleted' = deleted
    BY <1>1 DEF Administers
  <1>2. ASSUME NEW a \in Users, DecideWrite(a) PROVE Goal
    <2>1. PICK t \in Users : t = deciding[a].item.target
      BY <1>2, DecisionWrites
    <2>2. /\ t # a /\ Administers(a)
          /\ ChangeStatus(t, Transition[deciding[a].decision].to, users[t].role)
          /\ Transition[deciding[a].decision].to \in Statuses
          /\ users[t].role \in {"general", "admin"}
      BY <1>2, <2>1, DecisionWrites
    <2>3. users'[a] = users[a] /\ deleted' = deleted
      BY <1>2, <2>2, StatusChanges DEF DecideWrite
    <2> QED
      BY <2>2, <2>3 DEF Administers
  <1>3. ASSUME NEW u \in Users, GrantAdminRole(u) PROVE Goal
    <2>1. /\ users'[u].role = "admin" /\ users'[u].status = "active"
          /\ u \notin deleted /\ deleted' = deleted
      BY <1>3, StatusChanges DEF GrantAdminRole, Statuses
    <2> QED
      BY <2>1 DEF Administers
  <1>4. ASSUME NEW u \in Users, EraseAccount(u) PROVE Goal
    <2>1. CASE u = b
      BY <1>4, <2>1
    <2>2. CASE u # b
      BY <1>4, <2>2 DEF EraseAccount, Administers
    <2> QED
      BY <2>1, <2>2
  <1> QED
    BY <1>1, <1>2, <1>3, <1>4
       DEF Next, vars, ApplyBegin, ApplyCommit, ApplyRefused, Withdraw, LoadPage, DecideRead,
           DecideFails, DigestBegin, DigestCount, DigestFails, Restart

-----------------------------------------------------------------------------
(* The inductive invariant.                                                *)
LEMMA InitInductive == Init => Inductive
  <1> SUFFICES ASSUME Init PROVE Inductive
    OBVIOUS
  <1>1. PICK venue \in SUBSET Users :
          /\ users = [u \in Users |->
                 IF u \in venue THEN [role |-> "general", status |-> "active", revision |-> 1]
                 ELSE [role |-> "general", status |-> "pending", revision |-> 0]]
          /\ trail = [u \in Users |-> [n \in 0 .. MaxRevision |->
                         CASE n = 0 -> "pending"
                           [] n = 1 /\ u \in venue -> "active"
                           [] OTHER -> None]]
          /\ audit = {VouchedFor(u) : u \in venue}
    BY DEF Init
  <1>2. 0 \in 0 .. MaxRevision /\ 1 \in 0 .. MaxRevision
    BY ReviewAssumption
  <1>3. TypeOK
    BY InitTypeOK
  <1>4. ASSUME NEW u \in Users
        PROVE  /\ users[u].role = "general"
               /\ u \in venue => users[u].status = "active" /\ users[u].revision = 1
               /\ u \notin venue => users[u].status = "pending" /\ users[u].revision = 0
               /\ trail[u][0] = "pending"
               /\ u \in venue => trail[u][1] = "active"
    BY <1>1, <1>2
  <1>5. /\ deciding = [u \in Users |-> None] /\ pages = [u \in Users |-> None]
        /\ requests = [r \in RequestIds |-> None]
        /\ digest = [step |-> "idle", fresh |-> {}, batch |-> {}]
    BY DEF Init
  <1>6. RowsAreHeld
    BY <1>5 DEF RowsAreHeld
  <1>7. PagesAreDated
    BY <1>4, <1>5 DEF PagesAreDated
  <1>8. ASSUME NEW l \in audit
        PROVE  /\ l.target \in venue /\ l.expected = 0 /\ l.before = "pending"
               /\ l.after = "active" /\ l.seen = "pending" /\ l.actor = None
               /\ l = VouchedFor(l.target)
    <2>1. PICK u \in venue : l = VouchedFor(u)
      BY <1>1
    <2>2. /\ l.target = u /\ l.expected = 0 /\ l.before = "pending"
          /\ l.after = "active" /\ l.seen = "pending" /\ l.actor = None
      BY <2>1 DEF VouchedFor
    <2> QED
      BY <2>1, <2>2
  <1>9. AuditIsDated /\ DecidedAsReviewed
    BY <1>4, <1>8 DEF AuditIsDated, DecidedAsReviewed
  <1>10. StepsAreExplained
    <2> SUFFICES ASSUME NEW u \in Users, NEW n \in 1 .. users[u].revision
                 PROVE  /\ \A l, k \in LineOf(u, n) : l = k
                        /\ \A l \in LineOf(u, n) : l.before = trail[u][n - 1] /\ l.after = trail[u][n]
                        /\ LineOf(u, n) = {} => trail[u][n] = "active" /\ users[u].role = "admin"
      BY DEF StepsAreExplained
    <2>1. u \in venue /\ n = 1
      BY <1>4
    <2>2. VouchedFor(u) \in LineOf(u, n)
      BY <1>1, <2>1 DEF LineOf, VouchedFor
    <2>3. \A l \in LineOf(u, n) : l = VouchedFor(u) /\ l.before = "pending" /\ l.after = "active"
      BY <1>8 DEF LineOf
    <2>4. trail[u][n - 1] = "pending" /\ trail[u][n] = "active"
      BY <1>4, <2>1
    <2> QED
      BY <2>2, <2>3, <2>4
  <1>11. \A u \in Users : OpenRequests(u) = {}
    BY <1>5 DEF OpenRequests
  <1>12. OpenRequestsAwait /\ RequestsAreRead
    BY <1>5, <1>11 DEF OpenRequestsAwait, RequestsAreRead
  <1>13. DigestsKnow /\ NoRequestIsOverlooked
    BY <1>5 DEF DigestsKnow, NoRequestIsOverlooked, Overlooked
  <1> QED
    BY <1>3, <1>6, <1>7, <1>9, <1>10, <1>12, <1>13 DEF Inductive

\* The invariant holds in every reachable state, whatever the accounts.
THEOREM SpecInductive == Spec => []Inductive
  <1>1. Inductive /\ [Next]_vars => Inductive'
    BY NextTypeOK, NextRowsAreHeld, NextPagesAreDated, NextAuditIsDated, NextStepsAreExplained,
       NextOpenRequestsAwait, NextRequestsAreRead, NextDigestsKnow, NextNoRequestIsOverlooked
       DEF Inductive
  <1> QED
    BY InitInductive, <1>1, PTL DEF Spec

-----------------------------------------------------------------------------
(* The theorems.                                                           *)

\* A set without two different elements has one element at most.
LEMMA AtMostOne ==
    ASSUME NEW S, \A x, y \in S : x = y
    PROVE  Cardinality(S) <= 1 /\ (S # {} => Cardinality(S) = 1)
  <1>1. CASE S = {}
    BY <1>1, FS_EmptySet
  <1>2. CASE S # {}
    <2>1. PICK x \in S : TRUE
      BY <1>2
    <2>2. S = {x}
      BY <2>1
    <2> QED
      BY <2>2, FS_Singleton
  <1> QED
    BY <1>1, <1>2

\* Every row, page, decision and line of the audit is well formed.
THEOREM TypeCorrect == Spec => []TypeOK
  <1>1. Inductive => TypeOK
    BY DEF Inductive
  <1> QED
    BY SpecInductive, <1>1, PTL

\* However many administrators decide at once, one of them stays active: the
\* rows that their decisions hold are disjoint, and the one who decides is not
\* the one decided on.  Only the deletion of an active administrator can leave
\* none.
THEOREM AdministratorsRemain == Spec => AnAdministratorRemains
  <1>1. Inductive /\ [Next]_vars =>
          [(\E u \in Users : Administers(u)) =>
              \/ \E u \in Users : Administers(u)'
              \/ \E u \in Users : Administers(u) /\ EraseAccount(u)]_vars
    BY AdministratorsStay
  <1> QED
    BY SpecInductive, <1>1, PTL DEF AnAdministratorRemains, Spec

\* Every decision changed the status that its administrator was shown.
THEOREM DecisionsAreReviewed == Spec => []DecidedAsReviewed
  <1>1. Inductive => DecidedAsReviewed
    BY DEF Inductive
  <1> QED
    BY SpecInductive, <1>1, PTL

\* Each change of the status of an account that is still there has one line of
\* the audit, or is an appointment by the operator.
THEOREM AuditIsComplete == Spec => []AuditExplainsStatus
  <1>1. Inductive => AuditExplainsStatus
    <2> SUFFICES ASSUME Inductive, NEW u \in Users \ deleted, NEW n \in 1 .. users[u].revision
                 PROVE  /\ Cardinality(LineOf(u, n)) <= 1
                        /\ \A l \in LineOf(u, n) : l.before = trail[u][n - 1]
                                                  /\ l.after = trail[u][n]
                        /\ LineOf(u, n) = {} => trail[u][n] = "active"
                                                /\ users[u].role = "admin"
      BY DEF AuditExplainsStatus, LineOf
    <2>1. \A l, k \in LineOf(u, n) : l = k
      BY DEF Inductive, StepsAreExplained
    <2>2. Cardinality(LineOf(u, n)) <= 1
      BY <2>1, AtMostOne
    <2> QED
      BY <2>2 DEF Inductive, StepsAreExplained
  <1> QED
    BY SpecInductive, <1>1, PTL

\* An account has one open request at most, and only while it awaits review:
\* a decision closes the request it read, and no other came to be meanwhile.
THEOREM RequestsAwait == Spec => []RequestsAwaitReview
  <1>1. Inductive => RequestsAwaitReview
    <2> SUFFICES ASSUME Inductive, NEW u \in Users, OpenRequests(u) # {}
                 PROVE  /\ Cardinality(OpenRequests(u)) = 1
                        /\ users[u].status = "pending" \/ users[u].role = "admin"
      BY DEF RequestsAwaitReview
    <2>1. Cardinality(OpenRequests(u)) = 1
      BY AtMostOne DEF Inductive, OpenRequestsAwait
    <2> QED
      BY <2>1 DEF Inductive, OpenRequestsAwait
  <1> QED
    BY SpecInductive, <1>1, PTL

\* An open request is announced, or will be by a digest that knows of it, unless
\* one overtook it or failed, the process restarted, or nobody was there to tell.
THEOREM RequestsAreAnnounced == Spec => []NoRequestIsOverlooked
  <1>1. Inductive => NoRequestIsOverlooked
    BY DEF Inductive
  <1> QED
    BY SpecInductive, <1>1, PTL
=============================================================================
