------------------------------ MODULE Federation ------------------------------
(***************************************************************************)
(* Accounts of one person under one number: the requests by which an       *)
(* account joins (federation/join-request.ts, records in Redis that are    *)
(* read and written back whole), the federations and their members         *)
(* (federation/store.ts, transactions that lock rows) and the deletion of  *)
(* an account, which takes it out of its federation first.                 *)
(*                                                                         *)
(* Abstracted: the token of a request is spent or not, the number shown on *)
(* the device is entered right or wrong; the oldest member, who follows a  *)
(* leaving primary, is any member.  Proofs of presence and rate limits     *)
(* have passed; audit and events are written, but not kept.                *)
(***************************************************************************)
EXTENDS Naturals, FiniteSets

CONSTANTS Accounts, NoOne, Requests, Federations, NoFederation,
          Calls,              \* calls under way at once
          MaxMembers,         \* FEDERATION_MAX_ACCOUNTS
          MaxCodes,           \* JOIN_CODE_MAX_ATTEMPTS
          MaxCalls            \* bound: calls begun that are not approvals

ASSUME FederationAssumption ==
  /\ NoOne \notin Accounts /\ NoFederation \notin Federations /\ Requests # {}
  /\ MaxMembers \in Nat \ {0, 1} /\ MaxCodes \in Nat \ {0} /\ MaxCalls \in Nat

VARIABLES accounts,       \* users
          federations,    \* account_federations and account_federation_members
          requests,       \* the records of join requests in Redis
          taken,          \* the completion keys in Redis: requests
          calls,          \* calls under way
          begun,          \* how many such calls have begun
          born,           \* history: accounts that exist, existed or are being made
          admitted,       \* history: accounts that joined by each request
          lost,           \* history: commits of a join that were reported as failed
          late,           \* history: completions begun when the request had run out
          shrunk          \* history: federations that lost a member by cascade

redis == <<requests, taken>>
history == <<born, admitted, lost, late, shrunk>>
vars == <<accounts, federations, redis, calls, begun, history>>

Federation == [state : {"unused", "open", "closed"}, subject : Accounts \cup {NoOne},
               primary : Accounts \cup {NoOne}, members : SUBSET Accounts, revision : Nat]
Request == [state : {"none", "open", "claimed", "approved", "completed", "locked", "expired"},
            approver : Accounts \cup {NoOne},
            joiner : Accounts \cup {NoOne}, token : BOOLEAN, codeAttempts : Nat]
Kinds == {"none", "approve", "join", "view", "set_primary", "remove", "delete"}
Places == {"idle", "save", "take", "users", "federation", "write", "finish", "abort",
           "revision", "members", "actor", "erase"}
\* What a page shows of a federation.  `began` is history: the revision when
\* the page began to load.
Page == [federation : Federations \cup {NoFederation}, primary : Accounts \cup {NoOne},
         began : Nat, revision : Nat, members : SUBSET Accounts]
Call == [kind : Kinds, at : Places, request : Requests, record : Request,
         actor : Accounts \cup {NoOne}, target : Accounts \cup {NoOne},
         federation : Federations \cup {NoFederation},
         page : Page]

Unused == [state |-> "unused", subject |-> NoOne, primary |-> NoOne, members |-> {},
           revision |-> 0]
NoRequest == [state |-> "none", approver |-> NoOne, joiner |-> NoOne,
              token |-> FALSE, codeAttempts |-> 0]
NoCall == [kind |-> "none", at |-> "idle", request |-> CHOOSE r \in Requests : TRUE,
           record |-> NoRequest, actor |-> NoOne, target |-> NoOne,
           federation |-> NoFederation,
           page |-> [federation |-> NoFederation, primary |-> NoOne, began |-> 0,
                     revision |-> 0, members |-> {}]]

\* The federation of an account, and whether its id is the number of one.
IsOpen(f) == federations[f].state = "open"
MembershipOf(a) ==
  IF \E f \in Federations : IsOpen(f) /\ a \in federations[f].members
  THEN CHOOSE f \in Federations : IsOpen(f) /\ a \in federations[f].members
  ELSE NoFederation
OwnsSubject(a) == \E f \in Federations : IsOpen(f) /\ federations[f].subject = a
\* The number services know an account by.
SubjectOf(a) == IF MembershipOf(a) = NoFederation THEN a
                ELSE federations[MembershipOf(a)].subject

TypeOK ==
  /\ accounts \in SUBSET Accounts
  /\ federations \in [Federations -> Federation]
  /\ requests \in [Requests -> Request]
  /\ taken \in SUBSET Requests
  /\ calls \in [Calls -> Call] /\ begun \in 0..MaxCalls
  /\ born \in SUBSET Accounts
  /\ admitted \in [Requests -> Nat] /\ lost \in [Requests -> Nat] /\ late \in [Requests -> Nat]
  /\ shrunk \in SUBSET Federations

\* Some accounts, and perhaps a federation of some of them with a history:
\* its founder may have left it.
InitialRevision == 4
Init ==
  /\ accounts \in SUBSET Accounts /\ born = accounts
  /\ \/ federations = [f \in Federations |-> Unused]
     \/ \E f \in Federations, members \in SUBSET accounts :
          /\ IsFiniteSet(members) /\ Cardinality(members) \in 2..MaxMembers
          /\ \E subject \in accounts, primary \in members :
               federations = [g \in Federations |-> IF g # f THEN Unused ELSE
                 [state |-> "open", subject |-> subject, primary |-> primary,
                  members |-> members, revision |-> InitialRevision]]
  /\ requests = [r \in Requests |-> NoRequest] /\ taken = {}
  /\ calls = [o \in Calls |-> NoCall] /\ begun = 0
  /\ admitted = [r \in Requests |-> 0] /\ lost = admitted /\ late = admitted
  /\ shrunk = {}

-----------------------------------------------------------------------------
(* How a call moves, and the rows it holds until its transaction ends.     *)

Update(o, call) == calls' = [calls EXCEPT ![o] = call] /\ UNCHANGED begun
Start(o, call) ==
  /\ calls[o].at = "idle" /\ calls' = [calls EXCEPT ![o] = call]
  /\ begun < MaxCalls /\ begun' = begun + 1
Go(o, place) == Update(o, [calls[o] EXCEPT !.at = place])
End(o) == Update(o, NoCall)

HeldUsers(o) ==
  IF calls[o].kind = "join" /\ calls[o].at \in {"federation", "write"}
  THEN {calls[o].record.approver, calls[o].actor} ELSE {}
Holds(o, f) == calls[o].at \in {"write", "erase"} /\ calls[o].federation = f
UsersAreFree(o, users) == \A p \in Calls \ {o} : HeldUsers(p) \cap users = {}

\* The process stops, or a transaction fails, for a deadlock too.
Cut(o) ==
  /\ calls[o].at # "idle"
  /\ End(o)
  /\ UNCHANGED <<accounts, federations, redis, history>>

-----------------------------------------------------------------------------
(* Join requests.                                                          *)

CreateDeviceRequest(r) == \E joiner \in accounts \cup {NoOne} :
  /\ requests[r] = NoRequest
  /\ requests' = [requests EXCEPT ![r] = [NoRequest EXCEPT !.state = "open",
                    !.joiner = joiner, !.token = TRUE]]
  /\ UNCHANGED <<accounts, federations, taken, calls, begun, history>>
CreateInvite(r) == \E approver \in accounts :
  /\ requests[r] = NoRequest
  /\ requests' = [requests EXCEPT ![r] = [NoRequest EXCEPT !.state = "open",
                    !.approver = approver, !.token = TRUE]]
  /\ UNCHANGED <<accounts, federations, taken, calls, begun, history>>

\* The token is spent by the first reader, also by one that is refused or
\* stops before it has saved the claim.
Claim(r) ==
  /\ requests[r].state = "open" /\ requests[r].token
  /\ \/ requests' = [requests EXCEPT ![r].token = FALSE]
     \/ \E approver \in accounts \ {requests[r].joiner} :
          /\ requests[r].approver = NoOne
          /\ requests' = [requests EXCEPT ![r].token = FALSE, ![r].state = "claimed",
                                          ![r].approver = approver]
     \/ \E joiner \in (accounts \cup {NoOne}) \ {requests[r].approver} :
          /\ requests[r].approver # NoOne
          /\ requests' = [requests EXCEPT ![r].token = FALSE, ![r].state = "claimed",
                                          ![r].joiner = joiner]
  /\ UNCHANGED <<accounts, federations, taken, calls, begun, history>>

\* The record and the completion key live until the same moment.
Expire(r) ==
  /\ requests[r].state \notin {"none", "expired"}
  /\ requests' = [requests EXCEPT ![r] = [NoRequest EXCEPT !.state = "expired"]]
  /\ taken' = taken \ {r}
  /\ UNCHANGED <<accounts, federations, calls, begun, history>>

\* A record is written back whole, if there is time left.
Saved(r, record) ==
  IF requests[r].state = "expired" THEN requests ELSE [requests EXCEPT ![r] = record]

LoadApproval(o) == \E r \in Requests :
  /\ requests[r].state = "claimed"
  /\ calls[o].at = "idle"
  /\ Update(o, [NoCall EXCEPT !.kind = "approve", !.at = "save", !.request = r,
                              !.record = requests[r]])
  /\ UNCHANGED <<accounts, federations, redis, history>>
SaveApproval(o) ==
  LET record == calls[o].record
      attempts == record.codeAttempts + 1 IN
  /\ calls[o].at = "save"
  /\ \/ requests' = Saved(calls[o].request, [record EXCEPT !.state = "approved"])
     \/ requests' = Saved(calls[o].request, [record EXCEPT !.codeAttempts = attempts,
                      !.state = IF attempts >= MaxCodes THEN "locked" ELSE @])
  /\ End(o)
  /\ UNCHANGED <<accounts, federations, taken, history>>

-----------------------------------------------------------------------------
(* The completion of a request: the right to it, then the transaction.     *)

LoadCompletion(o) == \E r \in Requests :
  /\ requests[r].state = "approved"
  /\ Start(o, [NoCall EXCEPT !.kind = "join", !.at = "take", !.request = r,
                             !.record = requests[r], !.actor = requests[r].joiner])
  /\ UNCHANGED <<accounts, federations, redis, history>>

\* SETNX; a key for a request that has run out is gone within a millisecond.
NeverTaken(r) == FALSE
IsTaken(r) == r \in taken
TakeCompletion(o) ==
  LET r == calls[o].request
      expired == requests[r].state = "expired" IN
  /\ calls[o].at = "take"
  /\ IF IsTaken(r) THEN End(o) /\ UNCHANGED <<taken, late>>
     ELSE /\ taken' = IF expired THEN taken ELSE taken \cup {r}
          /\ late' = IF expired THEN [late EXCEPT ![r] = @ + 1] ELSE late
          /\ Go(o, "users")
  /\ UNCHANGED <<accounts, federations, requests, born, admitted, lost, shrunk>>

\* joinFederation locks the rows of both users and reads the federation of
\* the approver; a new device has its account made in the same transaction.
LockUsers(o) == \E joiner \in Accounts :
  LET call == calls[o] IN
  /\ call.kind = "join" /\ call.at = "users"
  /\ IF call.actor = NoOne THEN joiner \notin born ELSE joiner = call.actor
  /\ UsersAreFree(o, {call.record.approver, joiner})
  /\ born' = born \cup {joiner}
  /\ Update(o, [call EXCEPT !.at = "federation", !.actor = joiner,
                            !.federation = MembershipOf(call.record.approver)])
  /\ UNCHANGED <<accounts, federations, redis, admitted, lost, late, shrunk>>

\* The row of the federation, held until the transaction ends.
LockFederation(o) ==
  LET call == calls[o] IN
  /\ call.at = "federation"
  /\ IF call.federation # NoFederation /\ ~IsOpen(call.federation)
     THEN IF call.kind = "join" THEN Go(o, "abort") ELSE End(o)
     ELSE /\ call.federation # NoFederation => \A p \in Calls : ~Holds(p, call.federation)
          /\ Go(o, "write")
  /\ UNCHANGED <<accounts, federations, redis, history>>

\* decideFederationJoin, after the locks, and the keys to users.
MembersNow(call) == IF call.federation = NoFederation THEN 1
                    ELSE Cardinality(federations[call.federation].members)
HasRoom(call) == MembersNow(call) + 1 <= MaxMembers
OwnsNone(a) == FALSE
OwnsAnother(a) == OwnsSubject(a)
MayJoin(call) ==
  LET approver == call.record.approver IN
  /\ approver # call.actor
  /\ MembershipOf(call.actor) = NoFederation
  /\ ~OwnsAnother(call.actor)
  /\ HasRoom(call)
  /\ call.federation = NoFederation => approver \in accounts /\ ~OwnsSubject(approver)
  /\ call.record.joiner # NoOne => call.actor \in accounts
Founded(call) == [state |-> "open", subject |-> call.record.approver,
                  primary |-> call.record.approver,
                  members |-> {call.record.approver, call.actor}, revision |-> 1]

\* Commit; the answer to the commit may be lost and count as a failure.
Join(o) ==
  LET call == calls[o]
      r == call.request IN
  /\ call.kind = "join" /\ call.at = "write" /\ MayJoin(call)
  /\ \E f \in Federations :
       IF call.federation = NoFederation
       THEN /\ federations[f] = Unused
            /\ federations' = [federations EXCEPT ![f] = Founded(call)]
       ELSE /\ f = call.federation
            /\ UsersAreFree(o, federations[f].members)
            /\ federations' = [federations EXCEPT ![f].members = @ \cup {call.actor},
                                                  ![f].revision = @ + 1]
  /\ accounts' = accounts \cup {call.actor}
  /\ admitted' = [admitted EXCEPT ![r] = @ + 1]
  /\ \/ Go(o, "finish") /\ UNCHANGED lost
     \/ Go(o, "abort") /\ lost' = [lost EXCEPT ![r] = @ + 1]
  /\ UNCHANGED <<redis, born, late, shrunk>>

\* A refusal, or an error of the transaction, gives the right back.
FailJoin(o) ==
  /\ calls[o].kind = "join" /\ calls[o].at \in {"users", "federation", "write"}
  /\ Go(o, "abort")
  /\ UNCHANGED <<accounts, federations, redis, history>>
AbortCompletion(o) ==
  /\ calls[o].at = "abort"
  /\ taken' = taken \ {calls[o].request}
  /\ End(o)
  /\ UNCHANGED <<accounts, federations, requests, history>>
FinishCompletion(o) ==
  /\ calls[o].at = "finish"
  /\ requests' = Saved(calls[o].request, [calls[o].record EXCEPT !.state = "completed"])
  /\ End(o)
  /\ UNCHANGED <<accounts, federations, taken, history>>

-----------------------------------------------------------------------------
(* Changes by a member, from a page that showed the federation.            *)

\* describeFederation: the membership with the primary, then the revision,
\* then the members, each by a statement of its own.  A federation that has
\* been closed in the meantime has revision 0 and nobody in it.
OpenPage(o) == \E a \in accounts :
  LET f == MembershipOf(a) IN
  /\ f # NoFederation
  /\ Start(o, [NoCall EXCEPT !.kind = "view", !.at = "revision", !.actor = a,
                             !.page.federation = f, !.page.primary = federations[f].primary,
                             !.page.began = federations[f].revision])
  /\ UNCHANGED <<accounts, federations, redis, history>>
ReadRevision(o) ==
  LET page == calls[o].page
      shown == [page EXCEPT !.revision = federations[page.federation].revision] IN
  /\ calls[o].at = "revision"
  /\ Update(o, [calls[o] EXCEPT !.at = "members", !.page = shown])
  /\ UNCHANGED <<accounts, federations, redis, history>>

\* The page is complete, and its reader asks for a change of it.
ReadMembers(o) ==
  LET page == calls[o].page
      members == federations[page.federation].members
      shown == [page EXCEPT !.members = members] IN
  /\ calls[o].at = "members"
  /\ \E target \in members, kind \in {"set_primary", "remove"} :
       Update(o, [calls[o] EXCEPT !.kind = kind, !.at = "actor", !.target = target,
                                  !.page = shown])
  /\ UNCHANGED <<accounts, federations, redis, history>>
StartDeletion(o) == \E a \in accounts :
  /\ Start(o, [NoCall EXCEPT !.kind = "delete", !.at = "actor", !.actor = a, !.target = a])
  /\ UNCHANGED <<accounts, federations, redis, history>>

\* findMembership, before the lock.
ReadActor(o) ==
  LET f == MembershipOf(calls[o].actor) IN
  /\ calls[o].at = "actor"
  /\ IF f # NoFederation
     THEN Update(o, [calls[o] EXCEPT !.at = "federation", !.federation = f])
     ELSE IF calls[o].kind = "delete" THEN Go(o, "erase") ELSE End(o)
  /\ UNCHANGED <<accounts, federations, redis, history>>

AnyRevision(call) == TRUE
IsRevisionSeen(call) ==
  call.kind = "delete" \/ federations[call.federation].revision = call.page.revision

SetPrimary(o) ==
  LET call == calls[o]
      f == call.federation IN
  /\ call.kind = "set_primary" /\ call.at = "write"
  /\ call.actor = federations[f].primary /\ call.target \in federations[f].members
  /\ IsRevisionSeen(call) /\ call.target # federations[f].primary
  /\ UsersAreFree(o, federations[f].members)
  /\ federations' = [federations EXCEPT ![f].primary = call.target, ![f].revision = @ + 1]
  /\ End(o)
  /\ UNCHANGED <<accounts, redis, history>>

\* decideFederationRemoval and applyRemoval.
MayRemove(call) ==
  LET f == call.federation IN
  /\ {call.actor, call.target} \subseteq federations[f].members
  /\ call.actor = call.target \/ call.actor = federations[f].primary
  /\ IsRevisionSeen(call)
KeptPrimary(f, target) == {federations[f].primary}
PrimariesAfter(f, target) ==
  IF federations[f].primary = target THEN federations[f].members \ {target}
  ELSE {federations[f].primary}
Closes(f, target) == Cardinality(federations[f].members \ {target}) <= 1
Removal(f, target) ==
  IF Closes(f, target) THEN federations' = [federations EXCEPT ![f] = [Unused EXCEPT !.state = "closed"]]
  ELSE \E primary \in PrimariesAfter(f, target) :
         federations' = [federations EXCEPT ![f].members = @ \ {target},
                           ![f].primary = primary, ![f].revision = @ + 1]
Remove(o) ==
  LET call == calls[o]
      f == call.federation IN
  /\ call.kind = "remove" /\ call.at = "write" /\ MayRemove(call)
  /\ UsersAreFree(o, federations[f].members)
  /\ Removal(f, call.target)
  /\ End(o)
  /\ UNCHANGED <<accounts, redis, history>>
RefuseChange(o) ==
  LET call == calls[o] IN
  /\ call.at = "write" /\ call.kind \in {"set_primary", "remove"}
  /\ End(o)
  /\ UNCHANGED <<accounts, federations, redis, history>>

\* deleteUserAccount: out of the federation and out of users in one
\* transaction.  An account that was in none when it was read is deleted as
\* it is, with the row of a membership that came since; a primary is not.
DetachAndErase(o) ==
  LET call == calls[o]
      f == call.federation IN
  /\ call.kind = "delete" /\ call.at = "write"
  /\ IF MayRemove(call)
     THEN /\ UsersAreFree(o, federations[f].members)
          /\ Removal(f, call.actor)
          /\ accounts' = accounts \ {call.actor}
          /\ End(o)
     ELSE Go(o, "erase") /\ UNCHANGED <<accounts, federations>>
  /\ UNCHANGED <<redis, history>>
EraseAccount(o) ==
  LET a == calls[o].actor
      f == MembershipOf(a) IN
  /\ calls[o].at = "erase" /\ UsersAreFree(o, {a})
  /\ IF f = NoFederation THEN accounts' = accounts \ {a} /\ UNCHANGED <<federations, shrunk>>
     ELSE /\ federations[f].primary # a
          /\ accounts' = accounts \ {a}
          /\ federations' = [federations EXCEPT ![f].members = @ \ {a}]
          /\ shrunk' = shrunk \cup {f}
  /\ End(o)
  /\ UNCHANGED <<redis, born, admitted, lost, late>>

-----------------------------------------------------------------------------
Step(o) ==
  \/ Cut(o)
  \/ LoadApproval(o) \/ SaveApproval(o)
  \/ LoadCompletion(o) \/ TakeCompletion(o) \/ LockUsers(o) \/ LockFederation(o)
  \/ Join(o) \/ FailJoin(o) \/ AbortCompletion(o) \/ FinishCompletion(o)
  \/ OpenPage(o) \/ ReadRevision(o) \/ ReadMembers(o) \/ StartDeletion(o) \/ ReadActor(o)
  \/ SetPrimary(o) \/ Remove(o) \/ RefuseChange(o) \/ DetachAndErase(o) \/ EraseAccount(o)
Next ==
  \/ \E r \in Requests : CreateDeviceRequest(r) \/ CreateInvite(r) \/ Claim(r) \/ Expire(r)
  \/ \E o \in Calls : Step(o)

Spec == Init /\ [][Next]_vars

-----------------------------------------------------------------------------
(* Properties.                                                             *)

\* A request admits one account: a second one has a lost answer to the
\* commit of the first behind it, or a completion that had read the request
\* before it ran out and took the right to it after (join-request.ts:284).
OneAccountPerRequest == \A r \in Requests : admitted[r] <= 1 + lost[r] + late[r]

\* A number resolves to itself, as subject.ts:8 says: a federation is never
\* known by the id of an account that belongs to another one.
NumberIsSettled == \A a \in accounts : SubjectOf(SubjectOf(a)) = SubjectOf(a)

\* A federation has its primary among its members, and no more than
\* MaxMembers, however joins, departures and deletions overlap; the last
\* member is never alone in it unless a deletion took the other unseen.
FederationIsWhole == \A f \in Federations : IsOpen(f) =>
  /\ federations[f].primary \in federations[f].members
  /\ Cardinality(federations[f].members) <= MaxMembers
  /\ f \notin shrunk => Cardinality(federations[f].members) >= 2

\* A member changes the federation it saw only as it saw it: nothing has
\* happened to its members since, nor to its primary, unless the federation
\* changed while the page was loading and the page shows the primary before.
ChangedAsSeen == [][\A o \in Calls :
  LET f == calls[o].federation
      page == calls[o].page IN
  (SetPrimary(o) \/ Remove(o)) /\ f = page.federation /\ f \notin shrunk
  => /\ federations[f].members = page.members
     /\ page.began = page.revision => federations[f].primary = page.primary]_vars
=============================================================================
