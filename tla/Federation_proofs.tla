--------------------------- MODULE Federation_proofs ---------------------------
(***************************************************************************)
(* Proofs about federations of accounts, for any number of accounts,       *)
(* requests, federations and calls.                                        *)
(*                                                                         *)
(* The argument: a join holds the rows of both users from before it reads  *)
(* the federation of the approver, and the row of that federation until it *)
(* commits, so that an approver found in no federation is in none when one *)
(* is founded (FoundersAreFree) and a federation found open is open when   *)
(* it is written (HeldIsOpen).  The completion key lets one call at a time *)
(* act for a request, until the request runs out (CountedRights).          *)
(* Whatever changes the members or the primary raises the revision, except *)
(* for a deletion that finds the membership too late (SeenPage).           *)
(***************************************************************************)
EXTENDS Federation, FiniteSetTheorems, TLAPS

Members(f) == federations[f].members

MembersAreApart ==
  \A f, g \in Federations : IsOpen(f) /\ IsOpen(g) /\ f # g => Members(f) \cap Members(g) = {}
SubjectsAreApart ==
  \A f, g \in Federations : IsOpen(f) /\ IsOpen(g) /\ f # g =>
    federations[f].subject \notin Members(g)

Closed == [Unused EXCEPT !.state = "closed"]

WholeRow(f) ==
  /\ federations[f].state = "unused" => federations[f] = Unused
  /\ federations[f].state = "closed" => federations[f] = Closed
  /\ IsOpen(f) =>
       /\ federations[f].revision >= 1
       /\ IsFiniteSet(Members(f)) /\ federations[f].primary \in Members(f)
       /\ Cardinality(Members(f)) <= MaxMembers
       /\ f \notin shrunk => Cardinality(Members(f)) >= 2

(* What an account asks for about its own federation. *)
Changes == {"view", "set_primary", "remove", "delete"}

KindsAt(o) ==
  /\ calls[o].at \in {"take", "users", "finish", "abort"} => calls[o].kind = "join"
  /\ calls[o].at = "save" => calls[o].kind = "approve"
  /\ calls[o].at = "actor" => calls[o].kind \in Changes /\ calls[o].federation = NoFederation
  /\ calls[o].at = "erase" => calls[o].kind = "delete"
  /\ calls[o].at \in {"revision", "members"} =>
       /\ calls[o].kind = "view" /\ calls[o].federation = NoFederation
       /\ calls[o].page.federation # NoFederation
  /\ calls[o].kind \in Changes =>
       /\ calls[o].actor \in Accounts
       /\ calls[o].at \in {"federation", "write"} => calls[o].federation # NoFederation
  /\ calls[o].kind \in {"approve", "join"} => calls[o].record.approver \in Accounts
  /\ calls[o].kind = "join" /\ calls[o].at \in {"federation", "write"} =>
       calls[o].actor \in Accounts

RequestsAreNamed ==
  \A r \in Requests :
    requests[r].state \notin {"none", "open", "expired"} => requests[r].approver \in Accounts

Joining(o) == calls[o].kind = "join" /\ calls[o].at \in {"federation", "write"}

FoundersAreFree ==
  \A o \in Calls : Joining(o) /\ calls[o].federation = NoFederation =>
    \A f \in Federations : IsOpen(f) => calls[o].record.approver \notin Members(f)
UsersHeldOnce == \A o, p \in Calls : o # p => HeldUsers(o) \cap HeldUsers(p) = {}

HeldOnce == \A o, p \in Calls, f \in Federations : Holds(o, f) /\ Holds(p, f) => o = p
HeldIsOpen ==
  \A o \in Calls : calls[o].at = "write" /\ calls[o].federation # NoFederation =>
    IsOpen(calls[o].federation)

(* The calls that have taken the right to complete a request, and those of  *)
(* them that may still admit an account.                                    *)
Rights(r) ==
  {o \in Calls : /\ calls[o].kind = "join" /\ calls[o].request = r
                 /\ calls[o].at \in {"users", "federation", "write", "finish", "abort"}}
Admitting(r) == {o \in Rights(r) : calls[o].at \in {"users", "federation", "write"}}

CountedRights(r) ==
  /\ IsFiniteSet(Admitting(r))
  /\ admitted[r] + Cardinality(Admitting(r)) <= 1 + lost[r] + late[r]
  /\ requests[r].state # "expired" =>
       /\ \A o, p \in Rights(r) : o = p
       /\ Rights(r) # {} => r \in taken
       /\ r \notin taken \/ (\E o \in Rights(r) : calls[o].at # "finish") =>
            admitted[r] <= lost[r] + late[r]

(* What is known of a page.federation in the state `now` once the page has  *)
(* come to `at`: nothing has changed it that left the revision as it was.   *)
Known(page, at, now, small) ==
  \/ now.state = "closed"
  \/ /\ now.state = "open"
     /\ page.began >= 1 /\ page.began <= now.revision
     /\ page.began = now.revision => now.primary = page.primary
     /\ at # "revision" =>
          /\ page.revision <= now.revision
          /\ at # "members" /\ page.revision = now.revision =>
               small \/ now.members = page.members

SeenPage(o) ==
  LET g == calls[o].page.federation IN
  g # NoFederation => Known(calls[o].page, calls[o].at, federations[g], g \in shrunk)

Inductive ==
  /\ TypeOK
  /\ MembersAreApart /\ SubjectsAreApart /\ \A f \in Federations : WholeRow(f)
  /\ RequestsAreNamed
  /\ \A o \in Calls : KindsAt(o) /\ SeenPage(o)
  /\ FoundersAreFree /\ UsersHeldOnce /\ HeldOnce /\ HeldIsOpen
  /\ \A r \in Requests : CountedRights(r)

-----------------------------------------------------------------------------
(* Types.                                                                  *)
LEMMA Blank ==
  /\ NoCall \in Call /\ NoRequest \in Request /\ Unused \in Federation
  /\ NoCall.kind = "none" /\ NoCall.at = "idle" /\ NoCall.federation = NoFederation
  /\ NoCall.page.federation = NoFederation
  /\ NoRequest.state = "none"
  /\ Unused.members = {} /\ Unused.revision = 0 /\ Unused.state = "unused"
  <1>1. \E r \in Requests : TRUE
    BY FederationAssumption
  <1>2. (CHOOSE r \in Requests : TRUE) \in Requests
    BY <1>1
  <1>3. Unused \in Federation /\ NoRequest \in Request
    BY DEF Unused, Federation, NoRequest, Request
  <1>4. NoCall \in Call
    BY <1>2, <1>3 DEF NoCall, Call, Kinds, Places, Page
  <1> QED
    BY <1>3, <1>4 DEF NoCall, NoRequest, Unused

LEMMA CallTypes ==
    ASSUME TypeOK, NEW o \in Calls
    PROVE  /\ calls[o] \in Call
           /\ calls[o].kind \in Kinds /\ calls[o].at \in Places /\ calls[o].request \in Requests
           /\ calls[o].record \in Request
           /\ calls[o].actor \in Accounts \cup {NoOne} /\ calls[o].target \in Accounts \cup {NoOne}
           /\ calls[o].federation \in Federations \cup {NoFederation}
           /\ calls[o].page.federation \in Federations \cup {NoFederation}
           /\ calls[o].page \in Page
           /\ calls[o].page.primary \in Accounts \cup {NoOne}
           /\ calls[o].page.began \in Nat /\ calls[o].page.revision \in Nat
           /\ calls[o].page.members \in SUBSET Accounts
  BY DEF TypeOK, Call, Page

(* A page that is being loaded, by one statement more. *)
LEMMA ShownPage ==
    ASSUME NEW page \in Page, NEW n \in Nat, NEW m \in SUBSET Accounts
    PROVE  /\ [page EXCEPT !.revision = n] \in Page /\ [page EXCEPT !.members = m] \in Page
           /\ [page EXCEPT !.revision = n].federation = page.federation
           /\ [page EXCEPT !.revision = n].primary = page.primary
           /\ [page EXCEPT !.revision = n].began = page.began
           /\ [page EXCEPT !.revision = n].revision = n
           /\ [page EXCEPT !.members = m].federation = page.federation
           /\ [page EXCEPT !.members = m].primary = page.primary
           /\ [page EXCEPT !.members = m].began = page.began
           /\ [page EXCEPT !.members = m].revision = page.revision
           /\ [page EXCEPT !.members = m].members = m
  BY DEF Page

LEMMA FederationTypes ==
    ASSUME TypeOK, NEW f \in Federations
    PROVE  /\ federations[f] \in Federation
           /\ federations[f].state \in {"unused", "open", "closed"}
           /\ federations[f].subject \in Accounts \cup {NoOne}
           /\ federations[f].primary \in Accounts \cup {NoOne}
           /\ federations[f].members \in SUBSET Accounts
           /\ federations[f].revision \in Nat
  BY DEF TypeOK, Federation

LEMMA RequestTypes ==
    ASSUME TypeOK, NEW r \in Requests
    PROVE  /\ requests[r] \in Request
           /\ requests[r].approver \in Accounts \cup {NoOne}
           /\ requests[r].joiner \in Accounts \cup {NoOne}
  BY DEF TypeOK, Request

LEMMA Membership ==
    ASSUME NEW a
    PROVE  /\ MembershipOf(a) \in Federations \cup {NoFederation}
           /\ MembershipOf(a) # NoFederation =>
                IsOpen(MembershipOf(a)) /\ a \in Members(MembershipOf(a))
           /\ MembershipOf(a) = NoFederation =>
                \A f \in Federations : IsOpen(f) => a \notin Members(f)
  <1>1. CASE \E f \in Federations : IsOpen(f) /\ a \in federations[f].members
    <2>1. MembershipOf(a) = CHOOSE f \in Federations : IsOpen(f) /\ a \in federations[f].members
      BY <1>1 DEF MembershipOf
    <2>2. /\ MembershipOf(a) \in Federations
          /\ IsOpen(MembershipOf(a)) /\ a \in federations[MembershipOf(a)].members
      BY <1>1, <2>1
    <2> QED
      BY <2>2, FederationAssumption DEF Members
  <1>2. CASE ~\E f \in Federations : IsOpen(f) /\ a \in federations[f].members
    BY <1>2 DEF MembershipOf, Members
  <1> QED
    BY <1>1, <1>2

LEMMA PutCall ==
    ASSUME TypeOK, NEW o \in Calls, NEW c \in Call, calls' = [calls EXCEPT ![o] = c]
    PROVE  /\ calls' \in [Calls -> Call] /\ calls'[o] = c
           /\ \A p \in Calls : p # o => calls'[p] = calls[p]
  BY DEF TypeOK

-----------------------------------------------------------------------------
(* How the call of a step moves; the others stay.                          *)
Same(o) ==
  /\ calls'[o].kind = calls[o].kind /\ calls'[o].request = calls[o].request
  /\ calls'[o].record = calls[o].record /\ calls'[o].page = calls[o].page

Began(o) ==
  /\ calls'[o].federation = NoFederation /\ federations' = federations
  /\ \/ /\ calls'[o].kind = "approve" /\ calls'[o].at = "save"
        /\ calls'[o].record.approver \in Accounts /\ calls'[o].page.federation = NoFederation
     \/ /\ calls'[o].kind = "join" /\ calls'[o].at = "take"
        /\ calls'[o].record.approver \in Accounts /\ calls'[o].page.federation = NoFederation
     \/ /\ calls'[o].kind = "delete" /\ calls'[o].at = "actor" /\ calls'[o].actor \in Accounts
        /\ calls'[o].page.federation = NoFederation
     \/ /\ calls'[o].kind = "view" /\ calls'[o].at = "revision" /\ calls'[o].actor \in Accounts
        /\ calls'[o].page.federation \in Federations /\ IsOpen(calls'[o].page.federation)
        /\ calls'[o].page.primary = federations[calls'[o].page.federation].primary
        /\ calls'[o].page.began = federations[calls'[o].page.federation].revision

(* A page that is being loaded. *)
Loaded(o) ==
  LET page == calls[o].page
      now == federations[page.federation] IN
  /\ federations' = federations /\ shrunk' = shrunk
  /\ calls'[o].actor = calls[o].actor /\ calls'[o].federation = calls[o].federation
  /\ calls'[o].page.federation = page.federation
  /\ calls'[o].page.primary = page.primary /\ calls'[o].page.began = page.began
  /\ \/ /\ calls[o].at = "revision" /\ calls'[o].at = "members"
        /\ calls'[o].kind = calls[o].kind /\ calls'[o].page.revision = now.revision
     \/ /\ calls[o].at = "members" /\ calls'[o].at = "actor"
        /\ calls'[o].kind \in {"set_primary", "remove"}
        /\ calls'[o].page.revision = page.revision /\ calls'[o].page.members = now.members

Went(o, from, to) ==
  /\ Same(o) /\ calls'[o].actor = calls[o].actor /\ calls'[o].federation = calls[o].federation
  /\ calls[o].at \in from /\ calls'[o].at = to

LockedUsers(o) ==
  /\ federations' = federations
  /\ Same(o) /\ calls[o].kind = "join" /\ calls[o].at = "users"
  /\ calls'[o].at = "federation" /\ calls'[o].actor \in Accounts
  /\ UsersAreFree(o, {calls[o].record.approver, calls'[o].actor})
  /\ calls'[o].federation = MembershipOf(calls[o].record.approver)

FoundActor(o) ==
  /\ Same(o) /\ calls[o].at = "actor" /\ calls'[o].at = "federation"
  /\ calls'[o].actor = calls[o].actor /\ calls'[o].federation # NoFederation

LockedFederation(o) ==
  /\ federations' = federations
  /\ Went(o, {"federation"}, "write")
  /\ calls[o].federation # NoFederation =>
       IsOpen(calls[o].federation) /\ \A p \in Calls : ~Holds(p, calls[o].federation)

CallMoves(o) ==
  \/ calls'[o] = calls[o] \/ calls'[o] = NoCall \/ Began(o)
  \/ Went(o, {"take"}, "users") /\ TakeCompletion(o)
  \/ Loaded(o) \/ LockedUsers(o) \/ FoundActor(o) \/ LockedFederation(o)
  \/ Went(o, {"users", "federation", "write"}, "abort") /\ calls[o].kind = "join"
  \/ Went(o, {"write"}, "finish") /\ calls[o].kind = "join"
  \/ Went(o, {"actor", "write"}, "erase") /\ calls[o].kind = "delete"

OneCallMoves(o) ==
  /\ calls' \in [Calls -> Call] /\ CallMoves(o)
  /\ \A p \in Calls : p # o => calls'[p] = calls[p]

LEMMA EndMoves ==
    ASSUME TypeOK, NEW o \in Calls, End(o)
    PROVE  OneCallMoves(o) /\ calls'[o] = NoCall
  BY Blank, PutCall DEF End, Update, OneCallMoves, CallMoves

LEMMA GoMoves ==
    ASSUME TypeOK, NEW o \in Calls, NEW to \in Places, NEW from, calls[o].at \in from, Go(o, to)
    PROVE  /\ calls' \in [Calls -> Call] /\ Went(o, from, to)
           /\ \A p \in Calls : p # o => calls'[p] = calls[p]
  <1> DEFINE c == [calls[o] EXCEPT !.at = to]
  <1>1. /\ c \in Call /\ c.at = to /\ c.kind = calls[o].kind /\ c.request = calls[o].request
        /\ c.record = calls[o].record /\ c.page = calls[o].page /\ c.actor = calls[o].actor
        /\ c.federation = calls[o].federation
    BY CallTypes DEF Call
  <1>2. calls' = [calls EXCEPT ![o] = c]
    BY DEF Go, Update
  <1> HIDE DEF c
  <1> QED
    BY <1>1, <1>2, PutCall DEF Went, Same

LEMMA LoadMoves ==
    ASSUME Inductive, NEW o \in Calls, LoadApproval(o) \/ LoadCompletion(o)
    PROVE  OneCallMoves(o)
  <1>1. ASSUME NEW r \in Requests, requests[r].state \in {"claimed", "approved"},
               NEW c \in Call, calls' = [calls EXCEPT ![o] = c], c.record = requests[r],
               \/ c.kind = "approve" /\ c.at = "save"
               \/ c.kind = "join" /\ c.at = "take",
               c.federation = NoFederation, c.page.federation = NoFederation
        PROVE  OneCallMoves(o)
    <2>1. requests[r].approver \in Accounts
      BY <1>1 DEF Inductive, RequestsAreNamed
    <2>2. calls' \in [Calls -> Call] /\ calls'[o] = c
          /\ \A p \in Calls : p # o => calls'[p] = calls[p]
      BY <1>1, PutCall DEF Inductive
    <2>3. Began(o)
      BY <1>1, <2>1, <2>2 DEF Began, LoadApproval, LoadCompletion
    <2> QED
      BY <2>2, <2>3 DEF OneCallMoves, CallMoves
  <1>2. CASE LoadApproval(o)
    <2>1. PICK r \in Requests :
            /\ requests[r].state = "claimed"
            /\ calls' = [calls EXCEPT ![o] = [NoCall EXCEPT !.kind = "approve", !.at = "save",
                                                !.request = r, !.record = requests[r]]]
      BY <1>2 DEF LoadApproval, Update
    <2> DEFINE c == [NoCall EXCEPT !.kind = "approve", !.at = "save", !.request = r,
                                   !.record = requests[r]]
    <2>2. /\ c \in Call /\ c.kind = "approve" /\ c.at = "save" /\ c.record = requests[r]
          /\ c.federation = NoFederation /\ c.page.federation = NoFederation
      BY Blank, RequestTypes DEF Call, Kinds, Places, Inductive
    <2>3. calls' = [calls EXCEPT ![o] = c]
      BY <2>1
    <2>4. requests[r].state \in {"claimed", "approved"}
      BY <2>1
    <2> HIDE DEF c
    <2> QED
      BY <1>1, <2>2, <2>3, <2>4
  <1>3. CASE LoadCompletion(o)
    <2>1. PICK r \in Requests :
            /\ requests[r].state = "approved"
            /\ calls' = [calls EXCEPT ![o] = [NoCall EXCEPT !.kind = "join", !.at = "take",
                                                !.request = r, !.record = requests[r],
                                                !.actor = requests[r].joiner]]
      BY <1>3 DEF LoadCompletion, Start
    <2> DEFINE c == [NoCall EXCEPT !.kind = "join", !.at = "take", !.request = r,
                                   !.record = requests[r], !.actor = requests[r].joiner]
    <2>2. /\ c \in Call /\ c.kind = "join" /\ c.at = "take" /\ c.record = requests[r]
          /\ c.federation = NoFederation /\ c.page.federation = NoFederation
      BY Blank, RequestTypes DEF Call, Kinds, Places, Inductive
    <2>3. calls' = [calls EXCEPT ![o] = c]
      BY <2>1
    <2> HIDE DEF c
    <2> QED
      BY <1>1, <2>1, <2>2, <2>3
  <1> QED
    BY <1>2, <1>3

LEMMA OpenMoves ==
    ASSUME Inductive, NEW o \in Calls, OpenPage(o) \/ StartDeletion(o)
    PROVE  OneCallMoves(o)
  <1>0. TypeOK
    BY DEF Inductive
  <1>1. CASE OpenPage(o)
    <2>1. PICK a \in accounts, f \in Federations \cup {NoFederation} :
            /\ f = MembershipOf(a) /\ f # NoFederation
            /\ calls' = [calls EXCEPT ![o] =
                 [NoCall EXCEPT !.kind = "view", !.at = "revision", !.actor = a,
                                !.page.federation = f, !.page.primary = federations[f].primary,
                                !.page.began = federations[f].revision]]
      BY <1>1, Membership DEF OpenPage, Start
    <2>2. /\ a \in Accounts /\ f \in Federations /\ IsOpen(f)
          /\ federations[f].primary \in Accounts \cup {NoOne} /\ federations[f].revision \in Nat
      BY <1>0, <2>1, Membership, FederationTypes DEF TypeOK
    <2>3. PICK primary \in Accounts \cup {NoOne}, n \in Nat :
            primary = federations[f].primary /\ n = federations[f].revision
      BY <2>2
    <2> DEFINE c == [NoCall EXCEPT !.kind = "view", !.at = "revision", !.actor = a,
                                   !.page.federation = f, !.page.primary = primary,
                                   !.page.began = n]
    <2>4. /\ c \in Call /\ c.kind = "view" /\ c.at = "revision" /\ c.actor = a
          /\ c.federation = NoFederation
          /\ c.page.federation = f /\ c.page.primary = primary /\ c.page.began = n
      BY <2>2, Blank DEF Call, Kinds, Places, Page
    <2>5. calls' = [calls EXCEPT ![o] = c]
      BY <2>1, <2>3
    <2> HIDE DEF c
    <2>6. calls' \in [Calls -> Call] /\ calls'[o] = c
          /\ \A p \in Calls : p # o => calls'[p] = calls[p]
      BY <1>0, <2>4, <2>5, PutCall
    <2>7. Began(o)
      BY <1>1, <2>2, <2>3, <2>4, <2>6 DEF Began, OpenPage
    <2> QED
      BY <2>6, <2>7 DEF OneCallMoves, CallMoves
  <1>2. CASE StartDeletion(o)
    <2>1. PICK a \in accounts :
            calls' = [calls EXCEPT ![o] =
                 [NoCall EXCEPT !.kind = "delete", !.at = "actor", !.actor = a, !.target = a]]
      BY <1>2 DEF StartDeletion, Start
    <2> DEFINE c == [NoCall EXCEPT !.kind = "delete", !.at = "actor", !.actor = a, !.target = a]
    <2>2. a \in Accounts
      BY <1>0 DEF TypeOK
    <2>3. /\ c \in Call /\ c.kind = "delete" /\ c.at = "actor" /\ c.actor = a
          /\ c.federation = NoFederation /\ c.page.federation = NoFederation
      BY <2>2, Blank DEF Call, Kinds, Places
    <2> HIDE DEF c
    <2>4. calls' = [calls EXCEPT ![o] = c]
      BY <2>1 DEF c
    <2>5. calls' \in [Calls -> Call] /\ calls'[o] = c
          /\ \A p \in Calls : p # o => calls'[p] = calls[p]
      BY <1>0, <2>3, <2>4, PutCall
    <2>6. Began(o)
      BY <1>2, <2>2, <2>3, <2>5 DEF Began, Changes, StartDeletion
    <2> QED
      BY <2>5, <2>6 DEF OneCallMoves, CallMoves
  <1> QED
    BY <1>1, <1>2

LEMMA LoadedMoves ==
    ASSUME Inductive, NEW o \in Calls, ReadRevision(o) \/ ReadMembers(o)
    PROVE  OneCallMoves(o)
  <1>0. TypeOK /\ KindsAt(o)
    BY DEF Inductive
  <1>1. PICK f \in Federations : f = calls[o].page.federation
    BY <1>0, CallTypes DEF KindsAt, ReadRevision, ReadMembers
  <1>2. federations' = federations /\ shrunk' = shrunk
    BY DEF ReadRevision, ReadMembers, history
  <1>3. CASE ReadRevision(o)
    <2>1. PICK n \in Nat : n = federations[f].revision
      BY <1>0, FederationTypes
    <2>2. PICK page \in Page : page = calls[o].page
      BY <1>0, CallTypes
    <2>3. PICK shown \in Page : shown = [page EXCEPT !.revision = n]
      BY ShownPage
    <2>4. /\ shown.federation = f /\ shown.primary = calls[o].page.primary
          /\ shown.began = calls[o].page.began /\ shown.revision = n
      BY <1>1, <2>2, <2>3, ShownPage
    <2> DEFINE c == [calls[o] EXCEPT !.at = "members", !.page = shown]
    <2>5. c.page = shown /\ c \in Call
      BY <1>0, CallTypes DEF Call, Places
    <2>6. /\ c \in Call /\ c.kind = calls[o].kind /\ c.at = "members" /\ c.actor = calls[o].actor
          /\ c.federation = calls[o].federation /\ c.page.federation = f
          /\ c.page.primary = calls[o].page.primary /\ c.page.began = calls[o].page.began
          /\ c.page.revision = n
      BY <1>0, <2>4, <2>5, CallTypes DEF Call
    <2>7. calls[o].at = "revision" /\ calls' = [calls EXCEPT ![o] = c]
      BY <1>1, <1>3, <2>1, <2>2, <2>3 DEF ReadRevision, Update
    <2> HIDE DEF c
    <2>8. calls' \in [Calls -> Call] /\ calls'[o] = c
          /\ \A p \in Calls : p # o => calls'[p] = calls[p]
      BY <1>0, <2>6, <2>7, PutCall
    <2>9. Loaded(o)
      BY <1>1, <1>2, <2>1, <2>6, <2>7, <2>8 DEF Loaded
    <2> QED
      BY <2>8, <2>9 DEF OneCallMoves, CallMoves
  <1>4. CASE ReadMembers(o)
    <2>1. PICK m \in SUBSET Accounts : m = federations[f].members
      BY <1>0, FederationTypes
    <2>2. PICK page \in Page : page = calls[o].page
      BY <1>0, CallTypes
    <2>3. PICK shown \in Page : shown = [page EXCEPT !.members = m]
      BY ShownPage
    <2>4. /\ shown.federation = f /\ shown.primary = calls[o].page.primary
          /\ shown.began = calls[o].page.began /\ shown.revision = calls[o].page.revision
          /\ shown.members = m
      BY <1>1, <2>2, <2>3, ShownPage
    <2>5. PICK target \in m, kind \in {"set_primary", "remove"} :
            calls' = [calls EXCEPT ![o] =
              [calls[o] EXCEPT !.kind = kind, !.at = "actor", !.target = target,
                               !.page = shown]]
      BY <1>1, <1>4, <2>1, <2>2, <2>3 DEF ReadMembers, Update
    <2> DEFINE c == [calls[o] EXCEPT !.kind = kind, !.at = "actor", !.target = target,
                                     !.page = shown]
    <2>6. c.page = shown /\ c \in Call
      BY <1>0, CallTypes DEF Call, Kinds, Places
    <2>7. /\ c \in Call /\ c.kind = kind /\ c.at = "actor" /\ c.actor = calls[o].actor
          /\ c.federation = calls[o].federation /\ c.page.federation = f
          /\ c.page.primary = calls[o].page.primary /\ c.page.began = calls[o].page.began
          /\ c.page.revision = calls[o].page.revision /\ c.page.members = m
      BY <1>0, <2>4, <2>6, CallTypes DEF Call
    <2>8. calls[o].at = "members" /\ calls' = [calls EXCEPT ![o] = c]
      BY <1>4, <2>5 DEF ReadMembers
    <2> HIDE DEF c
    <2>9. calls' \in [Calls -> Call] /\ calls'[o] = c
          /\ \A p \in Calls : p # o => calls'[p] = calls[p]
      BY <1>0, <2>7, <2>8, PutCall
    <2>10. Loaded(o)
      BY <1>1, <1>2, <2>1, <2>7, <2>8, <2>9 DEF Loaded
    <2> QED
      BY <2>9, <2>10 DEF OneCallMoves, CallMoves
  <1> QED
    BY <1>3, <1>4

LEMMA LockUsersMoves ==
    ASSUME Inductive, NEW o \in Calls, LockUsers(o)
    PROVE  OneCallMoves(o) /\ LockedUsers(o)
  <1>0. TypeOK
    BY DEF Inductive
  <1>1. PICK joiner \in Accounts, f \in Federations \cup {NoFederation} :
          /\ f = MembershipOf(calls[o].record.approver)
          /\ calls[o].kind = "join" /\ calls[o].at = "users"
          /\ UsersAreFree(o, {calls[o].record.approver, joiner})
          /\ calls' = [calls EXCEPT ![o] = [calls[o] EXCEPT !.at = "federation", !.actor = joiner,
                                              !.federation = f]]
    BY Membership DEF LockUsers, Update
  <1> DEFINE c == [calls[o] EXCEPT !.at = "federation", !.actor = joiner, !.federation = f]
  <1>2. /\ c \in Call /\ c.at = "federation" /\ c.actor = joiner /\ c.federation = f
        /\ c.kind = calls[o].kind /\ c.request = calls[o].request
        /\ c.record = calls[o].record /\ c.page = calls[o].page
    BY <1>0, CallTypes DEF Call, Places
  <1> HIDE DEF c
  <1>3. calls' = [calls EXCEPT ![o] = c]
    BY <1>1 DEF c
  <1>4. calls' \in [Calls -> Call] /\ calls'[o] = c /\ \A p \in Calls : p # o => calls'[p] = calls[p]
    BY <1>0, <1>2, <1>3, PutCall
  <1>5. LockedUsers(o)
    BY <1>1, <1>2, <1>4 DEF LockedUsers, Same, LockUsers
  <1> QED
    BY <1>4, <1>5 DEF OneCallMoves, CallMoves

LEMMA ReadActorMoves ==
    ASSUME Inductive, NEW o \in Calls, ReadActor(o)
    PROVE  OneCallMoves(o)
  <1>0. TypeOK
    BY DEF Inductive
  <1>1. PICK f \in Federations \cup {NoFederation} : f = MembershipOf(calls[o].actor)
    BY Membership
  <1>2. CASE f # NoFederation
    <2> DEFINE c == [calls[o] EXCEPT !.at = "federation", !.federation = f]
    <2>1. calls[o].at = "actor" /\ calls' = [calls EXCEPT ![o] = c]
      BY <1>1, <1>2 DEF ReadActor, Update
    <2>2. /\ c \in Call /\ c.at = "federation" /\ c.actor = calls[o].actor /\ c.federation = f
          /\ c.kind = calls[o].kind /\ c.request = calls[o].request
          /\ c.record = calls[o].record /\ c.page = calls[o].page
      BY <1>0, CallTypes DEF Call, Places
    <2> HIDE DEF c
    <2>3. /\ calls' \in [Calls -> Call] /\ calls'[o] = c
          /\ \A p \in Calls : p # o => calls'[p] = calls[p]
      BY <1>0, <2>1, <2>2, PutCall
    <2>4. FoundActor(o)
      BY <1>2, <2>1, <2>2, <2>3 DEF FoundActor, Same
    <2> QED
      BY <2>3, <2>4 DEF OneCallMoves, CallMoves
  <1>3. CASE f = NoFederation /\ calls[o].kind = "delete"
    <2>1. calls[o].at \in {"actor", "write"} /\ Go(o, "erase")
      BY <1>1, <1>3 DEF ReadActor
    <2> QED
      BY <1>0, <1>3, <2>1, GoMoves DEF OneCallMoves, CallMoves, Places
  <1>4. CASE f = NoFederation /\ calls[o].kind # "delete"
    BY <1>0, <1>1, <1>4, EndMoves DEF ReadActor
  <1> QED
    BY <1>2, <1>3, <1>4

LEMMA LockFederationMoves ==
    ASSUME Inductive, NEW o \in Calls, LockFederation(o)
    PROVE  OneCallMoves(o)
  <1>0. TypeOK /\ calls[o].at = "federation"
    BY DEF Inductive, LockFederation
  <1>1. CASE calls[o].federation # NoFederation /\ ~IsOpen(calls[o].federation)
    <2>1. CASE calls[o].kind = "join"
      <3>1. Go(o, "abort") /\ calls[o].at \in {"users", "federation", "write"}
        BY <1>0, <1>1, <2>1 DEF LockFederation
      <3> QED
        BY <1>0, <2>1, <3>1, GoMoves DEF OneCallMoves, CallMoves, Places
    <2>2. CASE calls[o].kind # "join"
      BY <1>0, <1>1, <2>2, EndMoves DEF LockFederation
    <2> QED
      BY <2>1, <2>2
  <1>2. CASE ~(calls[o].federation # NoFederation /\ ~IsOpen(calls[o].federation))
    <2>1. /\ calls[o].federation # NoFederation =>
               \A p \in Calls : ~Holds(p, calls[o].federation)
          /\ Go(o, "write") /\ calls[o].at \in {"federation"}
      BY <1>0, <1>2 DEF LockFederation
    <2>2. LockedFederation(o)
      BY <1>0, <1>2, <2>1, GoMoves DEF LockedFederation, Places, LockFederation
    <2> QED
      BY <1>0, <2>1, <2>2, GoMoves DEF OneCallMoves, CallMoves, Places
  <1> QED
    BY <1>1, <1>2

LEMMA StepMoves ==
    ASSUME Inductive, NEW o \in Calls, Step(o)
    PROVE  OneCallMoves(o)
  <1>0. TypeOK
    BY DEF Inductive
  <1>1. CASE TakeCompletion(o)
    <2>1. calls[o].at \in {"take"} /\ (End(o) \/ Go(o, "users"))
      BY <1>1 DEF TakeCompletion
    <2> QED
      BY <1>0, <1>1, <2>1, EndMoves, GoMoves DEF OneCallMoves, CallMoves, Places
  <1>2. CASE Join(o)
    <2>1. /\ calls[o].kind = "join" /\ calls[o].at = "write"
          /\ Go(o, "finish") \/ Go(o, "abort")
      BY <1>2 DEF Join
    <2>2. calls[o].at \in {"write"} /\ calls[o].at \in {"users", "federation", "write"}
      BY <2>1
    <2> QED
      BY <1>0, <2>1, <2>2, GoMoves DEF OneCallMoves, CallMoves, Places
  <1>3. CASE FailJoin(o)
    <2>1. /\ calls[o].kind = "join" /\ calls[o].at \in {"users", "federation", "write"}
          /\ Go(o, "abort")
      BY <1>3 DEF FailJoin
    <2> QED
      BY <1>0, <2>1, GoMoves DEF OneCallMoves, CallMoves, Places
  <1>4. CASE DetachAndErase(o)
    <2>1. /\ calls[o].kind = "delete" /\ calls[o].at \in {"actor", "write"}
          /\ End(o) \/ Go(o, "erase")
      BY <1>4 DEF DetachAndErase
    <2> QED
      BY <1>0, <2>1, EndMoves, GoMoves DEF OneCallMoves, CallMoves, Places
  <1>5. CASE End(o)
    BY <1>0, <1>5, EndMoves
  <1>6. CASE Cut(o) \/ SaveApproval(o) \/ AbortCompletion(o) \/ FinishCompletion(o)
             \/ SetPrimary(o) \/ Remove(o) \/ RefuseChange(o) \/ EraseAccount(o)
    BY <1>5, <1>6 DEF Cut, SaveApproval, AbortCompletion, FinishCompletion, SetPrimary, Remove,
       RefuseChange, EraseAccount
  <1> QED
    BY <1>1, <1>2, <1>3, <1>4, <1>6, LoadMoves, OpenMoves, LoadedMoves, LockUsersMoves,
       ReadActorMoves,
       LockFederationMoves DEF Step

LEMMA NextMoves ==
    ASSUME Inductive, [Next]_vars
    PROVE  UNCHANGED calls \/ \E o \in Calls : Step(o) /\ OneCallMoves(o)
  BY StepMoves
     DEF Next, vars, CreateDeviceRequest, CreateInvite, Claim, Expire

-----------------------------------------------------------------------------
(* What calls hold.                                                        *)

(* The parts of the invariant that only calls disturb. *)
LEMMA NextKinds ==
    ASSUME Inductive, [Next]_vars, NEW p \in Calls
    PROVE  KindsAt(p)'
  <1>0. TypeOK /\ KindsAt(p)
    BY DEF Inductive
  <1>1. CASE calls'[p] = calls[p]
    BY <1>0, <1>1 DEF KindsAt
  <1>2. CASE CallMoves(p)
    <2>1. CASE calls'[p] = NoCall
      BY <2>1, Blank DEF KindsAt, Changes
    <2>2. CASE Began(p)
      BY <2>2, FederationAssumption DEF Began, KindsAt, Changes
    <2>8. CASE Loaded(p)
      BY <1>0, <2>8 DEF Loaded, KindsAt, Changes
    <2>3. CASE Went(p, {"take"}, "users")
      BY <1>0, <2>3 DEF Went, Same, KindsAt, Changes
    <2>4. CASE LockedUsers(p)
      BY <1>0, <2>4 DEF LockedUsers, Same, KindsAt, Changes
    <2>5. CASE FoundActor(p)
      BY <1>0, <2>5 DEF FoundActor, Same, KindsAt, Changes
    <2>6. CASE LockedFederation(p)
      BY <1>0, <2>6 DEF LockedFederation, Went, Same, KindsAt, Changes
    <2>7. CASE \/ Went(p, {"users", "federation", "write"}, "abort") /\ calls[p].kind = "join"
               \/ Went(p, {"write"}, "finish") /\ calls[p].kind = "join"
               \/ Went(p, {"actor", "write"}, "erase") /\ calls[p].kind = "delete"
      BY <1>0, <2>7 DEF Went, Same, KindsAt, Changes
    <2> QED
      BY <1>1, <1>2, <2>1, <2>2, <2>3, <2>4, <2>5, <2>6, <2>7, <2>8 DEF CallMoves
  <1> QED
    BY <1>1, <1>2, NextMoves DEF OneCallMoves

(* A call holds no more than before, or what it has just locked. *)
LEMMA CallHolds ==
    ASSUME Inductive, NEW o \in Calls, CallMoves(o)
    PROVE  /\ HeldUsers(o)' \subseteq HeldUsers(o) \/ LockedUsers(o)
           /\ LockedUsers(o) => HeldUsers(o)' = {calls[o].record.approver, calls'[o].actor}
           /\ \A f \in Federations : Holds(o, f)' => Holds(o, f) \/ LockedFederation(o)
  <1>0. KindsAt(o)
    BY DEF Inductive
  <1>1. HeldUsers(o)' = IF calls'[o].kind = "join" /\ calls'[o].at \in {"federation", "write"}
                        THEN {calls'[o].record.approver, calls'[o].actor} ELSE {}
    BY DEF HeldUsers
  <1>2. \A f : Holds(o, f)' <=> calls'[o].at \in {"write", "erase"} /\ calls'[o].federation = f
    BY DEF Holds
  <1>3. CASE calls'[o] = calls[o]
    BY <1>1, <1>2, <1>3 DEF HeldUsers, Holds, LockedUsers
  <1>4. CASE calls'[o] = NoCall
    BY <1>1, <1>2, <1>4, Blank DEF LockedUsers
  <1>5. CASE Began(o)
    BY <1>1, <1>2, <1>5 DEF Began, Changes, LockedUsers, Same
  <1>6. CASE LockedUsers(o)
    BY <1>1, <1>2, <1>6 DEF LockedUsers, Same
  <1>7. CASE FoundActor(o)
    <2>1. calls'[o].kind # "join" /\ calls'[o].at = "federation"
      BY <1>0, <1>7 DEF FoundActor, Same, KindsAt, Changes
    <2> QED
      BY <1>1, <1>2, <1>7, <2>1 DEF LockedUsers, FoundActor
  <1>8. CASE LockedFederation(o)
    BY <1>1, <1>2, <1>8 DEF LockedFederation, Went, Same, HeldUsers, LockedUsers
  <1>9. CASE \/ Went(o, {"take"}, "users")
             \/ Went(o, {"users", "federation", "write"}, "abort") /\ calls[o].kind = "join"
             \/ Went(o, {"write"}, "finish") /\ calls[o].kind = "join"
    BY <1>1, <1>2, <1>9 DEF Went, LockedUsers
  <1>10. CASE Went(o, {"actor", "write"}, "erase") /\ calls[o].kind = "delete"
    <2>1. calls[o].at = "actor" => calls[o].federation = NoFederation
      BY <1>0 DEF KindsAt
    <2>2. NoFederation \notin Federations
      BY FederationAssumption
    <2> QED
      BY <1>1, <1>2, <1>10, <2>1, <2>2 DEF Went, LockedUsers, Same, Holds
  <1>11. CASE Loaded(o)
    BY <1>0, <1>1, <1>2, <1>11 DEF Loaded, KindsAt, LockedUsers, Same
  <1> QED
    BY <1>3, <1>4, <1>5, <1>6, <1>7, <1>8, <1>9, <1>10, <1>11 DEF CallMoves

LEMMA NextHeldOnce ==
    ASSUME Inductive, [Next]_vars
    PROVE  UsersHeldOnce' /\ HeldOnce'
  <1>1. CASE UNCHANGED calls
    <2>1. \A p \in Calls : HeldUsers(p)' = HeldUsers(p)
      BY <1>1 DEF HeldUsers
    <2>2. \A p \in Calls, f \in Federations : Holds(p, f)' <=> Holds(p, f)
      BY <1>1 DEF Holds
    <2> QED
      BY <2>1, <2>2 DEF Inductive, UsersHeldOnce, HeldOnce
  <1>2. ASSUME NEW o \in Calls, OneCallMoves(o)
        PROVE  UsersHeldOnce' /\ HeldOnce'
    <2>0. CallMoves(o) /\ \A p \in Calls : p # o => calls'[p] = calls[p]
      BY <1>2 DEF OneCallMoves
    <2>1. \A p \in Calls : p # o => HeldUsers(p)' = HeldUsers(p)
      BY <2>0 DEF HeldUsers
    <2>2. \A p \in Calls, f \in Federations : p # o => (Holds(p, f)' <=> Holds(p, f))
      BY <2>0 DEF Holds
    <2>3. \A p \in Calls : p # o => HeldUsers(o)' \cap HeldUsers(p) = {}
      <3>1. CASE LockedUsers(o)
        <4>1. \A p \in Calls \ {o} :
                HeldUsers(p) \cap {calls[o].record.approver, calls'[o].actor} = {}
          BY <3>1 DEF LockedUsers, UsersAreFree
        <4>2. HeldUsers(o)' = {calls[o].record.approver, calls'[o].actor}
          BY <2>0, <3>1, CallHolds
        <4> QED
          BY <4>1, <4>2
      <3>2. CASE ~LockedUsers(o)
        BY <2>0, <3>2, CallHolds DEF Inductive, UsersHeldOnce
      <3> QED
        BY <3>1, <3>2
    <2>4. UsersHeldOnce'
      <3> SUFFICES ASSUME NEW p \in Calls, NEW q \in Calls, p # q
                   PROVE  HeldUsers(p)' \cap HeldUsers(q)' = {}
        BY DEF UsersHeldOnce
      <3>1. CASE p # o /\ q # o
        BY <2>1, <3>1 DEF Inductive, UsersHeldOnce
      <3>2. CASE p = o \/ q = o
        BY <2>1, <2>3, <3>2
      <3> QED
        BY <3>1, <3>2
    <2>5. ASSUME NEW f \in Federations, Holds(o, f)', NEW p \in Calls, Holds(p, f)
          PROVE  p = o
      <3>1. CASE LockedFederation(o)
        <4>1. f = calls[o].federation /\ f # NoFederation
          BY <2>5, <3>1, FederationAssumption DEF Holds, LockedFederation, Went
        <4> QED
          BY <2>5, <3>1, <4>1 DEF LockedFederation
      <3>2. CASE Holds(o, f)
        BY <2>5, <3>2 DEF Inductive, HeldOnce
      <3> QED
        BY <2>0, <2>5, <3>1, <3>2, CallHolds
    <2>6. HeldOnce'
      <3> SUFFICES ASSUME NEW p \in Calls, NEW q \in Calls, NEW f \in Federations,
                          Holds(p, f)', Holds(q, f)'
                   PROVE  p = q
        BY DEF HeldOnce
      <3>1. CASE p # o /\ q # o
        BY <2>2, <3>1 DEF Inductive, HeldOnce
      <3>2. CASE p = o \/ q = o
        BY <2>2, <2>5, <3>2
      <3> QED
        BY <3>1, <3>2
    <2> QED
      BY <2>4, <2>6
  <1> QED
    BY <1>1, <1>2, NextMoves

-----------------------------------------------------------------------------
(* What a step does to a federation.                                       *)
RowShrinks(f) ==
  /\ IsOpen(f) /\ federations'[f].state = "open"
  /\ federations'[f].subject = federations[f].subject
  /\ federations'[f].members \subseteq federations[f].members
  /\ federations'[f].primary \in federations'[f].members

RowMoves(f) ==
  \/ federations'[f] = federations[f]
  \/ federations'[f] = Closed /\ \E p \in Calls : Holds(p, f) /\ calls'[p] = NoCall
  \/ /\ RowShrinks(f) /\ federations'[f].revision = federations[f].revision + 1
     /\ \/ federations'[f].members = federations[f].members
        \/ Cardinality(federations'[f].members) >= 2
  \/ /\ RowShrinks(f) /\ federations'[f].revision = federations[f].revision
     /\ federations'[f].primary = federations[f].primary /\ f \in shrunk'

RowsMove ==
  /\ federations' \in [Federations -> Federation]
  /\ \A f \in Federations : RowMoves(f)
  /\ shrunk \subseteq shrunk'

LEMMA ClosedRow ==
  /\ Closed \in Federation /\ Closed.state = "closed" /\ Closed.members = {}
  /\ Closed.revision = 0
  BY DEF Closed, Unused, Federation

LEMMA PutRow ==
    ASSUME TypeOK, NEW f \in Federations, NEW j \in Federation,
           federations' = [federations EXCEPT ![f] = j]
    PROVE  /\ federations' \in [Federations -> Federation] /\ federations'[f] = j
           /\ \A g \in Federations : g # f => federations'[g] = federations[g]
  BY DEF TypeOK

LEMMA RemovalMoves ==
    ASSUME Inductive, NEW o \in Calls, NEW f \in Federations, NEW target, Removal(f, target),
           federations[f].members # {}, Holds(o, f), calls'[o] = NoCall,
           shrunk' = shrunk
    PROVE  RowsMove
  <1>0. TypeOK /\ WholeRow(f)
    BY DEF Inductive
  <1>1. IsOpen(f)
    BY <1>0, FederationTypes, ClosedRow, Blank DEF WholeRow, IsOpen
  <1>2. CASE Closes(f, target)
    <2>1. federations' = [federations EXCEPT ![f] = Closed]
      BY <1>2 DEF Removal, Closed
    <2>2. /\ federations' \in [Federations -> Federation] /\ federations'[f] = Closed
          /\ \A g \in Federations : g # f => federations'[g] = federations[g]
      BY <1>0, <2>1, ClosedRow, PutRow
    <2> QED
      BY <2>2 DEF RowsMove, RowMoves
  <1>3. CASE ~Closes(f, target)
    <2>1. PICK primary \in PrimariesAfter(f, target) :
            federations' = [federations EXCEPT ![f].members = @ \ {target},
                              ![f].primary = primary, ![f].revision = @ + 1]
      BY <1>3 DEF Removal
    <2> DEFINE members == federations[f].members \ {target}
               revision == federations[f].revision + 1
               j == [federations[f] EXCEPT !.members = members, !.primary = primary,
                                           !.revision = revision]
    <2>2. federations' = [federations EXCEPT ![f] = j]
      BY <2>1
    <2>3. /\ primary \in members /\ members \in SUBSET Accounts /\ revision \in Nat
          /\ primary \in Accounts
      BY <1>0, <1>1, FederationTypes DEF PrimariesAfter, WholeRow, Members
    <2>4. Cardinality(members) >= 2
      <3>1. IsFiniteSet(federations[f].members)
        BY <1>0, <1>1 DEF WholeRow, Members
      <3>2. IsFiniteSet(members) /\ ~(Cardinality(members) <= 1)
        BY <1>3, <3>1, FS_Subset DEF Closes
      <3> QED
        BY <3>2, FS_CardinalityType
    <2> HIDE DEF members, revision
    <2>5. /\ j \in Federation /\ j.members = members /\ j.primary = primary
          /\ j.revision = revision /\ j.state = federations[f].state
          /\ j.subject = federations[f].subject
      BY <1>0, <2>3, FederationTypes DEF Federation
    <2> HIDE DEF j
    <2>6. /\ federations' \in [Federations -> Federation] /\ federations'[f] = j
          /\ \A g \in Federations : g # f => federations'[g] = federations[g]
      BY <1>0, <2>2, <2>5, PutRow
    <2>7. RowShrinks(f)
      BY <1>1, <2>3, <2>5, <2>6 DEF RowShrinks, members, IsOpen
    <2>8. RowMoves(f)
      BY <2>4, <2>5, <2>6, <2>7 DEF RowMoves, revision
    <2> QED
      BY <2>6, <2>8 DEF RowsMove, RowMoves
  <1> QED
    BY <1>2, <1>3

LEMMA SetPrimaryMoves ==
    ASSUME Inductive, NEW o \in Calls, SetPrimary(o)
    PROVE  RowsMove
  <1>0. TypeOK /\ KindsAt(o)
    BY DEF Inductive
  <1>1. PICK f \in Federations : f = calls[o].federation
    BY <1>0, CallTypes DEF SetPrimary, KindsAt, Changes
  <1>2. /\ calls[o].target \in federations[f].members /\ shrunk' = shrunk
        /\ federations' = [federations EXCEPT ![f].primary = calls[o].target, ![f].revision = @ + 1]
    BY <1>1 DEF SetPrimary, history
  <1> DEFINE primary == calls[o].target
             revision == federations[f].revision + 1
             j == [federations[f] EXCEPT !.primary = primary, !.revision = revision]
  <1>3. federations' = [federations EXCEPT ![f] = j]
    BY <1>2
  <1>8. primary \in Accounts \cup {NoOne} /\ revision \in Nat
    BY <1>0, CallTypes, FederationTypes
  <1> HIDE DEF primary, revision
  <1>4. /\ j \in Federation /\ j.members = federations[f].members /\ j.primary = primary
        /\ j.revision = revision /\ j.state = federations[f].state
        /\ j.subject = federations[f].subject
    BY <1>0, <1>8, FederationTypes DEF Federation
  <1>5. IsOpen(f)
    BY <1>0, <1>2, FederationTypes, ClosedRow, Blank DEF Inductive, WholeRow, IsOpen
  <1> HIDE DEF j
  <1>6. /\ federations' \in [Federations -> Federation] /\ federations'[f] = j
        /\ \A g \in Federations : g # f => federations'[g] = federations[g]
    BY <1>0, <1>3, <1>4, PutRow
  <1>7. RowMoves(f)
    BY <1>2, <1>4, <1>5, <1>6 DEF RowMoves, RowShrinks, IsOpen, primary, revision
  <1> QED
    BY <1>2, <1>6, <1>7 DEF RowsMove, RowMoves

LEMMA EraseMoves ==
    ASSUME Inductive, NEW o \in Calls, EraseAccount(o)
    PROVE  RowsMove
  <1>0. TypeOK
    BY DEF Inductive
  <1> DEFINE a == calls[o].actor
  <1>1. PICK f \in Federations \cup {NoFederation} : f = MembershipOf(a)
    BY Membership
  <1>2. CASE f = NoFederation
    BY <1>0, <1>1, <1>2 DEF EraseAccount, RowsMove, RowMoves, TypeOK
  <1>3. CASE f # NoFederation
    <2>1. /\ federations[f].primary # a /\ f \in Federations /\ IsOpen(f)
          /\ federations' = [federations EXCEPT ![f].members = @ \ {a}]
          /\ shrunk' = shrunk \cup {f}
      BY <1>1, <1>3, Membership DEF EraseAccount
    <2> HIDE DEF a
    <2> DEFINE members == federations[f].members \ {a}
               j == [federations[f] EXCEPT !.members = members]
    <2>2. federations' = [federations EXCEPT ![f] = j]
      BY <2>1
    <2>3. /\ j \in Federation /\ j.members = members /\ j.primary = federations[f].primary
          /\ j.revision = federations[f].revision /\ j.state = federations[f].state
          /\ j.subject = federations[f].subject
      BY <1>0, <2>1, FederationTypes DEF Federation
    <2> HIDE DEF j
    <2>4. /\ federations' \in [Federations -> Federation] /\ federations'[f] = j
          /\ \A g \in Federations : g # f => federations'[g] = federations[g]
      BY <1>0, <2>1, <2>2, <2>3, PutRow
    <2>5. federations[f].primary \in federations[f].members
      BY <2>1 DEF Inductive, WholeRow, Members
    <2>6. RowMoves(f)
      BY <2>1, <2>3, <2>4, <2>5 DEF RowMoves, RowShrinks, IsOpen
    <2> QED
      BY <2>1, <2>4, <2>6 DEF RowsMove, RowMoves
  <1> QED
    BY <1>2, <1>3

LEMMA NextRowsMove ==
    ASSUME Inductive, [Next]_vars, ~\E o \in Calls : Join(o)
    PROVE  RowsMove
  <1>0. TypeOK
    BY DEF Inductive
  <1>1. CASE UNCHANGED <<federations, shrunk>>
    BY <1>0, <1>1 DEF RowsMove, RowMoves, TypeOK
  <1>2. ASSUME NEW o \in Calls, Remove(o) PROVE RowsMove
    <2>1. KindsAt(o) /\ calls[o].kind \in Changes /\ calls[o].at = "write"
      BY <1>2 DEF Inductive, Remove, Changes
    <2>2. PICK f \in Federations : f = calls[o].federation
      BY <1>0, <2>1, CallTypes DEF KindsAt
    <2>3. /\ Removal(f, calls[o].target) /\ federations[f].members # {} /\ shrunk' = shrunk
          /\ Holds(o, f)
      BY <1>2, <2>1, <2>2 DEF Remove, MayRemove, history, Holds
    <2>4. calls'[o] = NoCall
      BY <1>0, <1>2, EndMoves DEF Remove
    <2> QED
      BY <2>3, <2>4, RemovalMoves
  <1>3. ASSUME NEW o \in Calls, DetachAndErase(o), MayRemove(calls[o]) PROVE RowsMove
    <2>1. KindsAt(o) /\ calls[o].kind \in Changes /\ calls[o].at = "write"
      BY <1>3 DEF Inductive, DetachAndErase, Changes
    <2>2. PICK f \in Federations : f = calls[o].federation
      BY <1>0, <2>1, CallTypes DEF KindsAt
    <2>3. /\ Removal(f, calls[o].actor) /\ federations[f].members # {} /\ shrunk' = shrunk
          /\ Holds(o, f)
      BY <1>3, <2>1, <2>2 DEF DetachAndErase, MayRemove, history, Holds
    <2>4. calls'[o] = NoCall
      BY <1>0, <1>3, EndMoves DEF DetachAndErase
    <2> QED
      BY <2>3, <2>4, RemovalMoves
  <1>4. ASSUME NEW o \in Calls, DetachAndErase(o), ~MayRemove(calls[o]) PROVE RowsMove
    BY <1>1, <1>4 DEF DetachAndErase, history
  <1>5. ASSUME NEW o \in Calls,
               \/ Cut(o) \/ LoadApproval(o) \/ SaveApproval(o) \/ LoadCompletion(o)
               \/ LockFederation(o) \/ FailJoin(o) \/ AbortCompletion(o) \/ FinishCompletion(o)
               \/ OpenPage(o) \/ ReadRevision(o) \/ ReadMembers(o) \/ StartDeletion(o)
               \/ ReadActor(o) \/ RefuseChange(o)
        PROVE  RowsMove
    BY <1>1, <1>5
       DEF Cut, LoadApproval, SaveApproval, LoadCompletion, LockFederation,
           FailJoin, AbortCompletion, FinishCompletion, OpenPage, ReadRevision,
           ReadMembers, StartDeletion, ReadActor, RefuseChange, history
  <1>6. ASSUME NEW o \in Calls, TakeCompletion(o) \/ LockUsers(o) PROVE RowsMove
    BY <1>1, <1>6 DEF TakeCompletion, LockUsers
  <1>7. ASSUME NEW o \in Calls, Step(o) PROVE RowsMove
    BY <1>2, <1>3, <1>4, <1>5, <1>6, <1>7, SetPrimaryMoves, EraseMoves DEF Step
  <1>8. ASSUME NEW r \in Requests,
               CreateDeviceRequest(r) \/ CreateInvite(r) \/ Claim(r) \/ Expire(r)
        PROVE  RowsMove
    BY <1>1, <1>8 DEF CreateDeviceRequest, CreateInvite, Claim, Expire, history
  <1>9. CASE UNCHANGED vars
    BY <1>1, <1>9 DEF vars, history
  <1> QED
    BY <1>7, <1>8, <1>9 DEF Next

LEMMA JoinMoves ==
    ASSUME Inductive, NEW o \in Calls, Join(o)
    PROVE  /\ federations' \in [Federations -> Federation] /\ shrunk' = shrunk
           /\ calls[o].actor \in Accounts /\ calls[o].record.approver \in Accounts
           /\ calls[o].actor # calls[o].record.approver
           /\ \E f \in Federations :
                /\ \A g \in Federations : g # f => federations'[g] = federations[g]
                /\ federations'[f].state = "open"
                /\ \/ /\ calls[o].federation = NoFederation /\ federations[f] = Unused
                      /\ federations'[f].subject = calls[o].record.approver
                      /\ federations'[f].primary = calls[o].record.approver
                      /\ federations'[f].members = {calls[o].record.approver, calls[o].actor}
                      /\ federations'[f].revision = 1
                   \/ /\ calls[o].federation = f /\ IsOpen(f)
                      /\ federations'[f].subject = federations[f].subject
                      /\ federations'[f].primary = federations[f].primary
                      /\ federations'[f].members = federations[f].members \cup {calls[o].actor}
                      /\ federations'[f].revision = federations[f].revision + 1
  <1>0. TypeOK /\ KindsAt(o) /\ calls[o].kind = "join" /\ calls[o].at = "write" /\ HeldIsOpen
        /\ shrunk' = shrunk
    BY DEF Inductive, Join
  <1> DEFINE a == calls[o].actor
             b == calls[o].record.approver
  <1>1. a \in Accounts /\ b \in Accounts /\ a # b
    BY <1>0 DEF KindsAt, Join, MayJoin
  <1>2. CASE calls[o].federation = NoFederation
    <2>1. PICK f \in Federations : /\ federations[f] = Unused
                                   /\ federations' = [federations EXCEPT ![f] = Founded(calls[o])]
      BY <1>2 DEF Join
    <2> DEFINE j == Founded(calls[o])
    <2>2. /\ j \in Federation /\ j.state = "open" /\ j.subject = b /\ j.primary = b
          /\ j.members = {b, a} /\ j.revision = 1
      BY <1>1 DEF Founded, Federation
    <2> HIDE DEF j
    <2>3. federations' = [federations EXCEPT ![f] = j]
      BY <2>1 DEF j
    <2>4. /\ federations' \in [Federations -> Federation] /\ federations'[f] = j
          /\ \A g \in Federations : g # f => federations'[g] = federations[g]
      BY <1>0, <2>2, <2>3, PutRow
    <2> QED
      BY <1>0, <1>1, <1>2, <2>1, <2>2, <2>4
  <1>3. CASE calls[o].federation # NoFederation
    <2>1. PICK f \in Federations : f = calls[o].federation
      BY <1>0, <1>3, CallTypes
    <2>2. /\ IsOpen(f)
          /\ federations' = [federations EXCEPT ![f].members = @ \cup {a}, ![f].revision = @ + 1]
      BY <1>0, <1>3, <2>1 DEF Join, HeldIsOpen
    <2> HIDE DEF a, b
    <2> DEFINE members == federations[f].members \cup {a}
               revision == federations[f].revision + 1
               j == [federations[f] EXCEPT !.members = members, !.revision = revision]
    <2>4. federations' = [federations EXCEPT ![f] = j]
      BY <2>2
    <2>6. members \in SUBSET Accounts /\ revision \in Nat
      BY <1>0, <1>1, FederationTypes
    <2> HIDE DEF members, revision
    <2>3. /\ j \in Federation /\ j.state = "open" /\ j.subject = federations[f].subject
          /\ j.primary = federations[f].primary /\ j.members = members
          /\ j.revision = revision
      BY <1>0, <2>2, <2>6, FederationTypes DEF Federation, IsOpen
    <2> HIDE DEF j
    <2>5. /\ federations' \in [Federations -> Federation] /\ federations'[f] = j
          /\ \A g \in Federations : g # f => federations'[g] = federations[g]
      BY <1>0, <2>3, <2>4, PutRow
    <2> QED
      BY <1>0, <1>1, <2>1, <2>2, <2>3, <2>5 DEF a, b, members, revision
  <1> QED
    BY <1>2, <1>3

-----------------------------------------------------------------------------
(* Federations are whole and apart.                                        *)
LEMMA MemberBounds ==
    ASSUME MaxMembers \in Nat, NEW S, IsFiniteSet(S), Cardinality(S) <= MaxMembers
    PROVE  /\ \A T : T \subseteq S => IsFiniteSet(T) /\ Cardinality(T) <= MaxMembers
           /\ \A x : /\ IsFiniteSet(S \cup {x})
                     /\ Cardinality(S \cup {x}) <= Cardinality(S) + 1
                     /\ Cardinality(S \cup {x}) >= Cardinality(S)
  <1>1. Cardinality(S) \in Nat
    BY FS_CardinalityType
  <1>2. ASSUME NEW T, T \subseteq S PROVE IsFiniteSet(T) /\ Cardinality(T) <= MaxMembers
    <2>1. IsFiniteSet(T) /\ Cardinality(T) <= Cardinality(S)
      BY <1>2, FS_Subset
    <2> QED
      BY <1>1, <2>1, FS_CardinalityType
  <1>3. ASSUME NEW x
        PROVE  /\ IsFiniteSet(S \cup {x})
               /\ Cardinality(S \cup {x}) <= Cardinality(S) + 1
               /\ Cardinality(S \cup {x}) >= Cardinality(S)
    <2>1. IsFiniteSet(S \cup {x})
          /\ (Cardinality(S \cup {x}) = Cardinality(S) \/ Cardinality(S \cup {x}) = Cardinality(S) + 1)
      BY FS_AddElement
    <2> QED
      BY <1>1, <2>1
  <1> QED
    BY <1>2, <1>3

LEMMA PairOfTwo ==
    ASSUME NEW x, NEW y, x # y
    PROVE  IsFiniteSet({x, y}) /\ Cardinality({x, y}) = 2
  <1>1. IsFiniteSet({x}) /\ Cardinality({x}) = 1
    BY FS_Singleton
  <1>2. IsFiniteSet({x} \cup {y}) /\ Cardinality({x} \cup {y}) = Cardinality({x}) + 1
    BY <1>1, FS_AddElement
  <1>3. {x} \cup {y} = {x, y}
    OBVIOUS
  <1> QED
    BY <1>1, <1>2, <1>3

LEMMA NextWhole ==
    ASSUME Inductive, [Next]_vars, NEW f \in Federations
    PROVE  WholeRow(f)'
  <1>0. TypeOK /\ WholeRow(f) /\ MaxMembers \in Nat /\ MaxMembers >= 2
    BY FederationAssumption DEF Inductive
  <1>1. WholeRow(f)' <=>
          /\ federations'[f].state = "unused" => federations'[f] = Unused
          /\ federations'[f].state = "closed" => federations'[f] = Closed
          /\ federations'[f].state = "open" =>
               /\ federations'[f].revision >= 1
               /\ IsFiniteSet(federations'[f].members)
               /\ federations'[f].primary \in federations'[f].members
               /\ Cardinality(federations'[f].members) <= MaxMembers
               /\ f \notin shrunk' => Cardinality(federations'[f].members) >= 2
    BY DEF WholeRow, IsOpen, Members, Unused, Closed
  <1>2. CASE \E o \in Calls : Join(o)
    <2>1. PICK o \in Calls : Join(o)
      BY <1>2
    <2>2. PICK g \in Federations :
                /\ \A h \in Federations : h # g => federations'[h] = federations[h]
                /\ federations'[g].state = "open"
                /\ \/ /\ calls[o].federation = NoFederation /\ federations[g] = Unused
                      /\ federations'[g].subject = calls[o].record.approver
                      /\ federations'[g].primary = calls[o].record.approver
                      /\ federations'[g].members = {calls[o].record.approver, calls[o].actor}
                      /\ federations'[g].revision = 1
                   \/ /\ calls[o].federation = g /\ IsOpen(g)
                      /\ federations'[g].subject = federations[g].subject
                      /\ federations'[g].primary = federations[g].primary
                      /\ federations'[g].members = federations[g].members \cup {calls[o].actor}
                      /\ federations'[g].revision = federations[g].revision + 1
      BY <2>1, JoinMoves
    <2>3. shrunk' = shrunk /\ calls[o].actor # calls[o].record.approver /\ HasRoom(calls[o])
      BY <2>1, JoinMoves DEF Join, MayJoin
    <2>4. CASE f # g
      BY <1>0, <1>1, <2>2, <2>3, <2>4 DEF WholeRow, IsOpen, Members
    <2>5. CASE f = g /\ calls[o].federation = NoFederation
      <3>1. /\ federations'[f].members = {calls[o].record.approver, calls[o].actor}
            /\ federations'[f].primary = calls[o].record.approver /\ federations'[f].revision = 1
        BY <2>2, <2>5, FederationAssumption
      <3>5. IsFiniteSet(federations'[f].members) /\ Cardinality(federations'[f].members) = 2
        <4>1. PICK x, y : x = calls[o].record.approver /\ y = calls[o].actor
          OBVIOUS
        <4>2. IsFiniteSet({x, y}) /\ Cardinality({x, y}) = 2
          BY <2>3, <4>1, PairOfTwo
        <4> QED
          BY <3>1, <4>1, <4>2
      <3>6. federations'[f].primary \in federations'[f].members
        BY <3>1
      <3> QED
        BY <1>0, <1>1, <2>2, <2>5, <3>1, <3>5, <3>6
    <2>6. CASE f = g /\ calls[o].federation # NoFederation
      <3>1. /\ calls[o].federation = f /\ IsOpen(f)
            /\ federations'[f].primary = federations[f].primary
            /\ federations'[f].members = federations[f].members \cup {calls[o].actor}
            /\ federations'[f].revision = federations[f].revision + 1
        BY <1>0, <2>2, <2>6
      <3>2. Cardinality(federations[f].members) + 1 <= MaxMembers
        BY <2>3, <2>6, <3>1 DEF HasRoom, MembersNow
      <3>3. /\ IsFiniteSet(federations[f].members) /\ Cardinality(federations[f].members) \in Nat
            /\ Cardinality(federations[f].members) <= MaxMembers
            /\ federations[f].revision \in Nat /\ federations[f].revision >= 1
            /\ federations[f].primary \in federations[f].members
            /\ f \notin shrunk => Cardinality(federations[f].members) >= 2
        BY <1>0, <3>1, FederationTypes, FS_CardinalityType DEF WholeRow, Members
      <3>4. /\ IsFiniteSet(federations'[f].members)
            /\ Cardinality(federations'[f].members) <= Cardinality(federations[f].members) + 1
            /\ Cardinality(federations'[f].members) >= Cardinality(federations[f].members)
        <4>1. PICK S, x : S = federations[f].members /\ x = calls[o].actor
          OBVIOUS
        <4>2. IsFiniteSet(S) /\ Cardinality(S) <= MaxMembers /\ MaxMembers \in Nat
          BY <1>0, <3>3, <4>1
        <4>3. /\ IsFiniteSet(S \cup {x})
              /\ Cardinality(S \cup {x}) <= Cardinality(S) + 1
              /\ Cardinality(S \cup {x}) >= Cardinality(S)
          BY <4>2, MemberBounds
        <4> QED
          BY <3>1, <4>1, <4>3
      <3>5. Cardinality(federations'[f].members) \in Nat
        BY <3>4, FS_CardinalityType
      <3>6. federations'[f].primary \in federations'[f].members
        BY <3>1, <3>3
      <3> HIDE DEF Closed
      <3> QED
        BY <1>0, <1>1, <2>2, <2>3, <2>6, <3>1, <3>2, <3>3, <3>4, <3>5, <3>6
    <2> QED
      BY <2>4, <2>5, <2>6
  <1>3. CASE ~\E o \in Calls : Join(o)
    <2>1. RowMoves(f) /\ shrunk \subseteq shrunk'
      BY <1>3, NextRowsMove DEF RowsMove
    <2>2. CASE federations'[f] = federations[f]
      BY <1>0, <1>1, <2>1, <2>2 DEF WholeRow, IsOpen, Members
    <2>3. CASE federations'[f] = Closed
      BY <1>1, <2>3, ClosedRow
    <2>4. CASE /\ RowShrinks(f)
               /\ \/ /\ federations'[f].revision = federations[f].revision + 1
                     /\ \/ federations'[f].members = federations[f].members
                        \/ Cardinality(federations'[f].members) >= 2
                  \/ federations'[f].revision = federations[f].revision /\ f \in shrunk'
      <3>1. /\ IsFiniteSet(federations[f].members)
            /\ Cardinality(federations[f].members) <= MaxMembers
            /\ federations[f].revision \in Nat /\ federations[f].revision >= 1
            /\ f \notin shrunk => Cardinality(federations[f].members) >= 2
        BY <1>0, <2>4, FederationTypes DEF WholeRow, Members, RowShrinks
      <3>2. /\ federations'[f].members \subseteq federations[f].members
            /\ federations'[f].state = "open"
            /\ federations'[f].primary \in federations'[f].members
        BY <2>4 DEF RowShrinks
      <3>3. /\ IsFiniteSet(federations'[f].members)
            /\ Cardinality(federations'[f].members) <= MaxMembers
        BY <1>0, <3>1, <3>2, MemberBounds
      <3>4. federations'[f].revision >= 1
        BY <2>4, <3>1
      <3>5. f \notin shrunk' => Cardinality(federations'[f].members) >= 2
        BY <2>1, <2>4, <3>1
      <3> QED
        BY <1>1, <3>2, <3>3, <3>4, <3>5
    <2> QED
      BY <2>1, <2>2, <2>3, <2>4 DEF RowMoves
  <1> QED
    BY <1>2, <1>3

LEMMA NextApart ==
    ASSUME Inductive, [Next]_vars
    PROVE  MembersAreApart' /\ SubjectsAreApart'
  <1>0. TypeOK /\ MembersAreApart /\ SubjectsAreApart
    BY DEF Inductive
  <1> SUFFICES ASSUME NEW f \in Federations, NEW g \in Federations, f # g,
                      federations'[f].state = "open", federations'[g].state = "open"
               PROVE  /\ federations'[f].members \cap federations'[g].members = {}
                      /\ federations'[f].subject \notin federations'[g].members
    BY DEF MembersAreApart, SubjectsAreApart, IsOpen, Members
  <1>2. CASE \E o \in Calls : Join(o)
    <2>1. PICK o \in Calls : Join(o)
      BY <1>2
    <2>2. PICK h \in Federations :
                /\ \A i \in Federations : i # h => federations'[i] = federations[i]
                /\ \/ /\ calls[o].federation = NoFederation
                      /\ federations'[h].subject = calls[o].record.approver
                      /\ federations'[h].members = {calls[o].record.approver, calls[o].actor}
                   \/ /\ IsOpen(h)
                      /\ federations'[h].subject = federations[h].subject
                      /\ federations'[h].members = federations[h].members \cup {calls[o].actor}
      BY <2>1, JoinMoves
    <2>3. ASSUME NEW i \in Federations, IsOpen(i)
          PROVE  /\ calls[o].actor \notin federations[i].members
                 /\ federations[i].subject # calls[o].actor
                 /\ calls[o].federation = NoFederation =>
                      /\ calls[o].record.approver \notin federations[i].members
                      /\ federations[i].subject # calls[o].record.approver
      <3>1. /\ MembershipOf(calls[o].actor) = NoFederation /\ ~OwnsSubject(calls[o].actor)
            /\ calls[o].federation = NoFederation => ~OwnsSubject(calls[o].record.approver)
        BY <2>1 DEF Join, MayJoin, OwnsAnother
      <3>2. calls[o].federation = NoFederation =>
              calls[o].record.approver \notin federations[i].members
        BY <2>1, <2>3 DEF Inductive, FoundersAreFree, Joining, Join, Members
      <3> QED
        BY <2>3, <3>1, <3>2, Membership DEF OwnsSubject, Members
    <2>4. CASE f # h /\ g # h
      BY <1>0, <2>2, <2>4 DEF MembersAreApart, SubjectsAreApart, IsOpen, Members
    <2>5. CASE f = h
      <3>1. federations'[g] = federations[g] /\ IsOpen(g)
        BY <2>2, <2>5 DEF IsOpen
      <3>2. CASE calls[o].federation = NoFederation
                 /\ federations'[h].subject = calls[o].record.approver
                 /\ federations'[h].members = {calls[o].record.approver, calls[o].actor}
        BY <2>3, <2>5, <3>1, <3>2
      <3>3. CASE /\ IsOpen(h)
                 /\ federations'[h].subject = federations[h].subject
                 /\ federations'[h].members = federations[h].members \cup {calls[o].actor}
        BY <1>0, <2>3, <2>5, <3>1, <3>3 DEF MembersAreApart, SubjectsAreApart, Members
      <3> QED
        BY <2>2, <3>2, <3>3
    <2>6. CASE g = h
      <3>1. federations'[f] = federations[f] /\ IsOpen(f)
        BY <2>2, <2>6 DEF IsOpen
      <3>2. CASE calls[o].federation = NoFederation
                 /\ federations'[h].members = {calls[o].record.approver, calls[o].actor}
        BY <2>3, <2>6, <3>1, <3>2
      <3>3. CASE /\ IsOpen(h)
                 /\ federations'[h].members = federations[h].members \cup {calls[o].actor}
        BY <1>0, <2>3, <2>6, <3>1, <3>3 DEF MembersAreApart, SubjectsAreApart, Members
      <3> QED
        BY <2>2, <3>2, <3>3
    <2> QED
      BY <2>4, <2>5, <2>6
  <1>3. CASE ~\E o \in Calls : Join(o)
    <2>1. ASSUME NEW h \in Federations, federations'[h].state = "open"
          PROVE  /\ IsOpen(h) /\ federations'[h].subject = federations[h].subject
                 /\ federations'[h].members \subseteq federations[h].members
      <3>1. RowMoves(h)
        BY <1>3, NextRowsMove DEF RowsMove
      <3> QED
        BY <2>1, <3>1, ClosedRow DEF RowMoves, RowShrinks, IsOpen
    <2>2. /\ IsOpen(f) /\ federations'[f].subject = federations[f].subject
          /\ federations'[f].members \subseteq federations[f].members
          /\ IsOpen(g) /\ federations'[g].members \subseteq federations[g].members
      BY <2>1
    <2> QED
      BY <1>0, <2>2 DEF MembersAreApart, SubjectsAreApart, Members
  <1> QED
    BY <1>2, <1>3

-----------------------------------------------------------------------------
(* What calls have read.                                                   *)

(* A page keeps showing what is there, or something older. *)
LEMMA NextSeen ==
    ASSUME Inductive, [Next]_vars, NEW p \in Calls
    PROVE  SeenPage(p)'
  <1>0. TypeOK /\ SeenPage(p) /\ KindsAt(p)
    BY DEF Inductive
  <1>1. ASSUME NEW g \in Federations, IsOpen(g)
        PROVE  /\ federations[g].revision \in Nat /\ federations[g].revision >= 1
               /\ federations'[g].state \in {"open", "closed"}
               /\ federations'[g].state = "open" =>
                    \/ federations'[g].revision = federations[g].revision + 1
                    \/ /\ federations'[g].revision = federations[g].revision
                       /\ federations'[g].primary = federations[g].primary /\ g \in shrunk'
                    \/ federations'[g] = federations[g]
               /\ g \in shrunk => g \in shrunk'
    <2>1. federations[g].revision \in Nat /\ federations[g].revision >= 1
      BY <1>0, <1>1, FederationTypes DEF Inductive, WholeRow
    <2>2. CASE \E o \in Calls : Join(o)
      <3>1. PICK o \in Calls : Join(o)
        BY <2>2
      <3>2. shrunk' = shrunk
        BY <3>1, JoinMoves
      <3>3. PICK h \in Federations :
                /\ \A i \in Federations : i # h => federations'[i] = federations[i]
                /\ federations'[h].state = "open"
                /\ \/ federations[h] = Unused
                   \/ federations'[h].revision = federations[h].revision + 1
        BY <3>1, JoinMoves
      <3>4. federations[g] # Unused
        BY <1>1, Blank DEF IsOpen
      <3> QED
        BY <1>1, <2>1, <3>2, <3>3, <3>4 DEF IsOpen
    <2>3. CASE ~\E o \in Calls : Join(o)
      BY <1>1, <2>1, <2>3, NextRowsMove, ClosedRow DEF RowsMove, RowMoves, RowShrinks, IsOpen
    <2> QED
      BY <2>2, <2>3
  <1>2. ASSUME NEW g \in Federations, federations[g].state = "closed"
        PROVE  federations'[g].state = "closed"
    <2>1. federations[g] = Closed
      BY <1>2 DEF Inductive, WholeRow
    <2>2. CASE \E o \in Calls : Join(o)
      <3>1. PICK o \in Calls : Join(o)
        BY <2>2
      <3>3. PICK h \in Federations :
                /\ \A i \in Federations : i # h => federations'[i] = federations[i]
                /\ federations[h] = Unused \/ IsOpen(h)
        BY <3>1, JoinMoves
      <3>4. g # h
        BY <1>2, <3>3, Blank DEF IsOpen
      <3> QED
        BY <1>2, <3>3, <3>4
    <2>3. CASE ~\E o \in Calls : Join(o)
      <3>1. RowMoves(g)
        BY <2>3, NextRowsMove DEF RowsMove
      <3> QED
        BY <1>2, <3>1, ClosedRow DEF RowMoves, RowShrinks, IsOpen
    <2> QED
      BY <2>2, <2>3
  <1>3. CASE /\ calls'[p].page = calls[p].page
             /\ calls'[p].at = calls[p].at \/ calls[p].at \notin {"revision", "members"}
             /\ calls'[p].at \in {"revision", "members"} => calls'[p].at = calls[p].at
    <2> SUFFICES ASSUME NEW g \in Federations, g = calls[p].page.federation, g # NoFederation,
                        NEW page \in Page, page = calls[p].page, NEW at, at = calls'[p].at
                 PROVE  Known(page, at, federations'[g], g \in shrunk')
      BY <1>0, <1>3, CallTypes DEF SeenPage
    <2>1. page.began \in Nat /\ page.revision \in Nat
      BY DEF Page
    <2>2. Known(page, at, federations[g], g \in shrunk)
      BY <1>0, <1>3 DEF SeenPage, Known
    <2>3. CASE federations[g].state = "closed"
      BY <1>2, <2>3 DEF Known
    <2>4. CASE IsOpen(g)
      <3>1. /\ page.began >= 1 /\ page.began <= federations[g].revision
            /\ page.began = federations[g].revision => federations[g].primary = page.primary
            /\ at # "revision" =>
                 /\ page.revision <= federations[g].revision
                 /\ at # "members" /\ page.revision = federations[g].revision =>
                      g \in shrunk \/ federations[g].members = page.members
        BY <2>2, <2>4 DEF Known, IsOpen
      <3>2. CASE federations'[g].state = "closed"
        BY <3>2 DEF Known
      <3>3. CASE federations'[g].state = "open"
        BY <1>1, <2>1, <2>4, <3>1, <3>3 DEF Known
      <3> QED
        BY <1>1, <2>4, <3>2, <3>3
    <2> QED
      BY <2>2, <2>3, <2>4 DEF Known, IsOpen
  <1>4. CASE calls'[p] = NoCall
    BY <1>4, Blank DEF SeenPage
  <1>5. CASE Began(p)
    <2>1. CASE calls'[p].page.federation = NoFederation
      BY <2>1 DEF SeenPage
    <2>2. CASE calls'[p].page.federation # NoFederation
      <3>1. PICK g \in Federations : g = calls'[p].page.federation
        BY <1>5, <2>2 DEF Began
      <3>2. /\ IsOpen(g) /\ calls'[p].page.primary = federations[g].primary
            /\ calls'[p].page.began = federations[g].revision /\ federations' = federations
            /\ calls'[p].at = "revision"
        BY <1>5, <2>2, <3>1 DEF Began
      <3> QED
        BY <1>1, <2>2, <3>1, <3>2 DEF SeenPage, Known, IsOpen
    <2> QED
      BY <2>1, <2>2
  <1>8. CASE Loaded(p)
    <2>1. PICK g \in Federations : g = calls[p].page.federation
      BY <1>0, <1>8, CallTypes DEF Loaded, KindsAt
    <2>2. /\ g # NoFederation /\ calls'[p].page.federation = g
          /\ federations' = federations /\ shrunk' = shrunk
      BY <1>8, <2>1, FederationAssumption DEF Loaded
    <2>3. Known(calls[p].page, calls[p].at, federations[g], g \in shrunk)
      BY <1>0, <2>1, <2>2 DEF SeenPage
    <2>4. federations[g].revision \in Nat
      BY <1>0, FederationTypes
    <2> QED
      BY <1>8, <2>1, <2>2, <2>3, <2>4 DEF Loaded, Known, SeenPage
  <1>9. CASE calls'[p] = calls[p]
    BY <1>3, <1>9
  <1>6. CASE CallMoves(p)
    BY <1>0, <1>3, <1>4, <1>5, <1>6, <1>8, <1>9
       DEF CallMoves, Went, LockedUsers, FoundActor, LockedFederation, Same
  <1> QED
    BY <1>6, <1>9, NextMoves DEF OneCallMoves

LEMMA NextFounders ==
    ASSUME Inductive, [Next]_vars
    PROVE  FoundersAreFree'
  <1>0. TypeOK /\ FoundersAreFree /\ UsersHeldOnce
    BY DEF Inductive
  <1> SUFFICES ASSUME NEW p \in Calls, Joining(p)', calls'[p].federation = NoFederation,
                      NEW f \in Federations, federations'[f].state = "open"
               PROVE  calls'[p].record.approver \notin federations'[f].members
    BY DEF FoundersAreFree, IsOpen, Members
  <1>1. KindsAt(p) /\ calls'[p].kind = "join" /\ calls'[p].at \in {"federation", "write"}
    BY DEF Inductive, Joining
  <1>2. CASE calls'[p] = calls[p]
    <2>1. Joining(p) /\ calls[p].federation = NoFederation
      BY <1>1, <1>2 DEF Joining
    <2>2. CASE \E o \in Calls : Join(o)
      <3>1. PICK o \in Calls : Join(o)
        BY <2>2
      <3>2. calls[o].kind = "join" /\ calls[o].at = "write"
            /\ calls'[o].at \in {"finish", "abort"}
        <4>1. /\ calls[o].kind = "join" /\ calls[o].at = "write" /\ calls[o].at \in {"write"}
              /\ Go(o, "finish") \/ Go(o, "abort")
          BY <3>1 DEF Join
        <4> QED
          BY <1>0, <4>1, GoMoves DEF Went, Places
      <3>3. p # o
        BY <1>1, <3>2
      <3>4. /\ HeldUsers(o) = {calls[o].record.approver, calls[o].actor}
            /\ calls[p].record.approver \in HeldUsers(p)
        BY <2>1, <3>2 DEF HeldUsers, Joining
      <3>5. calls[p].record.approver \notin {calls[o].record.approver, calls[o].actor}
        BY <1>0, <3>3, <3>4 DEF UsersHeldOnce
      <3>6. PICK h \in Federations :
                /\ \A i \in Federations : i # h => federations'[i] = federations[i]
                /\ \/ federations'[h].members = {calls[o].record.approver, calls[o].actor}
                   \/ /\ IsOpen(h)
                      /\ federations'[h].members = federations[h].members \cup {calls[o].actor}
        BY <3>1, JoinMoves
      <3>7. IsOpen(f) => calls[p].record.approver \notin federations[f].members
        BY <1>0, <2>1 DEF FoundersAreFree, Members
      <3>8. CASE f # h
        BY <1>2, <3>6, <3>7, <3>8 DEF IsOpen
      <3>9. CASE f = h
        BY <1>2, <3>5, <3>6, <3>7, <3>9
      <3> QED
        BY <3>8, <3>9
    <2>3. CASE ~\E o \in Calls : Join(o)
      <3>1. RowMoves(f)
        BY <2>3, NextRowsMove DEF RowsMove
      <3>2. IsOpen(f) /\ federations'[f].members \subseteq federations[f].members
        BY <3>1, ClosedRow DEF RowMoves, RowShrinks, IsOpen
      <3> QED
        BY <1>0, <1>2, <2>1, <3>2 DEF FoundersAreFree, Members
    <2> QED
      BY <2>2, <2>3
  <1>3. CASE LockedUsers(p)
    <2>1. PICK a : a = calls[p].record.approver
      OBVIOUS
    <2>2. calls'[p].record.approver = a /\ MembershipOf(a) = NoFederation /\ IsOpen(f)
          /\ federations' = federations
      BY <1>3, <2>1 DEF LockedUsers, Same, IsOpen
    <2> QED
      BY <2>2, Membership DEF Members
  <1>4. CASE LockedFederation(p)
    <2>1. /\ Joining(p) /\ calls[p].federation = NoFederation /\ IsOpen(f)
          /\ federations' = federations /\ calls'[p].record = calls[p].record
      BY <1>1, <1>4 DEF LockedFederation, Went, Same, Joining, IsOpen
    <2> QED
      BY <1>0, <2>1 DEF FoundersAreFree, Members
  <1>5. ~FoundActor(p)
    BY <1>1 DEF FoundActor, Same, KindsAt, Changes
  <1>7. ~Loaded(p)
    BY <1>1 DEF Loaded
  <1>6. CASE CallMoves(p)
    BY <1>1, <1>2, <1>3, <1>4, <1>5, <1>6, <1>7, Blank DEF CallMoves, Began, Changes, Went
  <1> QED
    BY <1>2, <1>6, NextMoves DEF OneCallMoves

LEMMA NextHeldIsOpen ==
    ASSUME Inductive, [Next]_vars
    PROVE  HeldIsOpen'
  <1>0. TypeOK /\ HeldIsOpen /\ HeldOnce
    BY DEF Inductive
  <1> SUFFICES ASSUME NEW p \in Calls, calls'[p].at = "write",
                      calls'[p].federation # NoFederation
               PROVE  federations'[calls'[p].federation].state = "open"
    BY DEF HeldIsOpen, IsOpen
  <1>1. CASE calls'[p] = calls[p]
    <2>1. PICK f \in Federations : f = calls[p].federation
      BY <1>0, <1>1, CallTypes
    <2>2. IsOpen(f) /\ Holds(p, f)
      BY <1>0, <1>1, <2>1 DEF HeldIsOpen, Holds
    <2>3. CASE \E o \in Calls : Join(o)
      <3>1. PICK o \in Calls : Join(o)
        BY <2>3
      <3>2. PICK h \in Federations :
                /\ \A i \in Federations : i # h => federations'[i] = federations[i]
                /\ federations'[h].state = "open"
        BY <3>1, JoinMoves
      <3> QED
        BY <1>1, <2>1, <2>2, <3>2 DEF IsOpen
    <2>4. CASE ~\E o \in Calls : Join(o)
      <3>1. RowMoves(f)
        BY <2>4, NextRowsMove DEF RowsMove
      <3>2. ASSUME NEW q \in Calls, Holds(q, f), calls'[q] = NoCall PROVE FALSE
        <4>1. q = p
          BY <1>0, <2>2, <3>2 DEF HeldOnce
        <4> QED
          BY <3>2, <4>1, Blank
      <3> QED
        BY <1>1, <2>1, <2>2, <3>1, <3>2 DEF RowMoves, RowShrinks, IsOpen
    <2> QED
      BY <2>3, <2>4
  <1>2. CASE LockedFederation(p)
    BY <1>2 DEF LockedFederation, Went, IsOpen
  <1>3. CASE CallMoves(p)
    BY <1>1, <1>2, <1>3, Blank DEF CallMoves, Began, Changes, Went, LockedUsers, FoundActor,
       Loaded
  <1> QED
    BY <1>1, <1>3, NextMoves DEF OneCallMoves

-----------------------------------------------------------------------------
(* Requests.                                                               *)

(* Once somebody has claimed a request it names its approver, and a request *)
(* that has run out stays so.                                               *)
RequestMoves(r, j) ==
  /\ j \in Request
  /\ j.state \notin {"none", "open", "expired"} => j.approver \in Accounts
  /\ requests[r].state = "expired" => j.state = "expired"

RequestsMove ==
  /\ requests' \in [Requests -> Request]
  /\ \A r \in Requests : RequestMoves(r, requests'[r])

LEMMA PutRequest ==
    ASSUME Inductive, NEW r \in Requests, NEW j, RequestMoves(r, j),
           requests' = [requests EXCEPT ![r] = j]
    PROVE  RequestsMove
  <1>1. /\ requests' \in [Requests -> Request] /\ requests'[r] = j
        /\ \A q \in Requests : q # r => requests'[q] = requests[q]
    BY DEF Inductive, TypeOK, RequestMoves
  <1>2. ASSUME NEW q \in Requests, q # r PROVE RequestMoves(q, requests'[q])
    BY <1>1, <1>2, RequestTypes DEF Inductive, RequestsAreNamed, RequestMoves
  <1> QED
    BY <1>1, <1>2 DEF RequestsMove

LEMMA SameRequests ==
    ASSUME Inductive, requests' = requests
    PROVE  RequestsMove
  <1>1. ASSUME NEW q \in Requests PROVE RequestMoves(q, requests'[q])
    BY RequestTypes DEF Inductive, RequestsAreNamed, RequestMoves
  <1> QED
    BY <1>1 DEF Inductive, TypeOK, RequestsMove

LEMMA SavedRequest ==
    ASSUME Inductive, NEW r \in Requests, NEW j, j \in Request, j.approver \in Accounts,
           requests' = Saved(r, j)
    PROVE  RequestsMove
  <1>1. CASE requests[r].state = "expired"
    BY <1>1, SameRequests DEF Saved
  <1>2. CASE requests[r].state # "expired"
    <2>1. RequestMoves(r, j) /\ requests' = [requests EXCEPT ![r] = j]
      BY <1>2 DEF RequestMoves, Saved
    <2> QED
      BY <2>1, PutRequest
  <1> QED
    BY <1>1, <1>2

LEMMA NextRequestsMove ==
    ASSUME Inductive, [Next]_vars
    PROVE  RequestsMove
  <1>0. TypeOK
    BY DEF Inductive
  <1>1. ASSUME NEW r \in Requests, CreateDeviceRequest(r) PROVE RequestsMove
    <2>1. PICK joiner \in accounts \cup {NoOne} :
            /\ requests[r] = NoRequest
            /\ requests' = [requests EXCEPT ![r] = [NoRequest EXCEPT !.state = "open",
                              !.joiner = joiner, !.token = TRUE]]
      BY <1>1 DEF CreateDeviceRequest
    <2> DEFINE j == [NoRequest EXCEPT !.state = "open", !.joiner = joiner, !.token = TRUE]
    <2>2. joiner \in Accounts \cup {NoOne}
      BY <1>0 DEF TypeOK
    <2>3. j \in Request /\ j.state = "open"
      BY <2>2, Blank DEF Request
    <2> HIDE DEF j
    <2>4. RequestMoves(r, j)
      BY <2>1, <2>3, Blank DEF RequestMoves
    <2>5. requests' = [requests EXCEPT ![r] = j]
      BY <2>1 DEF j
    <2> QED
      BY <2>4, <2>5, PutRequest
  <1>2. ASSUME NEW r \in Requests, CreateInvite(r) PROVE RequestsMove
    <2>1. PICK approver \in accounts :
            /\ requests[r] = NoRequest
            /\ requests' = [requests EXCEPT ![r] = [NoRequest EXCEPT !.state = "open",
                              !.approver = approver, !.token = TRUE]]
      BY <1>2 DEF CreateInvite
    <2> DEFINE j == [NoRequest EXCEPT !.state = "open", !.approver = approver, !.token = TRUE]
    <2>2. approver \in Accounts \cup {NoOne}
      BY <1>0 DEF TypeOK
    <2>3. j \in Request /\ j.state = "open"
      BY <2>2, Blank DEF Request
    <2> HIDE DEF j
    <2>4. RequestMoves(r, j)
      BY <2>1, <2>3, Blank DEF RequestMoves
    <2>5. requests' = [requests EXCEPT ![r] = j]
      BY <2>1 DEF j
    <2> QED
      BY <2>4, <2>5, PutRequest
  <1>3. ASSUME NEW r \in Requests, Claim(r) PROVE RequestsMove
    <2>1. requests[r].state = "open" /\ requests[r] \in Request
      BY <1>0, <1>3, RequestTypes DEF Claim
    <2>2. CASE requests' = [requests EXCEPT ![r].token = FALSE]
      <3> DEFINE j == [requests[r] EXCEPT !.token = FALSE]
      <3>1. RequestMoves(r, j)
        BY <2>1 DEF RequestMoves, Request
      <3>2. requests' = [requests EXCEPT ![r] = j]
        BY <2>2
      <3> HIDE DEF j
      <3> QED
        BY <3>1, <3>2, PutRequest
    <2>3. ASSUME NEW approver \in accounts,
                 requests' = [requests EXCEPT ![r].token = FALSE, ![r].state = "claimed",
                                              ![r].approver = approver]
          PROVE  RequestsMove
      <3> DEFINE j == [requests[r] EXCEPT !.token = FALSE, !.state = "claimed",
                                          !.approver = approver]
      <3>1. approver \in Accounts
        BY <1>0 DEF TypeOK
      <3>2. RequestMoves(r, j)
        BY <2>1, <3>1 DEF RequestMoves, Request
      <3>3. requests' = [requests EXCEPT ![r] = j]
        BY <2>3
      <3> HIDE DEF j
      <3> QED
        BY <3>2, <3>3, PutRequest
    <2>4. ASSUME NEW joiner \in accounts \cup {NoOne}, requests[r].approver # NoOne,
                 requests' = [requests EXCEPT ![r].token = FALSE, ![r].state = "claimed",
                                              ![r].joiner = joiner]
          PROVE  RequestsMove
      <3> DEFINE j == [requests[r] EXCEPT !.token = FALSE, !.state = "claimed",
                                          !.joiner = joiner]
      <3>1. joiner \in Accounts \cup {NoOne} /\ requests[r].approver \in Accounts
        BY <1>0, <2>4, RequestTypes DEF TypeOK
      <3>2. RequestMoves(r, j)
        BY <2>1, <3>1 DEF RequestMoves, Request
      <3>3. requests' = [requests EXCEPT ![r] = j]
        BY <2>4
      <3> HIDE DEF j
      <3> QED
        BY <3>2, <3>3, PutRequest
    <2> QED
      BY <1>3, <2>2, <2>3, <2>4 DEF Claim
  <1>4. ASSUME NEW r \in Requests, Expire(r) PROVE RequestsMove
    <2> DEFINE j == [NoRequest EXCEPT !.state = "expired"]
    <2>1. RequestMoves(r, j)
      BY Blank DEF RequestMoves, Request
    <2>2. requests' = [requests EXCEPT ![r] = j]
      BY <1>4 DEF Expire
    <2> HIDE DEF j
    <2> QED
      BY <2>1, <2>2, PutRequest
  <1>5. ASSUME NEW o \in Calls, SaveApproval(o) PROVE RequestsMove
    <2>1. calls[o].request \in Requests /\ calls[o].record \in Request
          /\ calls[o].record.approver \in Accounts
      BY <1>0, <1>5, CallTypes DEF Inductive, KindsAt, SaveApproval
    <2>2. CASE requests' = Saved(calls[o].request, [calls[o].record EXCEPT !.state = "approved"])
      <3> DEFINE j == [calls[o].record EXCEPT !.state = "approved"]
      <3>1. j \in Request /\ j.approver \in Accounts
        BY <2>1 DEF Request
      <3>2. requests' = Saved(calls[o].request, j)
        BY <2>2
      <3> HIDE DEF j
      <3> QED
        BY <2>1, <3>1, <3>2, SavedRequest
    <2>3. CASE ~(requests' = Saved(calls[o].request, [calls[o].record EXCEPT !.state = "approved"]))
      <3> DEFINE attempts == calls[o].record.codeAttempts + 1
                 state == IF attempts >= MaxCodes THEN "locked" ELSE calls[o].record.state
                 j == [calls[o].record EXCEPT !.codeAttempts = attempts, !.state = state]
      <3>1. attempts \in Nat
        BY <2>1 DEF Request
      <3>2. state \in {"locked", calls[o].record.state}
        OBVIOUS
      <3>3. requests' = Saved(calls[o].request, j)
        BY <1>5, <2>3 DEF SaveApproval
      <3> HIDE DEF attempts, state
      <3>4. j \in Request /\ j.approver \in Accounts
        BY <2>1, <3>1, <3>2 DEF Request
      <3> HIDE DEF j
      <3> QED
        BY <2>1, <3>3, <3>4, SavedRequest
    <2> QED
      BY <2>2, <2>3
  <1>6. ASSUME NEW o \in Calls, FinishCompletion(o) PROVE RequestsMove
    <2>1. calls[o].request \in Requests /\ calls[o].record \in Request
          /\ calls[o].record.approver \in Accounts
      BY <1>0, <1>6, CallTypes DEF Inductive, KindsAt, FinishCompletion
    <2> DEFINE j == [calls[o].record EXCEPT !.state = "completed"]
    <2>2. j \in Request /\ j.approver \in Accounts
      BY <2>1 DEF Request
    <2>3. requests' = Saved(calls[o].request, j)
      BY <1>6 DEF FinishCompletion
    <2> HIDE DEF j
    <2> QED
      BY <2>1, <2>2, <2>3, SavedRequest
  <1>7. ASSUME NEW o \in Calls, Step(o), ~SaveApproval(o), ~FinishCompletion(o)
        PROVE  RequestsMove
    <2>1. CASE Cut(o) \/ LoadApproval(o) \/ LoadCompletion(o) \/ TakeCompletion(o)
               \/ LockUsers(o) \/ LockFederation(o) \/ Join(o) \/ FailJoin(o) \/ AbortCompletion(o)
      BY <2>1, SameRequests
         DEF Cut, LoadApproval, LoadCompletion, TakeCompletion, LockUsers, LockFederation, Join,
             FailJoin, AbortCompletion, redis
    <2>2. CASE OpenPage(o) \/ ReadRevision(o) \/ ReadMembers(o) \/ StartDeletion(o)
               \/ ReadActor(o) \/ SetPrimary(o) \/ Remove(o) \/ RefuseChange(o) \/ DetachAndErase(o) \/ EraseAccount(o)
      BY <2>2, SameRequests
         DEF OpenPage, ReadRevision, ReadMembers, StartDeletion, ReadActor, SetPrimary, Remove,
             RefuseChange, DetachAndErase, EraseAccount, redis
    <2> QED
      BY <1>7, <2>1, <2>2 DEF Step
  <1>8. CASE UNCHANGED vars
    BY <1>8, SameRequests DEF vars, redis
  <1> QED
    BY <1>1, <1>2, <1>3, <1>4, <1>5, <1>6, <1>7, <1>8 DEF Next

LEMMA NextNamed ==
    ASSUME Inductive, [Next]_vars
    PROVE  RequestsAreNamed'
  BY NextRequestsMove DEF RequestsMove, RequestMoves, RequestsAreNamed

-----------------------------------------------------------------------------
(* The right to complete a request.                                        *)
LEMMA CountTypes ==
    ASSUME TypeOK, NEW r \in Requests
    PROVE  admitted[r] \in Nat /\ lost[r] \in Nat /\ late[r] \in Nat
  BY DEF TypeOK

(* But for the one that takes the right, calls only give theirs up. *)
LEMMA RightsOfCall ==
    ASSUME NEW o \in Calls, CallMoves(o), ~TakeCompletion(o), KindsAt(o), NEW r
    PROVE  /\ o \in Rights(r)' => /\ o \in Rights(r)
                                  /\ calls'[o].at # "finish" => calls[o].at # "finish"
           /\ o \in Admitting(r)' => o \in Admitting(r)
  <1>1. o \in Rights(r)' <=> /\ calls'[o].kind = "join" /\ calls'[o].request = r
                             /\ calls'[o].at \in {"users", "federation", "write", "finish", "abort"}
    BY DEF Rights
  <1>2. o \in Admitting(r)' <=> /\ calls'[o].kind = "join" /\ calls'[o].request = r
                                /\ calls'[o].at \in {"users", "federation", "write"}
    BY <1>1 DEF Admitting
  <1>3. CASE calls'[o] = calls[o]
    BY <1>1, <1>2, <1>3 DEF Rights, Admitting
  <1>4. CASE calls'[o] = NoCall \/ Began(o)
    BY <1>1, <1>2, <1>4, Blank DEF Began, Changes
  <1>5. CASE LockedUsers(o)
    BY <1>1, <1>2, <1>5 DEF LockedUsers, Same, Rights, Admitting
  <1>6. CASE FoundActor(o)
    BY <1>1, <1>2, <1>6 DEF FoundActor, Same, KindsAt, Changes
  <1>7. CASE LockedFederation(o)
    BY <1>1, <1>2, <1>7 DEF LockedFederation, Went, Same, Rights, Admitting
  <1>8. CASE \/ Went(o, {"users", "federation", "write"}, "abort") /\ calls[o].kind = "join"
             \/ Went(o, {"write"}, "finish") /\ calls[o].kind = "join"
    BY <1>1, <1>2, <1>8 DEF Went, Same, Rights, Admitting
  <1>9. CASE Went(o, {"actor", "write"}, "erase") /\ calls[o].kind = "delete"
    BY <1>1, <1>2, <1>9 DEF Went, Same
  <1>10. CASE Loaded(o)
    BY <1>1, <1>2, <1>10 DEF Loaded
  <1> QED
    BY <1>3, <1>4, <1>5, <1>6, <1>7, <1>8, <1>9, <1>10 DEF CallMoves

LEMMA FewerAdmit ==
    ASSUME NEW S, NEW T, T \subseteq S, IsFiniteSet(S)
    PROVE  /\ IsFiniteSet(T) /\ Cardinality(T) <= Cardinality(S)
           /\ Cardinality(T) \in Nat /\ Cardinality(S) \in Nat
  BY FS_Subset, FS_CardinalityType

RightsShrink(r) ==
  /\ Rights(r)' \subseteq Rights(r) /\ Admitting(r)' \subseteq Admitting(r)
  /\ \A o \in Rights(r)' : calls'[o].at # "finish" => calls[o].at # "finish"

LEMMA StepRightsShrink ==
    ASSUME Inductive, [Next]_vars, ~\E o \in Calls : TakeCompletion(o), NEW r
    PROVE  RightsShrink(r)
  <1>1. CASE UNCHANGED calls
    BY <1>1 DEF RightsShrink, Rights, Admitting
  <1>2. ASSUME NEW o \in Calls, OneCallMoves(o) PROVE RightsShrink(r)
    <2>1. /\ o \in Rights(r)' => /\ o \in Rights(r)
                                 /\ calls'[o].at # "finish" => calls[o].at # "finish"
          /\ o \in Admitting(r)' => o \in Admitting(r)
      BY <1>2, RightsOfCall DEF OneCallMoves, Inductive
    <2>2. ASSUME NEW p \in Calls, p # o
          PROVE  /\ p \in Rights(r)' <=> p \in Rights(r)
                 /\ p \in Admitting(r)' <=> p \in Admitting(r)
                 /\ calls'[p].at = calls[p].at
      BY <1>2, <2>2 DEF OneCallMoves, Rights, Admitting
    <2>3. Rights(r)' \subseteq Calls /\ Admitting(r)' \subseteq Calls
      BY DEF Rights, Admitting
    <2> QED
      BY <2>1, <2>2, <2>3 DEF RightsShrink
  <1> QED
    BY <1>1, <1>2, NextMoves

LEMMA ShrunkRights ==
    ASSUME TypeOK, NEW r \in Requests, CountedRights(r), RightsShrink(r),
           requests[r].state = "expired" => requests'[r].state = "expired",
           requests'[r].state # "expired" => (r \in taken' <=> r \in taken),
           admitted'[r] = admitted[r], lost'[r] = lost[r], late'[r] = late[r]
    PROVE  CountedRights(r)'
  <1>1. /\ IsFiniteSet(Admitting(r)') /\ Cardinality(Admitting(r)') <= Cardinality(Admitting(r))
        /\ Cardinality(Admitting(r)') \in Nat /\ Cardinality(Admitting(r)) \in Nat
    BY FewerAdmit DEF RightsShrink, CountedRights
  <1>2. admitted'[r] + Cardinality(Admitting(r)') <= 1 + lost'[r] + late'[r]
    BY <1>1, CountTypes DEF CountedRights
  <1>3. ASSUME requests'[r].state # "expired"
        PROVE  /\ \A o, p \in Rights(r)' : o = p
               /\ Rights(r)' # {} => r \in taken'
               /\ r \notin taken' \/ (\E o \in Rights(r)' : calls'[o].at # "finish") =>
                     admitted'[r] <= lost'[r] + late'[r]
    BY <1>3 DEF RightsShrink, CountedRights
  <1> QED
    BY <1>1, <1>2, <1>3 DEF CountedRights

LEMMA OtherRights ==
    ASSUME NEW o \in Calls, \A p \in Calls : p # o => calls'[p] = calls[p], NEW r
    PROVE  /\ Rights(r) \subseteq Calls /\ Admitting(r) \subseteq Rights(r)
           /\ Rights(r)' \subseteq Calls /\ Admitting(r)' \subseteq Rights(r)'
           /\ \A p \in Calls : p # o => /\ p \in Rights(r)' <=> p \in Rights(r)
                                        /\ p \in Admitting(r)' <=> p \in Admitting(r)
           /\ o \in Rights(r)' <=>
                /\ calls'[o].kind = "join" /\ calls'[o].request = r
                /\ calls'[o].at \in {"users", "federation", "write", "finish", "abort"}
           /\ o \in Admitting(r)' <=>
                /\ calls'[o].kind = "join" /\ calls'[o].request = r
                /\ calls'[o].at \in {"users", "federation", "write"}
  BY DEF Rights, Admitting

LEMMA OneMore ==
    ASSUME NEW S, NEW x, IsFiniteSet(S), x \notin S
    PROVE  /\ IsFiniteSet(S \cup {x}) /\ Cardinality(S \cup {x}) = Cardinality(S) + 1
           /\ Cardinality(S) \in Nat
  BY FS_AddElement, FS_CardinalityType

LEMMA OneLess ==
    ASSUME NEW S, NEW x, IsFiniteSet(S), x \in S
    PROVE  /\ IsFiniteSet(S \ {x}) /\ Cardinality(S \ {x}) = Cardinality(S) - 1
           /\ Cardinality(S) \in Nat
  BY FS_RemoveElement, FS_CardinalityType

(* A call takes the right to complete its request. *)
LEMMA TakeCounted ==
    ASSUME Inductive, NEW o \in Calls, TakeCompletion(o), NEW r \in Requests
    PROVE  CountedRights(r)'
  <1>0. TypeOK /\ KindsAt(o) /\ CountedRights(r) /\ calls[o].at = "take" /\ calls[o].kind = "join"
        /\ requests' = requests /\ admitted' = admitted /\ lost' = lost
    BY DEF Inductive, TakeCompletion, KindsAt
  <1>1. CountedRights(r)
    BY <1>0
  <1>2. CASE IsTaken(calls[o].request)
    <2>1. calls'[o] = NoCall /\ taken' = taken /\ late' = late
          /\ \A p \in Calls : p # o => calls'[p] = calls[p]
      BY <1>0, <1>2, EndMoves DEF TakeCompletion, OneCallMoves
    <2>2. RightsShrink(r)
      BY <2>1, OtherRights, Blank DEF RightsShrink
    <2> QED
      BY <1>0, <2>1, <2>2, ShrunkRights
  <1>3. CASE ~IsTaken(calls[o].request)
    <2>1. /\ Go(o, "users") /\ calls[o].request \notin taken
          /\ taken' = IF requests[calls[o].request].state = "expired" THEN taken
                      ELSE taken \cup {calls[o].request}
          /\ late' = IF requests[calls[o].request].state = "expired"
                     THEN [late EXCEPT ![calls[o].request] = @ + 1] ELSE late
      BY <1>3 DEF TakeCompletion, IsTaken
    <2>2. Went(o, {"take"}, "users") /\ \A p \in Calls : p # o => calls'[p] = calls[p]
      BY <1>0, <2>1, GoMoves DEF Places
    <2>3. /\ calls'[o].kind = "join" /\ calls'[o].at = "users"
          /\ calls'[o].request = calls[o].request
      BY <1>0, <2>2 DEF Went, Same
    <2>4. CASE calls[o].request # r
      <3>1. RightsShrink(r)
        BY <2>2, <2>3, <2>4, OtherRights DEF RightsShrink
      <3>2. late'[r] = late[r] /\ (r \in taken' <=> r \in taken)
        BY <1>0, <2>1, <2>4 DEF TypeOK
      <3> QED
        BY <1>0, <3>1, <3>2, ShrunkRights
    <2>5. CASE calls[o].request = r
      <3>1. o \notin Rights(r) /\ o \notin Admitting(r)
        BY <1>0 DEF Rights, Admitting
      <3>2. Admitting(r)' = Admitting(r) \cup {o} /\ Rights(r)' = Rights(r) \cup {o}
        BY <2>2, <2>3, <2>5, OtherRights
      <3>3. PICK S : S = Admitting(r)
        OBVIOUS
      <3>4. /\ IsFiniteSet(Admitting(r)')
            /\ Cardinality(Admitting(r)') = Cardinality(Admitting(r)) + 1
            /\ Cardinality(Admitting(r)) \in Nat
        <4>1. IsFiniteSet(S) /\ o \notin S
          BY <1>0, <3>1, <3>3 DEF CountedRights
        <4>2. IsFiniteSet(S \cup {o}) /\ Cardinality(S \cup {o}) = Cardinality(S) + 1
              /\ Cardinality(S) \in Nat
          BY <4>1, OneMore
        <4>3. Admitting(r)' = S \cup {o}
          BY <3>2, <3>3
        <4> QED
          BY <3>3, <4>2, <4>3
      <3>5. CASE requests[r].state = "expired"
        <4>1. late'[r] = late[r] + 1
          BY <1>0, <2>1, <2>5, <3>5 DEF TypeOK
        <4> QED
          BY <1>0, <3>4, <3>5, <4>1, CountTypes DEF CountedRights
      <3>6. CASE requests[r].state # "expired"
        <4>1. r \in taken' /\ late' = late /\ r \notin taken
          BY <2>1, <2>5, <3>6
        <4>2. Rights(r) = {} /\ admitted[r] <= lost[r] + late[r]
          BY <1>0, <3>6, <4>1 DEF CountedRights
        <4>3. Rights(r)' = {o} /\ Cardinality(Admitting(r)) = 0
          <5>1. Admitting(r) = {}
            BY <4>2 DEF Admitting
          <5> QED
            BY <3>2, <4>2, <5>1, FS_EmptySet
        <4>4. admitted'[r] + Cardinality(Admitting(r)') <= 1 + lost'[r] + late'[r]
          BY <1>0, <3>4, <4>1, <4>2, <4>3, CountTypes
        <4> QED
          BY <1>0, <3>4, <4>1, <4>2, <4>3, <4>4 DEF CountedRights
      <3> QED
        BY <3>5, <3>6
    <2> QED
      BY <2>4, <2>5
  <1> QED
    BY <1>2, <1>3

(* A call admits an account; it can do so once. *)
LEMMA JoinCounted ==
    ASSUME Inductive, NEW o \in Calls, Join(o), NEW r \in Requests
    PROVE  CountedRights(r)'
  <1>0. TypeOK /\ CountedRights(r) /\ calls[o].at = "write" /\ calls[o].kind = "join"
        /\ requests' = requests /\ taken' = taken /\ late' = late
    BY DEF Inductive, Join, redis
  <1>1. PICK to \in {"finish", "abort"} :
          /\ Went(o, {"write"}, to)
          /\ \A p \in Calls : p # o => calls'[p] = calls[p]
          /\ lost' = IF to = "finish" THEN lost ELSE [lost EXCEPT ![calls[o].request] = @ + 1]
    <2>1. "finish" \in Places /\ "abort" \in Places
      BY DEF Places
    <2>2. CASE Go(o, "finish") /\ UNCHANGED lost
      BY <1>0, <2>1, <2>2, GoMoves
    <2>3. CASE Go(o, "abort") /\ lost' = [lost EXCEPT ![calls[o].request] = @ + 1]
      BY <1>0, <2>1, <2>3, GoMoves
    <2> QED
      BY <2>2, <2>3 DEF Join
  <1>2. admitted' = [admitted EXCEPT ![calls[o].request] = @ + 1]
    BY DEF Join
  <1>3. calls'[o].kind = "join" /\ calls'[o].at = to /\ calls'[o].request = calls[o].request
    BY <1>0, <1>1 DEF Went, Same
  <1>4. CASE calls[o].request # r
    <2>1. RightsShrink(r)
      BY <1>1, <1>3, <1>4, OtherRights DEF RightsShrink
    <2>2. admitted'[r] = admitted[r] /\ lost'[r] = lost[r]
      BY <1>0, <1>1, <1>2, <1>4 DEF TypeOK
    <2> QED
      BY <1>0, <2>1, <2>2, ShrunkRights
  <1>5. CASE calls[o].request = r
    <2>1. o \in Rights(r) /\ o \in Admitting(r) /\ calls[o].at # "finish"
      BY <1>0, <1>5 DEF Rights, Admitting
    <2>2. Rights(r)' = Rights(r) /\ Admitting(r)' = Admitting(r) \ {o}
      <3>1. o \in Rights(r)' /\ o \notin Admitting(r)'
        BY <1>3, <1>5 DEF Rights, Admitting
      <3>2. /\ Rights(r) \subseteq Calls /\ Admitting(r) \subseteq Rights(r)
            /\ Rights(r)' \subseteq Calls /\ Admitting(r)' \subseteq Rights(r)'
            /\ \A p \in Calls : p # o => /\ p \in Rights(r)' <=> p \in Rights(r)
                                         /\ p \in Admitting(r)' <=> p \in Admitting(r)
        BY <1>1, OtherRights
      <3> QED
        BY <2>1, <3>1, <3>2
    <2>3. /\ IsFiniteSet(Admitting(r)')
          /\ Cardinality(Admitting(r)') = Cardinality(Admitting(r)) - 1
          /\ Cardinality(Admitting(r)) \in Nat
      <3>1. PICK S : S = Admitting(r)
        OBVIOUS
      <3>2. IsFiniteSet(S) /\ o \in S
        BY <1>0, <2>1, <3>1 DEF CountedRights
      <3>3. IsFiniteSet(S \ {o}) /\ Cardinality(S \ {o}) = Cardinality(S) - 1
            /\ Cardinality(S) \in Nat
        BY <3>2, OneLess
      <3>4. Admitting(r)' = S \ {o}
        BY <2>2, <3>1
      <3> QED
        BY <3>1, <3>3, <3>4
    <2>4. /\ admitted'[r] = admitted[r] + 1
          /\ lost'[r] = IF to = "finish" THEN lost[r] ELSE lost[r] + 1
      BY <1>0, <1>1, <1>2, <1>5 DEF TypeOK
    <2>5. admitted'[r] + Cardinality(Admitting(r)') <= 1 + lost'[r] + late'[r]
      BY <1>0, <2>3, <2>4, CountTypes DEF CountedRights
    <2>6. ASSUME requests'[r].state # "expired"
          PROVE  /\ \A p, q \in Rights(r)' : p = q
                 /\ Rights(r)' # {} => r \in taken'
                 /\ r \notin taken' \/ (\E p \in Rights(r)' : calls'[p].at # "finish") =>
                       admitted'[r] <= lost'[r] + late'[r]
      <3>1. /\ \A p, q \in Rights(r) : p = q
            /\ r \in taken /\ admitted[r] <= lost[r] + late[r]
        BY <1>0, <2>1, <2>6 DEF CountedRights
      <3>2. (\E p \in Rights(r)' : calls'[p].at # "finish") => to = "abort"
        BY <1>3, <2>1, <2>2, <3>1
      <3>3. to = "abort" => admitted'[r] <= lost'[r] + late'[r]
        BY <1>0, <2>4, <3>1, CountTypes
      <3> QED
        BY <1>0, <2>2, <3>1, <3>2, <3>3
    <2> QED
      BY <2>3, <2>5, <2>6 DEF CountedRights
  <1> QED
    BY <1>4, <1>5

(* A call that admitted nobody gives the right back. *)
LEMMA AbortCounted ==
    ASSUME Inductive, NEW o \in Calls, AbortCompletion(o), NEW r \in Requests
    PROVE  CountedRights(r)'
  <1>0. TypeOK /\ CountedRights(r) /\ KindsAt(o) /\ calls[o].at = "abort"
        /\ requests' = requests /\ taken' = taken \ {calls[o].request}
        /\ admitted' = admitted /\ lost' = lost /\ late' = late
    BY DEF Inductive, AbortCompletion, history
  <1>1. calls'[o] = NoCall /\ \A p \in Calls : p # o => calls'[p] = calls[p]
    BY <1>0, EndMoves DEF AbortCompletion, OneCallMoves
  <1>2. RightsShrink(r)
    BY <1>1, OtherRights, Blank DEF RightsShrink
  <1>3. CASE calls[o].request # r \/ requests[r].state = "expired"
    BY <1>0, <1>2, <1>3, ShrunkRights
  <1>4. CASE calls[o].request = r /\ requests[r].state # "expired"
    <2>1. o \in Rights(r)
      BY <1>0, <1>4 DEF Rights, KindsAt
    <2>2. /\ \A p, q \in Rights(r) : p = q
          /\ admitted[r] <= lost[r] + late[r]
      BY <1>0, <1>4, <2>1 DEF CountedRights
    <2>3. Rights(r)' = {}
      BY <1>1, <1>2, <2>1, <2>2, OtherRights, Blank DEF RightsShrink
    <2>4. Admitting(r)' = {}
      BY <2>3 DEF Admitting
    <2>5. IsFiniteSet(Admitting(r)') /\ Cardinality(Admitting(r)') = 0
      BY <2>4, FS_EmptySet
    <2> QED
      BY <1>0, <2>2, <2>3, <2>5, CountTypes DEF CountedRights
  <1> QED
    BY <1>3, <1>4

LEMMA NextCounted ==
    ASSUME Inductive, [Next]_vars, NEW r \in Requests
    PROVE  CountedRights(r)'
  <1>0. TypeOK /\ CountedRights(r)
        /\ (requests[r].state = "expired" => requests'[r].state = "expired")
    BY NextRequestsMove DEF Inductive, RequestsMove, RequestMoves
  <1>1. ASSUME NEW o \in Calls, TakeCompletion(o) \/ Join(o) \/ AbortCompletion(o)
        PROVE  CountedRights(r)'
    BY <1>1, TakeCounted, JoinCounted, AbortCounted
  <1>2. ASSUME ~\E o \in Calls : TakeCompletion(o),
               requests'[r].state # "expired" => (r \in taken' <=> r \in taken),
               admitted' = admitted, lost' = lost, late' = late
        PROVE  CountedRights(r)'
    BY <1>0, <1>2, StepRightsShrink, ShrunkRights
  <1>3. CASE ~\E o \in Calls : TakeCompletion(o) \/ Join(o) \/ AbortCompletion(o)
    <2>1. ASSUME NEW o \in Calls, Step(o)
          PROVE  taken' = taken /\ admitted' = admitted /\ lost' = lost /\ late' = late
      <3>1. CASE Cut(o) \/ LoadApproval(o) \/ SaveApproval(o) \/ LoadCompletion(o)
                 \/ LockUsers(o) \/ LockFederation(o) \/ FailJoin(o) \/ FinishCompletion(o)
        BY <3>1 DEF Cut, LoadApproval, SaveApproval, LoadCompletion, LockUsers, LockFederation,
                    FailJoin, FinishCompletion, redis, history
      <3>2. CASE OpenPage(o) \/ ReadRevision(o) \/ ReadMembers(o) \/ StartDeletion(o)
                 \/ ReadActor(o) \/ SetPrimary(o) \/ Remove(o) \/ RefuseChange(o) \/ DetachAndErase(o) \/ EraseAccount(o)
        BY <3>2 DEF OpenPage, ReadRevision, ReadMembers, StartDeletion, ReadActor, SetPrimary,
                    Remove, RefuseChange, DetachAndErase, EraseAccount, redis, history
      <3> QED
        BY <1>3, <2>1, <3>1, <3>2 DEF Step
    <2>2. ASSUME NEW q \in Requests, CreateDeviceRequest(q) \/ CreateInvite(q) \/ Claim(q)
          PROVE  taken' = taken /\ admitted' = admitted /\ lost' = lost /\ late' = late
      BY <2>2 DEF CreateDeviceRequest, CreateInvite, Claim, history
    <2>3. ASSUME NEW q \in Requests, Expire(q)
          PROVE  /\ requests'[r].state # "expired" => (r \in taken' <=> r \in taken)
                 /\ admitted' = admitted /\ lost' = lost /\ late' = late
      <3>1. requests'[q].state = "expired"
        BY <1>0, <2>3 DEF Expire, TypeOK, NoRequest
      <3> QED
        BY <2>3, <3>1 DEF Expire, history
    <2>4. CASE UNCHANGED vars
      BY <1>2, <1>3, <2>4 DEF vars, redis, history
    <2> QED
      BY <1>2, <1>3, <2>1, <2>2, <2>3, <2>4 DEF Next
  <1> QED
    BY <1>1, <1>3

-----------------------------------------------------------------------------
(* Types.                                                                  *)
LEMMA NextRows ==
    ASSUME Inductive, [Next]_vars
    PROVE  federations' \in [Federations -> Federation]
  <1>1. CASE \E o \in Calls : Join(o)
    BY <1>1, JoinMoves
  <1>2. CASE ~\E o \in Calls : Join(o)
    BY <1>2, NextRowsMove DEF RowsMove
  <1> QED
    BY <1>1, <1>2

LEMMA NextTypeOK ==
    ASSUME Inductive, [Next]_vars
    PROVE  TypeOK'
  <1>0. TypeOK /\ MaxCalls \in Nat
    BY FederationAssumption DEF Inductive
  <1>1. /\ federations' \in [Federations -> Federation]
        /\ requests' \in [Requests -> Request] /\ calls' \in [Calls -> Call]
    BY <1>0, NextRows, NextRequestsMove, NextMoves DEF RequestsMove, OneCallMoves, TypeOK
  <1> DEFINE Rest == /\ accounts' \in SUBSET Accounts /\ taken' \in SUBSET Requests
                     /\ begun' \in 0..MaxCalls /\ born' \in SUBSET Accounts
                     /\ admitted' \in [Requests -> Nat] /\ lost' \in [Requests -> Nat]
                     /\ late' \in [Requests -> Nat] /\ shrunk' \in SUBSET Federations
  <1>2. ASSUME NEW o \in Calls,
               \/ Cut(o) \/ LoadApproval(o) \/ SaveApproval(o) \/ LoadCompletion(o)
               \/ LockFederation(o) \/ FailJoin(o) \/ FinishCompletion(o) \/ OpenPage(o)
               \/ ReadRevision(o) \/ ReadMembers(o) \/ StartDeletion(o) \/ ReadActor(o) \/ SetPrimary(o) \/ Remove(o) \/ RefuseChange(o)
        PROVE  Rest
    <2>1. /\ accounts' = accounts /\ taken' = taken /\ born' = born /\ admitted' = admitted
          /\ lost' = lost /\ late' = late /\ shrunk' = shrunk
      BY <1>2 DEF Cut, LoadApproval, SaveApproval, LoadCompletion, LockFederation, FailJoin,
                  FinishCompletion, OpenPage, ReadRevision, ReadMembers, StartDeletion, ReadActor, SetPrimary, Remove,
                  RefuseChange, redis, history
    <2>2. \/ begun' = begun
          \/ begun < MaxCalls /\ begun' = begun + 1
      BY <1>2 DEF Cut, LoadApproval, SaveApproval, LoadCompletion, LockFederation, FailJoin,
                  FinishCompletion, OpenPage, ReadRevision, ReadMembers, StartDeletion, ReadActor, SetPrimary, Remove,
                  RefuseChange, Start, Go, End, Update
    <2>3. begun' \in 0..MaxCalls
      BY <1>0, <2>2 DEF TypeOK
    <2> QED
      BY <1>0, <2>1, <2>3 DEF TypeOK
  <1>3. ASSUME NEW o \in Calls,
               \/ TakeCompletion(o) \/ LockUsers(o) \/ Join(o) \/ AbortCompletion(o)
               \/ DetachAndErase(o) \/ EraseAccount(o)
        PROVE  Rest
    <2>1. begun' = begun
      BY <1>3 DEF TakeCompletion, LockUsers, Join, AbortCompletion, DetachAndErase, EraseAccount,
                  Go, End, Update
    <2>2. calls[o].request \in Requests
      BY <1>0, CallTypes
    <2>3. CASE TakeCompletion(o)
      BY <1>0, <2>1, <2>2, <2>3 DEF TakeCompletion, TypeOK
    <2>4. CASE LockUsers(o)
      BY <1>0, <2>1, <2>4 DEF LockUsers, TypeOK, redis
    <2>5. CASE Join(o)
      <3>1. calls[o].actor \in Accounts
        BY <2>5, JoinMoves
      <3> QED
        BY <1>0, <2>1, <2>2, <2>5, <3>1 DEF Join, TypeOK, redis
    <2>6. CASE AbortCompletion(o)
      BY <1>0, <2>1, <2>6 DEF AbortCompletion, TypeOK, history
    <2>7. CASE DetachAndErase(o)
      BY <1>0, <2>1, <2>7 DEF DetachAndErase, TypeOK, redis, history
    <2>8. CASE EraseAccount(o)
      <3>1. PICK f \in Federations \cup {NoFederation} : f = MembershipOf(calls[o].actor)
        BY Membership
      <3>2. /\ accounts' = accounts \ {calls[o].actor}
            /\ \/ shrunk' = shrunk
               \/ f \in Federations /\ shrunk' = shrunk \cup {f}
        BY <2>8, <3>1 DEF EraseAccount
      <3> QED
        BY <1>0, <2>1, <2>8, <3>2 DEF EraseAccount, TypeOK, redis
    <2> QED
      BY <1>3, <2>3, <2>4, <2>5, <2>6, <2>7, <2>8
  <1>4. ASSUME NEW r \in Requests,
               CreateDeviceRequest(r) \/ CreateInvite(r) \/ Claim(r) \/ Expire(r)
        PROVE  Rest
    BY <1>0, <1>4 DEF CreateDeviceRequest, CreateInvite, Claim, Expire, TypeOK, history
  <1>5. ASSUME UNCHANGED vars PROVE Rest
    BY <1>0, <1>5 DEF vars, redis, history, TypeOK
  <1> HIDE DEF Rest
  <1>6. Rest
    BY <1>2, <1>3, <1>4, <1>5 DEF Next, Step
  <1> QED
    BY <1>1, <1>6 DEF TypeOK, Rest

-----------------------------------------------------------------------------
(* The invariant holds at first and is kept.                               *)
LEMMA InitRows ==
    ASSUME Init
    PROVE  /\ federations \in [Federations -> Federation]
           /\ MembersAreApart /\ SubjectsAreApart /\ \A f \in Federations : WholeRow(f)
  <1>0. /\ accounts \in SUBSET Accounts /\ Unused \in Federation /\ Unused.state = "unused"
        /\ MaxMembers \in Nat /\ shrunk = {}
    BY Blank, FederationAssumption DEF Init
  <1>1. CASE federations = [f \in Federations |-> Unused]
    BY <1>0, <1>1 DEF MembersAreApart, SubjectsAreApart, WholeRow, IsOpen
  <1>2. CASE federations # [f \in Federations |-> Unused]
    <2>0. PICK f \in Federations, members \in SUBSET accounts :
            /\ IsFiniteSet(members) /\ Cardinality(members) \in 2..MaxMembers
            /\ \E subject \in accounts, primary \in members :
                 federations = [g \in Federations |-> IF g # f THEN Unused ELSE
                   [state |-> "open", subject |-> subject, primary |-> primary,
                    members |-> members, revision |-> InitialRevision]]
      BY <1>2 DEF Init
    <2>1. PICK subject \in accounts, primary \in members :
            /\ IsFiniteSet(members) /\ Cardinality(members) \in 2..MaxMembers
            /\ federations = [g \in Federations |-> IF g # f THEN Unused ELSE
                 [state |-> "open", subject |-> subject, primary |-> primary,
                  members |-> members, revision |-> InitialRevision]]
      BY <2>0
    <2> DEFINE j == [state |-> "open", subject |-> subject, primary |-> primary,
                     members |-> members, revision |-> InitialRevision]
    <2>2. /\ j \in Federation /\ j.state = "open" /\ j.members = members
          /\ j.primary = primary /\ j.revision = 4
      BY <1>0 DEF Federation, InitialRevision
    <2>3. federations = [g \in Federations |-> IF g # f THEN Unused ELSE j]
      BY <2>1
    <2> HIDE DEF j
    <2>4. federations[f] = j /\ \A g \in Federations : g # f => federations[g] = Unused
      BY <2>3
    <2>5. federations \in [Federations -> Federation]
      BY <1>0, <2>2, <2>3
    <2>6. MembersAreApart /\ SubjectsAreApart
      BY <1>0, <2>4 DEF MembersAreApart, SubjectsAreApart, IsOpen
    <2>7. ASSUME NEW g \in Federations PROVE WholeRow(g)
      <3>1. CASE g # f
        BY <1>0, <2>4, <3>1 DEF WholeRow, IsOpen
      <3>2. CASE g = f
        BY <1>0, <2>1, <2>2, <2>4, <3>2 DEF WholeRow, IsOpen, Members
      <3> QED
        BY <3>1, <3>2
    <2> QED
      BY <2>5, <2>6, <2>7
  <1> QED
    BY <1>1, <1>2

LEMMA InitInductive ==
    ASSUME Init
    PROVE  Inductive
  <1>1. TypeOK
    BY InitRows, Blank, FederationAssumption DEF Init, TypeOK
  <1>2. \A o \in Calls : calls[o] = NoCall
    BY DEF Init
  <1>3. \A o \in Calls : KindsAt(o) /\ SeenPage(o)
    BY <1>2, Blank DEF KindsAt, SeenPage, Changes
  <1>4. FoundersAreFree /\ UsersHeldOnce /\ HeldOnce /\ HeldIsOpen
    BY <1>2, Blank
       DEF FoundersAreFree, Joining, UsersHeldOnce, HeldUsers, HeldOnce, Holds, HeldIsOpen
  <1>5. RequestsAreNamed
    BY Blank DEF Init, RequestsAreNamed
  <1>6. ASSUME NEW r \in Requests PROVE CountedRights(r)
    <2>1. Rights(r) = {} /\ Admitting(r) = {}
      BY <1>2, Blank DEF Rights, Admitting
    <2>2. IsFiniteSet(Admitting(r)) /\ Cardinality(Admitting(r)) = 0
      BY <2>1, FS_EmptySet
    <2>3. admitted[r] = 0 /\ lost[r] = 0 /\ late[r] = 0
      BY DEF Init
    <2> QED
      BY <2>1, <2>2, <2>3 DEF CountedRights
  <1> QED
    BY <1>1, <1>3, <1>4, <1>5, <1>6, InitRows DEF Inductive

LEMMA NextInductive ==
    ASSUME Inductive, [Next]_vars
    PROVE  Inductive'
  <1>1. TypeOK' /\ RequestsAreNamed'
    BY NextTypeOK, NextNamed
  <1>2. MembersAreApart' /\ SubjectsAreApart' /\ FoundersAreFree' /\ UsersHeldOnce'
        /\ HeldOnce' /\ HeldIsOpen'
    BY NextApart, NextFounders, NextHeldOnce, NextHeldIsOpen
  <1>3. (\A f \in Federations : WholeRow(f))'
    BY NextWhole
  <1>4. (\A o \in Calls : KindsAt(o) /\ SeenPage(o))'
    BY NextKinds, NextSeen
  <1>5. (\A r \in Requests : CountedRights(r))'
    BY NextCounted
  <1> QED
    BY <1>1, <1>2, <1>3, <1>4, <1>5 DEF Inductive

-----------------------------------------------------------------------------
(* What follows from it.                                                   *)
LEMMA CountedAdmissions ==
    ASSUME Inductive
    PROVE  OneAccountPerRequest
  <1>1. ASSUME NEW r \in Requests PROVE admitted[r] <= 1 + lost[r] + late[r]
    <2>1. CountedRights(r) /\ TypeOK
      BY DEF Inductive
    <2>2. Cardinality(Admitting(r)) \in Nat
      BY <2>1, FS_CardinalityType DEF CountedRights
    <2> QED
      BY <2>1, <2>2, CountTypes DEF CountedRights
  <1> QED
    BY <1>1 DEF OneAccountPerRequest

LEMMA SettledNumbers ==
    ASSUME Inductive
    PROVE  NumberIsSettled
  <1>1. ASSUME NEW a \in accounts PROVE SubjectOf(SubjectOf(a)) = SubjectOf(a)
    <2>1. PICK f \in Federations \cup {NoFederation} : f = MembershipOf(a)
      BY Membership
    <2>2. CASE f = NoFederation
      BY <2>1, <2>2 DEF SubjectOf
    <2>3. CASE f # NoFederation
      <3>1. f \in Federations /\ IsOpen(f)
        BY <2>1, <2>3, Membership
      <3>2. PICK s : s = federations[f].subject
        OBVIOUS
      <3>3. SubjectOf(a) = s
        BY <2>1, <2>3, <3>2 DEF SubjectOf
      <3>4. PICK g \in Federations \cup {NoFederation} : g = MembershipOf(s)
        BY Membership
      <3>5. g # NoFederation => g = f
        BY <3>1, <3>2, <3>4, Membership DEF Inductive, SubjectsAreApart
      <3>6. SubjectOf(s) = s
        BY <2>3, <3>2, <3>4, <3>5 DEF SubjectOf
      <3> QED
        BY <3>3, <3>6
    <2> QED
      BY <2>2, <2>3
  <1> QED
    BY <1>1 DEF NumberIsSettled

LEMMA ChangesAsSeen ==
    ASSUME Inductive, NEW o \in Calls, SetPrimary(o) \/ Remove(o),
           calls[o].federation = calls[o].page.federation, calls[o].federation \notin shrunk
    PROVE  /\ federations[calls[o].federation].members = calls[o].page.members
           /\ calls[o].page.began = calls[o].page.revision =>
                federations[calls[o].federation].primary = calls[o].page.primary
  <1>1. /\ TypeOK /\ KindsAt(o) /\ SeenPage(o) /\ HeldIsOpen
        /\ calls[o].kind \in {"set_primary", "remove"} /\ calls[o].at = "write"
        /\ IsRevisionSeen(calls[o])
    BY DEF Inductive, SetPrimary, Remove, MayRemove
  <1>2. calls[o].federation \in Federations /\ calls[o].federation # NoFederation
    BY <1>1, CallTypes DEF KindsAt, Changes
  <1>3. IsOpen(calls[o].federation)
    BY <1>1, <1>2 DEF HeldIsOpen
  <1>4. federations[calls[o].federation].revision = calls[o].page.revision
    BY <1>1 DEF IsRevisionSeen
  <1> QED
    BY <1>1, <1>2, <1>3, <1>4 DEF SeenPage, Known, IsOpen

-----------------------------------------------------------------------------
(* Theorems.                                                               *)

(* In every reachable state no two federations share a member or a number, *)
(* the rows calls hold are as they read them, and the rights to complete a *)
(* request are counted.                                                    *)
THEOREM SpecInductive == Spec => []Inductive
  <1>1. Init => Inductive
    BY InitInductive
  <1>2. Inductive /\ [Next]_vars => Inductive'
    BY NextInductive
  <1> QED
    BY <1>1, <1>2, PTL DEF Spec

(* Accounts, federations, requests, calls and counters keep their types.   *)
THEOREM TypeCorrect == Spec => []TypeOK
  <1>1. Inductive => TypeOK
    BY DEF Inductive
  <1> QED
    BY <1>1, SpecInductive, PTL

(* A request admits one account (the completion key of join-request.ts),   *)
(* but for joins whose commit was reported as failed and completions that  *)
(* took their right after the request had run out: one more for each.      *)
THEOREM RequestsAdmitOnce == Spec => []OneAccountPerRequest
  <1>1. Inductive => OneAccountPerRequest
    BY CountedAdmissions
  <1> QED
    BY <1>1, SpecInductive, PTL

(* The number a service knows an account by resolves to itself             *)
(* (subject.ts): nobody whose id is the number of a federation ever joins  *)
(* another, whatever joins, departures and deletions overlap.              *)
THEOREM NumbersAreSettled == Spec => []NumberIsSettled
  <1>1. Inductive => NumberIsSettled
    BY SettledNumbers
  <1> QED
    BY <1>1, SpecInductive, PTL

(* An open federation has its primary among its members, at most           *)
(* MaxMembers of them, and two at least unless a deletion took one unseen  *)
(* (federation/store.ts).                                                  *)
THEOREM FederationsAreWhole == Spec => []FederationIsWhole
  <1>1. Inductive => FederationIsWhole
    BY DEF Inductive, WholeRow, FederationIsWhole, Members
  <1> QED
    BY <1>1, SpecInductive, PTL

(* A member changes the primary or removes a member only of a federation   *)
(* whose members are those the page showed (expectedRevision of            *)
(* federation/store.ts): the revision is read before the members, and an   *)
(* equal one stands for equal members.  The primary was read before it,    *)
(* and is the one shown unless the federation changed in between.          *)
THEOREM PagesAreCurrent == Spec => ChangedAsSeen
  <1>1. Inductive /\ [Next]_vars =>
          [\A o \in Calls :
             LET f == calls[o].federation
                 page == calls[o].page IN
             (SetPrimary(o) \/ Remove(o)) /\ f = page.federation /\ f \notin shrunk
             => /\ federations[f].members = page.members
                /\ page.began = page.revision => federations[f].primary = page.primary]_vars
    BY ChangesAsSeen
  <1> QED
    BY <1>1, SpecInductive, PTL DEF Spec, ChangedAsSeen
=============================================================================
