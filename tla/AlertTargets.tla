---------------------------- MODULE AlertTargets ----------------------------
(***************************************************************************)
(* Where the security alerts of one user go: the table login_alert_targets *)
(* (server/src/notify/alert-targets.ts), the links to Discord and Google   *)
(* it depends on (http/oauth-handler.ts, http/auth-handler.ts) and the     *)
(* recipients that recordSecurityEvent copies from it.                     *)
(*                                                                         *)
(* A request runs statement by statement under READ COMMITTED: it reads    *)
(* what is committed and waits for row locks.  The locks follow from the   *)
(* step a request has reached, so no variable holds them: SELECT ... FOR   *)
(* UPDATE of the user's row, the key-share lock that inserting a security  *)
(* event takes on that row through its foreign key, and the lock of an     *)
(* updated target.  A step that would only wait is disabled; Postgres      *)
(* breaks a deadlock by failing one of the transactions (Fail).            *)
(***************************************************************************)
EXTENDS Naturals, Sequences, FiniteSets

CONSTANTS
    Channels,      \* AlertChannel: discord, google
    Addresses,     \* accounts of those services the user may link
    Unlinked,      \* the column discord_id or google_verified_email is NULL
    Requests,      \* requests the server works on at the same time
    NoRequest,     \* a slot that works on none
    MaxEntries,    \* VERIFICATION_MAX_ATTEMPTS: codes entered for one row
    MaxTargets,    \* bound: rows ever inserted
    MaxWrong       \* bound: wrong codes compared with one row

ASSUME TargetsAssumption ==
    /\ Unlinked \notin Addresses
    /\ MaxEntries \in Nat \ {0}
    /\ MaxTargets \in Nat /\ MaxWrong \in Nat

VARIABLES
    linked,    \* the linked address of each channel, a column of users
    targets,   \* the rows of login_alert_targets, in the order of insertion
    request,   \* what each request is about to do
    events,    \* the committed alert_target events with their recipients
    received   \* the rows whose confirmation code reached its address

targetVars == <<linked, targets, request, events, received>>

-----------------------------------------------------------------------------
\* `open`: the digest is there and has not expired.  `removal` is "no" while
\* removedAt is null and otherwise tells who set it first: a start that
\* replaced the row, a start whose message could not be sent, or a removal
\* that had read the row unverified or verified.  `wrong` is history: the
\* wrong codes that were compared with this row.
Target == [channel : Channels, address : Addresses, open : BOOLEAN,
           attempts : Nat, verified : BOOLEAN,
           removal : {"no", "replaced", "unreachable", "unverified", "verified"},
           wrong : Nat]

Destination == Channels \X Addresses

Event == [kind : {"added", "removed"}, target : Nat, to : SUBSET Destination]

\* A code is named by the row it was drawn for; Wrong matches no row.
Wrong == 0

Request ==
         [at : {"start", "replace"}, channel : Channels, address : Addresses]
    \cup [at : {"insert"}, channel : Channels, address : Addresses, target : Nat]
    \cup [at : {"send", "undo"}, target : Nat]
    \cup [at : {"verify", "check"}, channel : Channels, code : Nat]
    \cup [at : {"announce", "mark", "unlink"}, channel : Channels, target : Nat,
          verified : BOOLEAN, unlinks : BOOLEAN, to : SUBSET Destination]

TargetsTypeOK ==
    /\ linked \in [Channels -> Addresses \cup {Unlinked}]
    /\ targets \in Seq(Target)
    /\ request \in [Requests -> Request \cup {NoRequest}]
    /\ events \subseteq Event
    /\ received \subseteq 1 .. Len(targets)

TargetsInit ==
    /\ linked = [c \in Channels |-> Unlinked]
    /\ targets = <<>>
    /\ request = [p \in Requests |-> NoRequest]
    /\ events = {}
    /\ received = {}

-----------------------------------------------------------------------------
Ids == 1 .. Len(targets)

Live(c) == {i \in Ids : targets[i].channel = c /\ targets[i].removal = "no"}

DestinationOf(i) == <<targets[i].channel, targets[i].address>>

\* The addresses that recordSecurityEvent copies into the outbox.
Recipients ==
    {DestinationOf(i) : i \in {j \in Ids :
        targets[j].verified /\ targets[j].removal = "no"}}

At(p, steps) == request[p] # NoRequest /\ request[p].at \in steps

\* The row of users, locked by a transaction of another request.
HoldsUser(q) == At(q, {"replace", "insert", "check"})
SharesUser(q) == At(q, {"mark", "unlink"}) /\ request[q].verified

\* Faulty variant: the row of users is not selected FOR UPDATE.
MayLockUserAlways(p) == TRUE

MayLockUser(p) == \A q \in Requests \ {p} : ~HoldsUser(q) /\ ~SharesUser(q)
MayShareUser(p) == \A q \in Requests \ {p} : ~HoldsUser(q)

\* A start that has selected the row for update, an unlink that has updated it.
MayLockTarget(p, i) ==
    \A q \in Requests \ {p} : ~(At(q, {"insert", "unlink"}) /\ request[q].target = i)

Begin(p, r) == request[p] = NoRequest /\ request' = [request EXCEPT ![p] = r]
Goto(p, step) == request' = [request EXCEPT ![p].at = step]
Done(p) == request' = [request EXCEPT ![p] = NoRequest]

\* removedAt is set again on a row that has one; `removal` keeps the first.
Removed(rows, i, how) ==
    [rows EXCEPT ![i].removal = IF @ = "no" THEN how ELSE @]

-----------------------------------------------------------------------------
(* Linking an account: one UPDATE of users, which waits for its row.  An   *)
(* address that is linked already may be replaced by another.              *)

LinkAccount(c, a) ==
    /\ \A q \in Requests : ~HoldsUser(q) /\ ~SharesUser(q)
    /\ linked' = [linked EXCEPT ![c] = a]
    /\ UNCHANGED <<targets, request, events, received>>

-----------------------------------------------------------------------------
(* startAlertTarget                                                        *)

\* linkedAddress, read outside the transaction.
ReadLink(p, c) ==
    /\ linked[c] # Unlinked
    /\ Begin(p, [at |-> "start", channel |-> c, address |-> linked[c]])
    /\ UNCHANGED <<linked, targets, events, received>>

\* SELECT the user FOR UPDATE, here and in verifyAlertTarget.
LockUser(p) ==
    /\ At(p, {"start", "verify"})
    /\ MayLockUser(p)
    /\ Goto(p, IF request[p].at = "start" THEN "replace" ELSE "check")
    /\ UNCHANGED <<linked, targets, events, received>>

\* Select the channel's row FOR UPDATE; 0 if there is none.
SelectTarget(p) ==
    /\ At(p, {"replace"})
    /\ \E i \in IF Live(request[p].channel) = {} THEN {0} ELSE Live(request[p].channel) :
        /\ i # 0 =>
            /\ MayLockTarget(p, i)
            /\ ~(targets[i].verified /\ targets[i].address = request[p].address)
        /\ request' = [request EXCEPT ![p] =
               [at |-> "insert", channel |-> @.channel, address |-> @.address,
                target |-> i]]
    /\ UNCHANGED <<linked, targets, events, received>>

\* Remove the row that was there, insert the new one and commit.
InsertTarget(p) ==
    /\ At(p, {"insert"})
    /\ Len(targets) < MaxTargets
    /\ LET r == request[p]
           new == [channel |-> r.channel, address |-> r.address, open |-> TRUE,
                   attempts |-> 0, verified |-> FALSE, removal |-> "no", wrong |-> 0]
       IN  targets' = Append(IF r.target = 0 THEN targets
                             ELSE Removed(targets, r.target, "replaced"), new)
    /\ request' = [request EXCEPT ![p] = [at |-> "send", target |-> Len(targets) + 1]]
    /\ UNCHANGED <<linked, events, received>>

\* The message arrives or not, and the call reports success or not; only a
\* message that did not arrive cannot be reported as sent.
SendCode(p) ==
    /\ At(p, {"send"})
    /\ \/ received' = received \cup {request[p].target} /\ Done(p)
       \/ received' = received \cup {request[p].target} /\ Goto(p, "undo")
       \/ received' = received /\ Goto(p, "undo")
    /\ UNCHANGED <<linked, targets, events>>

\* The catch block: the update names the row's id only.
RemoveUnreachable(p) ==
    /\ At(p, {"undo"})
    /\ MayLockTarget(p, request[p].target)
    /\ targets' = Removed(targets, request[p].target, "unreachable")
    /\ Done(p)
    /\ UNCHANGED <<linked, events, received>>

-----------------------------------------------------------------------------
(* verifyAlertTarget                                                       *)

SubmitCode(p, c, code) ==
    /\ Begin(p, [at |-> "verify", channel |-> c, code |-> code])
    /\ UNCHANGED <<linked, targets, events, received>>

\* Faulty variant: the digest does not cover the row's id, and a code sent
\* for an earlier row is taken as well.
MatchesOwnOrEarlier(code, i) == code # Wrong /\ code <= i

Matches(code, i) == code = i

Usable(i) ==
    ~targets[i].verified /\ targets[i].open /\ targets[i].attempts < MaxEntries

\* verificationAttempts is raised and then the error that follows rolls the
\* transaction back.
WrongCode(i) == [targets EXCEPT ![i].wrong = @ + 1]

\* Select the channel's row FOR UPDATE and compare.  The event is recorded
\* before the row is verified: its recipients are those of before.
CheckCode(p) ==
    /\ At(p, {"check"})
    /\ \E i \in Live(request[p].channel) :
        /\ MayLockTarget(p, i)
        /\ Usable(i)
        /\ \/ /\ Matches(request[p].code, i)
              /\ events' = events \cup
                     {[kind |-> "added", target |-> i, to |-> Recipients]}
              /\ targets' = [targets EXCEPT ![i].verified = TRUE, ![i].open = FALSE]
           \/ /\ ~Matches(request[p].code, i)
              /\ targets[i].wrong < MaxWrong
              /\ targets' = WrongCode(i)
              /\ UNCHANGED events
    /\ Done(p)
    /\ UNCHANGED <<linked, received>>

-----------------------------------------------------------------------------
(* removeAlertTarget, of the command "remove" and of unlink                *)

\* Select the row, without a lock.  With no row the command is done and unlink
\* goes on.
ReadTarget(p, c, unlinks) ==
    /\ unlinks \/ Live(c) # {}
    /\ \E i \in IF Live(c) = {} THEN {0} ELSE Live(c) :
        LET verified == i # 0 /\ targets[i].verified
            step == IF i = 0 THEN "unlink" ELSE IF verified THEN "announce" ELSE "mark"
        IN  Begin(p, [at |-> step, channel |-> c, target |-> i,
                      verified |-> verified, unlinks |-> unlinks, to |-> {}])
    /\ UNCHANGED <<linked, targets, events, received>>

\* Faulty variant: the event is recorded once the row is removed.
AnnounceAfterRemoval(p) ==
    /\ At(p, {"announce"})
    /\ MayShareUser(p)
    /\ request' = [request EXCEPT ![p].at = "mark",
                                   ![p].to = Recipients \ {DestinationOf(request[p].target)}]
    /\ UNCHANGED <<linked, targets, events, received>>

\* recordSecurityEvent: the insert waits for the row of users.
AnnounceRemoval(p) ==
    /\ At(p, {"announce"})
    /\ MayShareUser(p)
    /\ request' = [request EXCEPT ![p].at = "mark", ![p].to = Recipients]
    /\ UNCHANGED <<linked, targets, events, received>>

EventsOf(r) ==
    IF r.verified THEN {[kind |-> "removed", target |-> r.target, to |-> r.to]} ELSE {}

HowOf(r) == IF r.verified THEN "verified" ELSE "unverified"

\* Set removedAt by the row's id.  The command commits; unlink keeps the row
\* locked and goes on.
MarkRemoved(p) ==
    /\ At(p, {"mark"})
    /\ MayLockTarget(p, request[p].target)
    /\ IF request[p].unlinks
       THEN Goto(p, "unlink") /\ UNCHANGED <<targets, events>>
       ELSE /\ targets' = Removed(targets, request[p].target, HowOf(request[p]))
            /\ events' = events \cup EventsOf(request[p])
            /\ Done(p)
    /\ UNCHANGED <<linked, received>>

\* unlink clears the columns of users, which have a unique index and so need
\* the whole row, and commits.
UnlinkAccount(p) ==
    /\ At(p, {"unlink"})
    /\ MayLockUser(p)
    /\ LET r == request[p]
       IN  /\ linked' = [linked EXCEPT ![r.channel] = Unlinked]
           /\ targets' = IF r.target = 0 THEN targets
                         ELSE Removed(targets, r.target, HowOf(r))
           /\ events' = events \cup EventsOf(r)
    /\ Done(p)
    /\ UNCHANGED received

-----------------------------------------------------------------------------
\* A check fails, a statement or the process does, or the transaction is the
\* victim of a deadlock.  What is committed stays, and a message may be out.
Fail(p) ==
    /\ request[p] # NoRequest
    /\ Done(p)
    /\ IF request[p].at = "send"
       THEN received' \in {received, received \cup {request[p].target}}
       ELSE UNCHANGED received
    /\ UNCHANGED <<linked, targets, events>>

\* VERIFICATION_TTL_MS goes by; on a removed row nobody can tell.
CodeExpires(i) ==
    /\ targets[i].open /\ targets[i].removal = "no"
    /\ targets' = [targets EXCEPT ![i].open = FALSE]
    /\ UNCHANGED <<linked, request, events, received>>

TargetsNext ==
    \/ \E c \in Channels, a \in Addresses : LinkAccount(c, a)
    \/ \E p \in Requests, c \in Channels :
        \/ ReadLink(p, c)
        \/ \E code \in received \cup {Wrong} : SubmitCode(p, c, code)
        \/ \E unlinks \in BOOLEAN : ReadTarget(p, c, unlinks)
    \/ \E p \in Requests :
        \/ LockUser(p) \/ SelectTarget(p) \/ InsertTarget(p) \/ SendCode(p)
        \/ RemoveUnreachable(p) \/ CheckCode(p)
        \/ AnnounceRemoval(p) \/ MarkRemoved(p) \/ UnlinkAccount(p) \/ Fail(p)
    \/ \E i \in Ids : CodeExpires(i)

TargetsSpec == TargetsInit /\ [][TargetsNext]_targetVars

-----------------------------------------------------------------------------
(* Properties *)

\* A channel has at most one row that is not removed: concurrent starts never
\* run into the unique index uq_login_alert_targets_active.
OneLiveTarget ==
    \A i, j \in Ids :
        /\ targets[i].removal = "no" /\ targets[j].removal = "no"
        /\ targets[i].channel = targets[j].channel
        => i = j

\* No event is addressed to a place where no code ever arrived, whatever is
\* linked, replaced or removed meanwhile: the code of a row that was replaced
\* does not confirm the row that replaced it.
AlertsGoToConfirmedAddresses ==
    \A e \in events : \A d \in e.to : \E i \in received : DestinationOf(i) = d

\* A row that is removed by its owner's command or with its link, and that was
\* read as verified, was told so: some removal event went to its address.
ConfirmedRemovalIsAnnounced ==
    \A i \in Ids : targets[i].removal = "verified" =>
        \E e \in events :
            e.kind = "removed" /\ e.target = i /\ DestinationOf(i) \in e.to

\* VERIFICATION_MAX_ATTEMPTS: a code is not compared with more wrong entries
\* than that.
WrongCodesAreLimited == \A i \in Ids : targets[i].wrong <= MaxEntries
=============================================================================
