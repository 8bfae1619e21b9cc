--------------------------- MODULE UserSessions ---------------------------
(***************************************************************************)
(* The sessions of the Cernere user API: the refresh_sessions table, the   *)
(* user access tokens (JWT) derived from it, and the operations that end   *)
(* them.                                                                   *)
(*                                                                         *)
(* A request handler runs as a sequence of database statements, and the    *)
(* requests of several clients interleave between them: each worker is one *)
(* request in flight.  The operations the code runs in one transaction     *)
(* under the lock of the user's row are single actions.                    *)
(*                                                                         *)
(* The credentials of a user are tied to two counters of the users row:    *)
(* auth_epoch, advanced by every account-wide revocation, and              *)
(* mfa_revision, advanced by every change of an authentication factor.     *)
(* Sessions bound to a device credential are the subject of DeviceSessions.*)
(***************************************************************************)
EXTENDS Naturals, FiniteSets

CONSTANTS
    Users,        \* user ids
    Workers,      \* requests that may be in flight at once
    Tokens,       \* refresh tokens (random UUIDs, each minted once)
    NoRow,        \* an absent refresh_sessions row
    NoEvidence,   \* a session without authentication evidence (passkey signup)
    MaxEpoch,     \* bound on auth_epoch
    MaxRevision,  \* bound on mfa_revision
    MaxReuse      \* bound on the number of detected reuses of a user

ASSUME BoundsAreNaturals ==
    /\ MaxEpoch \in Nat
    /\ MaxRevision \in Nat
    /\ MaxReuse \in Nat

ASSUME NoEvidenceIsNoRevision == NoEvidence \notin Nat

ASSUME LoginIsNoToken == "login" \notin Tokens

Roles    == {"general", "admin"}
Statuses == {"pending", "active", "locked"}

(***************************************************************************)
(* What a session remembers of the login it descends from.  It is history, *)
(* carried along the refreshes of the session and read by no action: how   *)
(* many account-wide revocations (era) and factor changes (factors) the    *)
(* user had seen, and the user's role.                                     *)
(***************************************************************************)
Births == [era : Nat, factors : Nat, role : Roles]

RefreshRows == [user : Users, epoch : Nat, evidence : Nat \cup {NoEvidence},
                rotated : BOOLEAN, expired : BOOLEAN, born : Births]

Claims == [user : Users, role : Roles, epoch : Nat, revision : Nat,
           evidence : Nat \cup {NoEvidence}, born : Births]

VARIABLES
    users,    \* the users rows; "absent" before the signup
    rows,     \* refresh_sessions by token
    minted,   \* the tokens that have been drawn
    access,   \* the user access tokens handed out
    requests, \* the requests in flight
    history   \* per user: revocations, factor changes and reuses so far

vars == <<users, rows, minted, access, requests, history>>

-----------------------------------------------------------------------------
Idle == [step |-> "idle"]

Accounts == [status : Statuses \cup {"absent"}, role : Roles,
             epoch : 0 .. MaxEpoch, revision : 0 .. MaxRevision]

\* The steps of a refresh are those of a login ("claims" and on) preceded by
\* the look-up of the token and of its user.
Requests == [step : {"reuse", "user", "claims", "assert", "rotate", "store"},
             token : Tokens \cup {"login"}, user : Users, role : Roles,
             epoch : Nat, evidence : Nat \cup {NoEvidence}, revision : Nat,
             born : Births]

TypeOK ==
    /\ users \in [Users -> Accounts]
    /\ rows \in [Tokens -> RefreshRows \cup {NoRow}]
    /\ minted \subseteq Tokens
    /\ access \subseteq Claims
    /\ requests \in [Workers -> Requests \cup {Idle}]
    /\ history \in [Users -> [era : Nat, factors : Nat, reuses : 0 .. MaxReuse]]

Init ==
    /\ users = [u \in Users |-> [status |-> "absent", role |-> "general",
                                 epoch |-> 0, revision |-> 0]]
    /\ rows = [t \in Tokens |-> NoRow]
    /\ minted = {}
    /\ access = {}
    /\ requests = [w \in Workers |-> Idle]
    /\ history = [u \in Users |-> [era |-> 0, factors |-> 0, reuses |-> 0]]

-----------------------------------------------------------------------------
(* The checks of a credential against the present user row.                *)

Exists(u) == users[u].status # "absent"
Open(u)   == users[u].status \notin {"absent", "locked"}

EvidenceHolds(u, evidence) ==
    evidence = NoEvidence \/ evidence = users[u].revision

\* Whether an access token passes verification (a token with no deviceId).
Current(c) ==
    /\ Open(c.user)
    /\ c.epoch = users[c.user].epoch
    /\ c.role = users[c.user].role
    /\ c.revision = users[c.user].revision
    /\ EvidenceHolds(c.user, c.evidence)

\* Whether a refresh token would be redeemed if it were presented now and
\* nothing else happened.
Redeemable(t) ==
    /\ rows[t] # NoRow
    /\ ~rows[t].rotated
    /\ ~rows[t].expired
    /\ Open(rows[t].user)
    /\ rows[t].epoch = users[rows[t].user].epoch
    /\ EvidenceHolds(rows[t].user, rows[t].evidence)

BornNow(u) == [era |-> history[u].era, factors |-> history[u].factors,
               role |-> users[u].role]

ClaimsOf(r) == [user |-> r.user, role |-> r.role, epoch |-> r.epoch,
                revision |-> r.revision, evidence |-> r.evidence,
                born |-> r.born]

\* Faulty variants: the insert takes the epoch, or the evidence, the user has
\* now instead of the one that was checked, or forgets the evidence.
RowOfPresentEpoch(r) ==
    [user |-> r.user, epoch |-> users[r.user].epoch, evidence |-> r.evidence,
     rotated |-> FALSE, expired |-> FALSE, born |-> r.born]

RowOfPresentRevision(r) ==
    [user |-> r.user, epoch |-> r.epoch, evidence |-> users[r.user].revision,
     rotated |-> FALSE, expired |-> FALSE, born |-> r.born]

RowOf(r) == [user |-> r.user, epoch |-> r.epoch, evidence |-> r.evidence,
             rotated |-> FALSE, expired |-> FALSE, born |-> r.born]

WithoutRowsOf(u) ==
    [t \in Tokens |-> IF rows[t] # NoRow /\ rows[t].user = u THEN NoRow ELSE rows[t]]

Goto(w, r) == requests' = [requests EXCEPT ![w] = r]

-----------------------------------------------------------------------------
(* The refresh request.                                                    *)

\* The row is read by the hash of the token; a missing or an expired row ends
\* the request with a 401, which changes nothing.
SelectRow(w, t) ==
    /\ requests[w] = Idle
    /\ rows[t] # NoRow
    /\ \/ rows[t].rotated /\ history[rows[t].user].reuses < MaxReuse
       \/ ~rows[t].rotated /\ ~rows[t].expired
    /\ Goto(w, [step |-> IF rows[t].rotated THEN "reuse" ELSE "user",
                token |-> t, user |-> rows[t].user, role |-> "general",
                epoch |-> rows[t].epoch, evidence |-> rows[t].evidence,
                revision |-> 0, born |-> rows[t].born])
    /\ UNCHANGED <<users, rows, minted, access, history>>

\* A rotated token was presented again: every row of the user is deleted.
RevokeReused(w) ==
    /\ requests[w].step = "reuse"
    /\ LET u == requests[w].user IN
       /\ history[u].reuses < MaxReuse
       /\ rows' = WithoutRowsOf(u)
       /\ history' = [history EXCEPT ![u].reuses = @ + 1]
    /\ Goto(w, Idle)
    /\ UNCHANGED <<users, minted, access>>

LoadUser(w) ==
    /\ requests[w].step = "user"
    /\ LET r == requests[w] IN
       /\ Exists(r.user)
       /\ r.epoch = users[r.user].epoch
       /\ EvidenceHolds(r.user, r.evidence)
       /\ Goto(w, [r EXCEPT !.step = "claims", !.role = users[r.user].role])
    /\ UNCHANGED <<users, rows, minted, access, history>>

\* generateTokenPair and generateAccessToken read the user's row again; the
\* claims take the revision it has now.
BuildClaims(w) ==
    /\ requests[w].step = "claims"
    /\ LET r == requests[w] IN
       /\ Open(r.user)
       /\ r.role = users[r.user].role
       /\ r.epoch = users[r.user].epoch
       /\ Goto(w, [r EXCEPT !.step = "assert", !.revision = users[r.user].revision])
    /\ UNCHANGED <<users, rows, minted, access, history>>

AssertCurrent(w) ==
    /\ requests[w].step = "assert"
    /\ LET r == requests[w] IN
       /\ Current(ClaimsOf(r))
       /\ Goto(w, [r EXCEPT !.step = IF r.token = "login" THEN "store" ELSE "rotate"])
    /\ UNCHANGED <<users, rows, minted, access, history>>

\* The update is by id and looks at no other column: a row deleted since is
\* not missed, and one another request has rotated is rotated again.
MarkRotated(w) ==
    /\ requests[w].step = "rotate"
    /\ LET r == requests[w] IN
       /\ rows' = IF rows[r.token] = NoRow THEN rows
                  ELSE [rows EXCEPT ![r.token].rotated = TRUE]
       /\ Goto(w, [r EXCEPT !.step = "store"])
    /\ UNCHANGED <<users, minted, access, history>>

\* The new row is inserted and both tokens go to the client.
StoreSession(w, n) ==
    /\ requests[w].step = "store"
    /\ n \notin minted
    /\ LET r == requests[w] IN
       /\ rows' = [rows EXCEPT ![n] = RowOf(r)]
       /\ minted' = minted \cup {n}
       /\ access' = access \cup {ClaimsOf(r)}
    /\ Goto(w, Idle)
    /\ UNCHANGED <<users, history>>

\* A check of a request in flight fails: a 401, and nothing is written.
Reject(w) ==
    /\ LET r == requests[w] IN
       \/ r.step = "user" /\ (\/ ~Exists(r.user)
                              \/ r.epoch # users[r.user].epoch
                              \/ ~EvidenceHolds(r.user, r.evidence))
       \/ r.step = "claims" /\ (\/ ~Open(r.user)
                                \/ r.role # users[r.user].role
                                \/ r.epoch # users[r.user].epoch)
       \/ r.step = "assert" /\ ~Current(ClaimsOf(r))
    /\ Goto(w, Idle)
    /\ UNCHANGED <<users, rows, minted, access, history>>

\* The process stops, or a statement of the request fails, between two steps.
Fail(w) ==
    /\ requests[w] # Idle
    /\ Goto(w, Idle)
    /\ UNCHANGED <<users, rows, minted, access, history>>

-----------------------------------------------------------------------------
(* Signup, login and logout.                                               *)

\* The user, its first passkey and its first session, which carries no
\* authentication evidence, are written by one transaction.
Signup(u, n) ==
    /\ ~Exists(u)
    /\ n \notin minted
    /\ users' = [users EXCEPT ![u].status = "pending"]
    /\ LET r == [user |-> u, role |-> "general", epoch |-> 0, revision |-> 0,
                 evidence |-> NoEvidence, born |-> BornNow(u)]
       IN  /\ rows' = [rows EXCEPT ![n] = RowOf(r)]
           /\ access' = access \cup {ClaimsOf(r)}
    /\ minted' = minted \cup {n}
    /\ UNCHANGED <<requests, history>>

\* The transaction that accepts a passkey assertion hands the user's row, as
\* it is under its lock, to the steps that issue the session.  A locked user
\* passes here and is refused by BuildClaims.
VerifyPasskey(w, u) ==
    /\ requests[w] = Idle
    /\ Exists(u)
    /\ Goto(w, [step |-> "claims", token |-> "login", user |-> u,
                role |-> users[u].role, epoch |-> users[u].epoch,
                evidence |-> users[u].revision, revision |-> 0,
                born |-> BornNow(u)])
    /\ UNCHANGED <<users, rows, minted, access, history>>

Logout(t) ==
    /\ rows[t] # NoRow
    /\ rows' = [rows EXCEPT ![t] = NoRow]
    /\ UNCHANGED <<users, minted, access, requests, history>>

\* Thirty days pass.  Nobody asks whether a rotated row has expired: it is
\* taken for a reuse first.
ExpireRow(t) ==
    /\ rows[t] # NoRow
    /\ ~rows[t].rotated
    /\ ~rows[t].expired
    /\ rows' = [rows EXCEPT ![t].expired = TRUE]
    /\ UNCHANGED <<users, minted, access, requests, history>>

-----------------------------------------------------------------------------
(* Operations that end sessions, each one transaction under the user lock. *)

Transitions == {<<"pending", "active">>, <<"pending", "locked">>,
                <<"active", "locked">>, <<"locked", "active">>}

\* Faulty variant: the decision leaves auth_epoch alone.
DecideAccessKeepingEpoch(u, to) ==
    /\ <<users[u].status, to>> \in Transitions
    /\ history[u].era < MaxEpoch
    /\ users' = [users EXCEPT ![u].status = to]
    /\ rows' = IF to = "locked" THEN WithoutRowsOf(u) ELSE rows
    /\ history' = [history EXCEPT ![u].era = @ + 1]
    /\ UNCHANGED <<minted, access, requests>>

\* decideAccess; who may decide, and on what, is the subject of AccessReview.
DecideAccess(u, to) ==
    /\ <<users[u].status, to>> \in Transitions
    /\ users[u].epoch < MaxEpoch
    /\ users' = [users EXCEPT ![u].status = to, ![u].epoch = @ + 1]
    /\ rows' = IF to = "locked" THEN WithoutRowsOf(u) ELSE rows
    /\ history' = [history EXCEPT ![u].era = @ + 1]
    /\ UNCHANGED <<minted, access, requests>>

\* Faulty variant: the promotion leaves auth_epoch alone.
GrantAdminRoleKeepingEpoch(u) ==
    /\ Exists(u)
    /\ ~(users[u].role = "admin" /\ users[u].status = "active")
    /\ users' = [users EXCEPT ![u].role = "admin", ![u].status = "active"]
    /\ UNCHANGED <<rows, minted, access, requests, history>>

\* The grant of the admin role to a user by the operator's script.
GrantAdminRole(u) ==
    /\ Exists(u)
    /\ ~(users[u].role = "admin" /\ users[u].status = "active")
    /\ users[u].epoch < MaxEpoch
    /\ users' = [users EXCEPT ![u].role = "admin", ![u].status = "active",
                              ![u].epoch = @ + 1]
    /\ history' = [history EXCEPT ![u].era = @ + 1]
    /\ UNCHANGED <<rows, minted, access, requests>>

\* "Log out everywhere"; a completed recovery has the same effect on the
\* sessions of the user.
RevokeEverywhere(u) ==
    /\ Exists(u)
    /\ users[u].epoch < MaxEpoch
    /\ users[u].revision < MaxRevision
    /\ users' = [users EXCEPT ![u].epoch = @ + 1, ![u].revision = @ + 1]
    /\ rows' = WithoutRowsOf(u)
    /\ history' = [history EXCEPT ![u].era = @ + 1, ![u].factors = @ + 1]
    /\ UNCHANGED <<minted, access, requests>>

\* changeMfaFactor advances mfa_revision but not auth_epoch.
ChangeFactor(u) ==
    /\ Exists(u)
    /\ users[u].revision < MaxRevision
    /\ users' = [users EXCEPT ![u].revision = @ + 1]
    /\ rows' = WithoutRowsOf(u)
    /\ history' = [history EXCEPT ![u].factors = @ + 1]
    /\ UNCHANGED <<minted, access, requests>>

-----------------------------------------------------------------------------
RequestStep(w) ==
    \/ \E t \in Tokens : SelectRow(w, t)
    \/ RevokeReused(w)
    \/ LoadUser(w)
    \/ BuildClaims(w)
    \/ AssertCurrent(w)
    \/ MarkRotated(w)
    \/ \E n \in Tokens : StoreSession(w, n)
    \/ Reject(w)
    \/ Fail(w)
    \/ \E u \in Users : VerifyPasskey(w, u)

UserStep(u) ==
    \/ \E n \in Tokens : Signup(u, n)
    \/ \E to \in Statuses : DecideAccess(u, to)
    \/ GrantAdminRole(u)
    \/ RevokeEverywhere(u)
    \/ ChangeFactor(u)

Next ==
    \/ \E w \in Workers : RequestStep(w)
    \/ \E u \in Users : UserStep(u)
    \/ \E t \in Tokens : Logout(t) \/ ExpireRow(t)

Spec == Init /\ [][Next]_vars

-----------------------------------------------------------------------------
(* Properties.                                                             *)

\* A revocation of the whole account (a lock or any other access decision, a
\* promotion to admin, "log out everywhere") is final: no refresh token and no
\* access token that descends from a login before it is accepted again, not
\* even one that a request in flight stores after the revocation, and not
\* after the account is unlocked.
RevocationIsFinal ==
    /\ \A t \in Tokens : Redeemable(t) =>
           rows[t].born.era = history[rows[t].user].era
    /\ \A c \in access : Current(c) => c.born.era = history[c.user].era

\* A session begun by a passkey login does not outlive a change of the user's
\* authentication factors.
FactorChangeEndsPasskeySessions ==
    /\ \A t \in Tokens : Redeemable(t) /\ rows[t].evidence # NoEvidence =>
           rows[t].born.factors = history[rows[t].user].factors
    /\ \A c \in access : Current(c) /\ c.evidence # NoEvidence =>
           c.born.factors = history[c.user].factors

\* A session carries no role its user did not have when it began: a user made
\* admin has to sign in again to act as one, although every refresh copies the
\* user's present role into the new access token.
RoleIsFixedAtLogin ==
    \A c \in access : Current(c) => c.role = c.born.role

-----------------------------------------------------------------------------
(* The sessions that are honoured, by user and era.                        *)

HonouredSessions ==
    {<<rows[t].user, rows[t].born.era>> : t \in {x \in Tokens : Redeemable(x)}}
    \cup {<<c.user, c.born.era>> : c \in {x \in access : Current(x)}}

Authority == INSTANCE SessionAuthority
    WITH era <- [u \in Users |-> history[u].era], honoured <- HonouredSessions

\* Every step of the handlers admits a session of the user's present era,
\* withdraws sessions, or revokes all those of one user and starts an era.
ImplementsSessionAuthority == Authority!Spec
=============================================================================
