# Cernere: a TLA+ verification project

Cernere is a personal-data and authentication server (TypeScript, PostgreSQL,
Redis, uWebSockets). It signs people in with passkeys, issues user, tool and
project tokens, lets an administrator admit or lock accounts, federates the
accounts of one person, acts as an OpenID provider and sends security alerts.
This directory holds TLA+ models of its state machines, TLC configurations that
check them on small instances, and TLAPS proofs of what matters most.

## 1. Inventory

| component | state | operations | interacts with | what is hard |
|---|---|---|---|---|
| user sessions (`http/auth-handler.ts`, `auth/jwt.ts`, `auth/user-session-state.ts`) | `refresh_sessions`, `users.auth_epoch`, `users.mfa_revision`, JWTs in clients' hands | refresh, logout, verify, issue | every login and revocation path | refresh is six statements without a transaction; revocations run between them |
| access review (`auth/user-access.ts`, `auth/admin-bootstrap.ts`) | `users.access_status`, `access_revision`, `registration_requests`, `access_decisions` | apply, withdraw, approve, reject, lock, unlock, bootstrap admin, delete an account, digest | sessions, devices, recovery, outbox | decisions on a page loaded earlier; withdraw takes no lock; the time of the last digest is lost by a restart |
| device credentials (`auth/device-credential.ts`, `auth/device-rotation.ts`, `http/device-handler.ts`, `frontend/src/lib/browser-refresh.ts`) | `device_credentials`, the browser's cookie, rotation ids in sessionStorage | issue, rotate (keep / rotate / replay / conflict), revoke, log out | sessions, recovery, browser tabs | lost responses, retries and concurrent tabs inside a 30 s grace window |
| passkeys and recovery (`http/passkey-handler.ts`, `auth/recovery-*.ts`, `auth/passkey-candidates.ts`, `auth/registration-grant.ts`, `auth/device-pairing.ts`) | `passkeys`, `passkey_candidates`, `recovery_requests`, `user_recovery_codes`, `device_pairings`, `registration_grants`, ceremonies in Redis | register, delete, issue a code, recover, cancel, freeze, confirm, pair, approve, reject, grant | sessions, devices, admins | several paths to a key that race a waiting period and one another |
| notification outbox (`notify/outbox-worker.ts`) | `notification_outbox` leases, attempts | lease, deliver, retry, fail | every security event | leases that run out, crashes after sending |
| alert targets (`notify/alert-targets.ts`, `notify/security-events.ts`) | `login_alert_targets`, the links in `users` | start, verify, remove, link, unlink, record an event | outbox, OAuth handlers | reads outside the transactions that use them |
| federation (`federation/*.ts`) | join requests and completion keys in Redis, `account_federations`, `account_federation_members` | create, claim, approve, complete, set primary, remove, leave, delete an account | signup, access status, the numbers services know | records written back whole; joins, removals and deletions that overlap |
| user WebSocket (`ws/handler.ts`, `ws/session-registry.ts`, `redis.ts`) | sessions and user state in Redis, in-memory registry, guest slots, timers | open, message, promote, relay, close | commands, sessions | callbacks interleaved with awaits; close during an await |
| composite ticket (`ws/composite-auth.ts`, `auth/auth-session.ts`) | ticket state in Redis, device challenge | device, verify code, resend, finish | auth codes | read-modify-write of the ticket |
| project credentials and connections (`project/launch-credentials.ts`, `ws/project-handler.ts`, `ws/project-registry.ts`) | `managed_projects`, launch credentials, a registry per process, timers | launch, rotate, switch off and on, log in, upgrade, open, command, close | project service | upgrades and commands that race a launch; a registry that knows its own process only |
| project data (`project/service.ts`, `project/schema-migrator.ts`, `project/user-data-cache.ts`) | definitions and their history, a table per project, opt-outs, deposited OAuth tokens, cached pages | register, update, deactivate, opt out, read, write and erase columns, store and delete a token | consent, project commands | reads, and writes that follow from them, without a transaction; DDL apart from the definition |
| OIDC provider (`oidc/*.ts`, `auth/oidc-keys.ts`) | authorization requests, codes, access tokens, signing keys | authorize, approve, exchange, rotate key | sessions, consent | single use, concurrent key creation |
| consent, face consent, venue and on-site checks, composite grants and uploads, signup fields, enterprise, workload | rows and short-lived Redis records | | | mostly validation; candidates for later modules |
| client packages and frontend | token caches, reconnecting sockets | | | retry and refresh concurrency |

What makes each of the modelled components correct:

* **user sessions** - a revocation is final whatever is in flight; a role or a
  set of factors cannot be carried across a change; a reused token ends the
  sessions; a token is exchanged once.
* **access review** - an active administrator remains, unless the account of the
  last one is deleted; a decision applies to the state that was reviewed; a
  request waits no longer than its account does, and administrators hear of it.
* **device credentials** - a client that lost a response can retry; two tabs
  never lock each other out; a revoked or re-keyed device never comes back.
* **passkeys and recovery** - one key always remains; one recovery is open at
  most; a refused key never becomes one; after a full recovery nothing from
  before it works.
* **outbox** - a due alert is eventually delivered or failed; a message is
  repeated, and a row contended, only after a lost success or a lapsed lease.
* **alert targets** - an alert goes to an address its owner confirmed and still
  has linked; the old address hears of every removal.
* **federation** - one account per approved request; a number that stands for
  one person whoever leaves; a primary that is a member; changes that apply to
  the members, and to the primary, that the page showed.
* **user WebSocket** - slots that match the guests, relays in their order, one
  command per proof, no live session treated as expired.
* **project credentials** - a replaced credential opens nothing and runs
  nothing, on any process.
* **project data** - an opt-out holds against what is in flight; nothing an
  administrator or the user took away comes back with an older read.

PROJECT.json lists the hazards line by line.

## 2. Plan

Modules in order of importance; each is written with its parameters as
CONSTANTS and without RECURSIVE operators, so that it can be proved about.

1. `SessionAuthority` and `UserSessions`, `UserSessions_proofs`: done
2. `NotificationOutbox`, and 3. `AlertTargets`, both with `Alerts_proofs`: done
4. `DeviceSessions`, `DeviceSessions_proofs`: done
5. `AccessReview`, `AccessReview_proofs`: done
6. `PasskeyRecovery`, `PasskeyRecovery_proofs`: done
7. `UserSockets`, and 8. `ProjectCredentials`, both with `Sockets_proofs`: done
9. `ProjectData`, `ProjectData_proofs`: done
10. `Federation`, `Federation_proofs`: done
11. `CompositeAuth`, `OidcProvider`, the consent modules, client packages

The modules meet where one relies on what another promises. `AlertTargets`
hands its events to `NotificationOutbox`; `AccessReview` and `PasskeyRecovery`
end sessions and devices by the revocations of `UserSessions` and the end of a
device in `DeviceSessions`; `UserSockets` takes from both that a session may be
revoked at any time; the deletion of `Federation` is one of an account.

## 3. What is modelled

### UserSessions

The state is the `users` rows as far as sessions depend on them (status, role,
`auth_epoch`, `mfa_revision`), the `refresh_sessions` rows, the access tokens
handed out (a set: a JWT cannot be taken back) and one record per request in
flight. A refresh is the sequence SelectRow, LoadUser, BuildClaims,
AssertCurrent, MarkRotated, StoreSession, one action per database statement of
`refresh`, `generateTokenPair` and `generateAccessToken`; a login enters it at
BuildClaims after VerifyPasskey, the transaction under the user's lock.
Whatever the code runs in one transaction under that lock (Signup,
DecideAccess, GrantAdminRole, RevokeEverywhere, ChangeFactor) is one action.
Fail lets a request stop between any two steps; Reject is the 401 of a check.

`history` and the `born` field are history variables: they count revocations,
factor changes and detected reuses, and no action reads them. They let the
properties compare a credential with the login it descends from. Device-bound
sessions are left to DeviceSessions: `deviceId` is absent from every token here.

Abstracted: hashing of tokens, JWT signatures (a token is its claims), the
fifteen-minute lifetime of access tokens (tokens never expire here, which only
makes the properties harder to satisfy), and tokens without an `authEpoch`
claim issued before the migration that introduced it.

### SessionAuthority

The promise without tokens or requests: users live through eras, sessions are
admitted only in their present era, and a revocation withdraws all those of one
user. `UserSessions` implements it with `era` mapped to the number of
revocations and `honoured` to the credentials that would be accepted now.

### NotificationOutbox

The rows of `notification_outbox`, and for each server process the rest of the
batch that `leaseDue` returned and the result it is about to write. One action
per database statement: Lease, WriteDelivered, MarkDegraded, WriteFailure; one
for a delivery, whose outcome is chosen. WriteDeliveredFails and DrainAborts
are the same statements throwing, in the try and in the catch block. LeaseLapses
and BackoffEnds are the passing of time. A batch is a set, because the order of
`UPDATE ... RETURNING` is not specified. The result writes name the row's id
only, as in the code, and that is what makes the module interesting: a process
whose lease ran out clears the lease of the next holder.

`sent`, `lost` and `lapses` are history variables that no action but the bound
of LeaseLapses reads. Left out: the choice of recipients, message texts, the
length of the backoff, and the order by next_attempt_at (any due rows may be
taken, which includes it).

### AlertTargets

The links of one user, the rows of `login_alert_targets`, the requests in
progress and the `alert_target` events with the recipients copied into them. A
request is a program counter with what it has read: a start is ReadLink,
LockUser, SelectTarget, InsertTarget, SendCode and, when sending fails,
RemoveUnreachable; a verification is SubmitCode and CheckCode (one transaction
under both row locks); a removal is ReadTarget, AnnounceRemoval, MarkRemoved;
UnlinkAccount enters the removal and clears the link in the same transaction.
Row locks are not variables. They follow from the steps (`HoldsUser`,
`MayLockUser`, `MayShareUser`, `MayLockTarget`), the key-share lock taken by
inserting an event through its foreign key included, and a transaction that
Postgres ends for a deadlock is Fail.

`received`, `removal` and `wrong` are history. Left out: the digest (a code is
named by the row it was drawn for), the `degraded` mark, which only the view
reads, and the OAuth exchange that ends in LinkAccount.

### DeviceSessions

One browser: its tabs with their sessionStorage and the call each waits for,
the cookie they share, and the rows of `device_credentials` the browser got.
Refresh is `deviceRefresh` up to the fetch, under `navigator.locks` where
WebLocks says there are any; Serve is the transaction of `rotateDeviceSession`
with the outcome of `decideRotation` (Rotates, Replies, Conflicts); Answer is
the signing of the access token after the commit; Receive is the response with
its Set-Cookie. GiveUp is the timeout of the fetch: a call not yet served
becomes a stray one that the server may still serve (ServeStray). Logout is
SendLogout, ServeLogout, EndLogout.

A secret is (device, generation, rotation id), as `deriveNextSecret` makes it.
Of time the model has one flag per device, `grace`, for both windows of 30 s,
which begin together (`lastRotatedAt`, `previousValidUntil`). GraceEnds waits
for the calls that were under way at the rotation: the client ends a call after
10 s, so it ends before the grace does. `live` stands for everything
else that ends a device: revocation, expiry, epoch, factor revision, passkey. A tab has
one call at a time; a logout beside a refresh is a second tab here. A login
and its response are one step. `issued` and `lost` are history.

### AccessReview

The rows of `users` (role, status, revision), the registration requests, the
audit, the entry each administrator's page shows, the decision whose
transaction is open (`deciding`, which stands for the rows it holds) and the
digest. DecideRead is the transaction of `decideAccess` up to its reads, under
both locks; DecideWrite is the rest; DecideFails ends it. Withdraw takes no
lock and may fall between the two, as in the code. GrantAdminRole is the
operator's appointment.

EraseAccount is the deletion of an account, by its owner, by an administrator
or from the list of those who left (`edge-offboarding.ts`). It waits for the rows
a decision holds, takes the requests and the audit lines of the account with it
and leaves the lines it was the actor of. Its guard has no status, since it was
authorised when it was asked for, and no count of administrators, since the code
has none. An account that cannot be deleted (it owns organizations) is one whose
EraseAccount does not happen.

An application that commits after the digest has begun may carry an earlier
time than it (`applying`). `digest.fresh` is what was created since
`lastDigestAt`, a variable of the process. DigestFails is a query that throws;
Restart is the end of the process, at any moment, and its next start: open
transactions are rolled back, and what was fresh is so no longer. A digest that
finds nobody active as an administrator tells nobody. There is one such process.
`told` and `missed` in a request are history, and the statuses an account went
through are kept in `trail`.

### PasskeyRecovery

One account: a credential is a row of `passkeys`, a row of
`passkey_candidates`, or neither, and each candidate has a request, a pairing
or a grant behind it. Handlers that hold the row of the user are one action.
Registration is not: the challenge, the verified credential, the insert and the
deletion of the challenge are RegisterBegin, RegisterVerify, RegisterInsert and
RegisterDone. So are a code whose issue is authorised before its transaction
(IssueAuthorise, IssueCommit), a recovery begun as a ceremony in Redis, and
RejectPairing, which holds the pairing alone. `history` has the epoch of the
last full recovery and at which each row was committed.

### UserSockets

One process. A handler runs until it awaits: `task` is what a socket's handler
waits for, `expiring` the close handlers that have yet to write the state of
the user, `outgoing` the chain of deliveries of a socket. Promote, Close and
Reconnect change the registry and the slots as the handlers do between two
awaits, and Revoke ends a session at any time. A command is its checks and the
use of its proof, not what it then does. The slots are the map and the counter
that the code keeps apart (`bySource`, `count`); that they agree is for the
property to say. `received` and `spent` are history.

### ProjectCredentials

The row of a managed project, its launch credentials, the requests for one and
the sockets of services, on several processes. BeginLaunch takes the lock
and reads; CommitLaunch writes; CloseOlder closes what the
registry of this process knows. Upgrade, Open, Ask, CheckCommand and RunCommand
are the two halves of each check that awaits the database. Crash ends a
process with its sockets and registry. `era` (history) is the set of secrets
the row has had since the last launch.

### ProjectData

What one project keeps about one user. Each operation is cut where the code
awaits: Update, Migrate (statement by statement), Save, ReadVersion, LogVersion
and ScanCache are one update of a definition; OptOut to ForgetToken one opt-out;
Access, CheckModule and WriteValues one write; Access, ReadValues and Answer one
read; StoreToken and PutToken one deposit. Cut ends a call at any of these
points, for an error as for a stop of the process. A call keeps what it read in
its record. `granted`, `retired` and `behind` are history, and so are the modules
a call found not opted out at some time (`allowed`).

### Federation

Join requests are records in Redis that handlers read, change and write back
whole: LoadApproval and SaveApproval, LoadCompletion and FinishCompletion. The
token of a request, spent by its first reader, makes Claim one action.
TakeCompletion is the SETNX of the completion key, AbortCompletion its deletion.
A join is LockUsers, LockFederation, Join: what is held is derived from the
place of a call (HeldUsers, Holds), and the foreign keys of the security events
written to each member are the condition UsersAreFree. A change by a member
starts from a page, which `describeFederation` reads in three statements that
others may come between: the membership with the primary (OpenPage), the
revision (ReadRevision), the members (ReadMembers). It then reads the membership
(ReadActor), waits for the row of the federation and decides. A deletion reads
the same way and erases the account in the same transaction; one that read "no
membership" takes its member row along by the cascade of the foreign key. Cut
ends a call anywhere. `born`, `admitted`, `lost`, `late`, `shrunk` and the page
in a call are history, but for the federation and the revision of a page.

## 4. Runs

| run | bounds | shows |
|---|---|---|
| `sessions` | 1 user, 2 requests, 2 tokens, 2 revocations, 2 factor changes, 1 reuse | RevocationIsFinal, FactorChangeEndsPasskeySessions, RoleIsFixedAtLogin, refinement of SessionAuthority |
| `access` | 2 accounts, 2 requests, 3 decisions per account, 2 of them while digests run | AnAdministratorRemains, DecidedAsReviewed, AuditExplainsStatus, RequestsAwaitReview, NoRequestIsOverlooked |
| `recovery` | 3 credentials, 2 codes, 2 ceremonies, 1 pairing, 1 grant, 1 epoch, one complication at a time | AKeyRemains, OneOpenRequest, NothingFromBeforeRecovery, NoKeyFromARefusedRequest |
| `sockets` | 3 connections, 2 sessions, 2 addresses, 1 slot, 1 proof, 2 relays | SlotsMatchGuests, RelayedInOrder, ProofRunsOneCommand |
| `sockets_state` | the same | contradicts a statement of the repository (below) |
| `project_credentials` | 2 processes, 2 launches, 2 requests, 2 replacements, 1 connection | SupersededSecretsAreCutOff, NoCommandOfAnOlderGeneration, OlderSocketsEnd |
| `project_data` | 2 columns (one in a module), 2 calls at once, 2 in all that keep something between two steps | ServedValueWasAllowed, GrantIsAsSet, NoColumnForgotten, DeclaredColumnsExist, DeletedTokenStaysDeleted |
| `federation` | 4 accounts, 1 request, 2 federations, at most 3 members, 2 calls beside approvals | OneAccountPerRequest, NumberIsSettled, FederationIsWhole, ChangedAsSeen |
| `outbox` | 2 rows (1 Discord), 2 processes, MAX_ATTEMPTS 2, BATCH 2, 1 overrun per row, 1 failed statement or crash | AttemptsBounded, DuplicatesHaveACause, ContentionNeedsALapse, GivenUpForCause, AlertsSettle under FairSpec |
| `targets_safety` | 1 channel, 2 addresses, 2 requests, MAX_ATTEMPTS 1, 2 rows, 1 wrong code per row | OneLiveTarget, AlertsGoToConfirmedAddresses, ConfirmedRemovalIsAnnounced |
| `targets_codes` | the same, 2 wrong codes | contradicts a statement of the repository (below) |
| `device_sessions` | 2 tabs, 2 devices, 2 rotation ids, Web Locks | OneSecretPerGeneration, LockoutHasACause, ConflictHasACause, DeadSecretsStayDead |

Every module states a type invariant, TypeOK (TargetsTypeOK and SocketsTypeOK
where a proof module extends two). The proofs establish it for all ten detailed
modules; it is not among the properties listed for the runs.

Nothing in UserSessions relates two users (every query is by the user's or the
token's id), so one user suffices for TLC, and the theorems hold for any number.
Two requests in flight give every pairwise race; two tokens give a login and its
refresh; two revocations give lock and unlock. Tokens and workers are interchangeable;
the refinement mapping counts them alike. No liveness is stated of this module: a request may always fail, and
a client need not come back.

In the outbox two processes give every race for one row, MAX_ATTEMPTS 2 has an
attempt that is retried and one that is not, and a batch of two shows rows that
wait behind another. The theorems cover all sizes. FairSpec assumes that a worker polls,
that a delivery returns (fetch and the mail client time out by themselves),
that a statement the process has reached is executed or throws, and that clocks
go on; it does not assume that a lease outlives its batch. Crashes and failed
statements are bounded, without which a row could be interrupted for ever.
Deadlock is not checked there: with every alert settled the workers rest.

AlertTargets has one user, whose rows are the only ones its queries read. The
channels do not meet except as recipients of each other's events, so one is
enough for the races; two addresses give a re-link, two requests every pairwise
race, two rows a target and its replacement. Requests and addresses are
interchangeable. Deadlock is not checked: with the rows used up and nothing
open the user may rest.

In AccessReview two accounts suffice for mutual locks, and a third would only
watch: a decision reads its administrator and its target. Revision 3 leaves room
for an approval, a lock and an unlock, or for decisions that overtake a page.
Digests read statuses and change none, so they meet what happens up to revision 2
only (the constraint DigestOrDecisions): an administrator who is appointed and
locked, or who decides on a request that a digest is about to count.

In PasskeyRecovery three credentials are two keys and a candidate, or a key and
two candidates. The constraint OneOtherWay lets one of five complications (a
registration, a pairing, a grant, a second ceremony, a second code) meet the
recoveries, deletions and locks at a time; two complications at once are not
checked. One epoch is one full recovery, which is what the properties speak of.

In UserSockets one slot is where a limit first bites, for an address and in
all; three connections are a socket, its successor under the same session id,
and another that competes for the slot or hears the relays; two relays can
overtake each other. In ProjectCredentials connections do not depend on each
other, so one is enough, while the two processes differ in what their registry
knows; two launches give a generation to be overtaken, two requests the race for
one launch id. No symmetry is used there, for the liveness property.

In ProjectData a column in a module and one outside show every mask and every
loss. The definition and the row share only the set of columns: the constraint
OneConcern lets calls of one concern overlap (two updates; an update and a page;
an opt-out and a deposit; an opt-out and the calls on columns; an opt-out, a
write and a page). A run starts with a grant and with a row that is absent or
full.

In Federation four accounts fill a federation of three and ask for one more;
with two, the request makes the others. Approvals are unlimited, and two other
calls are made, at once or in sequence: two completions of one request, a
completion and a change or deletion, or two of those. Three completions of one
request, and a join between two departures, do not occur. One wrong number locks
here (three do in the code); approvals read no federation, so pages and
deletions do not overlap with them (InPhases). Founders that are still members
are taken as primaries in the initial states.

In DeviceSessions two tabs are a race and a turn, two rotation ids are a
rotation and a second one that outdates the first secret for good, by the same
tab or the other; the second device is a later login of the same browser. Tabs,
devices and ids are interchangeable. Deadlock is not checked: a signed-out
browser without devices left has nothing to do. No liveness is stated of
AlertTargets and DeviceSessions, since a user need not act and a response may
always be lost. In ProjectCredentials OlderSocketsEnd assumes that time goes on
(Expire), that the timer of the process fires (ExpiryTimer) and that the close
handler of a closed socket runs (HandleClose), and nothing of clients, launches
or other processes. In the runs that do not check deadlock the clients may
rest once the bounds are used up.

### Findings

* `LiveSocketIsServed`: a client that reconnects with its session id before its
  earlier socket is closed loses its registration when that socket closes; the
  user is marked expired, and the live socket's commands are refused, which a
  comment of the handler says must not happen.
* `WrongCodesAreLimited`: the counter of wrong codes is rolled back by the
  error that reports the wrong code.

What the passing properties leave room for is worth knowing too:

* sessions: two refreshes of one token may both succeed, and a request past
  its checks stores its token after reuse was detected.
  FactorChangeEndsPasskeySessions excepts sessions that began at signup, which
  carry no evidence and may outlive a factor change in flight;
* outbox: a batch of up to 20 rows is leased for a minute and delivered in
  sequence; a slow delivery lets the leases of the rest run out, and another
  process delivers the same rows;
* alert targets: unlink selects the target without a lock, and a start that
  overlaps it leaves a target for an account that is no longer linked; a
  verified row that a start replaces goes without an event; re-linking leaves
  the target of the old account;
* devices: LockoutHasACause and ConflictHasACause need Web Locks, without which
  a late response puts an older secret back; a 401 clears the cookie by name,
  that of a newer login too; a logout with a secret that outlived its grace
  clears the cookie and leaves the device live;
* access: RequestsAwaitReview excepts the operator's appointment, which closes
  no request. AnAdministratorRemains excepts the deletion of the last active
  administrator, who may have locked the others before: nothing checks for it.
  NoRequestIsOverlooked excepts what a failed digest was to report, what was new
  when the process was restarted (a comment of the digest says that it counts
  what came since the last one, but after a restart it counts from the start),
  what was reported while nobody was active as an administrator, and a row the
  digest overtook; a later request makes a digest count them all;
* project credentials: replacing the secret by hand raises no generation, so
  tokens of the replaced secret live until they expire;
* project data: two opt-outs that overlap lose values one of them had saved; two
  updates may log the same version twice or out of order; a reactivation saves
  the definition before its DDL; a page read before a write may be cached after;
* federation: the right to complete a request is given back when the answer to
  the commit is lost, and ends with the record, so a completion that read the
  record in time may come after another; a join waits for the row of the
  federation with an approver who may have been removed meanwhile; a deletion
  that read "no membership" leaves a federation of one. ChangedAsSeen excepts the
  primary of a page whose federation changed while it was loading: such a page
  may show the former primary with the new revision, and a change sent from it is
  accepted. Its members are read after the revision, and only the cascade of such
  a deletion changes them unseen.

## 5. Proofs

`UserSessions_proofs` proves, for every value of the constants that satisfies
the named assumptions of `UserSessions`:

* `TypeCorrect`: the type invariant;
* `RevocationFinal`, `RoleFixed`: from the inductive invariant
  `SessionInvariant`. RevocationIsFinal itself is not inductive: it says nothing of
  requests in flight. The strengthening says of every row, access token and
  request that its birth era is its epoch, that the epoch has begun, and that
  the user's role is unchanged while the epoch lasts;
* `PasskeySessionsEnd`: from `FactorInvariant`, which relates the evidence of
  a credential to the factor changes its login saw;
* `SessionsImplementAuthority`: the refinement, with `StepWithdraws`,
  `StepAdmits` and `StepRevokes` for the three kinds of step.

The first half of `Alerts_proofs` proves TypeCorrect, AttemptsAreBounded,
DuplicatesAreExplained, ContentionIsExplained and RowsAreGivenUpForCause under
OutboxAssumption and NoItemIsNoResult. The invariant is a ledger over the sets
of processes that hold a row (`Holders`, `Early`, `Undelivered`): every holder
is paid for by a lapsed lease or by the running one, every attempt beyond the
limit by a lapsed lease that no failure write below the limit has used, every
message by a lost success, a lapsed lease, or the write that settles the row.
None of the properties is inductive without it, since a late failure write
frees a row that somebody else still holds. There is one lemma per action.
AlertsSettle is model-checked only (liveness).

The second half proves TargetTypes, TargetsAreOne, RecipientsConfirmed and
RemovalsAnnounced, for any channels, addresses, requests and bounds (they need
nothing of TargetsAssumption). None of the three properties is inductive: they speak of rows and
events, and what makes them true is what a request has read. `HoldersAreAlone`
is the lock of the user's row, derived from the steps and not from a variable.
From it follows `StartKnows`: between its select and its insert, the row a start
read is the only live one of its channel. `VerifiedAreReceived` and `CheckKnows`
say that a code that is entered arrived or is wrong, and `RemovalKnows` that a
removal that read its row verified has, once the event is recorded, the address
of that row among the recipients. A verification may commit between the read
of a removal and its write; the removal then ends without an event, and
`removal = "unverified"` keeps it apart, as in the property.

`DeviceSessions_proofs` proves TypeCorrect, OneSecret and DeadSecrets, under
DeviceAssumption, NoSecretIsNone and NoCallIsNone (the nulls are no secret and
no call), with and without Web Locks. `StepKinds` sorts every step by what it
does to the rows: it leaves their secrets alone, rotates one, or begins a
device. `Lineage` is the strengthening: no issued secret is newer than the
current one of its device, and the current one is the only one of its
generation. TypeOK alone is not inductive, because a replay answers with the
current secret: `RotatedHasSecret` says that a row in its grace has one.

LockoutsAreExplained and ConflictsAreExplained hold with Web Locks alone, which
is their hypothesis (two tabs without them do lock each other out), and follow
from `TurnsInvariant`: one tab refreshes at a time, with the current secret of
its device and answered with the current one, and a cookie that is behind is the
previous secret, with the answer that replaces it on its way and the grace not
over. What breaks this is a response that is lost, and each clause has that way
out. The properties say nothing of a response under way, so neither is
inductive.

`AccessReview_proofs` proves the types and all five properties under
ReviewAssumption (the null is no request and no row). AdministratorsRemain rests
on `RowsAreHeld`: an open decision found its administrator active and its
account as the page showed it, still finds them so when it writes, and no other
decision holds either row. It is an action property, since a deletion may end
the last administrator; a deletion waits for held rows, so that of one whose
decision is open comes after it (AdministratorsStay). AuditIsComplete is proved
without counting, from `StepsAreExplained`: at each revision there is one line
or an appointment, and it leads from the status before to the one after.
RequestsAwait needs `RequestsAreRead`, since a decision reads the request of its
account without a lock: what it read is the only one that may be open, or was
withdrawn. DigestsKnow relates what a digest holds to the requests there are;
each cause named in RequestsAreAnnounced is the step that takes a request out of
it.

`PasskeyRecovery_proofs` proves the types and all four properties under
RecoveryAssumption, for any keys, codes, pairings and grants. KeysRemain counts
the keys, so the invariant says that they are finitely many. OneRequestIsOpen
and the recovery with a code need `OneOfEach` (one open request, one active
code); CleanSlateIsKept needs `RecoveryIsPast` (the last full recovery is not
after the present epoch); RefusedKeysStayOut needs `CandidatesHaveOneOwner`: a
candidate has a request or a pairing behind it, not both, and its row is where
the state of its owner says.

`Federation_proofs` proves the types and all four properties under
FederationAssumption, for any accounts, requests and calls. The invariant has
four parts. `MembersAreApart`, `SubjectsAreApart` and `WholeRow` describe the
rows. `FoundersAreFree`, `UsersHeldOnce`, `HeldOnce` and `HeldIsOpen` are the
lock discipline: a join that found no federation of its approver founds one
while it still holds the approver's row. `CountedRights` is the ledger of the
completion key: accounts admitted and calls that may still admit one are
together no more than one and the commits reported as failed and the completions
taken late. `SeenPage` dates what a page shows, which ChangedAsSeen needs, an
action property: while the revision is the one with which the page began, the
primary is the one it shows, and while it is the one the page read, the members
are (`Known`, by how far the page has been read). A federation one of whose
members was deleted by a call that had read "no membership" (`shrunk`) is
excepted where the property excepts it.

The first half of `Sockets_proofs` proves CredentialTypes, LaunchCutsOff and
CommandsAreCurrent under CredentialAssumption. The invariant is Inductive:
LockedReadIsFresh (a request that holds the lock is the only one, and the
generation it read is still the one of the row), TokensAreDated (a token's
generation is none that has not begun, and a token of the present generation
has a secret of the present era) and CommandsAreDated (a command was asked at a
generation that has begun). The properties alone are not inductive, since they
say nothing of requests between their read and their write. `ManyMove` and the
lemmas before it sort the steps of connections by what they do to sockets.
OlderSocketsEnd is liveness and model-checked only.

The second half proves SocketTypes, SlotsAreRight, RelaysKeepOrder and
ProofsRunOnce under SocketAssumption, for any sockets, sessions, proofs and
limits. The property on slots compares counters with the number of open guests;
`SlotsAreCounted` takes the sockets that hold a slot instead, and `GuestsHold`
says that these are the open guests, whichever of a promotion and a close came
first. With both, the slot a socket gives back is counted, so the early return
of `release` is never taken for it. `DeliveriesAreQueued` joins what a socket
received and what it has yet to receive into one queue in the order of the
relays, none later than the last. `ProofsAreSpent` says that a proof that is
not spent has run nothing. LiveSocketIsServed is the property the code violates.

`ProjectData_proofs` proves all five properties and the types under
DataAssumption, for any columns, modules and number of calls. `StepShape` sorts
every step by what it does to the record of a call: it ends, begins or moves
on, and the others stay. On it rest the strengthenings: `Ready` (what a call is
about to declare is in the table) for DeclaredColumnsExist; `Watched` and
`Looked` (what a call takes for not opted out was so at some time during the
call) for ServedValueWasAllowed; `TokenInv` for DeletedTokenStaysDeleted, which
says of each deposit about to write that the fields it carries are those of the
row it will find, or that it will find another row, and of two deposits that
their numbers differ. GrantIsAsSet and NoColumnForgotten follow from what Save
compares before it writes.

What stays with TLC: the liveness properties AlertsSettle and OlderSocketsEnd,
and the two runs that end in a violation. Every safety property of a passing
run is a theorem.

## 6. Not modelled

The components with status `not_modelled` in PROJECT.json say why: some are
planned (section 2), some have no state that a protocol depends on (validation,
SQL generation, user interface, data definition, tooling). Within the modelled
components these are left out:

* what a command does once its checks passed, and the vault to which a new
  project secret is delivered, a system outside the repository;
* deadlocks between transactions: Postgres ends one of them, which is a failure
  the models contain; a start and an unlink of an alert target, and a join and a
  removal in a federation, can meet in this way;
* a delivery of the outbox that never returns, which would stop its process's
  worker for good, and one that takes the process down each time;
* sign-in and sign-up with a passkey up to what they issue, decoys and rate
  limits; the queries over many users and the sharing between projects; the
  access rules of a federation's members;
* the deletion of an account outside AccessReview and Federation: elsewhere it
  removes the rows of the account by the cascades of the schema;
* revocations inside the transaction of a decision or a recovery, which are in
  the module of what they revoke.
