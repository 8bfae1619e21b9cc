-------------------------- MODULE PasskeyRecovery --------------------------
(***************************************************************************)
(* How the passkeys of an account come and go: registration by the owner,  *)
(* deletion, a second device paired by a QR code, recovery with a printed  *)
(* code after a wait, and recovery by an operator's grant.                 *)
(*                                                                         *)
(* Nearly every handler is one transaction that holds the row of the user, *)
(* and is one action here.  Those that are not show as several: a key that *)
(* is being registered is verified, inserted and only then is its          *)
(* challenge deleted, without the row of the user; a code that is being    *)
(* issued was authorised before its transaction; a recovery is begun by a  *)
(* ceremony in Redis.  Sessions and devices, which a recovery ends in the  *)
(* same transaction, are in UserSessions and DeviceSessions.               *)
(***************************************************************************)
EXTENDS Naturals, FiniteSets, Functions

CONSTANTS
    Keys,         \* credentials of authenticators
    Codes,        \* recovery codes
    Pairings,     \* device pairings
    Grants,       \* operator grants
    CeremonyIds,  \* ids of recovery ceremonies, used again once they were taken
    NoKey,        \* a pairing without a candidate
    MaxEpoch,     \* bound on users.auth_epoch
    MaxOperator,  \* bound on the revisions of the operator's account
    MaxMatch      \* PAIRING_MAX_MATCH_ATTEMPTS

ASSUME RecoveryAssumption ==
    /\ {MaxEpoch, MaxOperator, MaxMatch} \subseteq Nat
    /\ MaxMatch > 0 /\ NoKey \notin Keys

VARIABLES
    user,       \* users: auth_epoch, recovery_generation; whether a code needs no proof
    passkey,    \* per credential: its row in passkeys or in passkey_candidates
    challenge,  \* the registration challenge of the account is in Redis
    deletes,    \* registrations that have yet to delete the challenge
    code,       \* user_recovery_codes
    issuing,    \* issues that are authorised and not yet committed
    ceremonies, \* recoveries that were begun with a code: in Redis, taken once
    request,    \* recovery_requests, by the credential of the candidate
    pairing,    \* device_pairings
    grant,      \* registration_grants
    operator,   \* revision of the operator's account (role, epoch and factors)
    history     \* epochs: of the last full recovery, and at which rows were committed

vars == <<user, passkey, challenge, deletes, code, issuing, ceremonies, request,
          pairing, grant, operator, history>>

-----------------------------------------------------------------------------
Epochs == 0 .. MaxEpoch

RequestStates == {"none", "open", "cancelled", "completed"}

RequestRows == [state : RequestStates, code : Codes, epoch : Epochs, generation : Nat,
                eligible : BOOLEAN, frozen : BOOLEAN]

PairingRows == [state : {"none", "made", "claimed", "candidate", "approved"},
                refused : BOOLEAN, open : BOOLEAN, epoch : Epochs,
                key : Keys \cup {NoKey}, misses : 0 .. MaxMatch]

GrantRows == [state : {"none", "issued", "used", "revoked"}, keys : SUBSET Keys,
              all : BOOLEAN, epoch : Epochs, issuer : 0 .. MaxOperator]

Ceremonies == [id : CeremonyIds, code : Codes, epoch : Epochs, generation : Nat]

TypeOK ==
    /\ user \in [epoch : Epochs, generation : Nat, grace : BOOLEAN]
    /\ passkey \in [Keys -> {"unused", "verified", "candidate", "discarded",
                             "active", "revoked"}]
    /\ challenge \in BOOLEAN
    /\ deletes \in Nat
    /\ code \in [Codes -> [state : {"none", "active", "used", "revoked"},
                           generation : Nat]]
    /\ issuing \subseteq {"grace", "proof"}
    /\ ceremonies \subseteq Ceremonies
    /\ request \in [Keys -> RequestRows]
    /\ pairing \in [Pairings -> PairingRows]
    /\ grant \in [Grants -> GrantRows]
    /\ operator \in 0 .. MaxOperator
    /\ history \in [recovered : Epochs, key : [Keys -> Epochs], code : [Codes -> Epochs]]

\* A new account has one passkey and may be issued its first code.
Init ==
    /\ user = [epoch |-> 0, generation |-> 0, grace |-> TRUE]
    /\ \E k \in Keys : passkey = [x \in Keys |-> IF x = k THEN "active" ELSE "unused"]
    /\ challenge = FALSE /\ deletes = 0
    /\ code = [c \in Codes |-> [state |-> "none", generation |-> 0]]
    /\ issuing = {} /\ ceremonies = {}
    /\ \E c \in Codes : request = [k \in Keys |->
          [state |-> "none", code |-> c, epoch |-> 0, generation |-> 0,
           eligible |-> FALSE, frozen |-> FALSE]]
    /\ pairing = [p \in Pairings |-> [state |-> "none", refused |-> FALSE, open |-> FALSE,
                                      epoch |-> 0, key |-> NoKey, misses |-> 0]]
    /\ grant = [g \in Grants |-> [state |-> "none", keys |-> {}, all |-> FALSE,
                                  epoch |-> 0, issuer |-> 0]]
    /\ operator = 0
    /\ history = [recovered |-> 0, key |-> [k \in Keys |-> 0], code |-> [c \in Codes |-> 0]]

ActiveKeys   == {k \in Keys : passkey[k] = "active"}
ActiveCodes  == {c \in Codes : code[c].state = "active"}
OpenRequests == {k \in Keys : request[k].state = "open"}

\* A key that a ceremony verified and that no account has registered.
FreshKey(k) == passkey[k] = "unused"

\* passkeys with the keys of `revoke` revoked and k inserted, at the current epoch or the next.
Enrolled(k, revoke) ==
    passkey' = [x \in Keys |-> IF x = k THEN "active"
                               ELSE IF x \in revoke /\ passkey[x] = "active" THEN "revoked"
                               ELSE passkey[x]]

\* Candidates that are still open are discarded, promoted ones are not.
Discarded(keys) ==
    [k \in Keys |-> IF k \in keys /\ passkey[k] = "candidate" THEN "discarded" ELSE passkey[k]]

Cancelled(keys) == [k \in Keys |-> IF k \in keys THEN [request[k] EXCEPT !.state = "cancelled"]
                                   ELSE request[k]]

\* invalidateSelfRecovery is CodesInvalidated, and Cancelled and Discarded of the
\* open requests, with the next generation.
CodesInvalidated == [c \in Codes |-> IF c \in ActiveCodes
                                     THEN [code[c] EXCEPT !.state = "revoked"] ELSE code[c]]

-----------------------------------------------------------------------------
(* Registration by the owner, and deletion                                 *)

\* registerBegin: with a passkey, a fresh proof of one of them; without, at
\* once.  Either way the challenge of the account is replaced.
RegisterBegin ==
    /\ \E k \in Keys : FreshKey(k)
    /\ challenge' = TRUE
    /\ UNCHANGED <<user, passkey, deletes, code, issuing, ceremonies, request, pairing, grant,
                   operator, history>>

\* registerFinish, before its transaction: the token and the challenge are read and verified.
RegisterVerify(k) ==
    /\ challenge /\ FreshKey(k)
    /\ passkey' = [passkey EXCEPT ![k] = "verified"]
    /\ UNCHANGED <<user, challenge, deletes, code, issuing, ceremonies, request, pairing, grant,
                   operator, history>>

\* Its transaction inserts the key; neither the epoch nor the row of the user is looked at.
RegisterInsert(k) ==
    /\ passkey[k] = "verified"
    /\ Enrolled(k, {})
    /\ deletes' = deletes + 1
    /\ history' = [history EXCEPT !.key[k] = user.epoch]
    /\ UNCHANGED <<user, challenge, code, issuing, ceremonies, request, pairing, grant, operator>>

\* Then the challenge is deleted, whichever is there by now.
RegisterDone ==
    /\ deletes > 0
    /\ deletes' = deletes - 1
    /\ challenge' = FALSE
    /\ UNCHANGED <<user, passkey, code, issuing, ceremonies, request, pairing, grant, operator,
                   history>>

\* Under the lock of the user, and never the last one.
MayDeleteAny(k) == k \in ActiveKeys
MayDelete(k) == k \in ActiveKeys /\ Cardinality(ActiveKeys) > 1

DeletePasskey(k) ==
    /\ MayDelete(k)
    /\ passkey' = [passkey EXCEPT ![k] = "revoked"]
    /\ UNCHANGED <<user, challenge, deletes, code, issuing, ceremonies, request, pairing, grant,
                   operator, history>>

-----------------------------------------------------------------------------
(* Recovery codes                                                          *)

\* Whether an issue needs no proof: no active code, and the account is new or just recovered.
InIssueGrace == user.grace /\ ActiveCodes = {}

\* issue, up to its transaction: the grace, or a proof with an active passkey.
IssueAuthorise ==
    /\ IF InIssueGrace THEN "grace" \notin issuing /\ issuing' = issuing \cup {"grace"}
       ELSE /\ ActiveKeys # {} /\ "proof" \notin issuing
            /\ issuing' = issuing \cup {"proof"}
    /\ UNCHANGED <<user, passkey, challenge, deletes, code, ceremonies, request, pairing, grant,
                   operator, history>>

\* An issue without a proof must still find no code.
MayIssue(how) == how = "grace" => ActiveCodes = {}

IssueCommit(how, c) ==
    /\ how \in issuing /\ code[c].state = "none" /\ MayIssue(how)
    /\ issuing' = issuing \ {how}
    /\ user' = [user EXCEPT !.generation = @ + 1]
    /\ code' = [CodesInvalidated EXCEPT ![c] =
                   [state |-> "active", generation |-> user.generation + 1]]
    /\ request' = Cancelled(OpenRequests)
    /\ passkey' = Discarded(OpenRequests)
    /\ history' = [history EXCEPT !.code[c] = user.epoch]
    /\ UNCHANGED <<challenge, deletes, ceremonies, pairing, grant, operator>>

IssueRefused ==
    /\ "grace" \in issuing /\ ~MayIssue("grace")
    /\ issuing' = issuing \ {"grace"}
    /\ UNCHANGED <<user, passkey, challenge, deletes, code, ceremonies, request, pairing, grant,
                   operator, history>>

\* Fifteen minutes after the account was created, or recovered.
GraceEnds ==
    /\ user.grace
    /\ user' = [user EXCEPT !.grace = FALSE]
    /\ UNCHANGED <<passkey, challenge, deletes, code, issuing, ceremonies, request, pairing, grant,
                   operator, history>>

-----------------------------------------------------------------------------
(* Recovery with a code                                                    *)

\* beginRecoveryWithCode stores a ceremony, unless a request is open.
BeginRecovery(c) ==
    /\ c \in ActiveCodes /\ code[c].generation = user.generation /\ OpenRequests = {}
    /\ \E id \in CeremonyIds \ {s.id : s \in ceremonies} :
          ceremonies' = ceremonies \cup {[id |-> id, code |-> c, epoch |-> user.epoch,
                                         generation |-> user.generation]}
    /\ UNCHANGED <<user, passkey, challenge, deletes, code, issuing, request, pairing, grant,
                   operator, history>>

\* resolveRecoveryConflict: the code of an open request is scanned again; the
\* request, its candidate and the code all end.
ResolveRecoveryConflict(c) ==
    LET open == {k \in OpenRequests : request[k].code = c}
    IN  /\ c \in ActiveCodes /\ open # {}
        /\ request' = Cancelled(open)
        /\ passkey' = Discarded(open)
        /\ code' = [code EXCEPT ![c].state = "revoked"]
        /\ UNCHANGED <<user, challenge, deletes, issuing, ceremonies, pairing, grant, operator,
                       history>>

\* What finishRecoveryWithCode checks again under the lock of the user.
MayRequestTwice(s) ==
    /\ s.code \in ActiveCodes
    /\ s.epoch = user.epoch /\ s.generation = user.generation
MayRequest(s) ==
    /\ s.code \in ActiveCodes
    /\ s.epoch = user.epoch /\ s.generation = user.generation
    /\ code[s.code].generation = user.generation
    /\ OpenRequests = {}

\* The new key becomes a candidate and a request is opened, to wait 24 hours.
FinishRecovery(s, k) ==
    /\ MayRequest(s) /\ FreshKey(k)
    /\ ceremonies' = ceremonies \ {s}
    /\ passkey' = [passkey EXCEPT ![k] = "candidate"]
    /\ request' = [request EXCEPT ![k] =
                      [state |-> "open", code |-> s.code, epoch |-> user.epoch,
                       generation |-> user.generation, eligible |-> FALSE, frozen |-> FALSE]]
    /\ UNCHANGED <<user, challenge, deletes, code, issuing, pairing, grant, operator, history>>

FinishRefused(s) ==
    /\ ~MayRequest(s)
    /\ ceremonies' = ceremonies \ {s}
    /\ UNCHANGED <<user, passkey, challenge, deletes, code, issuing, request, pairing, grant,
                   operator, history>>

BecomesEligible(k) ==
    /\ k \in OpenRequests /\ ~request[k].eligible
    /\ request' = [request EXCEPT ![k].eligible = TRUE]
    /\ UNCHANGED <<user, passkey, challenge, deletes, code, issuing, ceremonies, pairing, grant,
                   operator, history>>

\* cancelRecoveryRequest, after a proof with a key that is not the candidate.
CancelRecovery(k) ==
    /\ k \in OpenRequests /\ ActiveKeys # {}
    /\ request' = Cancelled({k})
    /\ passkey' = Discarded({k})
    /\ code' = [code EXCEPT ![request[k].code].state = IF @ = "used" THEN @ ELSE "revoked"]
    /\ UNCHANGED <<user, challenge, deletes, issuing, ceremonies, pairing, grant, operator, history>>

\* freezeRecoveryRequest, by an administrator.
FreezeRecovery ==
    /\ \E k \in OpenRequests : ~request[k].frozen
    /\ request' = [k \in Keys |-> IF k \in OpenRequests THEN [request[k] EXCEPT !.frozen = TRUE]
                                  ELSE request[k]]
    /\ UNCHANGED <<user, passkey, challenge, deletes, code, issuing, ceremonies, pairing, grant,
                   operator, history>>

\* What confirmRecovery checks under the lock of the user.
MayConfirm(k) ==
    /\ k \in OpenRequests /\ request[k].eligible /\ ~request[k].frozen
    /\ request[k].epoch = user.epoch /\ request[k].generation = user.generation
    /\ request[k].code \in ActiveCodes
    /\ passkey[k] = "candidate"

\* The old keys are revoked, the candidate is promoted, the code is used, and
\* the epoch and the generation move on.
ConfirmRecovery(k) ==
    /\ MayConfirm(k) /\ user.epoch < MaxEpoch
    /\ Enrolled(k, Keys)
    /\ code' = [code EXCEPT ![request[k].code].state = "used"]
    /\ request' = [request EXCEPT ![k].state = "completed"]
    /\ user' = [epoch |-> user.epoch + 1, generation |-> user.generation + 1, grace |-> TRUE]
    /\ history' = [history EXCEPT !.key[k] = user.epoch + 1, !.recovered = user.epoch + 1]
    /\ UNCHANGED <<challenge, deletes, issuing, ceremonies, pairing, grant, operator>>

-----------------------------------------------------------------------------
(* Recovery by an operator                                                 *)

\* issueRecoveryGrant: all keys or some, bound to the user's epoch and to
\* the revision of the operator, both rows locked.
IssueGrant(g) ==
    /\ grant[g].state = "none"
    /\ \E keys \in SUBSET ActiveKeys :
          grant' = [grant EXCEPT ![g] = [state |-> "issued", keys |-> keys, all |-> keys = {},
                                         epoch |-> user.epoch, issuer |-> operator]]
    /\ UNCHANGED <<user, passkey, challenge, deletes, code, issuing, ceremonies, request, pairing,
                   operator, history>>

\* completeRecovery: the grant must still be what was issued.  The operator's
\* row is read, the user's and the grant's are held.
GrantHolds(g) ==
    /\ grant[g].state = "issued"
    /\ grant[g].epoch = user.epoch /\ grant[g].issuer = operator

CompleteGrant(g, k) ==
    /\ GrantHolds(g) /\ FreshKey(k) /\ user.epoch < MaxEpoch
    /\ LET revoke == IF grant[g].all THEN Keys ELSE grant[g].keys
       IN  passkey' = [x \in Keys |->
                          IF x = k THEN "active"
                          ELSE IF x \in ActiveKeys \cap revoke THEN "revoked"
                          ELSE Discarded(OpenRequests)[x]]
    /\ grant' = [grant EXCEPT ![g].state = "used"]
    /\ user' = [user EXCEPT !.epoch = @ + 1, !.generation = @ + 1]
    /\ code' = CodesInvalidated
    /\ request' = Cancelled(OpenRequests)
    /\ history' = [history EXCEPT !.key[k] = user.epoch + 1,
                                  !.recovered = IF grant[g].all THEN user.epoch + 1 ELSE @]
    /\ UNCHANGED <<challenge, deletes, issuing, ceremonies, pairing, operator>>

\* revokeGrant
RevokeGrant(g) ==
    /\ grant[g].state = "issued"
    /\ grant' = [grant EXCEPT ![g].state = "revoked"]
    /\ UNCHANGED <<user, passkey, challenge, deletes, code, issuing, ceremonies, request, pairing,
                   operator, history>>

\* The operator is demoted, locked, or changes factors.
OperatorChanges ==
    /\ operator < MaxOperator
    /\ operator' = operator + 1
    /\ UNCHANGED <<user, passkey, challenge, deletes, code, issuing, ceremonies, request, pairing,
                   grant, history>>

-----------------------------------------------------------------------------
(* Pairing of another device                                               *)

\* createDevicePairing: earlier ones that nobody scanned are revoked.
CreatePairing(p) ==
    /\ pairing[p].state = "none"
    /\ pairing' = [x \in Pairings |->
          IF x = p THEN [state |-> "made", refused |-> FALSE, open |-> TRUE,
                         epoch |-> user.epoch, key |-> NoKey, misses |-> 0]
          ELSE IF pairing[x].state = "made" THEN [pairing[x] EXCEPT !.open = FALSE]
          ELSE pairing[x]]
    /\ UNCHANGED <<user, passkey, challenge, deletes, code, issuing, ceremonies, request, grant,
                   operator, history>>

\* beginPairingRegistration claims the token in one UPDATE; a rejection does not stop it.
ClaimPairing(p) ==
    /\ pairing[p].state = "made" /\ pairing[p].open
    /\ pairing' = [pairing EXCEPT ![p].state = "claimed"]
    /\ UNCHANGED <<user, passkey, challenge, deletes, code, issuing, ceremonies, request, grant,
                   operator, history>>

\* finishPairingRegistration, under the locks of the user and the pairing.
FinishPairing(p, k) ==
    /\ pairing[p].state = "claimed" /\ pairing[p].open /\ ~pairing[p].refused
    /\ pairing[p].epoch = user.epoch /\ FreshKey(k)
    /\ passkey' = [passkey EXCEPT ![k] = "candidate"]
    /\ pairing' = [pairing EXCEPT ![p].state = "candidate", ![p].key = k]
    /\ UNCHANGED <<user, challenge, deletes, code, issuing, ceremonies, request, grant, operator,
                   history>>

\* What approvePairing checks before it compares the number.
Approvable(p) ==
    /\ pairing[p].state = "candidate" /\ pairing[p].open /\ ~pairing[p].refused
    /\ pairing[p].epoch = user.epoch
ApprovePairing(p) ==
    /\ Approvable(p) /\ passkey[pairing[p].key] = "candidate"
    /\ Enrolled(pairing[p].key, {})
    /\ pairing' = [pairing EXCEPT ![p].state = "approved"]
    /\ history' = [history EXCEPT !.key[pairing[p].key] = user.epoch]
    /\ UNCHANGED <<user, challenge, deletes, code, issuing, ceremonies, request, grant, operator>>

\* A wrong number is counted; the last one rejects the pairing.
MismatchPairing(p) ==
    /\ Approvable(p)
    /\ LET last == pairing[p].misses + 1 >= MaxMatch
       IN  /\ pairing' = [pairing EXCEPT ![p].misses = @ + 1, ![p].refused = last]
           /\ passkey' = IF last THEN Discarded({pairing[p].key}) ELSE passkey
    /\ UNCHANGED <<user, challenge, deletes, code, issuing, ceremonies, request, grant, operator,
                   history>>

\* rejectPairing holds the row of the pairing only.
MayRejectApproved(p) == pairing[p].state # "none"
MayReject(p) == pairing[p].state \notin {"none", "approved"}

RejectPairing(p) ==
    /\ MayReject(p) /\ ~pairing[p].refused
    /\ pairing' = [pairing EXCEPT ![p].refused = TRUE]
    /\ passkey' = Discarded({pairing[p].key})
    /\ UNCHANGED <<user, challenge, deletes, code, issuing, ceremonies, request, grant, operator,
                   history>>

\* Three minutes for the scan, ten from the scan to the approval.
PairingExpires(p) ==
    /\ pairing[p].open /\ pairing[p].state # "approved"
    /\ pairing' = [pairing EXCEPT ![p].open = FALSE]
    /\ UNCHANGED <<user, passkey, challenge, deletes, code, issuing, ceremonies, request, grant,
                   operator, history>>

\* A decision to lock the account: the epoch moves on, pairings and requests
\* end; candidates and codes are left as they are.
LockAccount ==
    /\ user.epoch < MaxEpoch
    /\ user' = [user EXCEPT !.epoch = @ + 1]
    /\ pairing' = [p \in Pairings |-> IF pairing[p].state = "approved" THEN pairing[p]
                                      ELSE [pairing[p] EXCEPT !.open = FALSE]]
    /\ request' = Cancelled(OpenRequests)
    /\ UNCHANGED <<passkey, challenge, deletes, code, issuing, ceremonies, grant, operator, history>>

Next ==
    \/ RegisterBegin \/ RegisterDone
    \/ \E k \in Keys : RegisterVerify(k) \/ RegisterInsert(k) \/ DeletePasskey(k)
    \/ IssueAuthorise \/ IssueRefused \/ GraceEnds
    \/ \E how \in issuing, c \in Codes : IssueCommit(how, c)
    \/ \E c \in Codes : BeginRecovery(c) \/ ResolveRecoveryConflict(c)
    \/ \E s \in ceremonies : FinishRefused(s)
    \/ \E s \in ceremonies, k \in Keys : FinishRecovery(s, k)
    \/ \E k \in Keys : BecomesEligible(k) \/ CancelRecovery(k) \/ ConfirmRecovery(k)
    \/ FreezeRecovery \/ OperatorChanges \/ LockAccount
    \/ \E g \in Grants : IssueGrant(g) \/ RevokeGrant(g)
    \/ \E g \in Grants, k \in Keys : CompleteGrant(g, k)
    \/ \E p \in Pairings : CreatePairing(p) \/ ClaimPairing(p) \/ ApprovePairing(p)
                           \/ MismatchPairing(p) \/ RejectPairing(p) \/ PairingExpires(p)
    \/ \E p \in Pairings, k \in Keys : FinishPairing(p, k)

Spec == Init /\ [][Next]_vars

-----------------------------------------------------------------------------
(* Properties                                                              *)

\* Losing the last passkey locks the owner out: deletions, recoveries and
\* grants in any order leave one that is active.
AKeyRemains == ActiveKeys # {}

\* A second scan of a code, or a second finish, must not open a request beside
\* an open one: there would be two candidates waiting for the account.
OneOpenRequest == Cardinality(OpenRequests) <= 1

\* A full recovery is a clean slate.  Whatever was committed before it, and by
\* whichever path, is over: keys, codes and requests that would lead back in.
NothingFromBeforeRecovery ==
    /\ \A k \in ActiveKeys : history.key[k] >= history.recovered
    /\ \A c \in ActiveCodes : history.code[c] >= history.recovered
    /\ \A k \in OpenRequests : request[k].epoch >= history.recovered

\* A candidate that was cancelled, found in conflict or rejected never was, and
\* never becomes, a passkey, although the rejection holds no row of the user.
NoKeyFromARefusedRequest ==
    /\ \A k \in Keys : request[k].state = "cancelled" => passkey[k] \notin {"active", "revoked"}
    /\ \A p \in Pairings : pairing[p].refused /\ pairing[p].key # NoKey =>
          passkey[pairing[p].key] \notin {"active", "revoked"}
=============================================================================
