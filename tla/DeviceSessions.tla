--------------------------- MODULE DeviceSessions ---------------------------
(***************************************************************************)
(* One browser and its device credential: the rotation of the secret in    *)
(* the cookie (server/src/auth/device-rotation.ts, device-credential.ts),  *)
(* the routes that set and clear the cookie (http/device-handler.ts) and   *)
(* the tabs that call them (frontend/src/lib/browser-refresh.ts).          *)
(*                                                                         *)
(* The tabs share the cookie and localStorage; each keeps the id of the    *)
(* rotation it is attempting in its sessionStorage.  A call is sent with   *)
(* the cookie of that moment, served by one transaction, and answered by a *)
(* response that may set or clear the cookie when it arrives.  A tab gives *)
(* a call up after 10 seconds; the server may serve it all the same.       *)
(*                                                                         *)
(* Of time only the order matters: the 30 seconds of ROTATION_GRACE_MS,    *)
(* which bound both the acceptance of the previous secret and the window   *)
(* in which the current one is kept, outlast every call that was under way *)
(* when the secret was rotated.                                            *)
(***************************************************************************)
EXTENDS Naturals, FiniteSets

CONSTANTS
    Tabs,         \* tabs of the browser
    WebLocks,     \* TRUE: the browser has navigator.locks
    Devices,      \* bound: rows of device_credentials this browser gets
    RotationIds,  \* bound: values of X-Cernere-Rotation-Id
    NoRotation,   \* last_rotation_id is null; nothing in sessionStorage
    NoSecret,     \* no cookie; previous_secret_hash is null
    NoCall        \* a tab that waits for no response

ASSUME DeviceAssumption ==
    /\ WebLocks \in BOOLEAN
    /\ NoRotation \notin RotationIds

VARIABLES
    device,      \* the rows of device_credentials
    cookie,      \* the secret in the browser's cookie
    native,      \* localStorage says that this is a device session
    rotationId,  \* sessionStorage of each tab
    call,        \* the call each tab is waiting for
    stray,       \* calls that were given up and are not served yet
    drawn,       \* rotation ids used so far
    issued,      \* history: the secrets the server has answered with
    lost         \* history: devices with a new secret whose response got lost

history == <<issued, lost>>
vars == <<device, cookie, native, rotationId, call, stray, drawn, history>>

-----------------------------------------------------------------------------
(* A secret stands for the bytes.  The first one is random; each next one  *)
(* is derived from the device, the generation and the rotation id, so that *)
(* the same three give the same secret.                                    *)

Secret == [device : Devices, generation : Nat, rotation : RotationIds \cup {NoRotation}]

ASSUME NoSecretIsNone == NoSecret \notin Secret

\* `grace`: previousValidUntil is in the future, and lastRotatedAt is less
\* than ROTATION_GRACE_MS ago.  `live`: issued, not revoked, not expired, its
\* passkey, auth_epoch and mfa_revision are still those of the login.
DeviceRow == [live : BOOLEAN, grace : BOOLEAN,
              current : Secret \cup {NoSecret}, previous : Secret \cup {NoSecret}]

\* `old`: the devices whose secret was rotated while the call was under way.
Call ==
         [at : {"sent", "conflict"}, cookie : Secret \cup {NoSecret},
          rotation : RotationIds, retry : BOOLEAN, old : SUBSET Devices]
    \cup [at : {"committed", "ok"}, secret : Secret, old : SUBSET Devices]
    \cup [at : {"refused", "denied"}, old : SUBSET Devices]
    \cup [at : {"logout"}, cookie : Secret \cup {NoSecret}, old : SUBSET Devices]
    \cup [at : {"cleared"}, old : SUBSET Devices]

ASSUME NoCallIsNone == NoCall \notin Call

Stray == [cookie : Secret \cup {NoSecret}, rotation : RotationIds]

TypeOK ==
    /\ device \in [Devices -> DeviceRow]
    /\ cookie \in Secret \cup {NoSecret}
    /\ native \in BOOLEAN
    /\ rotationId \in [Tabs -> RotationIds \cup {NoRotation}]
    /\ call \in [Tabs -> Call \cup {NoCall}]
    /\ stray \subseteq Stray
    /\ drawn \subseteq RotationIds
    /\ issued \subseteq Secret
    /\ lost \subseteq Devices

Init ==
    /\ device = [d \in Devices |-> [live |-> FALSE, grace |-> FALSE,
                                    current |-> NoSecret, previous |-> NoSecret]]
    /\ cookie = NoSecret
    /\ native = FALSE
    /\ rotationId = [t \in Tabs |-> NoRotation]
    /\ call = [t \in Tabs |-> NoCall]
    /\ stray = {}
    /\ drawn = {}
    /\ issued = {} /\ lost = {}

-----------------------------------------------------------------------------
(* decideRotation                                                          *)

IsCurrent(s) == s # NoSecret /\ device[s.device].current = s

IsPrevious(s) ==
    s # NoSecret /\ device[s.device].previous = s /\ device[s.device].grace

Accepted(s) == IsCurrent(s) \/ IsPrevious(s)

NextSecret(s, rotation) ==
    [device |-> s.device, generation |-> device[s.device].current.generation + 1,
     rotation |-> rotation]

\* Faulty variants: a retry is derived from whatever id comes with it, the
\* current secret is answered with the column of the previous one.
RepliesToAnyId(s, rotation) ==
    IF IsCurrent(s) /\ device[s.device].grace THEN {s}
    ELSE IF IsPrevious(s) THEN {[device[s.device].current EXCEPT !.rotation = rotation]}
         ELSE {}

\* The secrets of "keep" and "replay": the row is not rotated.
Replies(s, rotation) ==
    IF IsCurrent(s) /\ device[s.device].grace THEN {s}
    ELSE IF IsPrevious(s) /\ device[s.device].current.rotation = rotation
         THEN {device[s.device].current}
         ELSE {}

Rotates(s) == IsCurrent(s) /\ ~device[s.device].grace

Conflicts(s, rotation) == IsPrevious(s) /\ Replies(s, rotation) = {}

\* Faulty variants: there is no grace, or the secret before the last one is
\* kept and given a new one.
RotatedWithoutGrace(s, rotation) ==
    [device EXCEPT ![s.device].current = NextSecret(s, rotation),
                   ![s.device].previous = NoSecret]

RotatedKeepingPrevious(s, rotation) ==
    [device EXCEPT ![s.device].current = NextSecret(s, rotation),
                   ![s.device].previous = IF @ = NoSecret THEN s ELSE @,
                   ![s.device].grace = TRUE]

\* The row after "rotate".
Rotated(s, rotation) ==
    [device EXCEPT ![s.device] =
        [@ EXCEPT !.current = NextSecret(s, rotation), !.previous = s, !.grace = TRUE]]

-----------------------------------------------------------------------------
(* The tabs                                                                *)

Asks(t) == call[t] # NoCall
AsksAt(t, steps) == Asks(t) /\ call[t].at \in steps
Refreshing(t) == Asks(t) /\ call[t].at \notin {"logout", "cleared"}

\* clearTokens, of a tab.
ClearTokens(t) ==
    /\ native' = FALSE
    /\ rotationId' = [rotationId EXCEPT ![t] = NoRotation]

Sent(rotation, retry) ==
    [at |-> "sent", cookie |-> cookie, rotation |-> rotation, retry |-> retry,
     old |-> {}]

\* Faulty variant: the tabs of a browser do not wait for one another.
MayRefreshAlways(t) == ~Asks(t)

\* refreshBrowserAccessToken: one refresh per tab, and one per browser where
\* there are Web Locks.
MayRefresh(t) == ~Asks(t) /\ (WebLocks => \A u \in Tabs : ~Refreshing(u))

\* deviceRefresh, up to the fetch.  The id of an attempt that did not succeed
\* is used again.
Refresh(t) ==
    /\ native /\ MayRefresh(t)
    /\ \E r \in IF rotationId[t] # NoRotation THEN {rotationId[t]}
                ELSE RotationIds \ drawn :
        /\ rotationId' = [rotationId EXCEPT ![t] = r]
        /\ drawn' = drawn \cup {r}
        /\ call' = [call EXCEPT ![t] = Sent(r, FALSE)]
    /\ UNCHANGED <<device, cookie, native, stray, history>>

\* 409: once more after a moment, with the same id and the cookie of then.
Retry(t) ==
    /\ AsksAt(t, {"conflict"})
    /\ call' = [call EXCEPT ![t] =
                    IF @.retry THEN NoCall ELSE Sent(@.rotation, TRUE)]
    /\ UNCHANGED <<device, cookie, native, rotationId, stray, drawn, history>>

\* A secret in a response that nobody receives: lost unless it is the cookie.
LostWith(secret) ==
    lost' = IF secret = cookie THEN lost ELSE lost \cup {secret.device}

\* AbortSignal.timeout, or a response of status 5xx: the call is over for the
\* tab, which keeps its rotation id.
GiveUp(t) ==
    /\ AsksAt(t, {"sent", "committed", "ok", "refused", "denied"})
    /\ call' = [call EXCEPT ![t] = NoCall]
    /\ stray' = IF call[t].at = "sent"
                THEN stray \cup {[cookie |-> call[t].cookie, rotation |-> call[t].rotation]}
                ELSE stray
    /\ IF call[t].at \in {"committed", "ok"} THEN LostWith(call[t].secret)
                                             ELSE UNCHANGED lost
    /\ UNCHANGED <<device, cookie, native, rotationId, drawn, issued>>

-----------------------------------------------------------------------------
(* POST /api/auth/device/session                                           *)

\* Every call under way has seen the rotation of d.
Age(d) ==
    [t \in Tabs |-> IF Asks(t) THEN [call[t] EXCEPT !.old = @ \cup {d}] ELSE call[t]]

Live(s) == s # NoSecret /\ device[s.device].live

\* rotateDeviceSession: the transaction, under the locks of user and row.
Serve(t) ==
    /\ AsksAt(t, {"sent"})
    /\ LET s == call[t].cookie
           r == call[t].rotation
           Committed(secret, old) == [at |-> "committed", secret |-> secret, old |-> old]
       IN  \/ /\ Live(s) /\ Rotates(s)
              /\ device' = Rotated(s, r)
              /\ issued' = issued \cup {NextSecret(s, r)}
              /\ call' = [Age(s.device) EXCEPT ![t] = Committed(NextSecret(s, r), @.old)]
           \/ /\ Live(s)
              /\ \E secret \in Replies(s, r) :
                  /\ issued' = issued \cup {secret}
                  /\ call' = [call EXCEPT ![t] = Committed(secret, @.old)]
              /\ UNCHANGED device
           \/ /\ Live(s) /\ Conflicts(s, r)
              /\ call' = [call EXCEPT ![t].at = "conflict"]
              /\ UNCHANGED <<device, issued>>
           \/ /\ ~Live(s) \/ ~Accepted(s)
              /\ call' = [call EXCEPT ![t] =
                   [at |-> IF s = NoSecret THEN "denied" ELSE "refused", old |-> @.old]]
              /\ UNCHANGED <<device, issued>>
    /\ UNCHANGED <<cookie, native, rotationId, stray, drawn, lost>>

\* generateAccessToken, after the commit: a device that ended meanwhile is
\* answered 401 without a code, and the cookie stays.
Answer(t) ==
    /\ AsksAt(t, {"committed"})
    /\ IF device[call[t].secret.device].live
       THEN call' = [call EXCEPT ![t].at = "ok"]
       ELSE call' = [call EXCEPT ![t] = [at |-> "denied", old |-> @.old]]
    /\ UNCHANGED <<device, cookie, native, rotationId, stray, drawn, history>>

\* A call that was given up is served; its response goes nowhere.
ServeStray(c) ==
    /\ stray' = stray \ {c}
    /\ IF Live(c.cookie) /\ Rotates(c.cookie)
       THEN /\ device' = Rotated(c.cookie, c.rotation)
            /\ issued' = issued \cup {NextSecret(c.cookie, c.rotation)}
            /\ lost' = lost \cup {c.cookie.device}
            /\ call' = Age(c.cookie.device)
       ELSE UNCHANGED <<device, issued, lost, call>>
    /\ UNCHANGED <<cookie, native, rotationId, drawn>>

\* The response arrives: 200 sets the cookie, 401 with a code clears it.
Receive(t) ==
    /\ AsksAt(t, {"ok", "refused", "denied"})
    /\ call' = [call EXCEPT ![t] = NoCall]
    /\ IF call[t].at = "ok"
       THEN /\ cookie' = call[t].secret
            /\ native' = TRUE
            /\ rotationId' = [rotationId EXCEPT ![t] = NoRotation]
       ELSE /\ cookie' = IF call[t].at = "refused" THEN NoSecret ELSE cookie
            /\ ClearTokens(t)
    /\ UNCHANGED <<device, stray, drawn, history>>

-----------------------------------------------------------------------------
(* POST /api/auth/device/logout                                            *)

SendLogout(t) ==
    /\ native /\ ~Asks(t)
    /\ call' = [call EXCEPT ![t] = [at |-> "logout", cookie |-> cookie, old |-> {}]]
    /\ UNCHANGED <<device, cookie, native, rotationId, stray, drawn, history>>

\* resolveDeviceSession and revokeDeviceCredential.
ServeLogout(t) ==
    /\ AsksAt(t, {"logout"})
    /\ LET s == call[t].cookie
       IN  device' = IF Accepted(s) THEN [device EXCEPT ![s.device].live = FALSE] ELSE device
    /\ call' = [call EXCEPT ![t] = [at |-> "cleared", old |-> @.old]]
    /\ UNCHANGED <<cookie, native, rotationId, stray, drawn, history>>

\* The tokens are cleared whether the response arrives or not.
EndLogout(t) ==
    /\ AsksAt(t, {"logout", "cleared"})
    /\ cookie' \in IF call[t].at = "cleared" THEN {NoSecret, cookie} ELSE {cookie}
    /\ ClearTokens(t)
    /\ call' = [call EXCEPT ![t] = NoCall]
    /\ UNCHANGED <<device, stray, drawn, history>>

-----------------------------------------------------------------------------
\* A passkey login: loginFinish with issueDeviceCredential, and the response.
Login(t) ==
    /\ ~native /\ ~Asks(t)
    /\ \E d \in Devices :
        LET first == [device |-> d, generation |-> 0, rotation |-> NoRotation]
        IN  /\ device[d].current = NoSecret
            /\ device' = [device EXCEPT ![d] =
                   [live |-> TRUE, grace |-> FALSE, current |-> first,
                    previous |-> NoSecret]]
            /\ cookie' = first
            /\ issued' = issued \cup {first}
    /\ native' = TRUE
    /\ UNCHANGED <<rotationId, call, stray, drawn, lost>>

\* Revocation of this or of every device, of the passkey, a new epoch or the
\* end of the 30 days.
DeviceEnds(d) ==
    /\ device[d].live
    /\ device' = [device EXCEPT ![d].live = FALSE]
    /\ UNCHANGED <<cookie, native, rotationId, call, stray, drawn, history>>

\* ROTATION_GRACE_MS after the rotation; the calls of that time are over.
GraceEnds(d) ==
    /\ device[d].grace
    /\ \A t \in Tabs : Asks(t) => d \notin call[t].old
    /\ device' = [device EXCEPT ![d].grace = FALSE]
    /\ UNCHANGED <<cookie, native, rotationId, call, stray, drawn, history>>

Next ==
    \/ \E t \in Tabs :
        \/ Refresh(t) \/ Retry(t) \/ GiveUp(t) \/ Serve(t) \/ Answer(t) \/ Receive(t)
        \/ SendLogout(t) \/ ServeLogout(t) \/ EndLogout(t) \/ Login(t)
    \/ \E c \in stray : ServeStray(c)
    \/ \E d \in Devices : DeviceEnds(d) \/ GraceEnds(d)

Spec == Init /\ [][Next]_vars

-----------------------------------------------------------------------------
(* Properties *)

\* Whatever is sent again, served late or served twice, a generation of a
\* device has one secret: a retry of a rotation is answered with the secret
\* the rotation made.
OneSecretPerGeneration ==
    \A x, y \in issued :
        x.device = y.device /\ x.generation = y.generation => x = y

\* A browser with Web Locks is left with a secret its live device no longer
\* accepts only if a response with a newer secret did not reach it.
LockoutHasACause ==
    cookie # NoSecret /\ Live(cookie) /\ ~Accepted(cookie) => cookie.device \in lost

\* Tabs that take turns meet a 409 only after a lost response.
ConflictHasACause ==
    \A t \in Tabs : AsksAt(t, {"conflict"}) => call[t].cookie.device \in lost

\* A secret that was replaced and has outlived its grace is never accepted
\* again: no later rotation gives it a new one.
DeadSecretsStayDead ==
    [][\A s \in issued : ~Accepted(s) => ~Accepted(s)']_vars
=============================================================================
