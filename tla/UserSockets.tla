---------------------------- MODULE UserSockets ----------------------------
(***************************************************************************)
(* The user WebSocket of one process: guests that are promoted by the last *)
(* step of a login, sockets that come with a token or with the id of an    *)
(* earlier session, the registry, relays, commands with an action proof,   *)
(* and the state of the user in Redis.                                     *)
(*                                                                         *)
(* A handler runs until it awaits Redis.  `task` is what a socket's handler*)
(* is waiting for; the close handler may run while another one waits, and  *)
(* has an await of its own (`expiring`).  Whether a session is current is  *)
(* decided by UserSessions and DeviceSessions; here it is revoked at any   *)
(* time.                                                                   *)
(***************************************************************************)
EXTENDS Naturals, Sequences, FiniteSets

CONSTANTS
    Connections,  \* user WebSockets of the process
    SessionIds,   \* ids of sessions in Redis
    Sources,      \* addresses of guests
    Proofs,       \* action proofs
    None,         \* no session, no socket, no source
    PerSource,    \* GUEST_LIMITS.perSource
    Total,        \* GUEST_LIMITS.total
    MaxRelays     \* bound on the relayed messages

ASSUME SocketAssumption ==
    /\ {PerSource, Total, MaxRelays} \subseteq Nat
    /\ None \notin SessionIds \cup Connections \cup Sources

VARIABLES
    socket,     \* per connection: WsUserData
    task,       \* what its handler awaits
    expiring,   \* close handlers that found the user offline and have yet to write it
    slots,      \* guestSlots: bySource, and the count kept beside it
    session,    \* session:* in Redis
    registry,   \* sessions of the registry: the socket registered for each id
    state,      \* ustate of the user in Redis
    outgoing,   \* the chain of deliveries of each socket
    received,   \* history: what each socket was sent, in order
    relayed,    \* number of the last relayed message
    proof,      \* action-proof:* in Redis
    spent       \* history: commands that ran, with their proof

socketVars == <<socket, task, expiring, slots, session, registry, state, outgoing,
                received, relayed, proof, spent>>

-----------------------------------------------------------------------------
WsUserData == [phase : {"new", "open", "closed"}, id : SessionIds \cup {None},
               slot : Sources \cup {None}]

Tasks == {"none", "login", "opening", "checked"}

SocketsTypeOK ==
    /\ socket \in [Connections -> WsUserData]
    /\ task \in [Connections -> Tasks]
    /\ expiring \in Nat
    /\ slots \in [bySource : [Sources -> Nat], count : Nat]
    /\ session \in [SessionIds -> {"none", "current", "revoked", "deleted"}]
    /\ registry \in [SessionIds -> Connections \cup {None}]
    /\ state \in {"none", "logged_in", "session_expired"}
    /\ outgoing \in [Connections -> Seq(1 .. MaxRelays)]
    /\ received \in [Connections -> Seq(1 .. MaxRelays)]
    /\ relayed \in 0 .. MaxRelays
    /\ proof \in [Proofs -> SessionIds \cup {None, "unused", "spent"}]
    /\ spent \in [Proofs -> 0 .. 2]

SocketsInit ==
    /\ socket = [s \in Connections |-> [phase |-> "new", id |-> None, slot |-> None]]
    /\ task = [s \in Connections |-> "none"]
    /\ expiring = 0
    /\ slots = [bySource |-> [a \in Sources |-> 0], count |-> 0]
    /\ session = [x \in SessionIds |-> "none"]
    /\ registry = [x \in SessionIds |-> None]
    /\ state = "none"
    /\ outgoing = [s \in Connections |-> <<>>]
    /\ received = [s \in Connections |-> <<>>]
    /\ relayed = 0
    /\ proof = [p \in Proofs |-> "unused"]
    /\ spent = [p \in Proofs |-> 0]

IsOpen(s)   == socket[s].phase = "open"
Guest(s)  == socket[s].id = None
Online(r) == \E x \in SessionIds : r[x] # None

\* getSession: the row is there, and the authorization in it is still current.
Valid(x) == session[x] = "current"

\* GuestSlots.acquire.
MayAcquire(a) == slots.count < Total /\ slots.bySource[a] < PerSource
Acquired(a) ==
    [bySource |-> [slots.bySource EXCEPT ![a] = @ + 1], count |-> slots.count + 1]

\* releaseGuest: the slot is given back and forgotten, so a second call does nothing.
Released(s) ==
    LET a == socket[s].slot
    IN  IF a = None \/ slots.bySource[a] = 0 THEN slots
        ELSE [bySource |-> [slots.bySource EXCEPT ![a] = @ - 1], count |-> slots.count - 1]
WithSlotKept(s) == socket[s]
WithoutSlot(s) == [socket[s] EXCEPT !.slot = None]

-----------------------------------------------------------------------------
(* Connecting                                                              *)

\* upgrade without credentials, and open.
ConnectGuest(s, a) ==
    /\ socket[s].phase = "new" /\ MayAcquire(a)
    /\ slots' = Acquired(a)
    /\ socket' = [socket EXCEPT ![s] = [phase |-> "open", id |-> None, slot |-> a]]
    /\ UNCHANGED <<task, expiring, session, registry, state, outgoing, received, relayed,
                   proof, spent>>

\* resolveWsAuth with a token puts a new session; open registers it and
\* awaits the write of the user's state.
ConnectWithToken(s, x) ==
    /\ socket[s].phase = "new" /\ session[x] = "none"
    /\ session' = [session EXCEPT ![x] = "current"]
    /\ socket' = [socket EXCEPT ![s] = [phase |-> "open", id |-> x, slot |-> None]]
    /\ registry' = [registry EXCEPT ![x] = s]
    /\ task' = [task EXCEPT ![s] = "opening"]
    /\ UNCHANGED <<expiring, slots, state, outgoing, received, relayed, proof, spent>>

\* resolveWsAuth with the id of a session: the socket takes its place in the
\* registry, also when the earlier socket has not been closed yet.
Reconnect(s, x) ==
    /\ socket[s].phase = "new" /\ Valid(x)
    /\ socket' = [socket EXCEPT ![s] = [phase |-> "open", id |-> x, slot |-> None]]
    /\ registry' = [registry EXCEPT ![x] = s]
    /\ task' = [task EXCEPT ![s] = "opening"]
    /\ UNCHANGED <<expiring, slots, session, state, outgoing, received, relayed, proof, spent>>

\* setUserState, then the answer to the client.
Opened(s) ==
    /\ task[s] = "opening"
    /\ state' = "logged_in"
    /\ task' = [task EXCEPT ![s] = "none"]
    /\ UNCHANGED <<socket, expiring, slots, session, registry, outgoing, received, relayed,
                   proof, spent>>

\* A guest's mfa-verify succeeds and its session is being put.
GuestLogin(s) ==
    /\ IsOpen(s) /\ Guest(s) /\ task[s] = "none"
    /\ task' = [task EXCEPT ![s] = "login"]
    /\ UNCHANGED <<socket, expiring, slots, session, registry, state, outgoing, received,
                   relayed, proof, spent>>

\* The session was put: the guest gives its slot back and becomes the user,
\* even if it was closed in the meantime.
Promote(s, x) ==
    /\ task[s] = "login" /\ session[x] = "none"
    /\ session' = [session EXCEPT ![x] = "current"]
    /\ slots' = Released(s)
    /\ socket' = [socket EXCEPT ![s] = [WithoutSlot(s) EXCEPT !.id = x]]
    /\ registry' = [registry EXCEPT ![x] = s]
    /\ task' = [task EXCEPT ![s] = "opening"]
    /\ UNCHANGED <<expiring, state, outgoing, received, relayed, proof, spent>>

-----------------------------------------------------------------------------
(* Closing                                                                 *)

\* handleWsClose up to its await: unregister goes by the id of the session.
Closed(s) ==
    LET rest == IF Guest(s) THEN registry ELSE [registry EXCEPT ![socket[s].id] = None]
    IN  /\ socket' = [socket EXCEPT ![s] = [WithoutSlot(s) EXCEPT !.phase = "closed"]]
        /\ slots' = Released(s)
        /\ registry' = rest
        /\ expiring' = IF ~Guest(s) /\ ~Online(rest) THEN expiring + 1 ELSE expiring

\* The client leaves, the connection drops, a guest's time is over, or
\* closeUser ends the sockets of a recovered account.
Close(s) ==
    /\ IsOpen(s) /\ Closed(s)
    /\ UNCHANGED <<task, session, state, outgoing, received, relayed, proof, spent>>

\* updateUserStateField writes back what it read, with the state expired.
ExpireState ==
    /\ expiring > 0
    /\ expiring' = expiring - 1
    /\ state' = IF state = "none" THEN state ELSE "session_expired"
    /\ UNCHANGED <<socket, task, slots, session, registry, outgoing, received, relayed, proof,
                   spent>>

\* A logout, a decision, a recovery or the end of the token.
Revoke(x) ==
    /\ Valid(x)
    /\ session' = [session EXCEPT ![x] = "revoked"]
    /\ UNCHANGED <<socket, task, expiring, slots, registry, state, outgoing, received, relayed,
                   proof, spent>>

\* sessionIsActive, before a message or a ping: the session is current ...
CheckSession(s) ==
    /\ IsOpen(s) /\ ~Guest(s) /\ task[s] = "none" /\ Valid(socket[s].id)
    /\ task' = [task EXCEPT ![s] = "checked"]
    /\ UNCHANGED <<socket, expiring, slots, session, registry, state, outgoing, received,
                   relayed, proof, spent>>

\* ... or it is deleted and the socket is ended.
EndRevoked(s) ==
    /\ IsOpen(s) /\ ~Guest(s) /\ ~Valid(socket[s].id)
    /\ session' = [session EXCEPT ![socket[s].id] = "deleted"]
    /\ Closed(s)
    /\ UNCHANGED <<task, state, outgoing, received, relayed, proof, spent>>

-----------------------------------------------------------------------------
(* Messages                                                                *)

\* The action authentication of a session stores a proof for its commands.
IssueProof(p, x) ==
    /\ proof[p] = "unused" /\ Valid(x)
    /\ proof' = [proof EXCEPT ![p] = x]
    /\ UNCHANGED <<socket, task, expiring, slots, session, registry, state, outgoing, received,
                   relayed, spent>>

\* consume: the record is taken out of Redis before it is compared.
OnlyRead(p) == proof
Taken(p) == [proof EXCEPT ![p] = "spent"]

\* A protected command: the proof is consumed, then dispatch looks at the
\* session and the state of the user again.
Command(s, p) ==
    /\ task[s] = "checked" /\ proof[p] \notin {"unused", "spent"}
    /\ task' = [task EXCEPT ![s] = "none"]
    /\ proof' = Taken(p)
    /\ spent' = IF proof[p] = socket[s].id /\ Valid(socket[s].id) /\ state = "logged_in"
                THEN [spent EXCEPT ![p] = IF @ < 2 THEN @ + 1 ELSE @] ELSE spent
    /\ UNCHANGED <<socket, expiring, slots, session, registry, state, outgoing, received,
                   relayed>>

\* A relay to the other sessions of the user is put behind what each of
\* their sockets still has to be sent.
Relay(s) ==
    /\ task[s] = "checked" /\ relayed < MaxRelays
    /\ task' = [task EXCEPT ![s] = "none"]
    /\ relayed' = relayed + 1
    /\ outgoing' = [d \in Connections |->
          IF \E x \in SessionIds \ {socket[s].id} : registry[x] = d
          THEN Append(outgoing[d], relayed + 1) ELSE outgoing[d]]
    /\ UNCHANGED <<socket, expiring, slots, session, registry, state, received, proof, spent>>

\* What may be sent next: a delivery begins when the one before it has ended.
AnyOf(q)  == DOMAIN q
NextOf(q) == {i \in DOMAIN q : i = 1}

Without(q, i) == SubSeq(q, 1, i - 1) \o SubSeq(q, i + 1, Len(q))

\* registry.send: nothing to a closed socket, the end to a revoked one.
Deliver(s) ==
    \E i \in NextOf(outgoing[s]) :
       /\ outgoing' = [outgoing EXCEPT ![s] = Without(@, i)]
       /\ IF IsOpen(s) /\ ~Valid(socket[s].id)
          THEN Closed(s) /\ UNCHANGED received
          ELSE /\ received' = IF IsOpen(s) THEN [received EXCEPT ![s] = Append(@, outgoing[s][i])]
                              ELSE received
               /\ UNCHANGED <<socket, slots, registry, expiring>>
       /\ UNCHANGED <<task, session, state, relayed, proof, spent>>

SocketsNext ==
    \/ \E s \in Connections, a \in Sources : ConnectGuest(s, a)
    \/ \E s \in Connections, x \in SessionIds : ConnectWithToken(s, x) \/ Reconnect(s, x)
                                            \/ Promote(s, x)
    \/ \E s \in Connections : Opened(s) \/ GuestLogin(s) \/ Close(s) \/ CheckSession(s)
                          \/ EndRevoked(s) \/ Relay(s) \/ Deliver(s)
    \/ ExpireState
    \/ \E x \in SessionIds : Revoke(x)
    \/ \E p \in Proofs, x \in SessionIds : IssueProof(p, x)
    \/ \E s \in Connections, p \in Proofs : Command(s, p)

SocketsSpec == SocketsInit /\ [][SocketsNext]_socketVars

-----------------------------------------------------------------------------
(* Properties                                                              *)

\* Slots are counted, not listed, in two places: a guest that is promoted while
\* it closes must give its own back once, or guests are refused, or admitted,
\* for good.
SlotsMatchGuests ==
    /\ slots.count = Cardinality({s \in Connections : IsOpen(s) /\ Guest(s)})
    /\ slots.count <= Total
    /\ \A a \in Sources :
          /\ slots.bySource[a] =
                Cardinality({s \in Connections : IsOpen(s) /\ Guest(s) /\ socket[s].slot = a})
          /\ slots.bySource[a] <= PerSource

\* Every delivery awaits Redis by itself; a socket still hears the relays in
\* the order in which they were made, and none twice.
RelayedInOrder ==
    \A s \in Connections : \A i, j \in DOMAIN received[s] :
        i < j => received[s][i] < received[s][j]

\* A proof runs one command, whichever sockets of the session present it at
\* the same time, and however the command ends.
ProofRunsOneCommand == \A p \in Proofs : spent[p] <= 1

\* handler.ts:270 says that a user with a live session is not marked expired
\* "because the other session would be refused".  When no handler is waiting, a
\* socket of a current session must find its user logged in.
LiveSocketIsServed ==
    expiring = 0 /\ (\A s \in Connections : task[s] = "none") =>
        \A s \in Connections : IsOpen(s) /\ ~Guest(s) /\ Valid(socket[s].id) => state = "logged_in"
=============================================================================
