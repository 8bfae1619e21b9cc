---------------------------- MODULE Sockets_proofs ----------------------------
(***************************************************************************)
(* Proofs about the two kinds of WebSocket: of a project                   *)
(* (ProjectCredentials), then of a user (UserSockets), for any number of   *)
(* processes, connections, launches, rotations, sessions and proofs.       *)
(*                                                                         *)
(* The credential of a project: what a launch has read under the lock is   *)
(* still the generation of the row when it commits (LockedReadIsFresh), so *)
(* the row moves beyond every token there is; until the next launch a      *)
(* token level with the row was obtained with one of its secrets           *)
(* (TokensAreDated).                                                       *)
(*                                                                         *)
(* The sockets of users: a connection holds a slot exactly while it is an  *)
(* open guest (GuestsHold), so the counters are the cardinalities of sets  *)
(* of connections; what a socket was sent and what it still has to be sent *)
(* form one ordered queue; a proof that has run a command is spent.        *)
(***************************************************************************)
EXTENDS ProjectCredentials, UserSockets, FiniteSetTheorems, SequenceTheorems, TLAPS

-----------------------------------------------------------------------------
(* The credential of a project (ProjectCredentials).                       *)

LockedReadIsFresh ==
  \A c \in Calls : calls[c].at = "locked" =>
    /\ calls[c].generation = project.generation + 1
    /\ calls[c].launch \in Launches
    /\ \A d \in Calls : calls[d].at = "locked" => d = c

TokensAreDated ==
  /\ project.secret \in era
  /\ \A s \in Sockets :
       /\ sockets[s].generation <= project.generation
       /\ sockets[s].at # "none" /\ sockets[s].generation = project.generation
            => sockets[s].secret \in era

CommandsAreDated ==
  \A s \in Sockets :
    /\ sockets[s].seen <= project.generation
    /\ sockets[s].command = "passed" => sockets[s].generation >= sockets[s].seen

Inductive == TypeOK /\ LockedReadIsFresh /\ TokensAreDated /\ CommandsAreDated

-----------------------------------------------------------------------------
(* What a step does to one connection while the row keeps its generation:  *)
(* it keeps its token, or logs in again.                                   *)
Moves(k, j) ==
  \/ /\ j.generation = k.generation /\ j.secret = k.secret /\ (j.at # "none" => k.at # "none")
     /\ \/ j.command = k.command /\ j.seen = k.seen
        \/ j.command = "none" /\ j.seen = 0
        \/ j.command = "asked" /\ j.seen = project.generation
        \/ j.command = "passed" /\ j.seen = k.seen /\ k.generation = project.generation
  \/ /\ j.generation = project.generation /\ j.secret = project.secret
     /\ j.command = "none" /\ j.seen = 0

LEMMA EndingMoves ==
    ASSUME NEW k \in Socket
    PROVE  Ending(k) \in Socket /\ Moves(k, Ending(k))
  <1>1. CASE k.at = "open"
    <2>1. Ending(k) = [k EXCEPT !.at = "ending"]
      BY <1>1 DEF Ending
    <2> QED
      BY <1>1, <2>1 DEF Socket, Moves
  <1>2. CASE k.at # "open"
    BY <1>2 DEF Ending, Moves
  <1> QED
    BY <1>1, <1>2

LEMMA SameMoves ==
    ASSUME NEW k \in Socket
    PROVE  Moves(k, k)
  BY DEF Moves

LEMMA GoneMoves ==
    ASSUME NEW k \in Socket, k.at # "none"
    PROVE  Gone(k) \in Socket /\ Moves(k, Gone(k))
  BY DEF Gone, Socket, Moves

(* One connection of a crashed process. *)
LEMMA CrashMoves ==
    ASSUME NEW k \in Socket, k.at # "none"
    PROVE  /\ [Gone(k) EXCEPT !.command = "none", !.seen = 0] \in Socket
           /\ Moves(k, [Gone(k) EXCEPT !.command = "none", !.seen = 0])
  BY DEF Gone, Socket, Moves

(* A step of the connections alone. *)
Communicates ==
  \/ \E c \in Calls : CloseOlder(c)
  \/ \E s \in Sockets : \/ Login(s) \/ Open(s) \/ Ask(s) \/ CheckCommand(s) \/ RunCommand(s)
                        \/ Expire(s) \/ ExpiryTimer(s) \/ HandleClose(s) \/ Disconnect(s)
                        \/ \E p \in Processes : Upgrade(s, p)
  \/ \E p \in Processes : Crash(p)

(* Replacing the record of one connection. *)
LEMMA OneMoves ==
    ASSUME TypeOK, NEW s \in Sockets, NEW j \in Socket, Moves(sockets[s], j),
           sockets' = [sockets EXCEPT ![s] = j]
    PROVE  \A t \in Sockets : sockets'[t] \in Socket /\ Moves(sockets[t], sockets'[t])
  <1> TAKE t \in Sockets
  <1>1. sockets[t] \in Socket /\ sockets[s] \in Socket
    BY DEF TypeOK
  <1>2. CASE t = s
    BY <1>2 DEF TypeOK
  <1>3. CASE t # s
    BY <1>1, <1>3, SameMoves DEF TypeOK
  <1> QED
    BY <1>2, <1>3

LEMMA LoginMoves ==
    ASSUME TypeOK, NEW s \in Sockets, Login(s)
    PROVE  \A t \in Sockets : sockets'[t] \in Socket /\ Moves(sockets[t], sockets'[t])
  <1> DEFINE j == [NoSocket EXCEPT !.at = "token", !.generation = project.generation,
                                   !.secret = project.secret]
  <1>1. project.generation \in Nat /\ project.secret \in Secrets
    BY DEF TypeOK
  <1>2. j \in Socket
    BY <1>1 DEF NoSocket, Socket
  <1>3. Moves(sockets[s], j)
    BY DEF Moves, NoSocket
  <1>4. sockets' = [sockets EXCEPT ![s] = j]
    BY DEF Login
  <1> HIDE DEF j
  <1> QED
    BY <1>2, <1>3, <1>4, OneMoves

LEMMA UpgradeMoves ==
    ASSUME TypeOK, NEW s \in Sockets, NEW p \in Processes, Upgrade(s, p)
    PROVE  \A t \in Sockets : sockets'[t] \in Socket /\ Moves(sockets[t], sockets'[t])
  <1> DEFINE j == [sockets[s] EXCEPT !.at = "admitted", !.process = p]
  <1>1. sockets[s] \in Socket /\ sockets[s].at # "none"
    BY DEF TypeOK, Upgrade
  <1>2. j \in Socket /\ Moves(sockets[s], j)
    BY <1>1 DEF Moves, Socket
  <1>3. sockets' = [sockets EXCEPT ![s] = j]
    BY DEF Upgrade, TypeOK
  <1> HIDE DEF j
  <1> QED
    BY <1>2, <1>3, OneMoves

LEMMA OpenMoves ==
    ASSUME TypeOK, NEW s \in Sockets, Open(s)
    PROVE  \A t \in Sockets : sockets'[t] \in Socket /\ Moves(sockets[t], sockets'[t])
  <1> DEFINE j == [sockets[s] EXCEPT !.at = "open"]
  <1>1. sockets[s] \in Socket /\ sockets[s].at # "none"
    BY DEF TypeOK, Open
  <1>2. j \in Socket /\ Moves(sockets[s], j)
    BY <1>1 DEF Moves, Socket
  <1>3. sockets' = [sockets EXCEPT ![s] = j]
    BY DEF Open, TypeOK
  <1> HIDE DEF j
  <1> QED
    BY <1>2, <1>3, OneMoves

LEMMA AskMoves ==
    ASSUME TypeOK, NEW s \in Sockets, Ask(s)
    PROVE  \A t \in Sockets : sockets'[t] \in Socket /\ Moves(sockets[t], sockets'[t])
  <1> DEFINE k == sockets[s]
             j == [k EXCEPT !.command = "asked", !.seen = project.generation]
  <1>1. k \in Socket /\ k.at # "none" /\ project.generation \in Nat
    BY DEF TypeOK, Ask
  <1>2. j \in Socket /\ Moves(k, j)
    BY <1>1 DEF Moves, Socket
  <1>3. Ending(k) \in Socket /\ Moves(k, Ending(k))
    BY <1>1, EndingMoves
  <1>4. sockets' = [sockets EXCEPT ![s] = Ending(k)] \/ sockets' = [sockets EXCEPT ![s] = j]
    BY DEF Ask, TypeOK
  <1> HIDE DEF j
  <1> QED
    BY <1>2, <1>3, <1>4, OneMoves

LEMMA CheckMoves ==
    ASSUME TypeOK, NEW s \in Sockets, CheckCommand(s)
    PROVE  \A t \in Sockets : sockets'[t] \in Socket /\ Moves(sockets[t], sockets'[t])
  <1> DEFINE k == sockets[s]
             i == [k EXCEPT !.command = "passed"]
             j == [Ending(k) EXCEPT !.command = "none", !.seen = 0]
  <1>1. k \in Socket
    BY DEF TypeOK
  <1>2. IsCurrent(k) => i \in Socket /\ Moves(k, i)
    BY <1>1 DEF Moves, Socket, IsCurrent
  <1>3. Ending(k) \in Socket /\ (Ending(k).at # "none" => k.at # "none")
        /\ Ending(k).generation = k.generation /\ Ending(k).secret = k.secret
    BY <1>1 DEF Ending, Socket
  <1>4. j \in Socket /\ Moves(k, j)
    BY <1>3 DEF Moves, Socket
  <1>5. \/ IsCurrent(k) /\ sockets' = [sockets EXCEPT ![s] = i]
        \/ sockets' = [sockets EXCEPT ![s] = j]
    BY DEF CheckCommand, TypeOK
  <1> HIDE DEF i, j
  <1> QED
    BY <1>2, <1>4, <1>5, OneMoves

LEMMA RunMoves ==
    ASSUME TypeOK, NEW s \in Sockets, RunCommand(s)
    PROVE  \A t \in Sockets : sockets'[t] \in Socket /\ Moves(sockets[t], sockets'[t])
  <1> DEFINE j == [sockets[s] EXCEPT !.command = "none", !.seen = 0]
  <1>1. sockets[s] \in Socket
    BY DEF TypeOK
  <1>2. j \in Socket /\ Moves(sockets[s], j)
    BY <1>1 DEF Moves, Socket
  <1>3. sockets' = [sockets EXCEPT ![s] = j]
    BY DEF RunCommand, TypeOK
  <1> HIDE DEF j
  <1> QED
    BY <1>2, <1>3, OneMoves

LEMMA ExpireMoves ==
    ASSUME TypeOK, NEW s \in Sockets, Expire(s)
    PROVE  \A t \in Sockets : sockets'[t] \in Socket /\ Moves(sockets[t], sockets'[t])
  <1> DEFINE j == [sockets[s] EXCEPT !.expired = TRUE]
  <1>1. sockets[s] \in Socket
    BY DEF TypeOK
  <1>2. j \in Socket /\ Moves(sockets[s], j)
    BY <1>1 DEF Moves, Socket
  <1>3. sockets' = [sockets EXCEPT ![s] = j]
    BY DEF Expire, TypeOK
  <1> HIDE DEF j
  <1> QED
    BY <1>2, <1>3, OneMoves

LEMMA TimerMoves ==
    ASSUME TypeOK, NEW s \in Sockets, ExpiryTimer(s)
    PROVE  \A t \in Sockets : sockets'[t] \in Socket /\ Moves(sockets[t], sockets'[t])
  <1>1. sockets[s] \in Socket
    BY DEF TypeOK
  <1>2. sockets' = [sockets EXCEPT ![s] = Ending(sockets[s])]
    BY DEF ExpiryTimer, TypeOK
  <1> QED
    BY <1>1, <1>2, EndingMoves, OneMoves

LEMMA CloseMoves ==
    ASSUME TypeOK, NEW s \in Sockets, HandleClose(s) \/ Disconnect(s)
    PROVE  \A t \in Sockets : sockets'[t] \in Socket /\ Moves(sockets[t], sockets'[t])
  <1>1. sockets[s] \in Socket /\ sockets[s].at # "none"
    BY DEF TypeOK, HandleClose, Disconnect
  <1>2. sockets' = [sockets EXCEPT ![s] = Gone(sockets[s])]
    BY DEF HandleClose, Disconnect, TypeOK
  <1> QED
    BY <1>1, <1>2, GoneMoves, OneMoves

LEMMA ManyMove ==
    ASSUME TypeOK, (\E c \in Calls : CloseOlder(c)) \/ (\E p \in Processes : Crash(p))
    PROVE  \A t \in Sockets : sockets'[t] \in Socket /\ Moves(sockets[t], sockets'[t])
  <1> TAKE t \in Sockets
  <1>1. sockets[t] \in Socket
    BY DEF TypeOK
  <1>2. CASE \E c \in Calls : CloseOlder(c)
    <2>1. sockets'[t] = Ending(sockets[t]) \/ sockets'[t] = sockets[t]
      BY <1>2 DEF CloseOlder
    <2> QED
      BY <1>1, <2>1, EndingMoves, SameMoves
  <1>3. CASE \E p \in Processes : Crash(p)
    <2>1. \/ /\ sockets[t].at \in {"admitted", "open", "ending"}
             /\ sockets'[t] = [Gone(sockets[t]) EXCEPT !.command = "none", !.seen = 0]
          \/ sockets'[t] = sockets[t]
      BY <1>3 DEF Crash
    <2> QED
      BY <1>1, <2>1, CrashMoves, SameMoves
  <1> QED
    BY <1>2, <1>3

LEMMA NoCallType == NoCall \in Call
  BY DEF NoCall, Call

(* The calls of a step that begins none: each stays or is given up. *)
CallsEnd == \A c \in Calls : calls'[c] = calls[c] \/ calls'[c] = NoCall

LEMMA CommunicatesKeeps ==
    ASSUME TypeOK, Communicates
    PROVE  /\ \A t \in Sockets : sockets'[t] \in Socket /\ Moves(sockets[t], sockets'[t])
           /\ project' = project /\ era' = era
           /\ TypeOK' /\ CallsEnd
  <1>1. \A t \in Sockets : sockets'[t] \in Socket /\ Moves(sockets[t], sockets'[t])
    BY LoginMoves, UpgradeMoves, OpenMoves, AskMoves, CheckMoves, RunMoves, ExpireMoves,
       TimerMoves, CloseMoves, ManyMove DEF Communicates
  <1>2. project' = project /\ era' = era /\ launches' = launches /\ rotated' = rotated
    BY DEF Communicates, CloseOlder, Login, Open, Ask, CheckCommand, RunCommand, Expire,
           ExpiryTimer, HandleClose, Disconnect, Upgrade, Crash
  <1>3. \E f : sockets' = [t \in Sockets |-> f[t]]
    <2>1. sockets = [t \in Sockets |-> sockets[t]]
      BY DEF TypeOK
    <2>2. DOMAIN sockets' = Sockets /\ sockets' = [t \in DOMAIN sockets' |-> sockets'[t]]
      BY <2>1 DEF Communicates, CloseOlder, Login, Open, Ask, CheckCommand, RunCommand, Expire,
             ExpiryTimer, HandleClose, Disconnect, Upgrade, Crash
    <2> QED
      BY <2>2
  <1>4. sockets' \in [Sockets -> Socket]
    BY <1>1, <1>3
  <1>5. CallsEnd /\ calls' \in [Calls -> Call]
    <2>1. CASE calls' = calls
      BY <2>1 DEF CallsEnd, TypeOK
    <2>2. CASE \E c \in Calls : CloseOlder(c)
      BY <2>2, NoCallType DEF CallsEnd, CloseOlder, TypeOK
    <2>3. CASE \E p \in Processes : Crash(p)
      <3>1. PICK p \in Processes : Crash(p)
        BY <2>3
      <3>2. calls' = [c \in Calls |-> IF calls[c].process = p THEN NoCall ELSE calls[c]]
        BY <3>1 DEF Crash
      <3> QED
        BY <3>2, NoCallType DEF CallsEnd, TypeOK
    <2> QED
      BY <2>1, <2>2, <2>3 DEF Communicates, Login, Open, Ask, CheckCommand, RunCommand, Expire,
                              ExpiryTimer, HandleClose, Disconnect, Upgrade
  <1> QED
    BY <1>1, <1>2, <1>4, <1>5 DEF TypeOK

LEMMA LockKept ==
    ASSUME LockedReadIsFresh, CallsEnd, project'.generation = project.generation
    PROVE  LockedReadIsFresh'
  BY DEF LockedReadIsFresh, CallsEnd, NoCall

LEMMA CommunicatesPreserves ==
    ASSUME Inductive, Communicates
    PROVE  Inductive'
  <1>1. /\ \A t \in Sockets : sockets'[t] \in Socket /\ Moves(sockets[t], sockets'[t])
        /\ project' = project /\ era' = era
        /\ TypeOK' /\ CallsEnd
    BY CommunicatesKeeps DEF Inductive
  <1>2. LockedReadIsFresh'
    BY <1>1, LockKept DEF Inductive
  <1>3. \A t \in Sockets : sockets[t] \in Socket
    BY DEF Inductive, TypeOK
  <1>4. project.generation \in Nat
    BY DEF Inductive, TypeOK
  <1>5. TokensAreDated'
    <2>1. project'.secret \in era'
      BY <1>1 DEF Inductive, TokensAreDated
    <2>2. ASSUME NEW t \in Sockets
          PROVE  /\ sockets'[t].generation <= project'.generation
                 /\ sockets'[t].at # "none" /\ sockets'[t].generation = project'.generation
                      => sockets'[t].secret \in era'
      <3>1. Moves(sockets[t], sockets'[t])
        BY <1>1
      <3>2. /\ sockets[t].generation <= project.generation
            /\ sockets[t].at # "none" /\ sockets[t].generation = project.generation
                 => sockets[t].secret \in era
        BY DEF Inductive, TokensAreDated
      <3> QED
        BY <1>1, <1>4, <2>1, <3>1, <3>2 DEF Moves
    <2> QED
      BY <2>1, <2>2 DEF TokensAreDated
  <1>6. CommandsAreDated'
    <2> SUFFICES ASSUME NEW t \in Sockets
                 PROVE  /\ sockets'[t].seen <= project'.generation
                        /\ sockets'[t].command = "passed" => sockets'[t].generation >= sockets'[t].seen
      BY DEF CommandsAreDated
    <2>1. Moves(sockets[t], sockets'[t])
      BY <1>1
    <2>2. /\ sockets[t].seen <= project.generation
          /\ sockets[t].command = "passed" => sockets[t].generation >= sockets[t].seen
      BY DEF Inductive, CommandsAreDated
    <2>3. sockets[t].seen \in Nat /\ sockets[t].generation \in Nat
      BY <1>3 DEF Socket
    <2> QED
      BY <1>1, <1>4, <2>1, <2>2, <2>3 DEF Moves
  <1> QED
    BY <1>1, <1>2, <1>5, <1>6 DEF Inductive

-----------------------------------------------------------------------------
(* The steps of the row. *)

LEMMA BeginPreserves ==
    ASSUME Inductive, NEW c \in Calls, NEW l \in Launches, NEW p \in Processes, BeginLaunch(c, l, p)
    PROVE  Inductive'
  <1> DEFINE k == [at |-> "locked", launch |-> l, process |-> p,
                   generation |-> project.generation + 1]
  <1>1. project.generation \in Nat /\ calls \in [Calls -> Call]
    BY DEF Inductive, TypeOK
  <1>2. calls' = [calls EXCEPT ![c] = k]
    BY DEF BeginLaunch, Raised
  <1>3. project' = project /\ sockets' = sockets /\ era' = era
        /\ launches' = launches /\ rotated' = rotated
    BY DEF BeginLaunch
  <1>4. k \in Call
    BY <1>1 DEF Call
  <1>5. TypeOK'
    BY <1>1, <1>2, <1>3, <1>4 DEF Inductive, TypeOK
  <1>6. \A d \in Calls : calls'[d] = IF d = c THEN k ELSE calls[d]
    BY <1>1, <1>2
  <1>7. \A d \in Calls : calls[d].at # "locked"
    BY DEF BeginLaunch, LockIsFree
  <1>8. LockedReadIsFresh'
    BY <1>3, <1>6, <1>7 DEF LockedReadIsFresh
  <1>9. TokensAreDated' /\ CommandsAreDated'
    BY <1>3 DEF Inductive, TokensAreDated, CommandsAreDated
  <1> QED
    BY <1>5, <1>8, <1>9 DEF Inductive

LEMMA LaunchedRow ==
    ASSUME NEW r \in [active : BOOLEAN, secret : Secrets, generation : Nat],
           NEW x \in Secrets, NEW g \in Nat
    PROVE  /\ [r EXCEPT !.secret = x, !.generation = g]
                \in [active : BOOLEAN, secret : Secrets, generation : Nat]
           /\ [r EXCEPT !.secret = x, !.generation = g].secret = x
           /\ [r EXCEPT !.secret = x, !.generation = g].generation = g
  OBVIOUS

(* The row moves beyond every token. *)
LEMMA CommitPreserves ==
    ASSUME Inductive, NEW c \in Calls, CommitLaunch(c)
    PROVE  Inductive'
  <1> DEFINE l == calls[c].launch
  <1>1. /\ project.generation \in Nat /\ calls[c] \in Call /\ calls \in [Calls -> Call]
        /\ \A s \in Sockets : sockets[s] \in Socket
    BY DEF Inductive, TypeOK
  <1>2. /\ calls[c].at = "locked" /\ calls[c].generation = project.generation + 1
        /\ l \in Launches /\ \A d \in Calls : calls[d].at = "locked" => d = c
    BY DEF CommitLaunch, Inductive, LockedReadIsFresh
  <1>3. project'.secret = l /\ project'.generation = project.generation + 1
        /\ project' \in [active : BOOLEAN, secret : Secrets, generation : Nat]
    <2>1. project \in [active : BOOLEAN, secret : Secrets, generation : Nat]
      BY DEF Inductive, TypeOK
    <2>2. project' = [project EXCEPT !.secret = l, !.generation = project.generation + 1]
      BY <1>2 DEF CommitLaunch
    <2>3. l \in Secrets
      BY <1>2 DEF Secrets
    <2>4. project.generation + 1 \in Nat
      BY <1>1
    <2> HIDE DEF l
    <2> QED
      BY <2>1, <2>2, <2>3, <2>4, LaunchedRow
  <1>4. sockets' = sockets /\ era' = {l} /\ rotated' = rotated
    BY DEF CommitLaunch
  <1>5. calls' = [calls EXCEPT ![c].at = "committed"]
    BY DEF CommitLaunch
  <1>6. [calls[c] EXCEPT !.at = "committed"] \in Call
    BY <1>1 DEF Call
  <1>7. calls' \in [Calls -> Call]
    BY <1>1, <1>5, <1>6
  <1>8. launches' \in [Launches -> [at : {"none", "active", "revoked"}, generation : Nat]]
    <2>1. launches \in [Launches -> [at : {"none", "active", "revoked"}, generation : Nat]]
      BY DEF Inductive, TypeOK
    <2>2. calls[c].generation \in Nat
      BY <1>1 DEF Call
    <2> QED
      BY <2>1, <2>2 DEF CommitLaunch
  <1>9. TypeOK'
    <2>1. era' \in SUBSET Secrets
      BY <1>2, <1>4 DEF Secrets
    <2> QED
      BY <1>3, <1>4, <1>7, <1>8, <2>1 DEF Inductive, TypeOK
  <1>10. \A d \in Calls : calls'[d].at # "locked"
    BY <1>1, <1>2, <1>5 DEF Call
  <1>11. LockedReadIsFresh'
    BY <1>10 DEF LockedReadIsFresh
  <1>12. \A s \in Sockets : /\ sockets[s].generation \in Nat /\ sockets[s].seen \in Nat
                            /\ sockets[s].generation <= project.generation
                            /\ sockets[s].seen <= project.generation
    BY <1>1 DEF Inductive, TokensAreDated, CommandsAreDated, Socket
  <1>13. TokensAreDated'
    <2>1. \A s \in Sockets : /\ sockets[s].generation <= project'.generation
                             /\ sockets[s].generation # project'.generation
      BY <1>1, <1>3, <1>12
    <2> QED
      BY <1>3, <1>4, <2>1 DEF TokensAreDated
  <1>14. CommandsAreDated'
    <2>1. \A s \in Sockets : sockets[s].seen <= project'.generation
      BY <1>1, <1>3, <1>12
    <2> QED
      BY <1>4, <2>1 DEF CommandsAreDated, Inductive
  <1> QED
    BY <1>9, <1>11, <1>13, <1>14 DEF Inductive

LEMMA AbortPreserves ==
    ASSUME Inductive, NEW c \in Calls, AbortLaunch(c)
    PROVE  Inductive'
  <1>1. calls' = [calls EXCEPT ![c] = NoCall] /\ calls \in [Calls -> Call]
    BY DEF AbortLaunch, Inductive, TypeOK
  <1>2. project' = project /\ sockets' = sockets /\ era' = era
        /\ launches' = launches /\ rotated' = rotated
    BY DEF AbortLaunch
  <1>3. TypeOK'
    BY <1>1, <1>2, NoCallType DEF Inductive, TypeOK
  <1>4. CallsEnd
    BY <1>1 DEF CallsEnd
  <1>5. LockedReadIsFresh'
    BY <1>2, <1>4, LockKept DEF Inductive
  <1>6. TokensAreDated' /\ CommandsAreDated'
    BY <1>2 DEF Inductive, TokensAreDated, CommandsAreDated
  <1> QED
    BY <1>3, <1>5, <1>6 DEF Inductive

(* The secret changes and the generation does not, or neither does. *)
LEMMA RowPreserves ==
    ASSUME Inductive, (\E r \in Rotations : Rotate(r)) \/ SwitchProject
    PROVE  Inductive'
  <1>1. sockets' = sockets /\ calls' = calls /\ launches' = launches
    BY DEF Rotate, SwitchProject
  <1>2. project \in [active : BOOLEAN, secret : Secrets, generation : Nat]
    BY DEF Inductive, TypeOK
  <1> DEFINE Kept == /\ project'.generation = project.generation
                     /\ project' \in [active : BOOLEAN, secret : Secrets, generation : Nat]
                     /\ project'.secret \in era' /\ era \subseteq era'
                     /\ era' \in SUBSET Secrets /\ rotated' \in SUBSET Rotations
  <1>3. Kept
    <2>1. ASSUME NEW r \in Rotations, Rotate(r)
          PROVE  Kept
      <3>1. r \in Secrets
        BY DEF Secrets
      <3> QED
        BY <1>2, <2>1, <3>1 DEF Rotate, Inductive, TypeOK
    <2>2. CASE SwitchProject
      <3>1. project' = [project EXCEPT !.active = ~project.active] /\ era' = era /\ rotated' = rotated
        BY <1>2, <2>2 DEF SwitchProject
      <3>2. (~project.active) \in BOOLEAN
        OBVIOUS
      <3>3. \A b \in BOOLEAN : /\ [project EXCEPT !.active = b]
                                   \in [active : BOOLEAN, secret : Secrets, generation : Nat]
                               /\ [project EXCEPT !.active = b].generation = project.generation
                               /\ [project EXCEPT !.active = b].secret = project.secret
        BY <1>2
      <3> QED
        BY <3>1, <3>2, <3>3 DEF Inductive, TypeOK, TokensAreDated
    <2> QED
      BY <2>1, <2>2
  <1>4. TypeOK'
    BY <1>1, <1>3 DEF Inductive, TypeOK
  <1>5. LockedReadIsFresh'
    BY <1>1, <1>3 DEF Inductive, LockedReadIsFresh
  <1>6. TokensAreDated' /\ CommandsAreDated'
    BY <1>1, <1>3 DEF Inductive, TokensAreDated, CommandsAreDated
  <1> QED
    BY <1>4, <1>5, <1>6 DEF Inductive

LEMMA InitIsInductive == Init => Inductive
  <1> SUFFICES ASSUME Init
               PROVE  Inductive
    OBVIOUS
  <1>1. NoSocket \in Socket
    BY DEF NoSocket, Socket, Secrets
  <1>2. TypeOK
    BY <1>1, NoCallType DEF Init, TypeOK, Secrets
  <1>3. LockedReadIsFresh
    BY DEF Init, LockedReadIsFresh, NoCall
  <1>4. TokensAreDated /\ CommandsAreDated
    BY DEF Init, TokensAreDated, CommandsAreDated, NoSocket
  <1> QED
    BY <1>2, <1>3, <1>4 DEF Inductive

LEMMA NextPreserves ==
    ASSUME Inductive, [Next]_vars
    PROVE  Inductive'
  <1>1. CASE UNCHANGED vars
    BY <1>1 DEF vars, Inductive, TypeOK, LockedReadIsFresh, TokensAreDated, CommandsAreDated
  <1>2. CASE Communicates
    BY <1>2, CommunicatesPreserves
  <1>3. CASE \E c \in Calls, l \in Launches, p \in Processes : BeginLaunch(c, l, p)
    BY <1>3, BeginPreserves
  <1>4. CASE \E c \in Calls : CommitLaunch(c)
    BY <1>4, CommitPreserves
  <1>5. CASE \E c \in Calls : AbortLaunch(c)
    BY <1>5, AbortPreserves
  <1>6. CASE (\E r \in Rotations : Rotate(r)) \/ SwitchProject
    BY <1>6, RowPreserves
  <1> QED
    BY <1>1, <1>2, <1>3, <1>4, <1>5, <1>6 DEF Next, Communicates

THEOREM AlwaysInductive == Spec => []Inductive
  <1>1. Init => Inductive
    BY InitIsInductive
  <1>2. Inductive /\ [Next]_vars => Inductive'
    BY NextPreserves
  <1> QED
    BY <1>1, <1>2, PTL DEF Spec

-----------------------------------------------------------------------------
(* The state of the project's credential and of its connections keeps its  *)
(* shape (the rows of launch-credentials.ts and project-registry.ts).      *)
THEOREM CredentialTypes == Spec => []TypeOK
  <1>1. Inductive => TypeOK
    BY DEF Inductive
  <1> QED
    BY <1>1, AlwaysInductive, PTL

(* A launch cuts off the secret before it and every token obtained with    *)
(* it, in all processes and whatever overlapped the launch: the advisory   *)
(* lock of issueProjectLaunchCredential and the comparison of generations  *)
(* in isCurrentProjectCredential suffice, although a rotation of the       *)
(* secret takes no lock.                                                   *)
THEOREM LaunchCutsOff == Spec => []SupersededSecretsAreCutOff
  <1>1. Inductive => SupersededSecretsAreCutOff
    BY DEF Inductive, TokensAreDated, SupersededSecretsAreCutOff, IsCurrent
  <1> QED
    BY <1>1, AlwaysInductive, PTL

(* A command that passes the check of handleProjectWsMessage is of a       *)
(* generation no launch had replaced when it arrived.                      *)
THEOREM CommandsAreCurrent == Spec => []NoCommandOfAnOlderGeneration
  <1>1. Inductive => NoCommandOfAnOlderGeneration
    BY DEF Inductive, CommandsAreDated, NoCommandOfAnOlderGeneration
  <1> QED
    BY <1>1, AlwaysInductive, PTL

-----------------------------------------------------------------------------
(* The user WebSocket (UserSockets).                                       *)

Holders == {s \in Connections : socket[s].slot # None}
HoldersOf(a) == {s \in Connections : socket[s].slot = a}

(* A connection holds a slot exactly while it is an open guest.            *)
GuestsHold == \A s \in Connections : socket[s].slot # None <=> IsOpen(s) /\ Guest(s)

SlotsAreCounted ==
    /\ IsFiniteSet(Holders)
    /\ slots.count = Cardinality(Holders) /\ slots.count <= Total
    /\ \A a \in Sources : slots.bySource[a] = Cardinality(HoldersOf(a))
                          /\ slots.bySource[a] <= PerSource

(* What a socket was sent and what it still has to be sent, one after the  *)
(* other, are in the order of the relays, of which `last` is the last.     *)
Queued(sent, queue, last) ==
    /\ \A i, j \in DOMAIN sent : i < j => sent[i] < sent[j]
    /\ \A i, j \in DOMAIN queue : i < j => queue[i] < queue[j]
    /\ \A i \in DOMAIN sent, j \in DOMAIN queue : sent[i] < queue[j]
    /\ \A i \in DOMAIN sent : sent[i] <= last
    /\ \A i \in DOMAIN queue : queue[i] <= last

DeliveriesAreQueued == \A s \in Connections : Queued(received[s], outgoing[s], relayed)

(* A proof that has run a command is spent.                                *)
ProofsAreSpent ==
    \A p \in Proofs : spent[p] <= 1 /\ (proof[p] # "spent" => spent[p] = 0)

SocketsInductive ==
    /\ SocketsTypeOK
    /\ GuestsHold /\ SlotsAreCounted
    /\ DeliveriesAreQueued
    /\ ProofsAreSpent

-----------------------------------------------------------------------------
(* Slots.                                                                  *)

(* The connections hold the slots they held.                               *)
SlotsStay ==
    /\ slots' = slots
    /\ \A s \in Connections : socket'[s].slot = socket[s].slot

LEMMA StayingSlots ==
    ASSUME SlotsAreCounted, SlotsStay
    PROVE  SlotsAreCounted'
  <1>1. Holders' = Holders /\ \A a : HoldersOf(a)' = HoldersOf(a)
    BY DEF SlotsStay, Holders, HoldersOf
  <1> QED
    BY <1>1 DEF SlotsStay, SlotsAreCounted

LEMMA FiniteHolders ==
    ASSUME SlotsAreCounted, NEW a \in Sources
    PROVE  IsFiniteSet(HoldersOf(a)) /\ HoldersOf(a) \subseteq Holders
  <1>1. HoldersOf(a) \subseteq Holders
    BY SocketAssumption DEF Holders, HoldersOf
  <1> QED
    BY <1>1, FS_Subset DEF SlotsAreCounted

LEMMA AcquiredSlots ==
    ASSUME SocketsTypeOK, SlotsAreCounted, NEW s \in Connections, NEW a \in Sources,
           MayAcquire(a), socket[s].slot = None, slots' = Acquired(a),
           NEW data \in WsUserData, data.slot = a, socket' = [socket EXCEPT ![s] = data]
    PROVE  SlotsAreCounted'
  <1>0. a # None
    BY SocketAssumption
  <1>1. /\ Holders' = Holders \cup {s} /\ s \notin Holders
        /\ HoldersOf(a)' = HoldersOf(a) \cup {s} /\ s \notin HoldersOf(a)
        /\ \A b \in Sources : b # a => HoldersOf(b)' = HoldersOf(b)
    BY <1>0, SocketAssumption DEF SocketsTypeOK, Holders, HoldersOf
  <1>2. /\ IsFiniteSet(Holders') /\ Cardinality(Holders') = Cardinality(Holders) + 1
        /\ Cardinality(HoldersOf(a)') = Cardinality(HoldersOf(a)) + 1
    <2>1. IsFiniteSet(Holders) /\ IsFiniteSet(HoldersOf(a))
      BY FiniteHolders DEF SlotsAreCounted
    <2>2. /\ IsFiniteSet(Holders \cup {s})
          /\ Cardinality(Holders \cup {s}) = Cardinality(Holders) + 1
      BY <1>1, <2>1, FS_AddElement
    <2>3. Cardinality(HoldersOf(a) \cup {s}) = Cardinality(HoldersOf(a)) + 1
      BY <1>1, <2>1, FS_AddElement
    <2> QED
      BY <1>1, <2>2, <2>3
  <1>3. /\ slots'.count = slots.count + 1
        /\ slots'.bySource[a] = slots.bySource[a] + 1
        /\ \A b \in Sources : b # a => slots'.bySource[b] = slots.bySource[b]
    BY DEF Acquired, SocketsTypeOK
  <1>4. /\ slots.count \in Nat /\ Total \in Nat /\ PerSource \in Nat
        /\ \A b \in Sources : slots.bySource[b] \in Nat
    BY SocketAssumption DEF SocketsTypeOK
  <1>5. slots'.count = Cardinality(Holders)' /\ slots'.count <= Total
    BY <1>2, <1>3, <1>4 DEF SlotsAreCounted, MayAcquire
  <1>6. ASSUME NEW b \in Sources
        PROVE  slots'.bySource[b] = Cardinality(HoldersOf(b))' /\ slots'.bySource[b] <= PerSource
    <2>1. CASE b = a
      BY <1>2, <1>3, <1>4, <2>1 DEF SlotsAreCounted, MayAcquire
    <2>2. CASE b # a
      BY <1>1, <1>3, <2>2 DEF SlotsAreCounted
    <2> QED
      BY <2>1, <2>2
  <1> QED
    BY <1>2, <1>5, <1>6 DEF SlotsAreCounted

LEMMA ReleasedSlots ==
    ASSUME SocketsTypeOK, SlotsAreCounted, NEW s \in Connections, slots' = Released(s),
           NEW data \in WsUserData, data.slot = None, socket' = [socket EXCEPT ![s] = data]
    PROVE  SlotsAreCounted'
  <1>0. PICK a : a = socket[s].slot
    OBVIOUS
  <1>1. CASE a = None
    BY <1>0, <1>1, StayingSlots DEF Released, SlotsStay, SocketsTypeOK
  <1>2. CASE a # None
    <2>0. a \in Sources /\ s \in HoldersOf(a)
      BY <1>0, <1>2 DEF SocketsTypeOK, WsUserData, HoldersOf
    <2>1. /\ Holders' = Holders \ {s} /\ s \in Holders
          /\ HoldersOf(a)' = HoldersOf(a) \ {s}
          /\ \A b \in Sources : b # a => HoldersOf(b)' = HoldersOf(b)
      BY <1>0, <1>2, <2>0, SocketAssumption DEF SocketsTypeOK, Holders, HoldersOf
    <2>2. /\ IsFiniteSet(Holders') /\ Cardinality(Holders') = Cardinality(Holders) - 1
          /\ Cardinality(HoldersOf(a)') = Cardinality(HoldersOf(a)) - 1
      BY <2>0, <2>1, FiniteHolders, FS_RemoveElement DEF SlotsAreCounted
    <2>3. /\ slots.count \in Nat /\ Total \in Nat /\ PerSource \in Nat
          /\ \A b \in Sources : slots.bySource[b] \in Nat
      BY SocketAssumption DEF SocketsTypeOK
    <2>4. slots.bySource[a] # 0
      BY <2>0, FiniteHolders, FS_EmptySet DEF SlotsAreCounted
    <2>5. /\ slots'.count = slots.count - 1
          /\ slots'.bySource[a] = slots.bySource[a] - 1
          /\ \A b \in Sources : b # a => slots'.bySource[b] = slots.bySource[b]
      BY <1>0, <1>2, <2>0, <2>4 DEF Released, SocketsTypeOK
    <2>6. slots'.count = Cardinality(Holders)' /\ slots'.count <= Total
      BY <2>2, <2>3, <2>5 DEF SlotsAreCounted
    <2>7. ASSUME NEW b \in Sources
          PROVE  slots'.bySource[b] = Cardinality(HoldersOf(b))' /\ slots'.bySource[b] <= PerSource
      <3>1. CASE b = a
        BY <2>2, <2>3, <2>5, <3>1 DEF SlotsAreCounted
      <3>2. CASE b # a
        BY <2>1, <2>5, <3>2 DEF SlotsAreCounted
      <3> QED
        BY <3>1, <3>2
    <2> QED
      BY <2>2, <2>6, <2>7 DEF SlotsAreCounted
  <1> QED
    BY <1>1, <1>2

LEMMA ReleasedTypes ==
    ASSUME SocketsTypeOK, NEW s \in Connections
    PROVE  /\ Released(s) \in [bySource : [Sources -> Nat], count : Nat \cup {0 - 1}]
           /\ SlotsAreCounted => Released(s).count \in Nat
  <1>0. PICK a : a = socket[s].slot
    OBVIOUS
  <1>1. a \in Sources \cup {None} /\ slots.count \in Nat /\ slots.bySource \in [Sources -> Nat]
    BY <1>0 DEF SocketsTypeOK, WsUserData
  <1>2. Released(s) = IF a = None \/ slots.bySource[a] = 0 THEN slots
                      ELSE [bySource |-> [slots.bySource EXCEPT ![a] = @ - 1],
                            count |-> slots.count - 1]
    BY <1>0 DEF Released
  <1>3. Released(s) \in [bySource : [Sources -> Nat], count : Nat \cup {0 - 1}]
    BY <1>1, <1>2 DEF SocketsTypeOK
  <1>4. ASSUME SlotsAreCounted, a # None PROVE slots.count # 0
    <2>1. s \in Holders
      BY <1>0, <1>4 DEF Holders
    <2> QED
      BY <1>4, <2>1, FS_EmptySet DEF SlotsAreCounted
  <1> QED
    BY <1>1, <1>2, <1>3, <1>4

-----------------------------------------------------------------------------
(* Deliveries.                                                             *)

LEMMA NextRest ==
    ASSUME NEW S, NEW q \in Seq(S), NEW i \in NextOf(q)
    PROVE  /\ i = 1 /\ i \in DOMAIN q
           /\ Without(q, i) \in Seq(S) /\ Len(Without(q, i)) = Len(q) - 1
           /\ \A j \in 1 .. (Len(q) - 1) : Without(q, i)[j] = q[j + 1]
  <1>1. i = 1 /\ i \in DOMAIN q /\ Len(q) \in Nat \ {0}
    BY DEF NextOf
  <1>2. SubSeq(q, 1, 0) = <<>>
    BY <1>1
  <1>3. /\ SubSeq(q, 2, Len(q)) \in Seq(S) /\ Len(SubSeq(q, 2, Len(q))) = Len(q) - 1
        /\ \A j \in 1 .. (Len(q) - 1) : SubSeq(q, 2, Len(q))[j] = q[j + 1]
    <2>1. \A j \in 2 .. Len(q) : q[j] \in S
      BY <1>1
    <2>2. /\ SubSeq(q, 2, Len(q)) \in Seq(S)
          /\ Len(SubSeq(q, 2, Len(q))) = IF 2 <= Len(q) THEN Len(q) - 2 + 1 ELSE 0
          /\ \A j \in 1 .. (Len(q) - 2 + 1) : SubSeq(q, 2, Len(q))[j] = q[2 + j - 1]
      BY <1>1, <2>1, SubSeqProperties
    <2>3. Len(q) - 2 + 1 = Len(q) - 1 /\ \A j \in 1 .. (Len(q) - 1) : 2 + j - 1 = j + 1
      BY <1>1
    <2>4. Len(SubSeq(q, 2, Len(q))) = Len(q) - 1
      <3>1. PICK m, n : m = Len(q) /\ n = Len(SubSeq(q, 2, Len(q)))
        OBVIOUS
      <3>2. m \in Nat \ {0} /\ n = IF 2 <= m THEN m - 2 + 1 ELSE 0
        BY <1>1, <2>2, <3>1
      <3>3. n = m - 1
        BY <3>2
      <3> QED
        BY <3>1, <3>3
    <2> QED
      BY <2>2, <2>3, <2>4
  <1>4. Without(q, i) = SubSeq(q, 2, Len(q))
    BY <1>1, <1>2, <1>3 DEF Without
  <1> QED
    BY <1>1, <1>3, <1>4

LEMMA NumberSeqs ==
    ASSUME NEW n \in Nat, NEW q \in Seq(1 .. n)
    PROVE  q \in Seq(Nat)
  BY SeqMonotonic, 1 .. n \subseteq Nat

(* The next message goes from the queue to what was sent, or is dropped.   *)
LEMMA DeliveredInOrder ==
    ASSUME NEW sent \in Seq(Nat), NEW queue \in Seq(Nat), NEW i \in NextOf(queue),
           NEW last \in Nat, Queued(sent, queue, last)
    PROVE  /\ Queued(sent, Without(queue, i), last)
           /\ Queued(Append(sent, queue[i]), Without(queue, i), last)
  <1> DEFINE rest == Without(queue, i)
             more == Append(sent, queue[i])
  <1>1. /\ i = 1 /\ i \in DOMAIN queue /\ rest \in Seq(Nat) /\ Len(rest) = Len(queue) - 1
        /\ \A j \in 1 .. (Len(queue) - 1) : rest[j] = queue[j + 1]
    BY NextRest
  <1>2. queue[1] \in Nat /\ Len(queue) \in Nat \ {0} /\ Len(sent) \in Nat
    BY <1>1
  <1>3. /\ more \in Seq(Nat) /\ Len(more) = Len(sent) + 1
        /\ \A j \in 1 .. Len(sent) : more[j] = sent[j]
        /\ more[Len(sent) + 1] = queue[1]
    BY <1>1, <1>2
  <1> HIDE DEF rest, more
  <1>4. DOMAIN rest = 1 .. (Len(queue) - 1) /\ DOMAIN more = 1 .. (Len(sent) + 1)
    BY <1>1, <1>2, <1>3
  <1>5. DOMAIN sent = 1 .. Len(sent) /\ DOMAIN queue = 1 .. Len(queue)
    OBVIOUS
  <1>6. /\ \A j \in DOMAIN rest : /\ rest[j] = queue[j + 1] /\ j + 1 \in DOMAIN queue
                                  /\ j \in Nat /\ 1 < j + 1
        /\ \A j \in DOMAIN more : \/ j \in DOMAIN sent /\ more[j] = sent[j]
                                  \/ j = Len(sent) + 1 /\ more[j] = queue[1]
        /\ \A j \in DOMAIN sent : j \in Nat /\ j < Len(sent) + 1 /\ sent[j] \in Nat
        /\ \A j \in DOMAIN queue : queue[j] \in Nat
        /\ 1 \in DOMAIN queue
    <2>1. \A j \in DOMAIN rest : /\ rest[j] = queue[j + 1] /\ j + 1 \in DOMAIN queue
                                 /\ j \in Nat /\ 1 < j + 1
      <3>1. SUFFICES ASSUME NEW j \in 1 .. (Len(queue) - 1)
                     PROVE  /\ rest[j] = queue[j + 1] /\ j + 1 \in 1 .. Len(queue)
                            /\ j \in Nat /\ 1 < j + 1
        BY <1>4, <1>5
      <3>2. j \in Nat /\ 1 < j + 1 /\ j + 1 \in 1 .. Len(queue)
        BY <1>2, <3>1
      <3> QED
        BY <1>1, <3>1, <3>2
    <2>2. \A j \in DOMAIN more : \/ j \in DOMAIN sent /\ more[j] = sent[j]
                                 \/ j = Len(sent) + 1 /\ more[j] = queue[1]
      BY <1>2, <1>3, <1>4, <1>5
    <2>3. \A j \in DOMAIN sent : j \in Nat /\ j < Len(sent) + 1 /\ sent[j] \in Nat
      BY <1>2, <1>5
    <2>4. (\A j \in DOMAIN queue : queue[j] \in Nat) /\ 1 \in DOMAIN queue
      BY <1>2, <1>5
    <2> QED
      BY <2>1, <2>2, <2>3, <2>4
  <1>7. Queued(sent, rest, last)
    BY <1>4, <1>6 DEF Queued
  <1>8. Queued(more, rest, last)
    <2>1. \A j, k \in DOMAIN more : j < k => more[j] < more[k]
      <3>1. SUFFICES ASSUME NEW j \in DOMAIN more, NEW k \in DOMAIN more, j < k
                     PROVE  more[j] < more[k]
        OBVIOUS
      <3>2. j \in DOMAIN sent /\ more[j] = sent[j]
        BY <1>2, <1>4, <1>6, <3>1
      <3>3. CASE k \in DOMAIN sent /\ more[k] = sent[k]
        BY <3>1, <3>2, <3>3 DEF Queued
      <3>4. CASE more[k] = queue[1]
        BY <1>6, <3>2, <3>4 DEF Queued
      <3> QED
        BY <1>6, <3>3, <3>4
    <2>2. \A j \in DOMAIN more, k \in DOMAIN rest : more[j] < rest[k]
      BY <1>6 DEF Queued
    <2>3. \A j \in DOMAIN more : more[j] <= last
      BY <1>6 DEF Queued
    <2> QED
      BY <1>7, <2>1, <2>2, <2>3 DEF Queued
  <1> QED
    BY <1>7, <1>8 DEF rest, more

(* A relay is later than all before it.                                    *)
LEMMA RelayedLast ==
    ASSUME NEW sent \in Seq(Nat), NEW queue \in Seq(Nat),
           NEW last \in Nat, NEW n, n = last + 1, Queued(sent, queue, last)
    PROVE  /\ Queued(sent, queue, n)
           /\ Queued(sent, Append(queue, n), n)
  <1>1. PICK more : more = Append(queue, n)
    OBVIOUS
  <1>2. /\ more \in Seq(Nat) /\ Len(more) = Len(queue) + 1 /\ Len(queue) \in Nat
        /\ \A j \in 1 .. Len(queue) : more[j] = queue[j]
        /\ more[Len(queue) + 1] = n
    BY <1>1
  <1>3. DOMAIN more = 1 .. (Len(queue) + 1) /\ DOMAIN queue = 1 .. Len(queue)
    BY <1>2
  <1>4. \A j \in DOMAIN more : \/ j \in DOMAIN queue /\ more[j] = queue[j]
                               \/ j = Len(queue) + 1 /\ more[j] = n
    BY <1>2, <1>3
  <1>5. /\ \A j \in DOMAIN queue : j \in Nat /\ j < Len(queue) + 1 /\ queue[j] \in Nat
        /\ \A j \in DOMAIN sent : sent[j] \in Nat
    BY <1>2, <1>3
  <1>6. Queued(sent, queue, n)
    <2>1. /\ \A j \in DOMAIN sent : sent[j] <= n
          /\ \A j \in DOMAIN queue : queue[j] <= n
      BY <1>5 DEF Queued
    <2> QED
      BY <2>1 DEF Queued
  <1>7. \A j, k \in DOMAIN more : j < k => more[j] < more[k]
    <2>1. SUFFICES ASSUME NEW j \in DOMAIN more, NEW k \in DOMAIN more, j < k
                   PROVE  more[j] < more[k]
      OBVIOUS
    <2>2. j \in DOMAIN queue /\ more[j] = queue[j]
      BY <1>2, <1>3, <1>4, <2>1
    <2>3. CASE k \in DOMAIN queue /\ more[k] = queue[k]
      BY <2>1, <2>2, <2>3 DEF Queued
    <2>4. CASE more[k] = n
      BY <1>5, <2>2, <2>4 DEF Queued
    <2> QED
      BY <1>4, <2>3, <2>4
  <1>8. \A j \in DOMAIN sent, k \in DOMAIN more : sent[j] < more[k]
    <2>1. SUFFICES ASSUME NEW j \in DOMAIN sent, NEW k \in DOMAIN more
                   PROVE  sent[j] < more[k]
      OBVIOUS
    <2>2. CASE k \in DOMAIN queue /\ more[k] = queue[k]
      BY <2>1, <2>2 DEF Queued
    <2>3. CASE more[k] = n
      BY <1>5, <2>1, <2>3 DEF Queued
    <2> QED
      BY <1>4, <2>2, <2>3
  <1>9. \A k \in DOMAIN more : more[k] <= n
    BY <1>4, <1>5 DEF Queued
  <1>10. Queued(sent, more, n)
    BY <1>6, <1>7, <1>8, <1>9 DEF Queued
  <1> QED
    BY <1>1, <1>6, <1>10

-----------------------------------------------------------------------------
(* Actions, part by part.                                                  *)

(* What close leaves of a connection.                                      *)
LEMMA ClosedKeeps ==
    ASSUME SocketsInductive, NEW s \in Connections, IsOpen(s), Closed(s)
    PROVE  /\ socket' \in [Connections -> WsUserData] /\ expiring' \in Nat
           /\ slots' \in [bySource : [Sources -> Nat], count : Nat]
           /\ registry' \in [SessionIds -> Connections \cup {None}]
           /\ SlotsAreCounted'
           /\ \A c \in Connections : /\ socket'[c].id = socket[c].id
                                     /\ c # s => socket'[c] = socket[c]
           /\ socket'[s].slot = None /\ socket'[s].phase = "closed"
  <1> DEFINE data == [WithoutSlot(s) EXCEPT !.phase = "closed"]
  <1>0. SocketsTypeOK /\ SlotsAreCounted /\ socket[s] \in WsUserData
    BY DEF SocketsInductive, SocketsTypeOK
  <1>1. /\ data \in WsUserData /\ data.slot = None /\ data.phase = "closed"
        /\ data.id = socket[s].id
    BY <1>0 DEF WithoutSlot, WsUserData
  <1>2. socket' = [socket EXCEPT ![s] = data] /\ slots' = Released(s)
    BY DEF Closed
  <1> HIDE DEF data
  <1>3. SlotsAreCounted'
    BY <1>0, <1>1, <1>2, ReleasedSlots
  <1>4. slots' \in [bySource : [Sources -> Nat], count : Nat]
    BY <1>0, <1>2, ReleasedTypes
  <1>5. registry' \in [SessionIds -> Connections \cup {None}] /\ expiring' \in Nat
    <2>1. PICK rest : rest = IF Guest(s) THEN registry
                             ELSE [registry EXCEPT ![socket[s].id] = None]
      OBVIOUS
    <2>2. rest \in [SessionIds -> Connections \cup {None}]
      BY <1>0, <2>1 DEF SocketsTypeOK
    <2>3. registry' = rest /\ (expiring' = expiring + 1 \/ expiring' = expiring)
      BY <2>1 DEF Closed
    <2> QED
      BY <1>0, <2>2, <2>3 DEF SocketsTypeOK
  <1>6. /\ socket' \in [Connections -> WsUserData]
        /\ \A c \in Connections : /\ socket'[c].id = socket[c].id
                                  /\ c # s => socket'[c] = socket[c]
        /\ socket'[s].slot = None /\ socket'[s].phase = "closed"
    BY <1>0, <1>1, <1>2 DEF SocketsTypeOK
  <1> QED
    BY <1>3, <1>4, <1>5, <1>6

(* A connection that is new or closed holds no slot; one that gets the id  *)
(* of a session gives its slot back.                                       *)
LEMMA ClosedGuests ==
    ASSUME SocketsInductive, NEW s \in Connections, IsOpen(s), Closed(s)
    PROVE  GuestsHold'
  <1>1. /\ \A c \in Connections : c # s => socket'[c] = socket[c]
        /\ socket'[s].slot = None /\ socket'[s].phase = "closed"
    BY ClosedKeeps
  <1> QED
    BY <1>1 DEF SocketsInductive, GuestsHold, IsOpen, Guest

(* A connection that is opened with a session.                             *)
LEMMA OpenedWithSession ==
    ASSUME SocketsInductive, NEW s \in Connections, NEW x \in SessionIds,
           socket[s].phase = "new", slots' = slots,
           socket' = [socket EXCEPT ![s] = [phase |-> "open", id |-> x, slot |-> None]]
    PROVE  /\ socket' \in [Connections -> WsUserData]
           /\ SlotsAreCounted' /\ GuestsHold'
  <1>0. SocketsTypeOK /\ GuestsHold /\ SlotsAreCounted /\ x # None
    BY SocketAssumption DEF SocketsInductive
  <1>1. PICK data \in WsUserData : data = [phase |-> "open", id |-> x, slot |-> None]
    BY DEF WsUserData
  <1>2. data.id = x /\ data.slot = None /\ data.phase = "open"
    BY <1>1
  <1>3. /\ socket' \in [Connections -> WsUserData] /\ socket'[s] = data
        /\ \A c \in Connections : c # s => socket'[c] = socket[c]
    BY <1>0, <1>1 DEF SocketsTypeOK
  <1>4. socket[s].slot = None
    BY <1>0 DEF GuestsHold, IsOpen
  <1>5. SlotsStay
    BY <1>2, <1>3, <1>4 DEF SlotsStay
  <1>6. GuestsHold'
    BY <1>0, <1>2, <1>3 DEF GuestsHold, IsOpen, Guest
  <1> QED
    BY <1>0, <1>3, <1>5, <1>6, StayingSlots

LEMMA ConnectGuestKeeps ==
    ASSUME SocketsInductive, NEW s \in Connections, NEW a \in Sources, ConnectGuest(s, a)
    PROVE  SocketsInductive'
  <1>0. /\ SocketsTypeOK /\ GuestsHold /\ SlotsAreCounted /\ a # None
        /\ socket[s].phase = "new" /\ MayAcquire(a) /\ slots' = Acquired(a)
        /\ UNCHANGED <<task, expiring, session, registry, state, outgoing, received, relayed,
                       proof, spent>>
    BY SocketAssumption DEF SocketsInductive, ConnectGuest
  <1>1. PICK data \in WsUserData : data = [phase |-> "open", id |-> None, slot |-> a]
    BY DEF WsUserData
  <1>2. socket' = [socket EXCEPT ![s] = data]
    BY <1>1 DEF ConnectGuest
  <1>3. data.id = None /\ data.slot = a /\ data.phase = "open"
    BY <1>1
  <1>4. /\ socket' \in [Connections -> WsUserData] /\ socket'[s] = data
        /\ \A c \in Connections : c # s => socket'[c] = socket[c]
    BY <1>0, <1>2 DEF SocketsTypeOK
  <1>5. socket[s].slot = None
    BY <1>0 DEF GuestsHold, IsOpen
  <1>6. SlotsAreCounted'
    BY <1>0, <1>2, <1>3, <1>5, AcquiredSlots
  <1>7. GuestsHold'
    BY <1>0, <1>3, <1>4 DEF GuestsHold, IsOpen, Guest
  <1>8. SocketsTypeOK'
    <2>1. slots' \in [bySource : [Sources -> Nat], count : Nat]
      BY <1>0 DEF SocketsTypeOK, Acquired
    <2> QED
      BY <1>0, <1>4, <2>1 DEF SocketsTypeOK
  <1>9. DeliveriesAreQueued' /\ ProofsAreSpent'
    BY <1>0 DEF SocketsInductive, DeliveriesAreQueued, Queued, ProofsAreSpent
  <1> QED
    BY <1>6, <1>7, <1>8, <1>9 DEF SocketsInductive

LEMMA ConnectKeeps ==
    ASSUME SocketsInductive, NEW s \in Connections, NEW x \in SessionIds,
           ConnectWithToken(s, x) \/ Reconnect(s, x)
    PROVE  SocketsInductive'
  <1>0. /\ SocketsTypeOK
        /\ UNCHANGED <<expiring, slots, state, outgoing, received, relayed, proof, spent>>
    BY DEF SocketsInductive, ConnectWithToken, Reconnect
  <1>1. socket' \in [Connections -> WsUserData] /\ SlotsAreCounted' /\ GuestsHold'
    BY OpenedWithSession DEF ConnectWithToken, Reconnect
  <1>2. SocketsTypeOK'
    <2>1. /\ registry' \in [SessionIds -> Connections \cup {None}]
          /\ task' \in [Connections -> Tasks]
      <3>1. /\ registry' = [registry EXCEPT ![x] = s]
            /\ task' = [task EXCEPT ![s] = "opening"]
        BY DEF ConnectWithToken, Reconnect
      <3>2. "opening" \in Tasks
        BY DEF Tasks
      <3> QED
        BY <1>0, <3>1, <3>2 DEF SocketsTypeOK
    <2>2. session' \in [SessionIds -> {"none", "current", "revoked", "deleted"}]
      BY <1>0 DEF SocketsTypeOK, ConnectWithToken, Reconnect
    <2> QED
      BY <1>0, <1>1, <2>1, <2>2 DEF SocketsTypeOK
  <1>3. DeliveriesAreQueued' /\ ProofsAreSpent'
    BY <1>0 DEF SocketsInductive, DeliveriesAreQueued, Queued, ProofsAreSpent
  <1> QED
    BY <1>1, <1>2, <1>3 DEF SocketsInductive

LEMMA PromoteKeeps ==
    ASSUME SocketsInductive, NEW s \in Connections, NEW x \in SessionIds, Promote(s, x)
    PROVE  SocketsInductive'
  <1> DEFINE data == [WithoutSlot(s) EXCEPT !.id = x]
  <1>0. /\ SocketsTypeOK /\ GuestsHold /\ SlotsAreCounted /\ x # None
        /\ socket[s] \in WsUserData /\ slots' = Released(s)
        /\ UNCHANGED <<expiring, state, outgoing, received, relayed, proof, spent>>
    BY SocketAssumption DEF SocketsInductive, SocketsTypeOK, Promote
  <1>1. /\ data \in WsUserData /\ data.slot = None /\ data.id = x
    BY <1>0 DEF WithoutSlot, WsUserData
  <1>2. socket' = [socket EXCEPT ![s] = data]
    BY DEF Promote
  <1> HIDE DEF data
  <1>3. SlotsAreCounted'
    BY <1>0, <1>1, <1>2, ReleasedSlots
  <1>4. slots' \in [bySource : [Sources -> Nat], count : Nat]
    BY <1>0, ReleasedTypes
  <1>5. /\ socket' \in [Connections -> WsUserData] /\ socket'[s] = data
        /\ \A c \in Connections : c # s => socket'[c] = socket[c]
    BY <1>0, <1>1, <1>2 DEF SocketsTypeOK
  <1>6. GuestsHold'
    BY <1>0, <1>1, <1>5 DEF GuestsHold, IsOpen, Guest
  <1>7. SocketsTypeOK'
    BY <1>0, <1>4, <1>5 DEF SocketsTypeOK, Tasks, Promote
  <1>8. DeliveriesAreQueued' /\ ProofsAreSpent'
    BY <1>0 DEF SocketsInductive, DeliveriesAreQueued, Queued, ProofsAreSpent
  <1> QED
    BY <1>3, <1>6, <1>7, <1>8 DEF SocketsInductive

LEMMA CloseKeeps ==
    ASSUME SocketsInductive, NEW s \in Connections, Close(s) \/ EndRevoked(s)
    PROVE  SocketsInductive'
  <1>0. /\ IsOpen(s) /\ Closed(s) /\ SocketsTypeOK
        /\ UNCHANGED <<task, state, outgoing, received, relayed, proof, spent>>
        /\ session' \in [SessionIds -> {"none", "current", "revoked", "deleted"}]
    BY DEF SocketsInductive, Close, EndRevoked, SocketsTypeOK
  <1>1. SocketsTypeOK' /\ SlotsAreCounted' /\ GuestsHold'
    BY <1>0, ClosedKeeps, ClosedGuests DEF SocketsTypeOK
  <1>2. DeliveriesAreQueued' /\ ProofsAreSpent'
    BY <1>0 DEF SocketsInductive, DeliveriesAreQueued, Queued, ProofsAreSpent
  <1> QED
    BY <1>1, <1>2 DEF SocketsInductive

(* Steps that leave the connections, their slots and messages alone.       *)
LEMMA WaitsKeep ==
    ASSUME SocketsInductive, SocketsTypeOK', ProofsAreSpent',
           UNCHANGED <<socket, slots, outgoing, received, relayed>>
    PROVE  SocketsInductive'
  <1>1. SlotsAreCounted'
    BY StayingSlots DEF SocketsInductive, SlotsStay
  <1>2. GuestsHold' /\ DeliveriesAreQueued'
    BY DEF SocketsInductive, GuestsHold, IsOpen, Guest, DeliveriesAreQueued, Queued
  <1> QED
    BY <1>1, <1>2 DEF SocketsInductive

LEMMA HandlersKeep ==
    ASSUME SocketsInductive, NEW s \in Connections,
           Opened(s) \/ GuestLogin(s) \/ CheckSession(s)
    PROVE  SocketsInductive'
  <1>0. /\ SocketsTypeOK
        /\ UNCHANGED <<socket, slots, session, registry, expiring, outgoing, received, relayed,
                       proof, spent>>
    BY DEF SocketsInductive, Opened, GuestLogin, CheckSession
  <1>1. SocketsTypeOK'
    <2>1. task' \in [Connections -> Tasks]
      BY <1>0 DEF SocketsTypeOK, Tasks, Opened, GuestLogin, CheckSession
    <2>2. state' \in {"none", "logged_in", "session_expired"}
      BY <1>0 DEF SocketsTypeOK, Opened, GuestLogin, CheckSession
    <2> QED
      BY <1>0, <2>1, <2>2 DEF SocketsTypeOK
  <1>2. ProofsAreSpent' /\ UNCHANGED <<socket, slots, outgoing, received, relayed>>
    BY <1>0 DEF SocketsInductive, ProofsAreSpent
  <1> QED
    BY <1>1, <1>2, WaitsKeep

LEMMA RevokeKeeps ==
    ASSUME SocketsInductive, NEW x \in SessionIds, Revoke(x)
    PROVE  SocketsInductive'
  <1>1. SocketsTypeOK'
    BY DEF SocketsInductive, SocketsTypeOK, Revoke
  <1>2. ProofsAreSpent' /\ UNCHANGED <<socket, slots, outgoing, received, relayed>>
    BY DEF SocketsInductive, ProofsAreSpent, Revoke
  <1> QED
    BY <1>1, <1>2, WaitsKeep

LEMMA ExpireStateKeeps ==
    ASSUME SocketsInductive, ExpireState
    PROVE  SocketsInductive'
  <1>1. SocketsTypeOK'
    BY DEF SocketsInductive, SocketsTypeOK, ExpireState
  <1>2. ProofsAreSpent' /\ UNCHANGED <<socket, slots, outgoing, received, relayed>>
    BY DEF SocketsInductive, ProofsAreSpent, ExpireState
  <1> QED
    BY <1>1, <1>2, WaitsKeep

LEMMA IssueProofKeeps ==
    ASSUME SocketsInductive, NEW p \in Proofs, NEW x \in SessionIds, IssueProof(p, x)
    PROVE  SocketsInductive'
  <1>1. SocketsTypeOK'
    BY DEF SocketsInductive, SocketsTypeOK, IssueProof
  <1>2. ProofsAreSpent'
    <2>1. ASSUME NEW q \in Proofs PROVE spent'[q] <= 1 /\ (proof'[q] # "spent" => spent'[q] = 0)
      BY DEF SocketsInductive, SocketsTypeOK, ProofsAreSpent, IssueProof
    <2> QED
      BY <2>1 DEF ProofsAreSpent
  <1>3. UNCHANGED <<socket, slots, outgoing, received, relayed>>
    BY DEF IssueProof
  <1> QED
    BY <1>1, <1>2, <1>3, WaitsKeep

LEMMA CommandKeeps ==
    ASSUME SocketsInductive, NEW s \in Connections, NEW p \in Proofs, Command(s, p)
    PROVE  SocketsInductive'
  <1>0. SocketsTypeOK /\ ProofsAreSpent /\ proof[p] # "spent" /\ spent[p] = 0
    BY DEF SocketsInductive, ProofsAreSpent, Command
  <1>1. /\ proof' = [proof EXCEPT ![p] = "spent"]
        /\ \/ spent' = [spent EXCEPT ![p] = 1]
           \/ spent' = spent
    BY <1>0 DEF Command, Taken, SocketsTypeOK
  <1>2. SocketsTypeOK'
    <2>1. proof' \in [Proofs -> SessionIds \cup {None, "unused", "spent"}]
      BY <1>0, <1>1 DEF SocketsTypeOK
    <2>2. spent' \in [Proofs -> 0 .. 2]
      <3>1. spent \in [Proofs -> 0 .. 2] /\ 1 \in 0 .. 2
        BY <1>0 DEF SocketsTypeOK
      <3> QED
        BY <1>1, <3>1
    <2> QED
      BY <1>0, <2>1, <2>2 DEF SocketsTypeOK, Command, Tasks
  <1>3. ASSUME NEW q \in Proofs PROVE spent'[q] <= 1 /\ (proof'[q] # "spent" => spent'[q] = 0)
    BY <1>0, <1>1 DEF SocketsTypeOK, ProofsAreSpent
  <1>4. UNCHANGED <<socket, slots, outgoing, received, relayed>>
    BY DEF Command
  <1> QED
    BY <1>2, <1>3, <1>4, WaitsKeep DEF ProofsAreSpent

LEMMA RelayKeeps ==
    ASSUME SocketsInductive, NEW s \in Connections, Relay(s)
    PROVE  SocketsInductive'
  <1> DEFINE hears(d) == \E x \in SessionIds \ {socket[s].id} : registry[x] = d
  <1>0. /\ SocketsTypeOK
        /\ UNCHANGED <<socket, expiring, slots, session, registry, state, received, proof, spent>>
        /\ relayed \in 0 .. MaxRelays /\ relayed < MaxRelays /\ MaxRelays \in Nat
    BY SocketAssumption DEF SocketsInductive, SocketsTypeOK, Relay
  <1>1. PICK n : n = relayed + 1
    OBVIOUS
  <1>2. /\ relayed' = n /\ n \in 1 .. MaxRelays /\ n \in 0 .. MaxRelays /\ relayed \in Nat
        /\ outgoing' = [d \in Connections |->
              IF hears(d) THEN Append(outgoing[d], n) ELSE outgoing[d]]
        /\ task' = [task EXCEPT ![s] = "none"]
    BY <1>0, <1>1 DEF Relay
  <1> HIDE DEF hears
  <1>3. \A d \in Connections : outgoing'[d] = Append(outgoing[d], n) \/ outgoing'[d] = outgoing[d]
    BY <1>2
  <1>4. SocketsTypeOK'
    <2>1. ASSUME NEW d \in Connections PROVE outgoing'[d] \in Seq(1 .. MaxRelays)
      <3>1. outgoing[d] \in Seq(1 .. MaxRelays)
        BY <1>0 DEF SocketsTypeOK
      <3>2. Append(outgoing[d], n) \in Seq(1 .. MaxRelays)
        BY <1>2, <3>1
      <3> QED
        BY <1>3, <3>1, <3>2
    <2>2. outgoing' \in [Connections -> Seq(1 .. MaxRelays)]
      BY <1>2, <2>1
    <2>3. task' \in [Connections -> Tasks]
      BY <1>0, <1>2 DEF SocketsTypeOK, Tasks
    <2> QED
      BY <1>0, <1>2, <2>2, <2>3 DEF SocketsTypeOK
  <1>5. ASSUME NEW d \in Connections PROVE Queued(received'[d], outgoing'[d], n)
    <2>1. PICK sent, queue : sent = received[d] /\ queue = outgoing[d]
      OBVIOUS
    <2>2. sent \in Seq(Nat) /\ queue \in Seq(Nat)
      <3>1. sent \in Seq(1 .. MaxRelays) /\ queue \in Seq(1 .. MaxRelays)
        BY <1>0, <2>1 DEF SocketsTypeOK
      <3> QED
        BY <1>0, <3>1, NumberSeqs
    <2>3. Queued(sent, queue, relayed)
      BY <2>1 DEF SocketsInductive, DeliveriesAreQueued
    <2>4. Queued(sent, queue, n) /\ Queued(sent, Append(queue, n), n)
      BY <1>1, <1>2, <2>2, <2>3, RelayedLast
    <2>5. received'[d] = sent /\ (outgoing'[d] = Append(queue, n) \/ outgoing'[d] = queue)
      BY <1>0, <1>3, <2>1
    <2> QED
      BY <2>4, <2>5
  <1>6. DeliveriesAreQueued'
    BY <1>2, <1>5 DEF DeliveriesAreQueued
  <1>7. SlotsAreCounted' /\ GuestsHold' /\ ProofsAreSpent'
    BY <1>0, StayingSlots
       DEF SocketsInductive, SlotsStay, GuestsHold, IsOpen, Guest, ProofsAreSpent
  <1> QED
    BY <1>4, <1>6, <1>7 DEF SocketsInductive

LEMMA DeliverKeeps ==
    ASSUME SocketsInductive, NEW s \in Connections, Deliver(s)
    PROVE  SocketsInductive'
  <1>0. SocketsTypeOK /\ UNCHANGED <<task, session, state, relayed, proof, spent>>
    BY DEF SocketsInductive, Deliver
  <1>1. PICK sent, queue : sent = received[s] /\ queue = outgoing[s]
    OBVIOUS
  <1>2. PICK i \in NextOf(queue) :
          /\ outgoing' = [outgoing EXCEPT ![s] = Without(queue, i)]
          /\ \/ IsOpen(s) /\ Closed(s) /\ UNCHANGED received
             \/ /\ received' = [received EXCEPT ![s] = Append(sent, queue[i])]
                /\ UNCHANGED <<socket, slots, registry, expiring>>
             \/ UNCHANGED <<received, socket, slots, registry, expiring>>
    BY <1>1 DEF Deliver
  <1>3. sent \in Seq(1 .. MaxRelays) /\ queue \in Seq(1 .. MaxRelays) /\ relayed \in Nat
    BY <1>0, <1>1 DEF SocketsTypeOK
  <1>4. sent \in Seq(Nat) /\ queue \in Seq(Nat)
    BY <1>3, NumberSeqs, SocketAssumption
  <1>5. PICK rest, more : rest = Without(queue, i) /\ more = Append(sent, queue[i])
    OBVIOUS
  <1>6. rest \in Seq(1 .. MaxRelays) /\ more \in Seq(1 .. MaxRelays)
    <2>1. i \in DOMAIN queue /\ rest \in Seq(1 .. MaxRelays)
      BY <1>3, <1>5, NextRest
    <2>2. queue[i] \in 1 .. MaxRelays
      <3>1. PICK S : S = 1 .. MaxRelays
        OBVIOUS
      <3>2. queue \in Seq(S) /\ i \in 1 .. Len(queue)
        BY <1>3, <2>1, <3>1
      <3>3. queue[i] \in S
        BY <3>2, ElementOfSeq
      <3> QED
        BY <3>1, <3>3
    <2> QED
      BY <1>3, <1>5, <2>1, <2>2
  <1>7. Queued(sent, rest, relayed) /\ Queued(more, rest, relayed)
    <2>1. Queued(sent, queue, relayed)
      BY <1>1 DEF SocketsInductive, DeliveriesAreQueued
    <2> QED
      BY <1>3, <1>4, <1>5, <2>1, DeliveredInOrder
  <1>8. /\ outgoing' \in [Connections -> Seq(1 .. MaxRelays)]
        /\ received' \in [Connections -> Seq(1 .. MaxRelays)]
        /\ outgoing'[s] = rest /\ (received'[s] = sent \/ received'[s] = more)
        /\ \A d \in Connections : d # s =>
             outgoing'[d] = outgoing[d] /\ received'[d] = received[d]
    <2>1. outgoing' = [outgoing EXCEPT ![s] = rest]
      BY <1>2, <1>5
    <2>2. received' = [received EXCEPT ![s] = more] \/ received' = received
      BY <1>2, <1>5
    <2>3. /\ outgoing \in [Connections -> Seq(1 .. MaxRelays)]
          /\ received \in [Connections -> Seq(1 .. MaxRelays)]
      BY <1>0 DEF SocketsTypeOK
    <2>4. /\ outgoing' \in [Connections -> Seq(1 .. MaxRelays)] /\ outgoing'[s] = rest
          /\ \A d \in Connections : d # s => outgoing'[d] = outgoing[d]
      BY <1>6, <2>1, <2>3
    <2>5. /\ received' \in [Connections -> Seq(1 .. MaxRelays)]
          /\ received'[s] = sent \/ received'[s] = more
          /\ \A d \in Connections : d # s => received'[d] = received[d]
      BY <1>1, <1>6, <2>2, <2>3
    <2> QED
      BY <2>4, <2>5
  <1>9. DeliveriesAreQueued'
    <2>1. ASSUME NEW d \in Connections PROVE Queued(received'[d], outgoing'[d], relayed)
      BY <1>7, <1>8 DEF SocketsInductive, DeliveriesAreQueued
    <2> QED
      BY <1>0, <2>1 DEF DeliveriesAreQueued
  <1>10. ProofsAreSpent'
    BY <1>0 DEF SocketsInductive, ProofsAreSpent
  <1>11. CASE IsOpen(s) /\ Closed(s)
    BY <1>0, <1>8, <1>9, <1>10, <1>11, ClosedKeeps, ClosedGuests
       DEF SocketsInductive, SocketsTypeOK
  <1>12. CASE UNCHANGED <<socket, slots, registry, expiring>>
    <2>1. SlotsAreCounted' /\ GuestsHold'
      BY <1>12, StayingSlots DEF SocketsInductive, SlotsStay, GuestsHold, IsOpen, Guest
    <2> QED
      BY <1>0, <1>8, <1>9, <1>10, <1>12, <2>1 DEF SocketsInductive, SocketsTypeOK
  <1> QED
    BY <1>2, <1>11, <1>12

LEMMA SocketsStep == SocketsInductive /\ [SocketsNext]_socketVars => SocketsInductive'
  <1> SUFFICES ASSUME SocketsInductive, [SocketsNext]_socketVars PROVE SocketsInductive'
    OBVIOUS
  <1>1. CASE UNCHANGED socketVars
    <2>1. SocketsTypeOK'
      BY <1>1 DEF socketVars, SocketsInductive, SocketsTypeOK
    <2>2. ProofsAreSpent' /\ UNCHANGED <<socket, slots, outgoing, received, relayed>>
      BY <1>1 DEF socketVars, SocketsInductive, ProofsAreSpent
    <2> QED
      BY <2>1, <2>2, WaitsKeep
  <1>2. ASSUME NEW s \in Connections, NEW a \in Sources, ConnectGuest(s, a)
        PROVE  SocketsInductive'
    BY <1>2, ConnectGuestKeeps
  <1>3. ASSUME NEW s \in Connections, NEW x \in SessionIds,
               ConnectWithToken(s, x) \/ Reconnect(s, x) \/ Promote(s, x)
        PROVE  SocketsInductive'
    BY <1>3, ConnectKeeps, PromoteKeeps
  <1>4. ASSUME NEW s \in Connections,
               \/ Opened(s) \/ GuestLogin(s) \/ Close(s) \/ CheckSession(s)
               \/ EndRevoked(s) \/ Relay(s) \/ Deliver(s)
        PROVE  SocketsInductive'
    BY <1>4, HandlersKeep, CloseKeeps, RelayKeeps, DeliverKeeps
  <1>5. ASSUME NEW x \in SessionIds, Revoke(x) PROVE SocketsInductive'
    BY <1>5, RevokeKeeps
  <1>6. ASSUME NEW p \in Proofs, NEW x \in SessionIds, IssueProof(p, x) PROVE SocketsInductive'
    BY <1>6, IssueProofKeeps
  <1>7. ASSUME NEW s \in Connections, NEW p \in Proofs, Command(s, p) PROVE SocketsInductive'
    BY <1>7, CommandKeeps
  <1> QED
    BY <1>1, <1>2, <1>3, <1>4, <1>5, <1>6, <1>7, ExpireStateKeeps DEF SocketsNext

LEMMA SocketsBegin == SocketsInit => SocketsInductive
  <1> SUFFICES ASSUME SocketsInit PROVE SocketsInductive
    OBVIOUS
  <1>1. /\ {PerSource, Total, MaxRelays} \subseteq Nat
        /\ None \notin SessionIds \cup Connections \cup Sources
    BY SocketAssumption
  <1>2. \A s \in Connections : /\ socket[s].slot = None /\ socket[s].id = None
                               /\ socket[s].phase = "new"
                               /\ received[s] = <<>> /\ outgoing[s] = <<>>
    BY DEF SocketsInit
  <1>3. SocketsTypeOK
    <2>1. /\ socket \in [Connections -> WsUserData] /\ task \in [Connections -> Tasks]
      BY DEF SocketsInit, WsUserData, Tasks
    <2>2. /\ slots \in [bySource : [Sources -> Nat], count : Nat] /\ expiring \in Nat
          /\ relayed \in 0 .. MaxRelays
      BY <1>1 DEF SocketsInit
    <2>3. /\ outgoing \in [Connections -> Seq(1 .. MaxRelays)]
          /\ received \in [Connections -> Seq(1 .. MaxRelays)]
      BY DEF SocketsInit
    <2> QED
      BY <2>1, <2>2, <2>3 DEF SocketsInit, SocketsTypeOK
  <1>4. Holders = {} /\ \A a \in Sources : HoldersOf(a) = {}
    BY <1>1, <1>2 DEF Holders, HoldersOf
  <1>5. SlotsAreCounted
    <2>1. IsFiniteSet({}) /\ Cardinality({}) = 0
      BY FS_EmptySet
    <2>2. slots.count = 0 /\ \A a \in Sources : slots.bySource[a] = 0
      BY DEF SocketsInit
    <2>3. 0 <= Total /\ 0 <= PerSource
      BY <1>1
    <2> QED
      BY <1>4, <2>1, <2>2, <2>3 DEF SlotsAreCounted
  <1>6. GuestsHold
    BY <1>2 DEF GuestsHold, IsOpen
  <1>7. DeliveriesAreQueued /\ ProofsAreSpent
    BY <1>2 DEF SocketsInit, DeliveriesAreQueued, Queued, ProofsAreSpent
  <1> QED
    BY <1>3, <1>5, <1>6, <1>7 DEF SocketsInductive

(* The inductive invariant holds of every reachable state.                 *)
THEOREM SocketsInvariant == SocketsSpec => []SocketsInductive
  BY SocketsBegin, SocketsStep, PTL DEF SocketsSpec

(* Connections, slots, sessions and messages keep their types.             *)
THEOREM SocketTypes == SocketsSpec => []SocketsTypeOK
  <1>1. SocketsInductive => SocketsTypeOK
    BY DEF SocketsInductive
  <1> QED
    BY <1>1, SocketsInvariant, PTL

(* GuestSlots counts the open guests, per source and in all, and keeps to  *)
(* its limits, whichever of promotion and close comes first.               *)
THEOREM SlotsAreRight == SocketsSpec => []SlotsMatchGuests
  <1>1. ASSUME SocketsInductive PROVE SlotsMatchGuests
    <2>1. GuestsHold /\ SlotsAreCounted
      BY <1>1 DEF SocketsInductive
    <2>2. Holders = {s \in Connections : IsOpen(s) /\ Guest(s)}
      BY <2>1 DEF GuestsHold, Holders
    <2>3. ASSUME NEW a \in Sources
          PROVE  HoldersOf(a) = {s \in Connections : IsOpen(s) /\ Guest(s) /\ socket[s].slot = a}
      BY <2>1, SocketAssumption DEF GuestsHold, HoldersOf
    <2> QED
      BY <2>1, <2>2, <2>3 DEF SlotsAreCounted, SlotsMatchGuests
  <1> QED
    BY <1>1, SocketsInvariant, PTL

(* A socket hears the relays in their order and none twice: the deliveries *)
(* of a socket are one chain (send of session-registry.ts).                *)
THEOREM RelaysKeepOrder == SocketsSpec => []RelayedInOrder
  <1>1. SocketsInductive => RelayedInOrder
    BY DEF SocketsInductive, DeliveriesAreQueued, Queued, RelayedInOrder
  <1> QED
    BY <1>1, SocketsInvariant, PTL

(* An action proof runs one command at most: consume takes it out of Redis *)
(* before anything is compared.                                            *)
THEOREM ProofsRunOnce == SocketsSpec => []ProofRunsOneCommand
  <1>1. SocketsInductive => ProofRunsOneCommand
    BY DEF SocketsInductive, ProofsAreSpent, ProofRunsOneCommand
  <1> QED
    BY <1>1, SocketsInvariant, PTL

===============================================================================
