---------------------------- MODULE ProjectCredentials ----------------------------
(***************************************************************************)
(* The credential of one managed project and the sockets that other        *)
(* services keep open with it (/ws/project).                               *)
(*                                                                         *)
(* The row of the project holds one secret and a generation.  A launcher   *)
(* replaces the secret and raises the generation (launch-credentials.ts),  *)
(* an administrator or the command line replaces the secret alone          *)
(* (rotateProjectSecret), and the project is switched off and on.  A token *)
(* carries the generation of the row it was signed from; the upgrade of a  *)
(* socket and each of its commands compare it with the row.  The registry  *)
(* of sockets is local to a server process.                                *)
(*                                                                         *)
(* Abstracted: a secret is a value, and a launch stands for the secret its *)
(* launcher made for it, so a launch sent again with another secret (409,  *)
(* nothing changes) is not an input.  The issuer holds its grant.  Both    *)
(* forms in which a launch keeps its secret (hash, or the ciphertext of an *)
(* earlier release) accept the same secret, and are one here.              *)
(***************************************************************************)
EXTENDS Naturals, FiniteSets

CONSTANTS Processes,     \* server processes
          Sockets,       \* connections of services
          Launches,      \* launch ids, each with the secret made for it
          Calls,         \* requests for a launch credential under way at once
          Rotations,     \* replacements of the secret, each with its new secret
          First,         \* the secret the project was registered with
          Nobody         \* no launch, no process

ASSUME CredentialAssumption ==
  /\ Launches \cap Rotations = {}
  /\ First \notin Launches \cup Rotations
  /\ Nobody \notin Launches \cup Processes

Secrets == Launches \cup Rotations \cup {First}

VARIABLES project,     \* managed_projects: active, secret, generation
          launches,    \* project_launch_credentials by launch id
          calls,       \* requests for a launch credential
          rotated,     \* the replacements that happened
          sockets,     \* a connection, or the token a service holds for one
          era          \* history: the secrets of the row since the last launch

vars == <<project, launches, calls, rotated, sockets, era>>

Call == [at : {"idle", "locked", "committed"}, launch : Launches \cup {Nobody},
         process : Processes \cup {Nobody}, generation : Nat]
Socket == [at : {"none", "token", "admitted", "open", "ending"}, process : Processes \cup {Nobody},
           generation : Nat, secret : Secrets, expired : BOOLEAN,
           command : {"none", "asked", "passed"}, seen : Nat]

NoCall == [at |-> "idle", launch |-> Nobody, process |-> Nobody, generation |-> 0]
NoSocket == [at |-> "none", process |-> Nobody, generation |-> 0, secret |-> First,
             expired |-> FALSE, command |-> "none", seen |-> 0]

TypeOK ==
  /\ project \in [active : BOOLEAN, secret : Secrets, generation : Nat]
  /\ launches \in [Launches -> [at : {"none", "active", "revoked"}, generation : Nat]]
  /\ calls \in [Calls -> Call]
  /\ rotated \in SUBSET Rotations
  /\ sockets \in [Sockets -> Socket]
  /\ era \in SUBSET Secrets

Init ==
  /\ project = [active |-> TRUE, secret |-> First, generation |-> 0]
  /\ launches = [l \in Launches |-> [at |-> "none", generation |-> 0]]
  /\ calls = [c \in Calls |-> NoCall]
  /\ rotated = {}
  /\ sockets = [s \in Sockets |-> NoSocket]
  /\ era = {First}

-----------------------------------------------------------------------------
(* The credential of a launch: one transaction under the lock of the       *)
(* project, then the sockets of this process.                              *)

(* The advisory lock of the project is free. *)
LockUnused == TRUE
LockIsFree == \A c \in Calls : calls[c].at # "locked"
(* The generation a launch gives the project. *)
Raised(generation) == generation + 1

(* A retry of a launch that is still active answers the same credential,   *)
(* and one that was replaced is refused: neither changes anything.         *)
BeginLaunch(c, l, p) ==
  /\ calls[c].at = "idle" /\ LockIsFree
  /\ project.active /\ launches[l].at = "none"
  /\ calls' = [calls EXCEPT ![c] = [at |-> "locked", launch |-> l, process |-> p,
                                    generation |-> Raised(project.generation)]]
  /\ UNCHANGED <<project, launches, rotated, sockets, era>>

(* The transaction commits.  A rotation or a deactivation takes no lock    *)
(* and may have committed since the row was read.  Two transactions for    *)
(* one launch id never both insert it (unique index).                      *)
CommitLaunch(c) ==
  LET l == calls[c].launch IN
  /\ calls[c].at = "locked" /\ launches[l].at = "none"
  /\ launches' = [x \in Launches |->
        IF x = l THEN [at |-> "active", generation |-> calls[c].generation]
        ELSE IF launches[x].at = "active" THEN [launches[x] EXCEPT !.at = "revoked"]
        ELSE launches[x]]
  /\ project' = [project EXCEPT !.secret = l, !.generation = calls[c].generation]
  /\ era' = {l}
  /\ calls' = [calls EXCEPT ![c].at = "committed"]
  /\ UNCHANGED <<rotated, sockets>>

AbortLaunch(c) ==
  /\ calls[c].at = "locked"
  /\ calls' = [calls EXCEPT ![c] = NoCall]
  /\ UNCHANGED <<project, launches, rotated, sockets, era>>

(* close() of a connection: the flag is set once, the close handler runs   *)
(* later and takes it out of the registry.                                 *)
Ending(k) == IF k.at = "open" THEN [k EXCEPT !.at = "ending"] ELSE k

CloseOlder(c) ==
  /\ calls[c].at = "committed"
  /\ sockets' = [s \in Sockets |->
        IF /\ sockets[s].process = calls[c].process
           /\ sockets[s].generation < calls[c].generation
        THEN Ending(sockets[s]) ELSE sockets[s]]
  /\ calls' = [calls EXCEPT ![c] = NoCall]
  /\ UNCHANGED <<project, launches, rotated, era>>

-----------------------------------------------------------------------------
(* Replacing the secret without a launch, and switching the project.       *)

(* An administrator's command, or the command line once the vault of the  *)
(* services has taken the new secret: the generation stays, no lock is     *)
(* taken and no socket is closed.                                          *)
Rotate(r) ==
  /\ r \notin rotated
  /\ project' = [project EXCEPT !.secret = r]
  /\ era' = era \cup {r}
  /\ rotated' = rotated \cup {r}
  /\ UNCHANGED <<launches, calls, sockets>>

(* deleteProject deactivates, registerProject reactivates: the secret and  *)
(* the generation stay, and no socket is closed.                           *)
SwitchProject ==
  /\ project' = [project EXCEPT !.active = ~@]
  /\ UNCHANGED <<launches, calls, rotated, sockets, era>>

-----------------------------------------------------------------------------
(* Tokens and sockets.                                                     *)

(* isCurrentProjectCredential *)
IsRegistered(k) == project.active
IsCurrent(k) == project.active /\ k.generation = project.generation

(* projectLogin reads the row once: the secret is compared with that row,  *)
(* and the token carries its generation, however late it is used.          *)
Login(s) ==
  /\ sockets[s].at \in {"none", "token"} /\ sockets[s].command = "none"
  /\ project.active
  /\ sockets' = [sockets EXCEPT ![s] = [NoSocket EXCEPT !.at = "token",
                    !.generation = project.generation, !.secret = project.secret]]
  /\ UNCHANGED <<project, launches, calls, rotated, era>>

Upgrade(s, p) ==
  /\ sockets[s].at = "token" /\ sockets[s].command = "none"
  /\ ~sockets[s].expired /\ IsCurrent(sockets[s])
  /\ sockets' = [sockets EXCEPT ![s].at = "admitted", ![s].process = p]
  /\ UNCHANGED <<project, launches, calls, rotated, era>>

Open(s) ==
  /\ sockets[s].at = "admitted"
  /\ sockets' = [sockets EXCEPT ![s].at = "open"]
  /\ UNCHANGED <<project, launches, calls, rotated, era>>

(* A command arrives.  The expiry of the token is compared at once, the    *)
(* row is read after it.                                                   *)
Ask(s) ==
  /\ sockets[s].at = "open" /\ sockets[s].command = "none"
  /\ sockets' = [sockets EXCEPT ![s] =
        IF @.expired THEN Ending(@)
        ELSE [@ EXCEPT !.command = "asked", !.seen = project.generation]]
  /\ UNCHANGED <<project, launches, calls, rotated, era>>

CheckCommand(s) ==
  /\ sockets[s].command = "asked"
  /\ sockets' = [sockets EXCEPT ![s] =
        IF IsCurrent(@) THEN [@ EXCEPT !.command = "passed"]
        ELSE [Ending(@) EXCEPT !.command = "none", !.seen = 0]]
  /\ UNCHANGED <<project, launches, calls, rotated, era>>

(* The dispatcher runs the command, also for a socket closed meanwhile. *)
RunCommand(s) ==
  /\ sockets[s].command = "passed"
  /\ sockets' = [sockets EXCEPT ![s].command = "none", ![s].seen = 0]
  /\ UNCHANGED <<project, launches, calls, rotated, era>>

Expire(s) ==
  /\ sockets[s].at # "none" /\ ~sockets[s].expired
  /\ sockets' = [sockets EXCEPT ![s].expired = TRUE]
  /\ UNCHANGED <<project, launches, calls, rotated, era>>

(* The timer set when the socket opened; at once for a token that expired  *)
(* before.                                                                 *)
TimerWithCommand(k) == k.at = "open" /\ k.expired /\ k.command # "none"
TimerIsDue(k) == k.at = "open" /\ k.expired

ExpiryTimer(s) ==
  /\ TimerIsDue(sockets[s])
  /\ sockets' = [sockets EXCEPT ![s] = Ending(@)]
  /\ UNCHANGED <<project, launches, calls, rotated, era>>

(* The connection is gone; the service keeps the token.  A command that    *)
(* was being checked goes on.                                              *)
Gone(k) == [k EXCEPT !.at = "token", !.process = Nobody]

HandleClose(s) ==
  /\ sockets[s].at = "ending"
  /\ sockets' = [sockets EXCEPT ![s] = Gone(@)]
  /\ UNCHANGED <<project, launches, calls, rotated, era>>

Disconnect(s) ==
  /\ sockets[s].at = "open"
  /\ sockets' = [sockets EXCEPT ![s] = Gone(@)]
  /\ UNCHANGED <<project, launches, calls, rotated, era>>

(* A process stops: its transactions roll back, its connections and their  *)
(* commands are gone, and a launch it committed closes nothing any more.   *)
Crash(p) ==
  /\ calls' = [c \in Calls |-> IF calls[c].process = p THEN NoCall ELSE calls[c]]
  /\ sockets' = [s \in Sockets |->
        IF /\ sockets[s].at \in {"admitted", "open", "ending"}
           /\ sockets[s].process = p
        THEN [Gone(sockets[s]) EXCEPT !.command = "none", !.seen = 0]
        ELSE sockets[s]]
  /\ UNCHANGED <<project, launches, rotated, era>>

-----------------------------------------------------------------------------
Next ==
  \/ \E c \in Calls : \/ \E l \in Launches, p \in Processes : BeginLaunch(c, l, p)
                      \/ CommitLaunch(c) \/ AbortLaunch(c) \/ CloseOlder(c)
  \/ \E r \in Rotations : Rotate(r)
  \/ SwitchProject
  \/ \E s \in Sockets : \/ Login(s) \/ Open(s) \/ Ask(s) \/ CheckCommand(s) \/ RunCommand(s)
                        \/ Expire(s) \/ ExpiryTimer(s) \/ HandleClose(s) \/ Disconnect(s)
                        \/ \E p \in Processes : Upgrade(s, p)
  \/ \E p \in Processes : Crash(p)

(* Time passes for every token, timers fire, and the close handler of an   *)
(* ended connection runs; nothing is assumed of services or operators.     *)
Fairness == \A s \in Sockets : /\ WF_vars(Expire(s)) /\ WF_vars(ExpiryTimer(s))
                               /\ WF_vars(HandleClose(s))

Spec == Init /\ [][Next]_vars /\ Fairness

-----------------------------------------------------------------------------
(* A token the checks accept was obtained with a secret the row has had    *)
(* since the last launch: the secret and the tokens of every earlier       *)
(* launch are cut off in every process, whatever overlapped that launch.   *)
SupersededSecretsAreCutOff ==
  \A s \in Sockets : sockets[s].at # "none" /\ IsCurrent(sockets[s]) => sockets[s].secret \in era

(* A command that passed is of a generation no launch had replaced when    *)
(* the command arrived, also on a process that never heard of the launch.  *)
NoCommandOfAnOlderGeneration ==
  \A s \in Sockets : sockets[s].command = "passed" => sockets[s].generation >= sockets[s].seen

(* The socket of a replaced generation does not stay open: where the       *)
(* launch closed nothing (another process, an upgrade it overtook), the    *)
(* expiry of its token does.                                               *)
OlderSocketsEnd ==
  \A s \in Sockets :
    (sockets[s].at = "open" /\ sockets[s].generation < project.generation) ~> (sockets[s].at # "open")
=============================================================================
