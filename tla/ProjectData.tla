----------------------------- MODULE ProjectData -----------------------------
(***************************************************************************)
(* What one managed project keeps about one user, and the definition it is *)
(* kept by (project/service.ts): the columns declared in the definition,   *)
(* the columns of the table, the row of the user, the modules the user     *)
(* opted out of, the OAuth token the project deposited, and the cache of   *)
(* the user's own page.  Every operation reads, and writes later what      *)
(* follows from the read, outside a transaction; calls overlap.            *)
(*                                                                         *)
(* Abstracted: a column either has a value or is null; a token field is    *)
(* the number of the call that gave it.  Of the fields of the definition   *)
(* an administrator owns, one grant stands for all, and the declarations   *)
(* checked before the update (consent, signup fields, origins) are         *)
(* accepted; columns are given as live.  The module of a column does not   *)
(* change.  A read that changes nothing and masks nothing (lists,          *)
(* histories, get_oauth_token) is left out.                                *)
(***************************************************************************)
EXTENDS Naturals, FiniteSets

CONSTANTS Columns, Modules,
          ModuleOf,      \* the module of a column, or NoModule
          NoModule,
          Ops,           \* calls under way at once
          MaxCalls       \* bound: calls that keep something between two steps

ASSUME DataAssumption ==
  /\ NoModule \notin Modules
  /\ ModuleOf \in [Columns -> Modules \cup {NoModule}]

VARIABLES project,       \* managed_projects: active, and the definition
          table,         \* the columns of project_data_<slug>
          optouts,       \* user_data_optouts of the user: modules
          row,           \* the user's row: there, columns with a value, saved away
          token,         \* project_oauth_tokens of the user and one provider
          cache,         \* the page of the user in Redis
          versions,      \* project_definition_history: the version numbers
          ops,           \* calls under way
          calls,         \* how many were started: the number of the last one
          granted,       \* history: the grant as an administrator last set it
          retired,       \* history: token fields that were deleted
          behind         \* history: a reactivation saved columns before their DDL

data == <<table, optouts, row, token, cache>>
vars == <<project, data, versions, ops, calls, granted, retired, behind>>

Definition == [live : SUBSET Columns, dead : SUBSET Columns, grant : BOOLEAN]
Token == [id : Nat, access : Nat, refresh : Nat]
NoToken == [id |-> 0, access |-> 0, refresh |-> 0]
Page == [live : SUBSET Columns, dead : SUBSET Columns, values : SUBSET Columns]
NoPage == [live |-> {}, dead |-> {}, values |-> {}]

Kinds == {"none", "update", "register", "optout", "set", "erase", "get", "page",
          "open", "store"}
Places == {"idle", "ddl", "save", "version", "log", "scan", "delete", "define",
           "pick", "null", "forget", "drop", "check", "write", "answered",
           "fetch", "fill", "insert", "replace", "put"}
Op == [kind : Kinds, at : Places, want : SUBSET Columns, seen : Definition,
       share : {"keep", "given", "withdrawn"}, left : SUBSET Modules,
       hidden : SUBSET Modules, found : SUBSET Columns, saved : SUBSET Columns,
       number : Nat, had : Token, fields : SUBSET {"access", "refresh"},
       allowed : SUBSET Modules]

Empty == [live |-> {}, dead |-> {}, grant |-> FALSE]
NoOp == [kind |-> "none", at |-> "idle", want |-> {}, seen |-> Empty, share |-> "keep",
         left |-> {}, hidden |-> {}, found |-> {}, saved |-> {}, number |-> 0,
         had |-> NoToken, fields |-> {}, allowed |-> {}]

\* The definition of the project, and the modules of some columns.
Current == [live |-> project.live, dead |-> project.dead, grant |-> project.grant]
ModulesOf(columns) == {ModuleOf[c] : c \in columns} \ {NoModule}
ColumnsOf(modules) == {c \in Columns : ModuleOf[c] \in modules}

TypeOK ==
  /\ project \in [active : BOOLEAN, live : SUBSET Columns, dead : SUBSET Columns,
                  grant : BOOLEAN]
  /\ table \in SUBSET Columns
  /\ optouts \in SUBSET Modules
  /\ row \in [there : BOOLEAN, values : SUBSET Columns, saved : SUBSET Columns]
  /\ token \in Token
  /\ cache \in [filled : BOOLEAN, page : Page]
  /\ versions \in SUBSET Nat
  /\ ops \in [Ops -> Op]
  /\ calls \in Nat
  /\ granted \in BOOLEAN
  /\ retired \in SUBSET Nat
  /\ behind \in BOOLEAN

\* A registered project, with or without a row and a deposited token.
Init ==
  /\ project \in [active : {TRUE}, live : SUBSET Columns, dead : {{}}, grant : BOOLEAN]
  /\ table = project.live
  /\ optouts = {}
  /\ row \in [there : {TRUE}, values : SUBSET table, saved : {{}}]
            \cup {[there |-> FALSE, values |-> {}, saved |-> {}]}
  /\ token \in {NoToken, [id |-> 1, access |-> 1, refresh |-> 1]}
  /\ cache = [filled |-> FALSE, page |-> NoPage]
  /\ versions = {1}
  /\ ops = [o \in Ops |-> NoOp]
  /\ calls = 1
  /\ granted = project.grant
  /\ retired = {}
  /\ behind = FALSE

-----------------------------------------------------------------------------
(* How a call moves.                                                       *)

Start(o, call) ==
  /\ ops[o].at = "idle" /\ calls < MaxCalls
  /\ ops' = [ops EXCEPT ![o] = [call EXCEPT !.allowed = Modules \ optouts]]
  /\ calls' = calls + 1
Go(o, place) == ops' = [ops EXCEPT ![o].at = place] /\ UNCHANGED calls
End(o) == ops' = [ops EXCEPT ![o] = NoOp] /\ UNCHANGED calls

\* A call is cut short: the process dies, or a statement fails.
Cut(o) ==
  /\ ops[o].at # "idle"
  /\ End(o)
  /\ UNCHANGED <<project, data, versions, granted, retired, behind>>

-----------------------------------------------------------------------------
(* The definition of the project.                                          *)

\* What an update saves: a column that is not declared any more is kept as
\* deleted, and what an administrator owns is kept when it is not given.
MergedLive(seen, want, share) ==
  [live |-> want, dead |-> seen.live \ want,
   grant |-> IF share = "keep" THEN seen.grant ELSE share = "given"]
Merged(seen, want, share) ==
  [live |-> want, dead |-> (seen.live \cup seen.dead) \ want,
   grant |-> IF share = "keep" THEN seen.grant ELSE share = "given"]

\* The row is still the one that was read.
AnyDefinition(seen) == TRUE
IsUnchanged(seen) == seen = Current

\* A project that declares its columns leaves the grant alone; an
\* administrator gives it, withdraws it or leaves it out.
Update(o) == \E want \in SUBSET Columns, share \in {"keep", "given", "withdrawn"} :
  /\ Start(o, [NoOp EXCEPT !.kind = "update", !.at = "ddl", !.want = want,
                           !.share = share, !.seen = Current])
  /\ UNCHANGED <<project, data, versions, granted, retired, behind>>

\* The columns of a definition that the table is given.
NewColumns(call) == call.want \ (call.seen.live \cup call.seen.dead)
TableColumns(call) == call.want

\* Each ALTER TABLE commits by itself: a failure leaves some of the columns.
Migrate(o) ==
  /\ ops[o].at = "ddl"
  /\ \/ table' = table \cup TableColumns(ops[o])
        /\ Go(o, IF ops[o].kind = "update" THEN "save" ELSE "version")
     \/ /\ \E some \in SUBSET TableColumns(ops[o]) : table' = table \cup some
        /\ End(o)
  /\ UNCHANGED <<project, optouts, row, token, cache, versions, granted, retired, behind>>

Save(o) ==
  /\ ops[o].at = "save"
  /\ IF IsUnchanged(ops[o].seen)
     THEN LET merged == Merged(ops[o].seen, ops[o].want, ops[o].share) IN
          /\ project' = [project EXCEPT !.live = merged.live, !.dead = merged.dead,
                                        !.grant = merged.grant]
          /\ granted' = IF ops[o].share = "keep" THEN granted ELSE ops[o].share = "given"
          /\ behind' = FALSE
          /\ Go(o, "version")
     ELSE End(o) /\ UNCHANGED <<project, granted, behind>>
  /\ UNCHANGED <<data, versions, retired>>

\* saveDefinitionHistory: the latest version is read, the next one inserted.
ReadVersion(o) ==
  /\ ops[o].at = "version"
  /\ \E v \in versions : /\ \A w \in versions : w <= v
                          /\ ops' = [ops EXCEPT ![o].at = "log", ![o].number = v]
  /\ UNCHANGED <<project, data, versions, calls, granted, retired, behind>>
LogVersion(o) ==
  /\ ops[o].at = "log"
  /\ versions' = versions \cup {ops[o].number + 1}
  /\ IF ops[o].kind = "update" THEN Go(o, "scan") ELSE End(o)
  /\ UNCHANGED <<project, data, granted, retired, behind>>

\* invalidateProject: the keys are collected, then deleted.
ScanCache(o) ==
  /\ ops[o].at = "scan"
  /\ IF cache.filled THEN Go(o, "delete") ELSE End(o)
  /\ UNCHANGED <<project, data, versions, granted, retired, behind>>

Deactivate ==
  /\ project.active
  /\ project' = [project EXCEPT !.active = FALSE]
  /\ UNCHANGED <<data, versions, ops, calls, granted, retired, behind>>

\* registerProject of a project that was switched off: the definition is
\* replaced as it is given, before the DDL.  The row was read as inactive.
Register(o) == \E want \in SUBSET Columns, share \in {"given", "withdrawn"} :
  /\ ~project.active
  /\ Start(o, [NoOp EXCEPT !.kind = "register", !.at = "replace", !.want = want,
                           !.share = share])
  /\ UNCHANGED <<project, data, versions, granted, retired, behind>>
Replace(o) ==
  /\ ops[o].at = "replace"
  /\ project' = [active |-> TRUE, live |-> ops[o].want, dead |-> {},
                 grant |-> ops[o].share = "given"]
  /\ granted' = (ops[o].share = "given")
  /\ behind' = TRUE
  /\ Go(o, "ddl")
  /\ UNCHANGED <<data, versions, retired>>

-----------------------------------------------------------------------------
(* The user's opt-out of a module.                                         *)

OptOut(o) == \E m \in Modules :
  /\ Start(o, [NoOp EXCEPT !.kind = "optout", !.at = "define", !.left = {m}])
  /\ optouts' = optouts \cup {m}
  /\ UNCHANGED <<project, table, row, token, cache, versions, granted, retired, behind>>

\* The columns of the module in the definition; there may be none.
ReadColumns(o) ==
  LET columns == ColumnsOf(ops[o].left) \cap project.live IN
  /\ ops[o].at = "define"
  /\ ops' = [ops EXCEPT ![o].at = IF columns = {} THEN "forget" ELSE "pick",
                        ![o].want = columns]
  /\ UNCHANGED <<project, data, versions, calls, granted, retired, behind>>

\* What is to be saved away; a column the table lacks makes the query fail.
PickValues(o) ==
  /\ ops[o].at = "pick"
  /\ IF ~(ops[o].want \subseteq table) THEN End(o)
     ELSE IF ~row.there THEN Go(o, "forget")
     ELSE /\ ops' = [ops EXCEPT ![o].at = "null", ![o].found = ops[o].want \cap row.values,
                                ![o].saved = row.saved]
          /\ UNCHANGED calls
  /\ UNCHANGED <<project, data, versions, granted, retired, behind>>

NullValues(o) ==
  /\ ops[o].at = "null"
  /\ row' = [row EXCEPT !.values = @ \ ops[o].want, !.saved = ops[o].saved \cup ops[o].found]
  /\ Go(o, "forget")
  /\ UNCHANGED <<project, table, optouts, token, cache, versions, granted, retired, behind>>

\* The deletion of the deposited token, with what it held.
Forgotten(t) == {t.access, t.refresh} \ {0}
ForgetToken(o) ==
  /\ ops[o].at = "forget"
  /\ token' = NoToken
  /\ retired' = retired \cup Forgotten(token)
  /\ Go(o, "drop")
  /\ UNCHANGED <<project, table, optouts, row, cache, versions, granted, behind>>

\* Withdrawing the opt-out restores nothing.
RemoveOptOut == \E m \in optouts :
  /\ optouts' = optouts \ {m}
  /\ ops' = [o \in Ops |-> IF ops[o].at = "idle" THEN ops[o]
                           ELSE [ops[o] EXCEPT !.allowed = @ \cup {m}]]
  /\ UNCHANGED <<project, table, row, token, cache, versions, calls, granted, retired, behind>>

-----------------------------------------------------------------------------
(* The row of the user, by the project and on the user's own page.         *)

\* invalidate: the page of this user is dropped.
DropPage(o) ==
  /\ ops[o].at \in {"drop", "delete"}
  /\ cache' = [filled |-> FALSE, page |-> NoPage]
  /\ End(o)
  /\ UNCHANGED <<project, table, optouts, row, token, versions, granted, retired, behind>>

\* set_user_data and get_user_columns look up the opt-out of each module
\* of their columns.
Access(o) == \E want \in SUBSET project.live \ {{}}, kind \in {"set", "get"} :
  /\ Start(o, [NoOp EXCEPT !.kind = kind, !.at = "check", !.want = want,
                           !.left = ModulesOf(want)])
  /\ UNCHANGED <<project, data, versions, granted, retired, behind>>

IsOptedOut(m) == m \in optouts
CheckModule(o) == \E m \in ops[o].left :
  /\ ops[o].at = "check"
  /\ IF ops[o].kind = "set" /\ IsOptedOut(m) THEN End(o)
     ELSE /\ ops' = [ops EXCEPT ![o].left = @ \ {m},
                ![o].hidden = IF IsOptedOut(m) THEN @ \cup {m} ELSE @]
          /\ UNCHANGED calls
  /\ UNCHANGED <<project, data, versions, granted, retired, behind>>

\* An upsert of the columns; it fails on a column the table lacks.
WriteValues(o) ==
  /\ ops[o].at = "check" /\ ops[o].kind = "set" /\ ops[o].left = {}
  /\ IF ops[o].want \subseteq table
     THEN /\ row' = [row EXCEPT !.there = TRUE, !.values = @ \cup ops[o].want]
          /\ Go(o, "drop")
     ELSE End(o) /\ UNCHANGED row
  /\ UNCHANGED <<project, table, optouts, token, cache, versions, granted, retired, behind>>

\* The columns of modules found opted out are answered null, whatever the row has.
Trusted(call) == {}
Masked(call) == ColumnsOf(call.hidden)

\* The answer to the project.  A query that fails answers null for all.
ReadValues(o) ==
  /\ ops[o].at = "check" /\ ops[o].kind = "get" /\ ops[o].left = {}
  /\ ops' = [ops EXCEPT ![o].at = "answered",
        ![o].found = IF ops[o].want \subseteq table
                     THEN (ops[o].want \cap row.values) \ Masked(ops[o]) ELSE {}]
  /\ UNCHANGED <<project, data, versions, calls, granted, retired, behind>>
Answer(o) ==
  /\ ops[o].at = "answered"
  /\ End(o)
  /\ UNCHANGED <<project, data, versions, granted, retired, behind>>

DeleteColumns(o) == \E want \in SUBSET project.live \ {{}} :
  /\ Start(o, [NoOp EXCEPT !.kind = "erase", !.at = "write", !.want = want])
  /\ UNCHANGED <<project, data, versions, granted, retired, behind>>
EraseValues(o) ==
  /\ ops[o].at = "write"
  /\ IF ops[o].want \subseteq table
     THEN row' = [row EXCEPT !.values = @ \ ops[o].want] /\ Go(o, "drop")
     ELSE End(o) /\ UNCHANGED row
  /\ UNCHANGED <<project, table, optouts, token, cache, versions, granted, retired, behind>>

\* ensureUserProjectRow: an empty row when the user starts to use the project.
OpenProject(o) ==
  /\ project.active /\ project.live # {}
  /\ Start(o, [NoOp EXCEPT !.kind = "open", !.at = "insert"])
  /\ UNCHANGED <<project, data, versions, granted, retired, behind>>
InsertRow(o) ==
  /\ ops[o].at = "insert"
  /\ row' = [row EXCEPT !.there = TRUE]
  /\ End(o)
  /\ UNCHANGED <<project, table, optouts, token, cache, versions, granted, retired, behind>>

\* getUserProjectData, when the page is not cached (a hit changes nothing).
ShowPage(o) ==
  /\ ~cache.filled
  /\ Start(o, [NoOp EXCEPT !.kind = "page", !.at = "fetch", !.seen = Current])
  /\ UNCHANGED <<project, data, versions, granted, retired, behind>>
FetchRow(o) ==
  /\ ops[o].at = "fetch"
  /\ ops' = [ops EXCEPT ![o].at = "fill", ![o].found = row.values]
  /\ UNCHANGED <<project, data, versions, calls, granted, retired, behind>>
FillCache(o) ==
  /\ ops[o].at = "fill"
  /\ cache' = [filled |-> TRUE, page |-> [live |-> ops[o].seen.live,
                  dead |-> ops[o].seen.dead, values |-> ops[o].found]]
  /\ End(o)
  /\ UNCHANGED <<project, table, optouts, row, token, versions, granted, retired, behind>>

\* The cached page lives for five minutes.
ExpireCache ==
  /\ cache.filled
  /\ cache' = [filled |-> FALSE, page |-> NoPage]
  /\ UNCHANGED <<project, table, optouts, row, token, versions, ops, calls, granted,
                 retired, behind>>

-----------------------------------------------------------------------------
(* The OAuth token the project deposits for the user.                      *)

StoreToken(o) == \E fields \in SUBSET {"access", "refresh"} \ {{}} :
  /\ Start(o, [NoOp EXCEPT !.kind = "store", !.at = "put", !.had = token,
                           !.fields = fields, !.number = calls + 1])
  /\ UNCHANGED <<project, data, versions, granted, retired, behind>>

\* A field that is not given keeps the value of the row that was read.
Filled(call) ==
  [id |-> IF call.had = NoToken THEN call.number ELSE call.had.id,
   access |-> IF "access" \in call.fields THEN call.number ELSE call.had.access,
   refresh |-> IF "refresh" \in call.fields THEN call.number ELSE call.had.refresh]

\* The update finds its row by the id that was read; an insert meets the
\* unique index.
SameOwner(call) == (token = NoToken) <=> (call.had = NoToken)
SameRow(call) == token.id = call.had.id
PutToken(o) ==
  /\ ops[o].at = "put"
  /\ token' = IF SameRow(ops[o]) THEN Filled(ops[o]) ELSE token
  /\ End(o)
  /\ UNCHANGED <<project, table, optouts, row, cache, versions, granted, retired, behind>>

DeleteToken ==
  /\ token # NoToken
  /\ token' = NoToken
  /\ retired' = retired \cup Forgotten(token)
  /\ UNCHANGED <<project, table, optouts, row, cache, versions, ops, calls, granted, behind>>

-----------------------------------------------------------------------------
Step(o) ==
  \/ Cut(o)
  \/ Update(o) \/ Migrate(o) \/ Save(o) \/ ReadVersion(o) \/ LogVersion(o) \/ ScanCache(o)
  \/ Register(o) \/ Replace(o)
  \/ OptOut(o) \/ ReadColumns(o) \/ PickValues(o) \/ NullValues(o) \/ ForgetToken(o)
  \/ Access(o) \/ CheckModule(o) \/ WriteValues(o) \/ ReadValues(o) \/ Answer(o)
  \/ DeleteColumns(o) \/ EraseValues(o) \/ DropPage(o)
  \/ OpenProject(o) \/ InsertRow(o)
  \/ ShowPage(o) \/ FetchRow(o) \/ FillCache(o)
  \/ StoreToken(o) \/ PutToken(o)

Next ==
  \/ \E o \in Ops : Step(o)
  \/ Deactivate \/ RemoveOptOut \/ DeleteToken \/ ExpireCache

Spec == Init /\ [][Next]_vars

-----------------------------------------------------------------------------
(* Properties.                                                             *)

\* get_user_columns never hands out a value of a module that was opted out
\* during the whole call, whoever wrote the value and whenever: a write that
\* looked up the opt-out before it was made may land after the columns were
\* nulled (service.ts:986 "even if a value is written later, it is not read").
ServedValueWasAllowed ==
  \A o \in Ops : ops[o].at = "answered" => ModulesOf(ops[o].found) \subseteq ops[o].allowed

\* The grant of a project is the one an administrator set last: an update of
\* the project's own columns that started before a withdrawal never brings
\* the grant back, although it writes the whole definition it once read.
GrantIsAsSet == project.grant = granted

\* No update loses a declared column: it stays in the definition, live or
\* deleted, through concurrent updates too.  Only the reactivation of a
\* project that was switched off replaces the definition as a whole.
NoColumnForgotten ==
  [][project.live \cup project.dead \subseteq project'.live \cup project'.dead
     \/ \E o \in Ops : Replace(o)]_vars

\* What a column is declared live for, the table has, wherever an update was
\* cut: the DDL comes before the definition.  A reactivation saves first.
DeclaredColumnsExist == behind \/ project.live \subseteq table

\* A token field that was deleted (by the opt-out of a module, or by the
\* project) is never in the store again: a call that keeps a field it read
\* does not carry it into a row stored since.
DeletedTokenStaysDeleted == Forgotten(token) \cap retired = {}
=============================================================================
