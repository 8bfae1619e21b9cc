-------------------------- MODULE ProjectData_proofs --------------------------
(***************************************************************************)
(* Proofs about ProjectData, for any columns, modules and calls: its types *)
(* and its five properties.  A step of a call changes the record of that   *)
(* call alone, and in one of three ways (StepShape); Ready, Watched and    *)
(* Looked, and TokenInv say what the properties need of the records.       *)
(***************************************************************************)
EXTENDS ProjectData, TLAPS

-----------------------------------------------------------------------------
(* Types.                                                                  *)

LEMMA NoOpType == NoOp \in Op
BY DEF NoOp, Op, Kinds, Places, Empty, Definition, NoToken, Token

\* The record of one call, with a new place and one new field.
LEMMA MovedType ==
  ASSUME NEW r \in Op, NEW place \in Places
  PROVE  /\ [r EXCEPT !.at = place] \in Op
         /\ [r EXCEPT !.at = place].at = place
BY DEF Op

LEMMA CalledType ==
  ASSUME NEW r \in Op, NEW modules \in SUBSET Modules
  PROVE  [r EXCEPT !.allowed = modules] \in Op
BY DEF Op

LEMMA CurrentType == ASSUME TypeOK PROVE Current \in Definition
BY DEF TypeOK, Current, Definition

LEMMA ModulesType ==
  ASSUME NEW columns \in SUBSET Columns PROVE ModulesOf(columns) \in SUBSET Modules
BY DataAssumption DEF ModulesOf

LEMMA GoType ==
  ASSUME TypeOK, NEW o \in Ops, NEW place \in Places, Go(o, place)
  PROVE  ops' \in [Ops -> Op] /\ calls' \in Nat
<1>1. [ops[o] EXCEPT !.at = place] \in Op
  BY MovedType DEF TypeOK
<1>2. ops' = [ops EXCEPT ![o] = [ops[o] EXCEPT !.at = place]]
  BY DEF Go
<1> QED
  BY <1>1, <1>2 DEF TypeOK, Go

LEMMA EndType ==
  ASSUME TypeOK, NEW o \in Ops, End(o)
  PROVE  ops' \in [Ops -> Op] /\ calls' \in Nat
BY NoOpType DEF TypeOK, End

LEMMA StartType ==
  ASSUME TypeOK, NEW o \in Ops, NEW call \in Op, Start(o, call)
  PROVE  ops' \in [Ops -> Op] /\ calls' \in Nat
<1>1. [call EXCEPT !.allowed = Modules \ optouts] \in Op
  BY CalledType
<1> QED
  BY <1>1 DEF TypeOK, Start

\* The calls as they begin.
LEMMA FirstRecords ==
  ASSUME TypeOK, NEW want \in SUBSET Columns
  PROVE  /\ \A share \in {"keep", "given", "withdrawn"} :
              /\ [NoOp EXCEPT !.kind = "update", !.at = "ddl", !.want = want,
                              !.share = share, !.seen = Current] \in Op
              /\ [NoOp EXCEPT !.kind = "register", !.at = "replace", !.want = want,
                              !.share = share] \in Op
         /\ \A m \in Modules :
              [NoOp EXCEPT !.kind = "optout", !.at = "define", !.left = {m}] \in Op
         /\ \A kind \in {"set", "get"} :
              [NoOp EXCEPT !.kind = kind, !.at = "check", !.want = want,
                           !.left = ModulesOf(want)] \in Op
         /\ [NoOp EXCEPT !.kind = "erase", !.at = "write", !.want = want] \in Op
         /\ [NoOp EXCEPT !.kind = "open", !.at = "insert"] \in Op
         /\ [NoOp EXCEPT !.kind = "page", !.at = "fetch", !.seen = Current] \in Op
         /\ \A fields \in SUBSET {"access", "refresh"} :
              [NoOp EXCEPT !.kind = "store", !.at = "put", !.had = token,
                           !.fields = fields, !.number = calls + 1] \in Op
<1>1. NoOp \in Op /\ Current \in Definition /\ ModulesOf(want) \in SUBSET Modules
  BY NoOpType, CurrentType, ModulesType
<1>2. token \in Token /\ calls + 1 \in Nat
  BY DEF TypeOK
<1> HIDE DEF NoOp, Current, ModulesOf
<1>3. ASSUME NEW share \in {"keep", "given", "withdrawn"}
      PROVE  /\ [NoOp EXCEPT !.kind = "update", !.at = "ddl", !.want = want,
                              !.share = share, !.seen = Current] \in Op
             /\ [NoOp EXCEPT !.kind = "register", !.at = "replace", !.want = want,
                              !.share = share] \in Op
  BY <1>1 DEF Op, Kinds, Places
<1>4. ASSUME NEW m \in Modules
      PROVE  [NoOp EXCEPT !.kind = "optout", !.at = "define", !.left = {m}] \in Op
  BY <1>1 DEF Op, Kinds, Places
<1>5. ASSUME NEW kind \in {"set", "get"}
      PROVE  [NoOp EXCEPT !.kind = kind, !.at = "check", !.want = want,
                          !.left = ModulesOf(want)] \in Op
  BY <1>1 DEF Op, Kinds, Places
<1>6. /\ [NoOp EXCEPT !.kind = "erase", !.at = "write", !.want = want] \in Op
      /\ [NoOp EXCEPT !.kind = "open", !.at = "insert"] \in Op
      /\ [NoOp EXCEPT !.kind = "page", !.at = "fetch", !.seen = Current] \in Op
  BY <1>1 DEF Op, Kinds, Places
<1>7. ASSUME NEW fields \in SUBSET {"access", "refresh"}
      PROVE  [NoOp EXCEPT !.kind = "store", !.at = "put", !.had = token,
                          !.fields = fields, !.number = calls + 1] \in Op
  BY <1>1, <1>2 DEF Op, Kinds, Places
<1> QED
  BY <1>3, <1>4, <1>5, <1>6, <1>7

\* Whatever a call does, its record stays a record.
LEMMA StepRecords ==
  ASSUME TypeOK, NEW o \in Ops, Step(o)
  PROVE  ops' \in [Ops -> Op] /\ calls' \in Nat
<1>1. CASE Cut(o) \/ Answer(o) \/ DropPage(o) \/ InsertRow(o) \/ FillCache(o) \/ PutToken(o)
  BY <1>1, EndType DEF Cut, Answer, DropPage, InsertRow, FillCache, PutToken
<1>2. ASSUME NEW want \in SUBSET Columns, NEW share \in {"keep", "given", "withdrawn"},
             Start(o, [NoOp EXCEPT !.kind = "update", !.at = "ddl", !.want = want,
                                   !.share = share, !.seen = Current])
      PROVE  ops' \in [Ops -> Op] /\ calls' \in Nat
  BY <1>2, FirstRecords, StartType
<1>3. ASSUME NEW want \in SUBSET Columns, NEW share \in {"given", "withdrawn"},
             Start(o, [NoOp EXCEPT !.kind = "register", !.at = "replace", !.want = want,
                                   !.share = share])
      PROVE  ops' \in [Ops -> Op] /\ calls' \in Nat
  BY <1>3, FirstRecords, StartType
<1>4. ASSUME NEW m \in Modules,
             Start(o, [NoOp EXCEPT !.kind = "optout", !.at = "define", !.left = {m}])
      PROVE  ops' \in [Ops -> Op] /\ calls' \in Nat
  BY <1>4, FirstRecords, StartType
<1>5. ASSUME NEW want \in SUBSET Columns, NEW kind \in {"set", "get"},
             Start(o, [NoOp EXCEPT !.kind = kind, !.at = "check", !.want = want,
                                   !.left = ModulesOf(want)])
      PROVE  ops' \in [Ops -> Op] /\ calls' \in Nat
  BY <1>5, FirstRecords, StartType
<1>6. ASSUME NEW want \in SUBSET Columns,
             Start(o, [NoOp EXCEPT !.kind = "erase", !.at = "write", !.want = want])
      PROVE  ops' \in [Ops -> Op] /\ calls' \in Nat
  BY <1>6, FirstRecords, StartType
<1>7. CASE \/ Start(o, [NoOp EXCEPT !.kind = "open", !.at = "insert"])
           \/ Start(o, [NoOp EXCEPT !.kind = "page", !.at = "fetch", !.seen = Current])
  <2>1. {} \in SUBSET Columns
    OBVIOUS
  <2> QED
    BY <1>7, <2>1, FirstRecords, StartType
<1>8. ASSUME NEW fields \in SUBSET {"access", "refresh"},
             Start(o, [NoOp EXCEPT !.kind = "store", !.at = "put", !.had = token,
                                   !.fields = fields, !.number = calls + 1])
      PROVE  ops' \in [Ops -> Op] /\ calls' \in Nat
  <2>1. {} \in SUBSET Columns
    OBVIOUS
  <2> QED
    BY <1>8, <2>1, FirstRecords, StartType
<1>9. project.live \in SUBSET Columns
  BY DEF TypeOK
<1>10. CASE Update(o) \/ Register(o) \/ OptOut(o) \/ Access(o) \/ DeleteColumns(o)
            \/ OpenProject(o) \/ ShowPage(o) \/ StoreToken(o)
  BY <1>2, <1>3, <1>4, <1>5, <1>6, <1>7, <1>8, <1>9, <1>10
     DEF Update, Register, OptOut, Access, DeleteColumns, OpenProject, ShowPage, StoreToken
<1>11. CASE Migrate(o) \/ Save(o) \/ LogVersion(o) \/ ScanCache(o) \/ Replace(o)
            \/ NullValues(o) \/ ForgetToken(o) \/ WriteValues(o) \/ EraseValues(o)
  <2>1. /\ "save" \in Places /\ "version" \in Places /\ "scan" \in Places /\ "delete" \in Places
        /\ "ddl" \in Places /\ "forget" \in Places /\ "drop" \in Places
    BY DEF Places
  <2> QED
    BY <1>11, <2>1, GoType, EndType
       DEF Migrate, Save, LogVersion, ScanCache, Replace, NullValues, ForgetToken,
           WriteValues, EraseValues
<1>12. ASSUME NEW r \in Op, ops' = [ops EXCEPT ![o] = r], calls' = calls
       PROVE  ops' \in [Ops -> Op] /\ calls' \in Nat
  BY <1>12 DEF TypeOK
<1>13. ops[o] \in Op
  BY DEF TypeOK
<1>14. CASE ReadVersion(o)
  <2>1. PICK v \in versions : ops' = [ops EXCEPT ![o].at = "log", ![o].number = v]
    BY <1>14 DEF ReadVersion
  <2>2. [ops[o] EXCEPT !.at = "log", !.number = v] \in Op
    BY <1>13 DEF Op, Places, TypeOK
  <2>3. ops' = [ops EXCEPT ![o] = [ops[o] EXCEPT !.at = "log", !.number = v]]
    BY <2>1
  <2> QED
    BY <1>14, <2>2, <2>3, <1>12 DEF ReadVersion
<1>15. CASE ReadColumns(o)
  <2> DEFINE columns == ColumnsOf(ops[o].left) \cap project.live
             place == IF columns = {} THEN "forget" ELSE "pick"
  <2>1. columns \in SUBSET Columns /\ place \in Places
    BY <1>9 DEF Places
  <2>2. [ops[o] EXCEPT !.at = place, !.want = columns] \in Op
    <3> HIDE DEF columns, place
    <3> QED
      BY <1>13, <2>1 DEF Op
  <2>3. ops' = [ops EXCEPT ![o] = [ops[o] EXCEPT !.at = place, !.want = columns]]
    BY <1>15 DEF ReadColumns
  <2> QED
    BY <1>15, <2>2, <2>3, <1>12 DEF ReadColumns
<1>16. CASE PickValues(o)
  <2> DEFINE found == ops[o].want \cap row.values
  <2>1. found \in SUBSET Columns /\ row.saved \in SUBSET Columns
    BY <1>13 DEF Op, TypeOK
  <2>2. [ops[o] EXCEPT !.at = "null", !.found = found, !.saved = row.saved] \in Op
    <3> HIDE DEF found
    <3> QED
      BY <1>13, <2>1 DEF Op, Places
  <2>3. CASE ops' = [ops EXCEPT ![o].at = "null", ![o].found = found, ![o].saved = row.saved]
    <3>1. ops' = [ops EXCEPT ![o] = [ops[o] EXCEPT !.at = "null", !.found = found,
                                                  !.saved = row.saved]]
      BY <2>3
    <3>2. calls' = calls \/ End(o) \/ Go(o, "forget")
      BY <1>16 DEF PickValues
    <3>3. calls' \in Nat
      BY <3>2 DEF TypeOK, End, Go
    <3> QED
      BY <2>2, <3>1, <3>3 DEF TypeOK
  <2>4. CASE End(o) \/ Go(o, "forget")
    BY <2>4, GoType, EndType DEF Places
  <2> QED
    BY <1>16, <2>3, <2>4 DEF PickValues
<1>17. CASE CheckModule(o)
  <2>1. PICK m \in ops[o].left :
          \/ End(o)
          \/ /\ ops' = [ops EXCEPT ![o].left = @ \ {m},
                        ![o].hidden = IF IsOptedOut(m) THEN @ \cup {m} ELSE @]
             /\ calls' = calls
    BY <1>17 DEF CheckModule
  <2> DEFINE hidden == IF IsOptedOut(m) THEN ops[o].hidden \cup {m} ELSE ops[o].hidden
  <2>2. m \in Modules /\ ops[o].hidden \in SUBSET Modules /\ ops[o].left \in SUBSET Modules
    BY <1>13 DEF Op
  <2>3. hidden \in SUBSET Modules /\ ops[o].left \ {m} \in SUBSET Modules
    BY <2>2
  <2>4. [ops[o] EXCEPT !.left = ops[o].left \ {m}, !.hidden = hidden] \in Op
    <3> HIDE DEF hidden
    <3> QED
      BY <1>13, <2>3 DEF Op
  <2>5. \/ End(o)
        \/ /\ ops' = [ops EXCEPT ![o] = [ops[o] EXCEPT !.left = ops[o].left \ {m},
                                                       !.hidden = hidden]]
           /\ calls' = calls
    BY <2>1
  <2> QED
    BY <2>4, <2>5, <1>12, EndType
<1>18. CASE ReadValues(o)
  <2> DEFINE found == IF ops[o].want \subseteq table
                      THEN (ops[o].want \cap row.values) \ Masked(ops[o]) ELSE {}
  <2>1. found \in SUBSET Columns
    BY <1>13 DEF Op
  <2>2. [ops[o] EXCEPT !.at = "answered", !.found = found] \in Op
    <3> HIDE DEF found
    <3> QED
      BY <1>13, <2>1 DEF Op, Places
  <2>3. ops' = [ops EXCEPT ![o] = [ops[o] EXCEPT !.at = "answered", !.found = found]]
    BY <1>18 DEF ReadValues
  <2> QED
    BY <1>18, <2>2, <2>3, <1>12 DEF ReadValues
<1>19. CASE FetchRow(o)
  <2>1. [ops[o] EXCEPT !.at = "fill", !.found = row.values] \in Op
    BY <1>13 DEF Op, Places, TypeOK
  <2>2. ops' = [ops EXCEPT ![o] = [ops[o] EXCEPT !.at = "fill", !.found = row.values]]
    BY <1>19 DEF FetchRow
  <2> QED
    BY <1>19, <2>1, <2>2, <1>12 DEF FetchRow
<1> QED
  BY <1>1, <1>10, <1>11, <1>14, <1>15, <1>16, <1>17, <1>18, <1>19 DEF Step

LEMMA CacheType ==
  ASSUME NEW filled \in BOOLEAN, NEW page \in Page
  PROVE  [filled |-> filled, page |-> page] \in [filled : BOOLEAN, page : Page]
OBVIOUS

LEMMA NoPageType == NoPage \in Page
BY DEF NoPage, Page

LEMMA InitTypes == Init => TypeOK
<1> SUFFICES ASSUME Init PROVE TypeOK
  OBVIOUS
<1>1. ops \in [Ops -> Op]
  BY NoOpType DEF Init
<1>2. /\ project \in [active : BOOLEAN, live : SUBSET Columns, dead : SUBSET Columns,
                     grant : BOOLEAN]
      /\ table \in SUBSET Columns
      /\ granted \in BOOLEAN
  BY DEF Init
<1>3. row \in [there : BOOLEAN, values : SUBSET Columns, saved : SUBSET Columns]
  <2>1. CASE row \in [there : {TRUE}, values : SUBSET table, saved : {{}}]
    BY <1>2, <2>1
  <2>2. CASE row = [there |-> FALSE, values |-> {}, saved |-> {}]
    BY <2>2
  <2> QED
    BY <2>1, <2>2 DEF Init
<1>4. token \in Token
  BY DEF Init, Token, NoToken
<1>5. cache \in [filled : BOOLEAN, page : Page]
  <2>1. cache = [filled |-> FALSE, page |-> NoPage]
    BY DEF Init
  <2>2. [filled |-> FALSE, page |-> NoPage] \in [filled : BOOLEAN, page : Page]
    BY NoPageType, CacheType
  <2> QED
    BY <2>1, <2>2
<1>6. versions \in SUBSET Nat /\ calls \in Nat /\ retired \in SUBSET Nat
  BY DEF Init
<1>7. behind \in BOOLEAN
  BY Zenon DEF Init
<1>8. optouts \in SUBSET Modules
  BY DEF Init
<1> QED
  BY <1>1, <1>2, <1>3, <1>4, <1>5, <1>6, <1>7, <1>8 DEF TypeOK

LEMMA RowType ==
  ASSUME NEW r \in [there : BOOLEAN, values : SUBSET Columns, saved : SUBSET Columns],
         NEW there \in BOOLEAN, NEW values \in SUBSET Columns, NEW saved \in SUBSET Columns
  PROVE  /\ [r EXCEPT !.there = there]
              \in [there : BOOLEAN, values : SUBSET Columns, saved : SUBSET Columns]
         /\ [r EXCEPT !.values = values]
              \in [there : BOOLEAN, values : SUBSET Columns, saved : SUBSET Columns]
         /\ [r EXCEPT !.there = there, !.values = values]
              \in [there : BOOLEAN, values : SUBSET Columns, saved : SUBSET Columns]
         /\ [r EXCEPT !.values = values, !.saved = saved]
              \in [there : BOOLEAN, values : SUBSET Columns, saved : SUBSET Columns]
OBVIOUS

\* Most steps leave the definition, the row, the token and the cache alone.
LEMMA MergedType ==
  ASSUME NEW seen \in Definition, NEW want \in SUBSET Columns, NEW share
  PROVE  /\ Merged(seen, want, share).live \in SUBSET Columns
         /\ Merged(seen, want, share).dead \in SUBSET Columns
         /\ Merged(seen, want, share).grant \in BOOLEAN
BY DEF Merged, Definition

LEMMA FilledType ==
  ASSUME NEW call \in Op PROVE Filled(call) \in Token
<1>1. /\ call.number \in Nat /\ call.had.id \in Nat
      /\ call.had.access \in Nat /\ call.had.refresh \in Nat
  BY DEF Op, Token
<1> QED
  BY <1>1 DEF Filled, Token

LEMMA ForgottenType ==
  ASSUME NEW t \in Token PROVE Forgotten(t) \in SUBSET Nat
BY DEF Forgotten, Token

LEMMA StepTypes ==
  ASSUME TypeOK, NEW o \in Ops, Step(o) PROVE TypeOK'
<1>1. ops' \in [Ops -> Op] /\ calls' \in Nat
  BY StepRecords
<1>2. ops[o] \in Op /\ ops[o].want \in SUBSET Columns /\ ops[o].seen \in Definition
      /\ ops[o].saved \in SUBSET Columns /\ ops[o].found \in SUBSET Columns
      /\ ops[o].number \in Nat
  BY DEF TypeOK, Op
<1>3. CASE UNCHANGED <<project, data, versions, granted, retired, behind>>
  BY <1>1, <1>3 DEF data, TypeOK
<1>4. CASE Migrate(o)
  <2>1. table' \in SUBSET Columns
    BY <1>2, <1>4 DEF Migrate, TableColumns, TypeOK
  <2> QED
    BY <1>1, <1>4, <2>1 DEF Migrate, TypeOK
<1>5. CASE Save(o)
  <2>1. /\ project' \in [active : BOOLEAN, live : SUBSET Columns, dead : SUBSET Columns,
                         grant : BOOLEAN]
        /\ granted' \in BOOLEAN /\ behind' \in BOOLEAN
    <3>1. CASE IsUnchanged(ops[o].seen)
      <4> DEFINE merged == Merged(ops[o].seen, ops[o].want, ops[o].share)
      <4>1. merged.live \in SUBSET Columns /\ merged.dead \in SUBSET Columns
            /\ merged.grant \in BOOLEAN
        BY <1>2, MergedType
      <4>2. /\ project' = [project EXCEPT !.live = merged.live, !.dead = merged.dead,
                                          !.grant = merged.grant]
            /\ granted' = IF ops[o].share = "keep" THEN granted ELSE ops[o].share = "given"
            /\ behind' = FALSE
        BY <1>5, <3>1 DEF Save
      <4> HIDE DEF merged
      <4> QED
        BY <4>1, <4>2 DEF TypeOK
    <3>2. CASE ~IsUnchanged(ops[o].seen)
      BY <1>5, <3>2 DEF Save, TypeOK
    <3> QED
      BY <3>1, <3>2
  <2> QED
    BY <1>1, <1>5, <2>1 DEF Save, data, TypeOK
<1>6. CASE LogVersion(o)
  <2>1. versions' \in SUBSET Nat
    <3>1. versions' = versions \cup {ops[o].number + 1}
      BY <1>6 DEF LogVersion
    <3>2. versions \in SUBSET Nat /\ ops[o].number + 1 \in Nat
      BY <1>2 DEF TypeOK
    <3> QED
      BY <3>1, <3>2
  <2>2. /\ project' = project /\ data' = data /\ granted' = granted /\ retired' = retired
        /\ behind' = behind
    BY <1>6 DEF LogVersion
  <2> QED
    BY <1>1, <2>1, <2>2 DEF data, TypeOK
<1>7. CASE Replace(o)
  <2>1. project' \in [active : BOOLEAN, live : SUBSET Columns, dead : SUBSET Columns,
                      grant : BOOLEAN]
    BY <1>2, <1>7 DEF Replace
  <2> QED
    BY <1>1, <1>7, <2>1 DEF Replace, data, TypeOK
<1>8. CASE OptOut(o)
  BY <1>1, <1>8 DEF OptOut, TypeOK
<1>9. CASE NullValues(o) \/ WriteValues(o) \/ EraseValues(o) \/ InsertRow(o)
  <2>1. row' \in [there : BOOLEAN, values : SUBSET Columns, saved : SUBSET Columns]
    <3>1. /\ row \in [there : BOOLEAN, values : SUBSET Columns, saved : SUBSET Columns]
          /\ row.values \ ops[o].want \in SUBSET Columns
          /\ row.values \cup ops[o].want \in SUBSET Columns
          /\ ops[o].saved \cup ops[o].found \in SUBSET Columns
      BY <1>2 DEF TypeOK
    <3>2. CASE NullValues(o)
      BY <3>1, <3>2, RowType DEF NullValues
    <3>3. CASE WriteValues(o)
      <4> DEFINE values == row.values \cup ops[o].want
      <4>1. row' = row \/ row' = [row EXCEPT !.there = TRUE, !.values = values]
        BY <3>3 DEF WriteValues
      <4>2. TRUE \in BOOLEAN /\ values \in SUBSET Columns
        BY <3>1
      <4> HIDE DEF values
      <4>3. [row EXCEPT !.there = TRUE, !.values = values]
              \in [there : BOOLEAN, values : SUBSET Columns, saved : SUBSET Columns]
        BY <3>1, <4>2
      <4> QED
        BY <3>1, <4>1, <4>3
    <3>4. CASE EraseValues(o)
      <4> DEFINE values == row.values \ ops[o].want
      <4>1. row' = row \/ row' = [row EXCEPT !.values = values]
        BY <3>4 DEF EraseValues
      <4>2. values \in SUBSET Columns
        BY <3>1
      <4> HIDE DEF values
      <4>3. [row EXCEPT !.values = values]
              \in [there : BOOLEAN, values : SUBSET Columns, saved : SUBSET Columns]
        BY <3>1, <4>2
      <4> QED
        BY <3>1, <4>1, <4>3
    <3>5. CASE InsertRow(o)
      BY <3>1, <3>5, RowType DEF InsertRow
    <3> QED
      BY <1>9, <3>2, <3>3, <3>4, <3>5
  <2> QED
    BY <1>1, <1>9, <2>1 DEF NullValues, WriteValues, EraseValues, InsertRow, TypeOK
<1>10. CASE ForgetToken(o)
  <2>1. NoToken \in Token /\ Forgotten(token) \in SUBSET Nat
    BY ForgottenType DEF NoToken, Token, TypeOK
  <2> QED
    BY <1>1, <1>10, <2>1 DEF ForgetToken, TypeOK
<1>11. CASE PutToken(o)
  <2>1. token' \in Token
    BY <1>2, <1>11, FilledType DEF PutToken, TypeOK
  <2> QED
    BY <1>1, <1>11, <2>1 DEF PutToken, TypeOK
<1>12. CASE DropPage(o) \/ FillCache(o)
  <2>1. cache' \in [filled : BOOLEAN, page : Page]
    <3>1. CASE DropPage(o)
      <4>1. [filled |-> FALSE, page |-> NoPage] \in [filled : BOOLEAN, page : Page]
        BY NoPageType, CacheType
      <4> QED
        BY <3>1, <4>1 DEF DropPage
    <3>2. CASE FillCache(o)
      <4>1. ops[o].seen.live \in SUBSET Columns /\ ops[o].seen.dead \in SUBSET Columns
        BY <1>2 DEF Definition
      <4> DEFINE page == [live |-> ops[o].seen.live, dead |-> ops[o].seen.dead,
                          values |-> ops[o].found]
      <4>2. page \in Page
        BY <1>2, <4>1 DEF Page
      <4>3. cache' = [filled |-> TRUE, page |-> page]
        BY <3>2 DEF FillCache
      <4> HIDE DEF page
      <4>4. [filled |-> TRUE, page |-> page] \in [filled : BOOLEAN, page : Page]
        BY <4>2, CacheType
      <4> QED
        BY <4>3, <4>4
    <3> QED
      BY <1>12, <3>1, <3>2
  <2> QED
    BY <1>1, <1>12, <2>1 DEF DropPage, FillCache, TypeOK
<1>13. CASE \/ Cut(o) \/ Update(o) \/ ReadVersion(o) \/ ScanCache(o) \/ Register(o)
            \/ ReadColumns(o) \/ PickValues(o) \/ Access(o) \/ CheckModule(o) \/ ReadValues(o)
            \/ Answer(o) \/ DeleteColumns(o) \/ OpenProject(o) \/ ShowPage(o) \/ FetchRow(o)
            \/ StoreToken(o)
  <2>1. UNCHANGED <<project, data, versions, granted, retired, behind>>
    BY <1>13 DEF Cut, Update, ReadVersion, ScanCache, Register, ReadColumns, PickValues, Access,
                 CheckModule, ReadValues, Answer, DeleteColumns, OpenProject, ShowPage, FetchRow,
                 StoreToken
  <2> QED
    BY <2>1, <1>3
<1> QED
  BY <1>4, <1>5, <1>6, <1>7, <1>8, <1>9, <1>10, <1>11, <1>12, <1>13 DEF Step

\* The steps that belong to no call.
LEMMA OtherTypes ==
  ASSUME TypeOK, Deactivate \/ RemoveOptOut \/ DeleteToken \/ ExpireCache \/ UNCHANGED vars
  PROVE  TypeOK'
<1>1. CASE Deactivate
  BY <1>1 DEF Deactivate, data, TypeOK
<1>2. CASE RemoveOptOut
  <2>1. PICK m \in optouts :
          ops' = [o \in Ops |-> IF ops[o].at = "idle" THEN ops[o]
                               ELSE [ops[o] EXCEPT !.allowed = @ \cup {m}]]
    BY <1>2 DEF RemoveOptOut
  <2>2. ASSUME NEW o \in Ops PROVE [ops[o] EXCEPT !.allowed = @ \cup {m}] \in Op
    <3>1. ops[o] \in Op /\ ops[o].allowed \cup {m} \in SUBSET Modules
      BY DEF TypeOK, Op
    <3> QED
      BY <3>1, CalledType
  <2>3. ops' \in [Ops -> Op]
    BY <2>1, <2>2 DEF TypeOK
  <2> QED
    BY <1>2, <2>3 DEF RemoveOptOut, TypeOK
<1>3. CASE DeleteToken
  <2>1. NoToken \in Token /\ Forgotten(token) \in SUBSET Nat
    BY ForgottenType DEF NoToken, Token, TypeOK
  <2> QED
    BY <1>3, <2>1 DEF DeleteToken, TypeOK
<1>4. CASE ExpireCache
  BY <1>4 DEF ExpireCache, TypeOK, Page, NoPage
<1>5. CASE UNCHANGED vars
  BY <1>5 DEF vars, data, TypeOK
<1> QED
  BY <1>1, <1>2, <1>3, <1>4, <1>5

\* Every reachable state has the types of the module.
THEOREM DataTypes == Spec => []TypeOK
<1>1. TypeOK /\ [Next]_vars => TypeOK'
  BY StepTypes, OtherTypes DEF Next
<1> QED
  BY InitTypes, <1>1, PTL DEF Spec

-----------------------------------------------------------------------------
(* How the record of a call changes.                                       *)

Ended(o) == ops'[o] = NoOp
Began(o) ==
  /\ ops'[o].allowed = Modules \ optouts
  /\ ops'[o].at \notin {"save", "answered"}
  /\ ops'[o].at = "check" => ops'[o].left = ModulesOf(ops'[o].want)
  /\ ops'[o].at = "put" => StoreToken(o)
Moved(o) ==
  /\ ops[o].at # "idle"
  /\ ops'[o].allowed = ops[o].allowed
  /\ ops'[o].at # "put"
  /\ ops'[o].at = "save" => Migrate(o) /\ ops'[o].want = ops[o].want
  /\ ops'[o].at = "check" => CheckModule(o)
  /\ ops'[o].at = "answered" => ReadValues(o)

LEMMA GoShape ==
  ASSUME TypeOK, NEW o \in Ops, NEW place \in Places \ {"put", "check", "answered"},
         Go(o, place), ops[o].at # "idle", place = "save" => Migrate(o)
  PROVE  Moved(o) /\ \A p \in Ops \ {o} : ops'[p] = ops[p]
<1>1. ops[o] \in Op
  BY DEF TypeOK
<1>2. ops' = [ops EXCEPT ![o] = [ops[o] EXCEPT !.at = place]]
  BY DEF Go
<1>3. ops'[o] = [ops[o] EXCEPT !.at = place]
  BY <1>2 DEF TypeOK
<1>4. ops'[o].at = place /\ ops'[o].allowed = ops[o].allowed /\ ops'[o].want = ops[o].want
  BY <1>1, <1>3 DEF Op
<1>5. \A p \in Ops \ {o} : ops'[p] = ops[p]
  BY <1>2 DEF TypeOK
<1> QED
  BY <1>4, <1>5 DEF Moved

LEMMA EndShape ==
  ASSUME TypeOK, NEW o \in Ops, End(o)
  PROVE  Ended(o) /\ \A p \in Ops \ {o} : ops'[p] = ops[p]
BY DEF TypeOK, End, Ended

LEMMA StartShape ==
  ASSUME TypeOK, NEW o \in Ops, NEW call \in Op, Start(o, call)
  PROVE  /\ ops'[o].allowed = Modules \ optouts /\ ops'[o].at = call.at
         /\ ops'[o].left = call.left /\ ops'[o].want = call.want
         /\ \A p \in Ops \ {o} : ops'[p] = ops[p]
<1>1. ops' = [ops EXCEPT ![o] = [call EXCEPT !.allowed = Modules \ optouts]]
  BY DEF Start
<1>2. ops'[o] = [call EXCEPT !.allowed = Modules \ optouts]
  BY <1>1 DEF TypeOK
<1>3. \A p \in Ops \ {o} : ops'[p] = ops[p]
  BY <1>1 DEF TypeOK
<1> QED
  BY <1>2, <1>3 DEF Op

\* A call that begins elsewhere than at its checks.
LEMMA PlainBegin ==
  ASSUME TypeOK, NEW o \in Ops, NEW call \in Op, Start(o, call),
         call.at \notin {"save", "answered", "check"}, call.at = "put" => StoreToken(o)
  PROVE  Began(o) /\ \A p \in Ops \ {o} : ops'[p] = ops[p]
<1>1. /\ ops'[o].allowed = Modules \ optouts /\ ops'[o].at = call.at
      /\ \A p \in Ops \ {o} : ops'[p] = ops[p]
  BY StartShape
<1> QED
  BY <1>1 DEF Began

LEMMA BeginShape ==
  ASSUME TypeOK, NEW o \in Ops,
         Update(o) \/ Register(o) \/ OptOut(o) \/ Access(o) \/ DeleteColumns(o)
           \/ OpenProject(o) \/ ShowPage(o) \/ StoreToken(o)
  PROVE  Began(o) /\ \A p \in Ops \ {o} : ops'[p] = ops[p]
<1>1. NoOp \in Op /\ project.live \in SUBSET Columns /\ {} \in SUBSET Columns
  BY NoOpType DEF TypeOK
<1> HIDE DEF NoOp
<1>2. CASE Update(o)
  <2>1. PICK want \in SUBSET Columns, share \in {"keep", "given", "withdrawn"} :
          Start(o, [NoOp EXCEPT !.kind = "update", !.at = "ddl", !.want = want,
                                !.share = share, !.seen = Current])
    BY <1>2 DEF Update
  <2> DEFINE call == [NoOp EXCEPT !.kind = "update", !.at = "ddl", !.want = want,
                                  !.share = share, !.seen = Current]
  <2>2. call \in Op
    BY FirstRecords
  <2>3. call.at = "ddl"
    BY <1>1 DEF Op
  <2> HIDE DEF call
  <2>4. Start(o, call)
    BY <2>1 DEF call
  <2> QED
    BY <2>2, <2>3, <2>4, PlainBegin
<1>3. CASE Register(o)
  <2>1. PICK want \in SUBSET Columns, share \in {"given", "withdrawn"} :
          Start(o, [NoOp EXCEPT !.kind = "register", !.at = "replace", !.want = want,
                                !.share = share])
    BY <1>3 DEF Register
  <2> DEFINE call == [NoOp EXCEPT !.kind = "register", !.at = "replace", !.want = want,
                                  !.share = share]
  <2>2. call \in Op
    BY FirstRecords
  <2>3. call.at = "replace"
    BY <1>1 DEF Op
  <2>4. Start(o, call)
    BY <2>1
  <2> HIDE DEF call
  <2> QED
    BY <2>2, <2>3, <2>4, PlainBegin
<1>4. CASE OptOut(o)
  <2>1. PICK m \in Modules :
          Start(o, [NoOp EXCEPT !.kind = "optout", !.at = "define", !.left = {m}])
    BY <1>4 DEF OptOut
  <2> DEFINE call == [NoOp EXCEPT !.kind = "optout", !.at = "define", !.left = {m}]
  <2>2. call \in Op
    BY <1>1, FirstRecords
  <2>3. call.at = "define"
    BY <1>1 DEF Op
  <2>4. Start(o, call)
    BY <2>1
  <2> HIDE DEF call
  <2> QED
    BY <2>2, <2>3, <2>4, PlainBegin
<1>5. CASE Access(o)
  <2>1. PICK want \in SUBSET project.live \ {{}}, kind \in {"set", "get"} :
          Start(o, [NoOp EXCEPT !.kind = kind, !.at = "check", !.want = want,
                                !.left = ModulesOf(want)])
    BY <1>5 DEF Access
  <2> DEFINE call == [NoOp EXCEPT !.kind = kind, !.at = "check", !.want = want,
                                  !.left = ModulesOf(want)]
  <2>2. want \in SUBSET Columns
    BY <1>1
  <2>3. call \in Op
    BY <2>2, FirstRecords
  <2>4. call.at = "check" /\ call.left = ModulesOf(want) /\ call.want = want
    BY <1>1 DEF Op
  <2>5. Start(o, call)
    BY <2>1
  <2> HIDE DEF call
  <2>6. /\ ops'[o].allowed = Modules \ optouts /\ ops'[o].at = "check"
        /\ ops'[o].left = ModulesOf(want) /\ ops'[o].want = want
        /\ \A p \in Ops \ {o} : ops'[p] = ops[p]
    BY <2>3, <2>4, <2>5, StartShape
  <2> QED
    BY <2>6 DEF Began
<1>6. CASE DeleteColumns(o)
  <2>1. PICK want \in SUBSET project.live \ {{}} :
          Start(o, [NoOp EXCEPT !.kind = "erase", !.at = "write", !.want = want])
    BY <1>6 DEF DeleteColumns
  <2> DEFINE call == [NoOp EXCEPT !.kind = "erase", !.at = "write", !.want = want]
  <2>2. want \in SUBSET Columns
    BY <1>1
  <2>3. call \in Op
    BY <2>2, FirstRecords
  <2>4. call.at = "write"
    BY <1>1 DEF Op
  <2>5. Start(o, call)
    BY <2>1
  <2> HIDE DEF call
  <2> QED
    BY <2>3, <2>4, <2>5, PlainBegin
<1>7. CASE OpenProject(o)
  <2> DEFINE call == [NoOp EXCEPT !.kind = "open", !.at = "insert"]
  <2>1. call \in Op
    BY <1>1, FirstRecords
  <2>2. call.at = "insert"
    BY <1>1 DEF Op
  <2>3. Start(o, call)
    BY <1>7 DEF OpenProject
  <2> HIDE DEF call
  <2> QED
    BY <2>1, <2>2, <2>3, PlainBegin
<1>8. CASE ShowPage(o)
  <2> DEFINE call == [NoOp EXCEPT !.kind = "page", !.at = "fetch", !.seen = Current]
  <2>1. call \in Op
    BY <1>1, FirstRecords
  <2>2. call.at = "fetch"
    BY <1>1 DEF Op
  <2>3. Start(o, call)
    BY <1>8 DEF ShowPage
  <2> HIDE DEF call
  <2> QED
    BY <2>1, <2>2, <2>3, PlainBegin
<1>9. CASE StoreToken(o)
  <2>1. PICK fields \in SUBSET {"access", "refresh"} :
          Start(o, [NoOp EXCEPT !.kind = "store", !.at = "put", !.had = token,
                                !.fields = fields, !.number = calls + 1])
    BY <1>9 DEF StoreToken
  <2> DEFINE call == [NoOp EXCEPT !.kind = "store", !.at = "put", !.had = token,
                                  !.fields = fields, !.number = calls + 1]
  <2>2. call \in Op
    BY <1>1, FirstRecords
  <2>3. call.at = "put"
    BY <1>1 DEF Op
  <2>4. Start(o, call)
    BY <2>1
  <2> HIDE DEF call
  <2> QED
    BY <1>9, <2>2, <2>3, <2>4, PlainBegin
<1> QED
  BY <1>2, <1>3, <1>4, <1>5, <1>6, <1>7, <1>8, <1>9

LEMMA StepShape ==
  ASSUME TypeOK, NEW o \in Ops, Step(o)
  PROVE  /\ Ended(o) \/ Began(o) \/ Moved(o)
         /\ \A p \in Ops \ {o} : ops'[p] = ops[p]
<1> DEFINE Goal == /\ Ended(o) \/ Began(o) \/ Moved(o)
                   /\ \A p \in Ops \ {o} : ops'[p] = ops[p]
<1>1. CASE Cut(o) \/ Answer(o) \/ DropPage(o) \/ InsertRow(o) \/ FillCache(o) \/ PutToken(o)
  BY <1>1, EndShape DEF Cut, Answer, DropPage, InsertRow, FillCache, PutToken
<1>2. CASE Update(o) \/ Register(o) \/ OptOut(o) \/ Access(o) \/ DeleteColumns(o)
            \/ OpenProject(o) \/ ShowPage(o) \/ StoreToken(o)
  BY <1>2, BeginShape
<1>3. CASE Migrate(o) \/ Save(o) \/ LogVersion(o) \/ ScanCache(o) \/ Replace(o)
            \/ NullValues(o) \/ ForgetToken(o) \/ WriteValues(o) \/ EraseValues(o)
  <2>1. /\ "save" \in Places /\ "version" \in Places /\ "scan" \in Places /\ "delete" \in Places
        /\ "ddl" \in Places /\ "forget" \in Places /\ "drop" \in Places
    BY DEF Places
  <2>2. ops[o].at # "idle"
    BY <1>3 DEF Migrate, Save, LogVersion, ScanCache, Replace, NullValues, ForgetToken,
                WriteValues, EraseValues
  <2>3. \/ End(o)
        \/ \E place \in {"version", "scan", "delete", "ddl", "forget", "drop"} : Go(o, place)
        \/ Migrate(o) /\ Go(o, "save")
    BY <1>3 DEF Migrate, Save, LogVersion, ScanCache, Replace, NullValues, ForgetToken,
                WriteValues, EraseValues
  <2> QED
    BY <2>1, <2>2, <2>3, GoShape, EndShape
<1>4. ops[o] \in Op
  BY DEF TypeOK
<1>5. ASSUME NEW r, ops' = [ops EXCEPT ![o] = r], ops[o].at # "idle",
             r.allowed = ops[o].allowed, r.at \notin {"put", "save"},
             r.at = "check" => CheckModule(o), r.at = "answered" => ReadValues(o)
      PROVE  Goal
  <2>1. ops'[o] = r /\ \A p \in Ops \ {o} : ops'[p] = ops[p]
    BY <1>5 DEF TypeOK
  <2> QED
    BY <1>5, <2>1 DEF Moved
<1>6. CASE ReadVersion(o)
  <2>1. PICK v \in versions : ops' = [ops EXCEPT ![o].at = "log", ![o].number = v]
    BY <1>6 DEF ReadVersion
  <2> DEFINE r == [ops[o] EXCEPT !.at = "log", !.number = v]
  <2>2. ops' = [ops EXCEPT ![o] = r]
    BY <2>1
  <2>3. r.at = "log" /\ r.allowed = ops[o].allowed
    BY <1>4 DEF Op
  <2>4. ops[o].at # "idle"
    BY <1>6 DEF ReadVersion
  <2> HIDE DEF r
  <2> QED
    BY <2>2, <2>3, <2>4, <1>5
<1>7. CASE ReadColumns(o)
  <2> DEFINE columns == ColumnsOf(ops[o].left) \cap project.live
             place == IF columns = {} THEN "forget" ELSE "pick"
             r == [ops[o] EXCEPT !.at = place, !.want = columns]
  <2>1. ops' = [ops EXCEPT ![o] = r]
    BY <1>7 DEF ReadColumns
  <2>2. r.at = place /\ r.allowed = ops[o].allowed
    <3> HIDE DEF columns, place
    <3> QED
      BY <1>4 DEF Op
  <2>3. place \in {"forget", "pick"}
    OBVIOUS
  <2>4. ops[o].at # "idle"
    BY <1>7 DEF ReadColumns
  <2> HIDE DEF r, place
  <2> QED
    BY <2>1, <2>2, <2>3, <2>4, <1>5
<1>8. CASE PickValues(o)
  <2> DEFINE found == ops[o].want \cap row.values
             r == [ops[o] EXCEPT !.at = "null", !.found = found, !.saved = row.saved]
  <2>1. End(o) \/ Go(o, "forget") \/ ops' = [ops EXCEPT ![o] = r]
    BY <1>8 DEF PickValues
  <2>2. r.at = "null" /\ r.allowed = ops[o].allowed
    <3> HIDE DEF found
    <3> QED
      BY <1>4 DEF Op
  <2>3. ops[o].at # "idle" /\ "forget" \in Places
    BY <1>8 DEF PickValues, Places
  <2> HIDE DEF r
  <2> QED
    BY <2>1, <2>2, <2>3, <1>5, GoShape, EndShape
<1>9. CASE CheckModule(o)
  <2>1. PICK m \in ops[o].left :
          \/ End(o)
          \/ ops' = [ops EXCEPT ![o].left = @ \ {m},
                        ![o].hidden = IF IsOptedOut(m) THEN @ \cup {m} ELSE @]
    BY <1>9 DEF CheckModule
  <2> DEFINE hidden == IF IsOptedOut(m) THEN ops[o].hidden \cup {m} ELSE ops[o].hidden
             r == [ops[o] EXCEPT !.left = ops[o].left \ {m}, !.hidden = hidden]
  <2>2. End(o) \/ ops' = [ops EXCEPT ![o] = r]
    BY <2>1
  <2>3. r.at = ops[o].at /\ r.allowed = ops[o].allowed
    <3> HIDE DEF hidden
    <3> QED
      BY <1>4 DEF Op
  <2>4. ops[o].at = "check"
    BY <1>9 DEF CheckModule
  <2> HIDE DEF r
  <2> QED
    BY <1>9, <2>2, <2>3, <2>4, <1>5, EndShape
<1>10. CASE ReadValues(o)
  <2> DEFINE found == IF ops[o].want \subseteq table
                      THEN (ops[o].want \cap row.values) \ Masked(ops[o]) ELSE {}
             r == [ops[o] EXCEPT !.at = "answered", !.found = found]
  <2>1. ops' = [ops EXCEPT ![o] = r]
    BY <1>10 DEF ReadValues
  <2>2. r.at = "answered" /\ r.allowed = ops[o].allowed
    <3> HIDE DEF found
    <3> QED
      BY <1>4 DEF Op
  <2>3. ops[o].at # "idle"
    BY <1>10 DEF ReadValues
  <2> HIDE DEF r
  <2> QED
    BY <1>10, <2>1, <2>2, <2>3, <1>5
<1>11. CASE FetchRow(o)
  <2> DEFINE r == [ops[o] EXCEPT !.at = "fill", !.found = row.values]
  <2>1. ops' = [ops EXCEPT ![o] = r]
    BY <1>11 DEF FetchRow
  <2>2. r.at = "fill" /\ r.allowed = ops[o].allowed
    BY <1>4 DEF Op
  <2>3. ops[o].at # "idle"
    BY <1>11 DEF FetchRow
  <2> HIDE DEF r
  <2> QED
    BY <2>1, <2>2, <2>3, <1>5
<1> QED
  BY <1>1, <1>2, <1>3, <1>6, <1>7, <1>8, <1>9, <1>10, <1>11 DEF Step

-----------------------------------------------------------------------------
(* The definition.                                                         *)

\* Only an update that finds the row unchanged, and a reactivation, write it.
LEMMA DefinitionStep ==
  ASSUME TypeOK, [Next]_vars
  PROVE  \/ /\ Current' = Current /\ granted' = granted /\ behind' = behind
            /\ table \subseteq table'
         \/ \E o \in Ops : Save(o) /\ IsUnchanged(ops[o].seen)
         \/ \E o \in Ops : Replace(o)
<1>1. ASSUME NEW o \in Ops, Step(o), ~Save(o), ~Replace(o)
      PROVE  project' = project /\ granted' = granted /\ behind' = behind /\ table \subseteq table'
  <2>1. CASE Cut(o) \/ Update(o) \/ Migrate(o) \/ ReadVersion(o) \/ LogVersion(o)
             \/ ScanCache(o) \/ Register(o) \/ OptOut(o) \/ ReadColumns(o) \/ PickValues(o)
             \/ NullValues(o) \/ ForgetToken(o)
    BY <2>1 DEF Cut, Update, Migrate, ReadVersion, LogVersion, ScanCache, Register, OptOut,
                ReadColumns, PickValues, NullValues, ForgetToken, data
  <2>2. CASE Access(o) \/ CheckModule(o) \/ WriteValues(o) \/ ReadValues(o) \/ Answer(o)
             \/ DeleteColumns(o) \/ EraseValues(o) \/ DropPage(o) \/ OpenProject(o)
             \/ InsertRow(o) \/ ShowPage(o) \/ FetchRow(o) \/ FillCache(o)
             \/ StoreToken(o) \/ PutToken(o)
    BY <2>2 DEF Access, CheckModule, WriteValues, ReadValues, Answer, DeleteColumns,
                EraseValues, DropPage, OpenProject, InsertRow, ShowPage, FetchRow, FillCache,
                StoreToken, PutToken, data
  <2> QED
    BY <1>1, <2>1, <2>2 DEF Step
<1>2. ASSUME NEW o \in Ops, Save(o), ~IsUnchanged(ops[o].seen)
      PROVE  project' = project /\ granted' = granted /\ behind' = behind /\ table \subseteq table'
  BY <1>2 DEF Save, data
<1>3. CASE Deactivate
  <2>1. /\ project' = [project EXCEPT !.active = FALSE] /\ granted' = granted
        /\ behind' = behind /\ table' = table
    BY <1>3 DEF Deactivate, data
  <2>2. /\ project'.live = project.live /\ project'.dead = project.dead
        /\ project'.grant = project.grant
    BY <2>1 DEF TypeOK
  <2> QED
    BY <2>1, <2>2 DEF Current
<1>4. CASE RemoveOptOut \/ DeleteToken \/ ExpireCache \/ UNCHANGED vars
  BY <1>4 DEF RemoveOptOut, DeleteToken, ExpireCache, vars, data, Current
<1> QED
  BY <1>1, <1>2, <1>3, <1>4 DEF Next, Current

\* What such an update, and a reactivation, leave.
LEMMA SaveStep ==
  ASSUME TypeOK, NEW o \in Ops, Save(o), IsUnchanged(ops[o].seen)
  PROVE  /\ project'.live = ops[o].want
         /\ project'.live \cup project'.dead = project.live \cup project.dead \cup ops[o].want
         /\ project'.grant = IF ops[o].share = "keep" THEN project.grant
                             ELSE ops[o].share = "given"
         /\ granted' = IF ops[o].share = "keep" THEN granted ELSE ops[o].share = "given"
         /\ behind' = FALSE /\ table' = table /\ ops[o].at = "save"
<1> DEFINE merged == Merged(ops[o].seen, ops[o].want, ops[o].share)
<1>1. /\ project' = [project EXCEPT !.live = merged.live, !.dead = merged.dead,
                                    !.grant = merged.grant]
      /\ granted' = IF ops[o].share = "keep" THEN granted ELSE ops[o].share = "given"
      /\ behind' = FALSE /\ table' = table /\ ops[o].at = "save"
  BY DEF Save, data
<1>2. /\ merged.live = ops[o].want
      /\ merged.dead = (ops[o].seen.live \cup ops[o].seen.dead) \ ops[o].want
      /\ merged.grant = IF ops[o].share = "keep" THEN ops[o].seen.grant
                        ELSE ops[o].share = "given"
  BY DEF Merged
<1>3. /\ ops[o].seen.live = project.live /\ ops[o].seen.dead = project.dead
      /\ ops[o].seen.grant = project.grant
  BY DEF IsUnchanged, Current
<1> HIDE DEF merged
<1>4. /\ project'.live = merged.live /\ project'.dead = merged.dead
      /\ project'.grant = merged.grant
  BY <1>1 DEF TypeOK
<1>5. project'.live \cup project'.dead = project.live \cup project.dead \cup ops[o].want
  BY <1>2, <1>3, <1>4
<1>6. project'.live = ops[o].want
  BY <1>2, <1>4
<1>7. project'.grant = IF ops[o].share = "keep" THEN project.grant
                       ELSE ops[o].share = "given"
  BY <1>2, <1>3, <1>4
<1> QED
  BY <1>1, <1>5, <1>6, <1>7

\* The grant is the one an administrator set last, however updates overlap.
THEOREM GrantIsKept == Spec => []GrantIsAsSet
<1>1. Init => GrantIsAsSet
  BY DEF Init, GrantIsAsSet
<1>2. ASSUME TypeOK, GrantIsAsSet, [Next]_vars PROVE GrantIsAsSet'
  <2>1. CASE Current' = Current /\ granted' = granted
    BY <1>2, <2>1 DEF GrantIsAsSet, Current
  <2>2. ASSUME NEW o \in Ops, Save(o), IsUnchanged(ops[o].seen) PROVE GrantIsAsSet'
    BY <1>2, <2>2, SaveStep DEF GrantIsAsSet
  <2>3. ASSUME NEW o \in Ops, Replace(o) PROVE GrantIsAsSet'
    BY <2>3 DEF Replace, GrantIsAsSet
  <2> QED
    BY <1>2, <2>1, <2>2, <2>3, DefinitionStep
<1> QED
  BY <1>1, <1>2, DataTypes, PTL DEF Spec

\* No step but a reactivation drops a declared column.
THEOREM ColumnsAreKept == Spec => NoColumnForgotten
<1>1. ASSUME TypeOK, [Next]_vars
      PROVE  [\/ project.live \cup project.dead \subseteq project'.live \cup project'.dead
              \/ \E o \in Ops : Replace(o)]_vars
  <2>1. CASE Current' = Current
    BY <2>1 DEF Current
  <2>2. ASSUME NEW o \in Ops, Save(o), IsUnchanged(ops[o].seen)
        PROVE  project.live \cup project.dead \subseteq project'.live \cup project'.dead
    BY <1>1, <2>2, SaveStep
  <2> QED
    BY <1>1, <2>1, <2>2, DefinitionStep
<1> QED
  BY <1>1, DataTypes, PTL DEF Spec, NoColumnForgotten

\* The records after a step: of the call that steps, and of the others.
LEMMA RecordsStep ==
  ASSUME TypeOK, [Next]_vars, NEW p \in Ops
  PROVE  \/ Step(p) /\ (Ended(p) \/ Began(p) \/ Moved(p))
         \/ ops'[p] = ops[p]
         \/ RemoveOptOut
<1>1. ASSUME NEW o \in Ops, Step(o), o # p PROVE ops'[p] = ops[p]
  BY <1>1, StepShape
<1>2. CASE Step(p)
  BY <1>2, StepShape
<1>3. CASE Deactivate \/ DeleteToken \/ ExpireCache \/ UNCHANGED vars
  BY <1>3 DEF Deactivate, DeleteToken, ExpireCache, vars
<1> QED
  BY <1>1, <1>2, <1>3 DEF Next

\* Withdrawing an opt-out changes what the calls may serve, nothing else.
LEMMA RemoveRecord ==
  ASSUME TypeOK, RemoveOptOut, NEW p \in Ops
  PROVE  \/ ops'[p] = ops[p] /\ ops[p].at = "idle"
         \/ \E m \in optouts : /\ optouts' = optouts \ {m}
                               /\ ops'[p] = [ops[p] EXCEPT !.allowed = @ \cup {m}]
<1>1. PICK m \in optouts :
        /\ optouts' = optouts \ {m}
        /\ ops' = [o \in Ops |-> IF ops[o].at = "idle" THEN ops[o]
                             ELSE [ops[o] EXCEPT !.allowed = @ \cup {m}]]
  BY DEF RemoveOptOut
<1> QED
  BY <1>1

\* The columns of an update that is about to be saved are in the table.
Ready == \A o \in Ops : ops[o].at = "save" => ops[o].want \subseteq table

LEMMA ReadyStep ==
  ASSUME TypeOK, Ready, [Next]_vars PROVE Ready'
<1> SUFFICES ASSUME NEW p \in Ops, ops'[p].at = "save" PROVE ops'[p].want \subseteq table'
  BY DEF Ready
<1>1. table \subseteq table'
  <2>1. ASSUME NEW o \in Ops, Save(o) PROVE table' = table
    BY <2>1 DEF Save, data
  <2>2. ASSUME NEW o \in Ops, Replace(o) PROVE table' = table
    BY <2>2 DEF Replace, data
  <2> QED
    BY <2>1, <2>2, DefinitionStep
<1>2. CASE ops'[p] = ops[p]
  BY <1>1, <1>2 DEF Ready
<1>3. CASE RemoveOptOut
  <2>1. ops[p].at = "save" /\ ops'[p].want = ops[p].want
    <3>1. CASE ops'[p] = ops[p]
      BY <3>1
    <3>2. ASSUME NEW m \in optouts, ops'[p] = [ops[p] EXCEPT !.allowed = @ \cup {m}]
          PROVE  ops[p].at = "save" /\ ops'[p].want = ops[p].want
      BY <3>2 DEF TypeOK, Op
    <3> QED
      BY <1>3, <3>1, <3>2, RemoveRecord
  <2> QED
    BY <1>1, <2>1 DEF Ready
<1>4. CASE Ended(p) \/ Began(p)
  BY <1>4 DEF Ended, Began, NoOp
<1>5. CASE Moved(p)
  <2>1. Migrate(p) /\ ops'[p].want = ops[p].want
    BY <1>5 DEF Moved
  <2>2. table' = table \cup ops[p].want \/ End(p)
    BY <2>1 DEF Migrate, TableColumns
  <2>3. ~End(p)
    BY EndShape DEF Ended, NoOp
  <2> QED
    BY <2>1, <2>2, <2>3
<1> QED
  BY <1>2, <1>3, <1>4, <1>5, RecordsStep

\* The table has every column that is declared live, but while a project
\* comes back with a new definition.
THEOREM DeclaredAreInTable == Spec => []DeclaredColumnsExist
<1>1. Init => Ready /\ DeclaredColumnsExist
  <2>1. ASSUME Init PROVE Ready
    BY <2>1 DEF Init, Ready, NoOp
  <2>2. ASSUME Init PROVE DeclaredColumnsExist
    BY <2>2 DEF Init, DeclaredColumnsExist
  <2> QED
    BY <2>1, <2>2
<1>2. ASSUME TypeOK, Ready, DeclaredColumnsExist, [Next]_vars PROVE DeclaredColumnsExist'
  <2>1. CASE Current' = Current /\ behind' = behind /\ table \subseteq table'
    BY <1>2, <2>1 DEF DeclaredColumnsExist, Current
  <2>2. ASSUME NEW o \in Ops, Save(o), IsUnchanged(ops[o].seen) PROVE DeclaredColumnsExist'
    BY <1>2, <2>2, SaveStep DEF Ready, DeclaredColumnsExist
  <2>3. ASSUME NEW o \in Ops, Replace(o) PROVE DeclaredColumnsExist'
    BY <2>3 DEF Replace, DeclaredColumnsExist
  <2> QED
    BY <1>2, <2>1, <2>2, <2>3, DefinitionStep
<1>3. TypeOK /\ Ready /\ DeclaredColumnsExist /\ [Next]_vars => (Ready /\ DeclaredColumnsExist)'
  BY <1>2, ReadyStep
<1> QED
  BY <1>1, <1>3, DataTypes, PTL DEF Spec

-----------------------------------------------------------------------------
(* What is served.                                                         *)

\* A call may serve what was not opted out at some moment of it; a column
\* it looked up is still to be checked, found opted out, or may be served.
Watched == \A o \in Ops : ops[o].at # "idle" => Modules \ optouts \subseteq ops[o].allowed
Looked ==
  \A o \in Ops : ops[o].at = "check" =>
    ModulesOf(ops[o].want) \subseteq ops[o].left \cup ops[o].hidden \cup ops[o].allowed

\* An opt-out is only withdrawn by RemoveOptOut.
LEMMA OptOutStep ==
  ASSUME [Next]_vars, ~RemoveOptOut PROVE optouts \subseteq optouts'
<1>1. ASSUME NEW o \in Ops, Step(o) PROVE optouts \subseteq optouts'
  <2>1. CASE Cut(o) \/ Update(o) \/ Migrate(o) \/ ReadVersion(o) \/ LogVersion(o)
             \/ ScanCache(o) \/ Register(o) \/ OptOut(o) \/ ReadColumns(o) \/ PickValues(o)
             \/ NullValues(o) \/ ForgetToken(o) \/ Save(o) \/ Replace(o)
    BY <2>1 DEF Cut, Update, Migrate, ReadVersion, LogVersion, ScanCache, Register, OptOut,
                ReadColumns, PickValues, NullValues, ForgetToken, Save, Replace, data
  <2>2. CASE Access(o) \/ CheckModule(o) \/ WriteValues(o) \/ ReadValues(o) \/ Answer(o)
             \/ DeleteColumns(o) \/ EraseValues(o) \/ DropPage(o) \/ OpenProject(o)
             \/ InsertRow(o) \/ ShowPage(o) \/ FetchRow(o) \/ FillCache(o)
             \/ StoreToken(o) \/ PutToken(o)
    BY <2>2 DEF Access, CheckModule, WriteValues, ReadValues, Answer, DeleteColumns,
                EraseValues, DropPage, OpenProject, InsertRow, ShowPage, FetchRow, FillCache,
                StoreToken, PutToken, data
  <2> QED
    BY <1>1, <2>1, <2>2 DEF Step
<1>2. CASE Deactivate \/ DeleteToken \/ ExpireCache \/ UNCHANGED vars
  BY <1>2 DEF Deactivate, DeleteToken, ExpireCache, vars, data
<1> QED
  BY <1>1, <1>2 DEF Next

LEMMA WatchedStep ==
  ASSUME TypeOK, Watched, [Next]_vars PROVE Watched'
<1> SUFFICES ASSUME NEW p \in Ops, ops'[p].at # "idle"
             PROVE  Modules \ optouts' \subseteq ops'[p].allowed
  BY DEF Watched
<1>1. CASE RemoveOptOut
  <2>1. CASE ops'[p] = ops[p] /\ ops[p].at = "idle"
    BY <2>1
  <2>2. ASSUME NEW m \in optouts, optouts' = optouts \ {m},
               ops'[p] = [ops[p] EXCEPT !.allowed = @ \cup {m}]
        PROVE  Modules \ optouts' \subseteq ops'[p].allowed
    <3>1. ops'[p].at = ops[p].at /\ ops'[p].allowed = ops[p].allowed \cup {m}
      BY <2>2 DEF TypeOK, Op
    <3> QED
      BY <2>2, <3>1 DEF Watched
  <2> QED
    BY <1>1, <2>1, <2>2, RemoveRecord
<1>2. CASE ~RemoveOptOut
  <2>1. optouts \subseteq optouts'
    BY <1>2, OptOutStep
  <2>2. CASE ops'[p] = ops[p]
    BY <2>1, <2>2 DEF Watched
  <2>3. CASE Ended(p)
    BY <2>3 DEF Ended, NoOp
  <2>4. CASE Began(p)
    BY <2>1, <2>4 DEF Began
  <2>5. CASE Moved(p)
    BY <2>1, <2>5 DEF Moved, Watched
  <2> QED
    BY <1>2, <2>2, <2>3, <2>4, <2>5, RecordsStep
<1> QED
  BY <1>1, <1>2

LEMMA LookedStep ==
  ASSUME TypeOK, Watched, Looked, [Next]_vars PROVE Looked'
<1> SUFFICES ASSUME NEW p \in Ops, ops'[p].at = "check"
             PROVE  ModulesOf(ops'[p].want)
                      \subseteq ops'[p].left \cup ops'[p].hidden \cup ops'[p].allowed
  BY DEF Looked, ModulesOf
<1>0. ops[p] \in Op
  BY DEF TypeOK
<1>1. CASE RemoveOptOut
  <2>1. CASE ops'[p] = ops[p] /\ ops[p].at = "idle"
    BY <2>1
  <2>2. ASSUME NEW m \in optouts, ops'[p] = [ops[p] EXCEPT !.allowed = @ \cup {m}]
        PROVE  /\ ops[p].at = "check" /\ ops'[p].want = ops[p].want
               /\ ops'[p].left = ops[p].left /\ ops'[p].hidden = ops[p].hidden
               /\ ops[p].allowed \subseteq ops'[p].allowed
    BY <1>0, <2>2 DEF Op
  <2> QED
    BY <1>1, <2>1, <2>2, RemoveRecord DEF Looked
<1>2. CASE ops'[p] = ops[p]
  BY <1>2 DEF Looked
<1>3. CASE Ended(p)
  BY <1>3 DEF Ended, NoOp
<1>4. CASE Began(p)
  BY <1>4 DEF Began
<1>5. CASE Moved(p)
  <2>1. CheckModule(p)
    BY <1>5 DEF Moved
  <2>2. PICK m \in ops[p].left :
          \/ End(p)
          \/ ~(ops[p].kind = "set" /\ m \in optouts)
             /\ ops' = [ops EXCEPT ![p].left = @ \ {m},
                        ![p].hidden = IF m \in optouts THEN @ \cup {m} ELSE @]
    BY <2>1 DEF CheckModule, IsOptedOut
  <2>3. ~End(p)
    BY EndShape DEF Ended, NoOp
  <2> DEFINE hidden == IF m \in optouts THEN ops[p].hidden \cup {m} ELSE ops[p].hidden
  <2>4. ops'[p] = [ops[p] EXCEPT !.left = ops[p].left \ {m}, !.hidden = hidden]
    BY <2>2, <2>3 DEF TypeOK
  <2>5. /\ ops'[p].want = ops[p].want /\ ops'[p].left = ops[p].left \ {m}
        /\ ops'[p].hidden = hidden /\ ops'[p].allowed = ops[p].allowed
    <3> HIDE DEF hidden
    <3> QED
      BY <1>0, <2>4 DEF Op
  <2>6. m \in hidden \cup ops[p].allowed
    <3>1. ops[p].at = "check" /\ m \in Modules
      BY <1>0, <2>1 DEF CheckModule, Op
    <3> QED
      BY <3>1 DEF Watched
  <2>7. ModulesOf(ops[p].want) \subseteq ops[p].left \cup ops[p].hidden \cup ops[p].allowed
    BY <2>1 DEF CheckModule, Looked
  <2>8. ops[p].hidden \subseteq hidden
    OBVIOUS
  <2> HIDE DEF hidden
  <2> QED
    BY <2>5, <2>6, <2>7, <2>8
<1> QED
  BY <1>1, <1>2, <1>3, <1>4, <1>5, RecordsStep

\* No value of a module that was opted out throughout the call is answered.
LEMMA ServedStep ==
  ASSUME TypeOK, Looked, ServedValueWasAllowed, [Next]_vars PROVE ServedValueWasAllowed'
<1> SUFFICES ASSUME NEW p \in Ops, ops'[p].at = "answered"
             PROVE  ModulesOf(ops'[p].found) \subseteq ops'[p].allowed
  BY DEF ServedValueWasAllowed, ModulesOf
<1>0. ops[p] \in Op
  BY DEF TypeOK
<1>1. CASE RemoveOptOut
  <2>1. CASE ops'[p] = ops[p] /\ ops[p].at = "idle"
    BY <2>1
  <2>2. ASSUME NEW m \in optouts, ops'[p] = [ops[p] EXCEPT !.allowed = @ \cup {m}]
        PROVE  /\ ops[p].at = "answered" /\ ops'[p].found = ops[p].found
               /\ ops[p].allowed \subseteq ops'[p].allowed
    BY <1>0, <2>2 DEF Op
  <2> QED
    BY <1>1, <2>1, <2>2, RemoveRecord DEF ServedValueWasAllowed
<1>2. CASE ops'[p] = ops[p]
  BY <1>2 DEF ServedValueWasAllowed
<1>3. CASE Ended(p)
  BY <1>3 DEF Ended, NoOp
<1>4. CASE Began(p)
  BY <1>4 DEF Began
<1>5. CASE Moved(p)
  <2>1. ReadValues(p)
    BY <1>5 DEF Moved
  <2> DEFINE found == IF ops[p].want \subseteq table
                      THEN (ops[p].want \cap row.values) \ Masked(ops[p]) ELSE {}
  <2>2. ops'[p] = [ops[p] EXCEPT !.at = "answered", !.found = found]
    <3>1. ops' = [ops EXCEPT ![p].at = "answered", ![p].found = found]
      BY <2>1 DEF ReadValues
    <3> HIDE DEF found
    <3> QED
      BY <3>1 DEF TypeOK
  <2>3. ops'[p].found = found /\ ops'[p].allowed = ops[p].allowed
    <3> HIDE DEF found
    <3> QED
      BY <1>0, <2>2 DEF Op
  <2>4. ModulesOf(ops[p].want) \subseteq ops[p].hidden \cup ops[p].allowed
    BY <2>1 DEF ReadValues, Looked
  <2>5. found \subseteq Columns \ ColumnsOf(ops[p].hidden) /\ found \subseteq ops[p].want
    BY <1>0 DEF Masked, Op
  <2> HIDE DEF found
  <2>6. ModulesOf(found) \subseteq ops[p].allowed
    BY <2>4, <2>5 DEF ModulesOf, ColumnsOf
  <2> QED
    BY <2>3, <2>6
<1> QED
  BY <1>1, <1>2, <1>3, <1>4, <1>5, RecordsStep

THEOREM ServedIsAllowed == Spec => []ServedValueWasAllowed
<1>1. Init => Watched /\ Looked /\ ServedValueWasAllowed
  BY DEF Init, Watched, Looked, ServedValueWasAllowed, NoOp
<1>2. /\ TypeOK /\ Watched /\ Looked /\ ServedValueWasAllowed /\ [Next]_vars
      => (Watched /\ Looked /\ ServedValueWasAllowed)'
  BY WatchedStep, LookedStep, ServedStep
<1> QED
  BY <1>1, <1>2, DataTypes, PTL DEF Spec

-----------------------------------------------------------------------------
(* The deposited token.                                                    *)

\* Every number of a row, of a deletion or of a call was given to one call.
Fields(t) == {t.id, t.access, t.refresh}
Known == \A n \in Fields(token) \cup retired : n <= calls
EmptyIsNone == token.id = 0 => token = NoToken

\* The number of a call that stores is nowhere yet, and the fields it read
\* were not deleted as long as the row has the id it read.
Pending(o) ==
  /\ 0 < ops[o].number /\ ops[o].number <= calls
  /\ ops[o].number \notin retired \cup Fields(token)
  /\ \A n \in Fields(ops[o].had) : n <= calls
  /\ ops[o].had.id = 0 => ops[o].had = NoToken
  /\ ops[o].had.id = token.id => Forgotten(ops[o].had) \cap retired = {}
Apart(o, p) ==
  /\ ops[o].number \notin Fields(ops[p].had)
  /\ o # p => ops[o].number # ops[p].number
TokenInv ==
  /\ Known /\ EmptyIsNone /\ DeletedTokenStaysDeleted
  /\ \A o \in Ops : ops[o].at = "put" => Pending(o)
  /\ \A o, p \in Ops : ops[o].at = "put" /\ ops[p].at = "put" => Apart(o, p)

LEMMA CallsStep ==
  ASSUME TypeOK, [Next]_vars PROVE calls' = calls \/ calls' = calls + 1
<1>1. ASSUME NEW o \in Ops, Step(o) PROVE calls' = calls \/ calls' = calls + 1
  <2>1. CASE Cut(o) \/ Update(o) \/ Migrate(o) \/ ReadVersion(o) \/ LogVersion(o)
             \/ ScanCache(o) \/ Register(o) \/ OptOut(o) \/ ReadColumns(o) \/ PickValues(o)
             \/ NullValues(o) \/ ForgetToken(o) \/ Save(o) \/ Replace(o)
    BY <2>1 DEF Cut, Update, Migrate, ReadVersion, LogVersion, ScanCache, Register, OptOut,
                ReadColumns, PickValues, NullValues, ForgetToken, Save, Replace, Start, Go, End
  <2>2. CASE Access(o) \/ CheckModule(o) \/ WriteValues(o) \/ ReadValues(o) \/ Answer(o)
             \/ DeleteColumns(o) \/ EraseValues(o) \/ DropPage(o) \/ OpenProject(o)
             \/ InsertRow(o) \/ ShowPage(o) \/ FetchRow(o) \/ FillCache(o)
             \/ StoreToken(o) \/ PutToken(o)
    BY <2>2 DEF Access, CheckModule, WriteValues, ReadValues, Answer, DeleteColumns,
                EraseValues, DropPage, OpenProject, InsertRow, ShowPage, FetchRow, FillCache,
                StoreToken, PutToken, Start, Go, End
  <2> QED
    BY <1>1, <2>1, <2>2 DEF Step
<1>2. CASE Deactivate \/ RemoveOptOut \/ DeleteToken \/ ExpireCache \/ UNCHANGED vars
  BY <1>2 DEF Deactivate, RemoveOptOut, DeleteToken, ExpireCache, vars
<1> QED
  BY <1>1, <1>2 DEF Next

\* Three kinds of steps change the token or what was deleted.
LEMMA QuietToken ==
  ASSUME TypeOK, [Next]_vars, ~DeleteToken,
         \A o \in Ops : ~PutToken(o) /\ ~ForgetToken(o)
  PROVE  token' = token /\ retired' = retired
<1>1. ASSUME NEW o \in Ops, Step(o) PROVE token' = token /\ retired' = retired
  <2>1. CASE Cut(o) \/ Update(o) \/ Migrate(o) \/ ReadVersion(o) \/ LogVersion(o)
             \/ ScanCache(o) \/ Register(o) \/ OptOut(o) \/ ReadColumns(o) \/ PickValues(o)
             \/ NullValues(o) \/ Save(o) \/ Replace(o)
    BY <2>1 DEF Cut, Update, Migrate, ReadVersion, LogVersion, ScanCache, Register, OptOut,
                ReadColumns, PickValues, NullValues, Save, Replace, data
  <2>2. CASE Access(o) \/ CheckModule(o) \/ WriteValues(o) \/ ReadValues(o) \/ Answer(o)
             \/ DeleteColumns(o) \/ EraseValues(o) \/ DropPage(o) \/ OpenProject(o)
             \/ InsertRow(o) \/ ShowPage(o) \/ FetchRow(o) \/ FillCache(o)
             \/ StoreToken(o)
    BY <2>2 DEF Access, CheckModule, WriteValues, ReadValues, Answer, DeleteColumns,
                EraseValues, DropPage, OpenProject, InsertRow, ShowPage, FetchRow, FillCache,
                StoreToken, data
  <2> QED
    BY <1>1, <2>1, <2>2 DEF Step
<1>2. CASE Deactivate \/ RemoveOptOut \/ ExpireCache \/ UNCHANGED vars
  BY <1>2 DEF Deactivate, RemoveOptOut, ExpireCache, vars, data
<1> QED
  BY <1>1, <1>2 DEF Next

\* What a call that stores has read stays as it is until it writes.
LEMMA PendingRecord ==
  ASSUME TypeOK, [Next]_vars, NEW p \in Ops, ops'[p].at = "put"
  PROVE  \/ StoreToken(p)
         \/ /\ ops[p].at = "put" /\ ops'[p].number = ops[p].number
            /\ ops'[p].had = ops[p].had
<1>1. CASE RemoveOptOut
  <2>1. CASE ops'[p] = ops[p]
    BY <2>1
  <2>2. ASSUME NEW m \in optouts, ops'[p] = [ops[p] EXCEPT !.allowed = @ \cup {m}]
        PROVE  /\ ops[p].at = "put" /\ ops'[p].number = ops[p].number
               /\ ops'[p].had = ops[p].had
    BY <2>2 DEF TypeOK, Op
  <2> QED
    BY <1>1, <2>1, <2>2, RemoveRecord
<1>2. CASE ops'[p] = ops[p]
  BY <1>2
<1>3. CASE Ended(p) \/ Moved(p)
  BY <1>3 DEF Ended, Moved, NoOp
<1>4. CASE Began(p)
  BY <1>4 DEF Began
<1> QED
  BY <1>1, <1>2, <1>3, <1>4, RecordsStep

LEMMA StoredRecord ==
  ASSUME TypeOK, NEW o \in Ops, StoreToken(o)
  PROVE  /\ ops'[o].number = calls + 1 /\ ops'[o].had = token /\ calls' = calls + 1
         /\ token' = token /\ retired' = retired
         /\ \A p \in Ops \ {o} : ops'[p] = ops[p]
<1>1. PICK fields \in SUBSET {"access", "refresh"} :
        Start(o, [NoOp EXCEPT !.kind = "store", !.at = "put", !.had = token,
                              !.fields = fields, !.number = calls + 1])
  BY DEF StoreToken
<1>2. NoOp \in Op
  BY NoOpType
<1> HIDE DEF NoOp
<1> DEFINE call == [NoOp EXCEPT !.kind = "store", !.at = "put", !.had = token,
                                !.fields = fields, !.number = calls + 1]
           r == [call EXCEPT !.allowed = Modules \ optouts]
<1>3. ops' = [ops EXCEPT ![o] = r] /\ calls' = calls + 1
  BY <1>1 DEF Start
<1>4. r.number = calls + 1 /\ r.had = token
  BY <1>2 DEF Op
<1> HIDE DEF r
<1>5. ops'[o] = r /\ \A p \in Ops \ {o} : ops'[p] = ops[p]
  BY <1>3 DEF TypeOK
<1> QED
  BY <1>3, <1>4, <1>5 DEF StoreToken, data

LEMMA FilledFields ==
  ASSUME NEW call \in Op, call.number > 0
  PROVE  /\ Fields(Filled(call)) \subseteq {call.number} \cup Fields(call.had)
         /\ Forgotten(Filled(call)) \subseteq {call.number} \cup Forgotten(call.had)
         /\ Filled(call).id = IF call.had = NoToken THEN call.number ELSE call.had.id
BY DEF Filled, Fields, Forgotten, Op, Token

\* The calls that store, in a step in which none begins to.
Kept ==
  \A p \in Ops : ops'[p].at = "put" => /\ ops[p].at = "put" /\ ops'[p].number = ops[p].number
                                       /\ ops'[p].had = ops[p].had

LEMMA KeptApart ==
  ASSUME TokenInv, Kept, NEW o \in Ops, NEW p \in Ops, ops'[o].at = "put", ops'[p].at = "put"
  PROVE  Apart(o, p)'
BY DEF TokenInv, Kept, Apart, Fields

\* Nothing of the token changes.
LEMMA TokenIdle ==
  ASSUME TypeOK, TokenInv, Kept, token' = token, retired' = retired, calls' \in Nat,
         calls <= calls'
  PROVE  TokenInv'
<1>1. Known'
  BY DEF TokenInv, Known, Fields, TypeOK, Token
<1>2. EmptyIsNone' /\ DeletedTokenStaysDeleted'
  BY DEF TokenInv, EmptyIsNone, DeletedTokenStaysDeleted, Forgotten
<1>3. ASSUME NEW o \in Ops, ops'[o].at = "put" PROVE Pending(o)'
  <2>1. Pending(o) /\ ops'[o].number = ops[o].number /\ ops'[o].had = ops[o].had
    BY <1>3 DEF TokenInv, Kept
  <2>2. ops[o].number \in Nat /\ ops[o].had \in Token
    BY DEF TypeOK, Op
  <2> QED
    BY <2>1, <2>2 DEF Pending, Fields, Forgotten, TypeOK, Token
<1> QED
  BY <1>1, <1>2, <1>3, KeptApart DEF TokenInv

\* A call begins to store: what it reads is the token.
LEMMA TokenStored ==
  ASSUME TypeOK, TokenInv, [Next]_vars, NEW o \in Ops, StoreToken(o) PROVE TokenInv'
<1>1. /\ ops'[o].number = calls + 1 /\ ops'[o].had = token /\ calls' = calls + 1
      /\ token' = token /\ retired' = retired
      /\ \A p \in Ops \ {o} : ops'[p] = ops[p]
  BY StoredRecord
<1>2. calls \in Nat /\ token \in Token /\ retired \subseteq Nat
  BY DEF TypeOK
<1>3. \A n \in Fields(token) \cup retired : n \in Nat /\ n <= calls
  BY <1>2 DEF TokenInv, Known, Fields, Token
<1>4. Known'
  BY <1>1, <1>2, <1>3 DEF Known, Fields
<1>5. EmptyIsNone' /\ DeletedTokenStaysDeleted'
  BY <1>1 DEF TokenInv, EmptyIsNone, DeletedTokenStaysDeleted, Forgotten
<1>6. Pending(o)'
  <2>1. /\ 0 < ops'[o].number /\ ops'[o].number <= calls'
        /\ ops'[o].number \notin retired' \cup Fields(token')
        /\ \A n \in Fields(ops'[o].had) : n <= calls'
    BY <1>1, <1>2, <1>3 DEF Fields
  <2>2. /\ ops'[o].had.id = 0 => ops'[o].had = NoToken
        /\ Forgotten(ops'[o].had) \cap retired' = {}
    BY <1>1, <1>5 DEF TokenInv, EmptyIsNone, DeletedTokenStaysDeleted, Forgotten
  <2> QED
    BY <2>1, <2>2 DEF Pending, Fields, Forgotten
<1>7. ASSUME NEW p \in Ops \ {o}, ops'[p].at = "put"
      PROVE  Pending(p)' /\ Apart(o, p)' /\ Apart(p, o)'
  <2>1. Pending(p) /\ ops'[p] = ops[p] /\ ops[p].at = "put"
    BY <1>1, <1>7 DEF TokenInv
  <2>2. ops[p].number \in Nat /\ ops[p].had \in Token
    BY DEF TypeOK, Op
  <2>3. \A n \in Fields(ops[p].had) : n \in Nat /\ n <= calls
    BY <2>1, <2>2 DEF Pending, Fields, Token
  <2>4. Pending(p)'
    BY <1>1, <1>2, <2>1, <2>2, <2>3 DEF Pending, Fields, Forgotten
  <2>5. Apart(o, p)'
    BY <1>1, <1>2, <2>1, <2>2, <2>3 DEF Apart, Pending, Fields
  <2>6. Apart(p, o)'
    BY <1>1, <1>2, <2>1, <2>2 DEF Apart, Pending, Fields
  <2> QED
    BY <2>4, <2>5, <2>6
<1>8. Apart(o, o)'
  BY <1>1, <1>2, <1>3 DEF Apart, Fields
<1>9. ASSUME NEW p \in Ops \ {o}, NEW q \in Ops \ {o}, ops'[p].at = "put", ops'[q].at = "put"
      PROVE  Apart(p, q)'
  BY <1>1, <1>9 DEF TokenInv, Apart, Fields
<1> QED
  BY <1>4, <1>5, <1>6, <1>7, <1>8, <1>9 DEF TokenInv

\* The call writes what it kept, if the row has the id it read.
LEMMA TokenPut ==
  ASSUME TypeOK, TokenInv, Kept, NEW o \in Ops, PutToken(o), SameRow(ops[o]) PROVE TokenInv'
<1>1. /\ token' = Filled(ops[o]) /\ retired' = retired /\ calls' = calls
      /\ ops[o].at = "put" /\ token.id = ops[o].had.id
  BY DEF PutToken, SameRow, End
<1>2. ops'[o].at = "idle"
  BY DEF PutToken, End, NoOp, TypeOK
<1>3. Pending(o) /\ Apart(o, o) /\ ops[o] \in Op
  BY <1>1 DEF TokenInv, TypeOK
<1>4. /\ Fields(Filled(ops[o])) \subseteq {ops[o].number} \cup Fields(ops[o].had)
      /\ Forgotten(Filled(ops[o])) \subseteq {ops[o].number} \cup Forgotten(ops[o].had)
      /\ Filled(ops[o]).id = IF ops[o].had = NoToken THEN ops[o].number ELSE ops[o].had.id
  BY <1>3, FilledFields DEF Pending, Op
<1>5. Known'
  BY <1>1, <1>3, <1>4 DEF TokenInv, Known, Pending, Fields
<1>6. EmptyIsNone'
  BY <1>1, <1>3, <1>4 DEF EmptyIsNone, Pending, Op
<1>7. Forgotten(token') \cap retired' = {}
  BY <1>1, <1>3, <1>4 DEF Pending
<1>8. ASSUME NEW p \in Ops, ops'[p].at = "put" PROVE Pending(p)'
  <2>1. /\ Pending(p) /\ ops[p].at = "put" /\ p # o
        /\ ops'[p].number = ops[p].number /\ ops'[p].had = ops[p].had
    BY <1>2, <1>8 DEF TokenInv, Kept
  <2>2. Apart(p, o) /\ Apart(o, p)
    BY <1>1, <2>1 DEF TokenInv
  <2>3. ops[p].number \notin Fields(Filled(ops[o]))
    BY <1>4, <2>1, <2>2 DEF Apart
  <2>4. ops[p].had.id = Filled(ops[o]).id => ops[p].had.id = token.id
    BY <1>1, <1>4, <2>2 DEF Apart, Fields
  <2> QED
    BY <1>1, <2>1, <2>3, <2>4 DEF Pending, Fields, Forgotten
<1> QED
  BY <1>5, <1>6, <1>7, <1>8, KeptApart DEF TokenInv, DeletedTokenStaysDeleted, Forgotten

\* The token is deleted: what it held counts as deleted from now on.
LEMMA TokenDeleted ==
  ASSUME TypeOK, TokenInv, Kept, token' = NoToken,
         retired' = retired \cup Forgotten(token), calls' = calls
  PROVE  TokenInv'
<1>1. Forgotten(token) \subseteq Fields(token) /\ 0 \in Nat
  BY DEF Forgotten, Fields
<1>2. Known'
  <2>1. \A n \in Fields(token) \cup retired : n <= calls
    BY DEF TokenInv, Known
  <2>2. Fields(token') = {0} /\ 0 <= calls
    BY DEF Fields, NoToken, TypeOK
  <2> QED
    BY <1>1, <2>1, <2>2 DEF Known, Fields
<1>3. EmptyIsNone' /\ Forgotten(token') \cap retired' = {}
  BY DEF EmptyIsNone, Forgotten, NoToken
<1>4. ASSUME NEW p \in Ops, ops'[p].at = "put" PROVE Pending(p)'
  <2>1. /\ Pending(p) /\ ops'[p].number = ops[p].number /\ ops'[p].had = ops[p].had
    BY <1>4 DEF TokenInv, Kept
  <2>2. Fields(token') = {0} /\ token'.id = 0 /\ ops[p].number # 0
    BY <2>1 DEF Fields, NoToken, Pending
  <2>3. Forgotten(NoToken) = {}
    BY DEF Forgotten, NoToken
  <2>4. ops'[p].had.id = token'.id => Forgotten(ops'[p].had) \cap retired' = {}
    BY <2>1, <2>2, <2>3 DEF Pending
  <2>5. ops[p].number \notin retired' \cup Fields(token')
    BY <1>1, <2>1, <2>2 DEF Pending
  <2> QED
    BY <2>1, <2>4, <2>5 DEF Pending, Fields, Forgotten
<1> QED
  BY <1>2, <1>3, <1>4, KeptApart DEF TokenInv, DeletedTokenStaysDeleted, Forgotten

LEMMA TokenStep ==
  ASSUME TypeOK, TokenInv, [Next]_vars PROVE TokenInv'
<1>1. calls \in Nat /\ calls' \in Nat /\ calls <= calls'
  BY CallsStep DEF TypeOK
<1>2. CASE \E o \in Ops : StoreToken(o)
  BY <1>2, TokenStored
<1>3. CASE \A o \in Ops : ~StoreToken(o)
  <2>1. Kept
    BY <1>3, PendingRecord DEF Kept
  <2>2. ASSUME NEW o \in Ops, PutToken(o) PROVE TokenInv'
    <3>1. CASE SameRow(ops[o])
      BY <2>1, <2>2, <3>1, TokenPut
    <3>2. CASE ~SameRow(ops[o])
      BY <1>1, <2>1, <2>2, <3>2, TokenIdle DEF PutToken
    <3> QED
      BY <3>1, <3>2
  <2>3. ASSUME NEW o \in Ops, ForgetToken(o) PROVE TokenInv'
    BY <2>1, <2>3, TokenDeleted DEF ForgetToken, Go
  <2>4. CASE DeleteToken
    BY <2>1, <2>4, TokenDeleted DEF DeleteToken
  <2>5. CASE ~DeleteToken /\ \A o \in Ops : ~PutToken(o) /\ ~ForgetToken(o)
    BY <1>1, <2>1, <2>5, QuietToken, TokenIdle
  <2> QED
    BY <2>2, <2>3, <2>4, <2>5
<1> QED
  BY <1>2, <1>3

\* No deleted field of the token is stored again.
THEOREM DeletedStaysDeleted == Spec => []DeletedTokenStaysDeleted
<1>1. Init => TokenInv
  <2> SUFFICES ASSUME Init PROVE TokenInv
    OBVIOUS
  <2>1. Known /\ EmptyIsNone /\ DeletedTokenStaysDeleted
    BY DEF Init, Known, EmptyIsNone, DeletedTokenStaysDeleted, Fields, NoToken
  <2>2. \A o \in Ops : ops[o].at = "idle"
    BY DEF Init, NoOp
  <2> QED
    BY <2>1, <2>2 DEF TokenInv
<1>2. TokenInv => DeletedTokenStaysDeleted
  BY DEF TokenInv
<1> QED
  BY <1>1, <1>2, TokenStep, DataTypes, PTL DEF Spec
=============================================================================
