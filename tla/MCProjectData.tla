--------------------------- MODULE MCProjectData ---------------------------
(* Two columns, one of them in a module, and two calls under way at once.  *)
(* A behaviour starts from a project with a grant and from a row that is   *)
(* absent or full, and only calls of one concern overlap: the definition   *)
(* and the row share nothing but the columns, which do not move a row.     *)
EXTENDS ProjectData, TLC

CONSTANTS answer, note, presence
MCModuleOf == [c \in {answer, note} |-> IF c = answer THEN presence ELSE NoModule]
Symmetric == Permutations(Ops)

Concerns == {{"update", "register"}, {"update", "page"}, {"optout", "store"},
             {"optout", "set", "get", "erase", "open"}, {"optout", "set", "page"}}
OneConcern == \E concern \in Concerns :
  \A o \in Ops : ops[o].kind \in concern \cup {"none"}

MCInit == Init /\ project.grant /\ row.values = (IF row.there THEN table ELSE {})
MCSpec == MCInit /\ [][Next]_vars
============================================================================
