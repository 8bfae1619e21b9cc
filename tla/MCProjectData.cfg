\* Two calls at once, two in all that keep something between two steps, and
\* any number of the others.
CONSTANTS
    answer = answer
    note = note
    presence = presence
    Columns = {answer, note}
    Modules = {presence}
    NoModule = NoModule
    ModuleOf <- MCModuleOf
    Ops = {o1, o2}
    MaxCalls = 3
SPECIFICATION MCSpec
CONSTRAINT OneConcern
SYMMETRY Symmetric
INVARIANTS
    ServedValueWasAllowed
    GrantIsAsSet
    DeclaredColumnsExist
    DeletedTokenStaysDeleted
PROPERTIES
    NoColumnForgotten
CHECK_DEADLOCK FALSE
