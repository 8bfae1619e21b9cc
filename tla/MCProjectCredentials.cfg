CONSTANTS
    Processes = {p1, p2}
    Sockets = {s1}
    Launches = {l1, l2}
    Calls = {c1, c2}
    Rotations = {r1, r2}
    First = First
    Nobody = Nobody
SPECIFICATION Spec
INVARIANTS
    SupersededSecretsAreCutOff
    NoCommandOfAnOlderGeneration
PROPERTIES
    OlderSocketsEnd
