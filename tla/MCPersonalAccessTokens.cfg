SPECIFICATION Spec
CONSTANTS
    Users = {u1}
    NoRow = NoRow
    Gone = Gone
    Roots = {root}
    Pats = {p1}
    Calls = {c1, c2}
    Unused = Unused
    None = None
    PatTTL = 1
    TouchTimeout = 1
    Horizon = 3
SYMMETRY Symmetry
INVARIANTS
    TypeOK
    VerdictFresh
    UsedMeansUsed
PROPERTIES
    RevocationFinal
