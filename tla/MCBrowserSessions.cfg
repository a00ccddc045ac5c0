SPECIFICATION Spec
CONSTANTS
    Users = {u1}
    NoRow = NoRow
    Gone = Gone
    Roots = {root}
    OneBrowser = b1
    Browsers = {b1}
    Tabs = {t1, t2}
    browserOf <- SharedJar
    Tokens = {s1}
    Unused = Unused
    None = None
    SessionTTL = 2
    JwtTTL = 1
    Latency = 1
    Faults = TRUE
    Horizon = 4
SYMMETRY Symmetry
INVARIANTS
    TypeOK
    AuthorityBounded
    SessionBounded
