SPECIFICATION FairSpec
CONSTANTS
    Users = {u1}
    NoRow = NoRow
    Gone = Gone
    Roots = {root}
    OneBrowser = b1
    Browsers = {b1}
    Tabs = {t1}
    browserOf <- SharedJar
    Tokens = {s1, s2}
    Unused = Unused
    None = None
    SessionTTL = 2
    JwtTTL = 1
    Latency = 1
    Faults = FALSE
    Horizon = 4
INVARIANT
    LogoutRevokes
PROPERTY
    RefusedSettles
