SPECIFICATION ServiceSpec
CONSTANTS
    Users = {u1}
    Emails = {boss}
    BootstrapEmails = {boss}
    Identities = {google}
    BlankIdentities = {}
    RoleLists <- BothRoles
    Roots = {}
    Handlers = {h1, t1, t2}
    NoRow = NoRow
    Gone = Gone
    None = None
    Unused = Unused
    OneBrowser = b1
    Browsers = {b1}
    Tabs = {t1, t2}
    browserOf <- SharedJar
    Tokens = {s1}
    SessionTTL = 1
    JwtTTL = 1
    Latency = 0
    Faults = TRUE
    Pats = {}
    Calls = {}
    PatTTL = 1
    TouchTimeout = 0
    Horizon = 1
INVARIANT
    SessionsOwned
PROPERTIES
    ImplementsSessions
