SPECIFICATION ServiceSpec
CONSTANTS
    Users = {u1}
    Emails = {boss}
    BootstrapEmails = {boss}
    Identities = {google, local}
    BlankIdentities = {local}
    RoleLists <- BothOrNone
    Roots = {root}
    Handlers = {h1}
    NoRow = NoRow
    Gone = Gone
    None = None
    Unused = Unused
    OneBrowser = b1
    Browsers = {b1}
    Tabs = {}
    browserOf <- SharedJar
    Tokens = {}
    SessionTTL = 1
    JwtTTL = 1
    Latency = 0
    Faults = TRUE
    Pats = {p1}
    Calls = {c1}
    PatTTL = 1
    TouchTimeout = 0
    Horizon = 1
INVARIANT
    TokensOwned
PROPERTIES
    ImplementsTokens
