SPECIFICATION Spec
CONSTANTS
    Tabs = {t1, t2}
    States = {s1, s2}
    Codes = {c1}
    Providers = {"google", "github", "gitlab"}
    OAuthConfigs = {"google", "github"}
    ConfiguredURL <- MCConfiguredURL
    Redirects <- MCRedirects
    Asked <- MCAsked
    Allowlists <- MCAllowlists
    Answers <- MCAnswers
    NoRedirect <- Nowhere
    NoTicket = NoTicket
    NoCode = NoCode
    NoState = NoState
    NoProvider = NoProvider
    Emails = {"jane", "Jane", "joe"}
    NoEmail = ""
    SubjectIds = {"n1"}
    NoId = "0"
    CaseFold <- MCCaseFold
    Unreadable = Unreadable
    TTL = 0
    Horizon = 1
    MaxRestarts = 1
SYMMETRY MCSymmetry
INVARIANTS
    TypeOK
    CodeGoesHome
    ReplayStopsHere
    ExchangeMatches
    ProfileHonest

    
CHECK_DEADLOCK FALSE
