SPECIFICATION FairSpec
CONSTANTS
    States = {s1, s2}
    Providers = {google, github}
    Redirects = {none, app}
    NoRedirect = none
    NoTicket = NoTicket
    NoEntry = NoEntry
    TTL = 2
    Period = 2
    Horizon = 6
    MaxRestarts = 1
INVARIANTS
    OneUse
    StoreMirrorsLedger
    GarbageBounded
PROPERTIES
    ImplementsTickets
    AbandonedReclaimed
