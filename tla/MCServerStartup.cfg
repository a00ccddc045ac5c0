SPECIFICATION Spec
CONSTANTS
    Replicas = {r1, r2}
    Releases <- MCReleases
    Installed = 2
    None = None
    Orphan = Orphan
INVARIANTS
    TypeOK
    ServingMeansReady
    OneMigrator
PROPERTIES
    StartsEnd
    ServesAgain
CHECK_DEADLOCK FALSE
