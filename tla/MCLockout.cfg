SPECIFICATION Spec
CONSTANTS
    Users = {1, 2}
    NoRow = NoRow
    Gone = Gone
    AlternateId <- MCAlternateId
    Roots = {16}
    Half = 8
    DefaultLimit = 2
    Limits = {0, 1}
    Nobody = Nobody
PROPERTIES OwnAdminKept
CHECK_DEADLOCK FALSE
