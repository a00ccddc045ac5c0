SPECIFICATION Spec
CONSTANTS
    Users = {1, 2}
    NoRow = NoRow
    Gone = Gone
    AlternateId <- MCAlternateId
    Roots = {16}
    Half = 8
    DefaultLimit = 1
    Limits = {0, 2}
    Nobody = Nobody
INVARIANTS
    TypeOK
    DataOnlyToEntitled
    AnswersTruthful
    NobodySkipped
PROPERTIES
    StaysWithinAccounts
CHECK_DEADLOCK FALSE
