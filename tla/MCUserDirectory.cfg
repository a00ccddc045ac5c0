SPECIFICATION Spec
CONSTANTS
    Users = {u1, u2}
    Emails = {boss, joe}
    BootstrapEmails = {boss}
    Identities = {google, github, local}
    BlankIdentities = {local}
    RoleLists <- PlainRoles
    Roots = {}
    Handlers = {h1, h2}
    NoRow = NoRow
    Gone = Gone
    None = None
SYMMETRY Symmetry
INVARIANTS
    TypeOK
    KeysUnique
PROPERTIES
    LinkIsEarned
    AdmittedOnOwnRow
    ListedLoginGrants
    ImplementsAccounts
