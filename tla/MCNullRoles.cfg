SPECIFICATION Spec
CONSTANTS
    Users = {u1, u2}
    Emails = {boss, joe}
    BootstrapEmails = {boss}
    Identities = {google, github, local}
    BlankIdentities = {local}
    RoleLists <- AllRoles
    Roots = {}
    Handlers = {h1}
    NoRow = NoRow
    Gone = Gone
    None = None
SYMMETRY Symmetry
PROPERTY
    ListedLoginGrants
