SPECIFICATION Spec
CONSTANTS
    managed = managed
    stale = stale
    own = own
    alice = alice
    admin = admin
    Rule <- MCRule
    Section <- MCSection
    MarkerRules <- MCMarkerRules
    ManagedRules <- MCManagedRules
    AdminRule = AdminRule
    RoleKeys <- MCRoleKeys
    PrefixedKeys <- MCPrefixedKeys
    NoSection = NoSection
    User <- MCUser
    Anonymous = Anonymous
    RolesOf <- MCRolesOf
    Invalid = Invalid
    Absent = Absent
    Undefined = Undefined
    Now = Now
    StartupWriter = w0
    FetchRetries = 1
    WriteAttempts = 2
    MaxAbilities = 2
    Writer = {w0, w1}
    InitTries = 2
    MaxEditRev = 2
    MaxFaults = 2
    FaultKinds = {"feed", "fetch", "fetchRejected", "load", "write", "clear", "crash"}
    EditData <- MCEditData
INVARIANTS
    TypeOK
    AbilitiesCurrent
    ServesConfigured
CHECK_DEADLOCK FALSE
