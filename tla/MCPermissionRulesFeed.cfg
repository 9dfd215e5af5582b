SPECIFICATION FairUpdateSpec
CONSTANTS
    managed = managed
    stale = stale
    own = own
    alice = alice
    admin = admin
    Rule <- MCRule
    Section <- MCSection
    MarkerRules <- MCMarkerRules
    ManagedRules <- MCManagedRules
    AdminRule = AdminRule
    RoleKeys <- MCRoleKeys
    PrefixedKeys <- MCPrefixedKeys
    NoSection = NoSection
    User <- MCUser
    Anonymous = Anonymous
    RolesOf <- MCRolesOf
    Invalid = Invalid
    Absent = Absent
    Undefined = Undefined
    Now = Now
    StartupWriter = w0
    FetchRetries = 1
    WriteAttempts = 1
    MaxAbilities = 2
    Writer = {w0, w1}
    InitTries = 1
    MaxEditRev = 1
    MaxFaults = 1
    FaultKinds = {"feed"}
    EditData <- MCBootEditData
PROPERTIES
    FeedSwapsInRealRules
CHECK_DEADLOCK FALSE
