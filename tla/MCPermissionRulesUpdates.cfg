SPECIFICATION FairUpdateSpec
CONSTANTS
    managed = managed
    stale = stale
    own = own
    alice = alice
    admin = admin
    Rule <- MCRule
    Section <- MCSection
    MarkerRules <- MCMarkerRules
    ManagedRules <- MCManagedRules
    AdminRule = AdminRule
    RoleKeys <- MCRoleKeys
    PrefixedKeys <- MCPrefixedKeys
    NoSection = NoSection
    User <- MCUser
    Anonymous = Anonymous
    RolesOf <- MCRolesOf
    Invalid = Invalid
    Absent = Absent
    Undefined = Undefined
    Now = Now
    StartupWriter = w0
    FetchRetries = 3
    WriteAttempts = 3
    MaxAbilities = 2
    Writer = {w0, w1}
    InitTries = 2
    MaxEditRev = 2
    MaxFaults = 3
    FaultKinds = {"feed", "fetch", "load"}
    EditData <- MCEditData
INVARIANTS
    CaughtUpMeansCurrent
    ResyncPending
PROPERTIES
    WriteBackLosesNothing
    StartupEnds
    UpdateTakesEffect
    DefaultsRestored
CHECK_DEADLOCK FALSE
