SPECIFICATION Spec
CONSTANTS
    managed = managed
    stale = stale
    own = own
    other = other
    alice = alice
    bob = bob
    Rule <- MCRule
    Section <- MCSection
    MarkerRules <- MCMarkerRules
    ManagedRules <- MCManagedRules
    AdminRule = AdminRule
    RoleKeys <- MCRoleKeys
    PrefixedKeys <- MCPrefixedKeys
    NoSection = NoSection
    User <- MCUser
    Anonymous = Anonymous
    RolesOf <- MCRolesOf
    Contents <- MCContents
PROPERTIES
    WriteBackSettles
    WriteBackKeepsAdminPart
\* A configuration that needs no write-back is final.
CHECK_DEADLOCK FALSE
