-------------------------- MODULE PermissionConfig --------------------------
(***************************************************************************)
(* The contents of the permission document Config:Permissions and the pure  *)
(* functions the backend applies to it: normalising legacy section keys,    *)
(* merging the managed default rules and collecting the rules of a user.    *)
(*                                                                         *)
(* A rule is an opaque value; what matters about one is whether it carries  *)
(* the system-default marker.  A configuration maps every section key to    *)
(* its rules, or to NoSection where the document has no such key.           *)
(***************************************************************************)
EXTENDS Naturals, Sequences, SequencesExt, Subsequence

CONSTANTS
    Rule,           \* all rules
    Section,        \* the sequences of rules a section can hold
    MarkerRules,    \* the rules whose reason carries SYSTEM_DEFAULT_MARKER
    ManagedRules,   \* MANAGED_DEFAULT_RULES of this version of the backend
    AdminRule,      \* { action: 'manage', subject: 'all' }
    RoleKeys,       \* the other names a configuration can have a section for
    PrefixedKeys,   \* the names that start with RESERVED_ROLE_PREFIX, "_"
    NoSection,      \* the value of a section the document does not have
    User,           \* all users
    Anonymous,      \* the user of a request without credentials
    RolesOf         \* RolesOf[u]: the roles of the user, in order

DefaultKey == "_default"
PublicKey == "_public"
AdminRole == "admin_app"

LegacyDefaultKey == "default"
LegacyPublicKey == "public"

\* LEGACY_SECTION_KEYS, from the current spelling to the legacy one.
LegacyKeys == {LegacyDefaultKey, LegacyPublicKey}
LegacyKeyOf(key) == IF key = DefaultKey THEN LegacyDefaultKey ELSE LegacyPublicKey

ReservedKeys == {DefaultKey, PublicKey} \cup LegacyKeys    \* RESERVED_RULE_CONFIG_KEYS

Keys == ReservedKeys \cup RoleKeys
Config == [Keys -> Section \cup {NoSection}]

ASSUME RuleAssumption ==
    /\ Section \subseteq Seq(Rule)
    /\ <<>> \in Section
    /\ <<AdminRule>> \in Section
    /\ MarkerRules \subseteq Rule
    /\ ManagedRules \in Seq(MarkerRules)
    /\ AdminRole \in RoleKeys
    /\ RoleKeys \cap ReservedKeys = {}
    /\ PrefixedKeys \subseteq Keys
    /\ {DefaultKey, PublicKey} \subseteq PrefixedKeys
    /\ PrefixedKeys \cap (LegacyKeys \cup {AdminRole}) = {}
    /\ NoSection \notin Section

ASSUME UserAssumption ==
    /\ Anonymous \in User
    /\ RolesOf \in [User -> Seq(Keys)]

OrEmpty(section) == IF section = NoSection THEN <<>> ELSE section

-----------------------------------------------------------------------------
\* RulesService.bootstrapPermissions: only admin_app users may do anything.
bootstrapPermissions ==
    [k \in Keys |-> IF k = AdminRole THEN <<AdminRule>> ELSE NoSection]

\* RulesService.normalizeSectionKeys: rules under a legacy key move to the
\* current key unless that has rules of its own; the legacy key goes away.
normalizeSectionKeys(config) ==
    [k \in Keys |->
        IF k \in LegacyKeys THEN NoSection
        ELSE IF k \in {DefaultKey, PublicKey} /\ config[k] = NoSection
        THEN config[LegacyKeyOf(k)]
        ELSE config[k]]

\* mergeManagedDefaults: the managed rules come first, the rules an
\* administrator wrote follow, other rules with the marker are dropped.
adminRules(section) == Only(section, Rule \ MarkerRules)
mergeManagedDefaults(section) == ManagedRules \o adminRules(section)

\* Sections are closed under the merge (all finite sequences of rules are).
ASSUME MergeAssumption ==
    \A section \in Section : mergeManagedDefaults(section) \in Section

\* Mutant: a document with both spellings keeps the legacy rules.
currentDefaultLegacyFirst(config) ==
    OrEmpty(IF config[LegacyDefaultKey] # NoSection
            THEN config[LegacyDefaultKey] ELSE config[DefaultKey])

\* RulesService.writeManagedDefaults, the part that computes what to write.
currentDefault(config) ==
    OrEmpty(IF config[DefaultKey] # NoSection
            THEN config[DefaultKey] ELSE config[LegacyDefaultKey])

\* Mutant: the legacy spelling stays in the document.
withDefaultsAndLegacy(config) ==
    [config EXCEPT ![DefaultKey] = mergeManagedDefaults(currentDefault(config))]

withManagedDefaults(config) ==
    [config EXCEPT ![DefaultKey] = mergeManagedDefaults(currentDefault(config)),
                   ![LegacyDefaultKey] = NoSection]

needsManagedDefaults(config) ==
    \/ mergeManagedDefaults(currentDefault(config)) # currentDefault(config)
    \/ config[LegacyDefaultKey] # NoSection

\* RulesService.injectUserVariablesIntoRules: the rules as they read for one
\* user.  What is substituted is abstract; that it depends on the user is not.
injectUserVariablesIntoRules(rules, user) ==
    [i \in DOMAIN rules |-> <<rules[i], user>>]

\* RulesService.getRulesForUser for a loaded configuration: neither a reserved
\* key nor any name that starts with "_" counts as a role.
sectionRoles(config, user) ==
    Only(RolesOf[user],
         {r \in Keys \ (PrefixedKeys \cup ReservedKeys) : config[r] # NoSection})

getRulesForUser(config, user) ==
    IF user = Anonymous
    THEN OrEmpty(config[PublicKey])
    ELSE LET roles == sectionRoles(config, user)
         IN  injectUserVariablesIntoRules(
                OrEmpty(config[DefaultKey])
                    \o FlattenSeq([i \in DOMAIN roles |-> config[roles[i]]]),
                user)
=============================================================================
