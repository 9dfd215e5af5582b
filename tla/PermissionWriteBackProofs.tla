--------------------- MODULE PermissionWriteBackProofs ---------------------
(***************************************************************************)
(* Proofs about the functions on configurations, for any rules, sections,    *)
(* managed defaults, roles and users.                                       *)
(***************************************************************************)
EXTENDS PermissionWriteBack, SubsequenceProofs

-----------------------------------------------------------------------------
(***************************************************************************)
(* Merging the managed defaults                                            *)
(***************************************************************************)
\* What is left of a section is a sequence of rules without the marker, and
\* of a merged section the same is left as before the merge.
LEMMA MergeKeepsAdminRules ==
    ASSUME NEW section \in Section
    PROVE  adminRules(mergeManagedDefaults(section)) = adminRules(section)
<1> DEFINE S == Rule \ MarkerRules
           kept == Only(section, S)
<1>1. section \in Seq(Rule) /\ ManagedRules \in Seq(MarkerRules)
  BY RuleAssumption
<1>2. ManagedRules \in Seq(Rule) /\ \A i \in 1 .. Len(ManagedRules) : ManagedRules[i] \notin S
  <2>1. \A i \in 1 .. Len(ManagedRules) : ManagedRules[i] \in MarkerRules
    BY <1>1
  <2>2. \A i \in 1 .. Len(ManagedRules) : ManagedRules[i] \in Rule
    BY <2>1, RuleAssumption
  <2> QED
    BY <1>1, <2>1, <2>2
<1>3. kept \in Seq(Rule)
  BY <1>1, OnlySelects
<1>4. \A i \in 1 .. Len(kept) : kept[i] \in S
  BY <1>1, OnlyInside
<1> HIDE DEF kept, S
<1>5. Only(ManagedRules \o kept, S) = kept
  BY <1>2, <1>3, <1>4, OnlyKeepsRest
<1> QED
  BY <1>5 DEF adminRules, mergeManagedDefaults, kept, S

\* A merge after a merge changes nothing.
LEMMA MergeIdempotent ==
    ASSUME NEW section \in Section
    PROVE  mergeManagedDefaults(mergeManagedDefaults(section))
               = mergeManagedDefaults(section)
  BY MergeKeepsAdminRules DEF mergeManagedDefaults

\* The default section in effect is a section.
LEMMA CurrentDefault ==
    ASSUME NEW c \in Config
    PROVE  currentDefault(c) \in Section
<1>1. c[DefaultKey] \in Section \cup {NoSection} /\ c[LegacyDefaultKey] \in Section \cup {NoSection}
  BY DEF Config, Keys, ReservedKeys, LegacyKeys
<1> QED
  BY <1>1, RuleAssumption DEF currentDefault, OrEmpty

\* What a write-back writes: the merged default section under its current key.
LEMMA Written ==
    ASSUME NEW c \in Config
    PROVE  LET d == withManagedDefaults(c)
           IN  /\ d \in Config
               /\ d[DefaultKey] = mergeManagedDefaults(currentDefault(c))
               /\ d[DefaultKey] \in Section /\ d[DefaultKey] # NoSection
               /\ d[LegacyDefaultKey] = NoSection
               /\ \A k \in Keys \ {DefaultKey, LegacyDefaultKey} : d[k] = c[k]
<1> DEFINE m == mergeManagedDefaults(currentDefault(c))
<1>1. m \in Section /\ NoSection \notin Section
  BY CurrentDefault, MergeAssumption, RuleAssumption
<1>2. DefaultKey \in Keys /\ LegacyDefaultKey \in Keys /\ DefaultKey # LegacyDefaultKey
  BY DEF Keys, ReservedKeys, LegacyKeys, DefaultKey, LegacyDefaultKey
<1> HIDE DEF m
<1>3. withManagedDefaults(c) = [c EXCEPT ![DefaultKey] = m, ![LegacyDefaultKey] = NoSection]
  BY DEF withManagedDefaults, m
<1> QED
  BY <1>1, <1>2, <1>3 DEF Config, m

\* The document always holds a configuration.
LEMMA ConfigAlways == Spec => [](config \in Config)
<1>1. Init => config \in Config
  BY ContentsAssumption DEF Init
<1>2. config \in Config /\ [WriteBack]_config => (config \in Config)'
  BY Written DEF WriteBack
<1> QED
  BY <1>1, <1>2, PTL DEF Spec

-----------------------------------------------------------------------------
(***************************************************************************)
(* Theorems                                                                *)
(***************************************************************************)
\* writeManagedDefaults never leads to a second write: whatever sections,
\* spellings and outdated managed rules the document had, what was written needs
\* no write-back.
THEOREM SettlesAtOnce == Spec => WriteBackSettles
<1>1. config \in Config /\ [WriteBack]_config => [~ needsManagedDefaults(config')]_config
  <2>1. SUFFICES ASSUME config \in Config, WriteBack
                 PROVE  ~ needsManagedDefaults(config')
    OBVIOUS
  <2> DEFINE d == withManagedDefaults(config)
             m == mergeManagedDefaults(currentDefault(config))
  <2>2. config' = d
    BY <2>1 DEF WriteBack
  <2>3. d[DefaultKey] = m /\ d[DefaultKey] # NoSection /\ d[LegacyDefaultKey] = NoSection
    BY <2>1, Written
  <2>4. mergeManagedDefaults(m) = m
    BY <2>1, CurrentDefault, MergeIdempotent
  <2> HIDE DEF d, m
  <2>5. currentDefault(d) = m
    BY <2>3 DEF currentDefault, OrEmpty
  <2> QED
    BY <2>2, <2>3, <2>4, <2>5 DEF needsManagedDefaults
<1> QED
  BY <1>1, ConfigAlways, PTL DEF Spec, WriteBackSettles

\* writeManagedDefaults changes nothing of what administrators wrote, in any
\* section and under either spelling of the keys.
THEOREM AdminPartKept == Spec => WriteBackKeepsAdminPart
<1>1. config \in Config /\ [WriteBack]_config => [AdminPart(config') = AdminPart(config)]_config
  <2>1. SUFFICES ASSUME config \in Config, WriteBack
                 PROVE  AdminPart(config') = AdminPart(config)
    OBVIOUS
  <2> DEFINE c == config
             d == withManagedDefaults(c)
             n == normalizeSectionKeys(c)
             o == normalizeSectionKeys(d)
  <2>2. config' = d
    BY <2>1 DEF WriteBack
  <2>3. /\ d[DefaultKey] = mergeManagedDefaults(currentDefault(c))
        /\ d[DefaultKey] # NoSection
        /\ \A k \in Keys \ {DefaultKey, LegacyDefaultKey} : d[k] = c[k]
    BY <2>1, Written
  <2> HIDE DEF d
  <2>4. \A k \in Keys \ {DefaultKey} : o[k] = n[k]
    <3>1. ASSUME NEW k \in Keys \ {DefaultKey}, k \notin LegacyKeys
          PROVE  /\ d[k] = c[k]
                 /\ k = PublicKey => d[LegacyKeyOf(k)] = c[LegacyKeyOf(k)]
      BY <2>3, <3>1 DEF Keys, ReservedKeys, LegacyKeys, LegacyKeyOf, DefaultKey,
                        PublicKey, LegacyDefaultKey, LegacyPublicKey
    <3> QED
      BY <3>1 DEF normalizeSectionKeys
  <2>5. /\ DefaultKey \in Keys /\ DefaultKey \notin LegacyKeys
        /\ LegacyKeyOf(DefaultKey) = LegacyDefaultKey
    BY DEF Keys, ReservedKeys, LegacyKeys, LegacyKeyOf, DefaultKey, LegacyDefaultKey,
           LegacyPublicKey
  <2>6. OrEmpty(n[DefaultKey]) = currentDefault(c)
    BY <2>5 DEF normalizeSectionKeys, currentDefault
  <2>7. OrEmpty(o[DefaultKey]) = mergeManagedDefaults(currentDefault(c))
    BY <2>3, <2>5 DEF normalizeSectionKeys, OrEmpty
  <2>8. adminRules(OrEmpty(o[DefaultKey])) = adminRules(OrEmpty(n[DefaultKey]))
    BY <2>1, <2>6, <2>7, CurrentDefault, MergeKeepsAdminRules
  <2>9. DOMAIN n = Keys /\ DOMAIN o = Keys
    BY DEF normalizeSectionKeys
  <2>10. AdminPart(c) = [k \in Keys |-> IF k = DefaultKey
                           THEN adminRules(OrEmpty(n[DefaultKey])) ELSE n[k]]
    <3> HIDE DEF n
    <3> QED
      BY <2>9 DEF AdminPart, n
  <2>11. AdminPart(d) = [k \in Keys |-> IF k = DefaultKey
                           THEN adminRules(OrEmpty(o[DefaultKey])) ELSE o[k]]
    <3> HIDE DEF o
    <3> QED
      BY <2>9 DEF AdminPart, o
  <2> HIDE DEF n, o, c
  <2>12. AdminPart(d) = AdminPart(c)
    BY <2>4, <2>8, <2>10, <2>11
  <2> QED
    BY <2>2, <2>12 DEF c
<1> QED
  BY <1>1, ConfigAlways, PTL DEF Spec, WriteBackKeepsAdminPart
=============================================================================
