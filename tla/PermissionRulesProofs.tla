----------------------- MODULE PermissionRulesProofs -----------------------
(***************************************************************************)
(* Proofs about PermissionRules for every set of rules, users, contents and *)
(* write-back runs, any number of edits and any mixture of faults.          *)
(***************************************************************************)
EXTENDS PermissionRules, SequenceTheorems, TLAPS

-----------------------------------------------------------------------------
(***************************************************************************)
(* The functions on configurations yield configurations.                    *)
(***************************************************************************)
\* Normalising legacy section keys yields a configuration.
LEMMA NormalizeType ==
    ASSUME NEW c \in Config PROVE normalizeSectionKeys(c) \in Config
  BY DEF normalizeSectionKeys, Config, Keys, ReservedKeys, LegacyKeys,
         LegacyKeyOf, LegacyDefaultKey, LegacyPublicKey, DefaultKey, PublicKey

\* The bootstrap rules are a configuration that has no legacy keys.
LEMMA BootstrapType ==
    /\ bootstrapPermissions \in Config
    /\ normalizeSectionKeys(bootstrapPermissions) = bootstrapPermissions
<1>1. bootstrapPermissions \in Config
  BY RuleAssumption DEF bootstrapPermissions, Config
<1>2. AdminRole \notin ReservedKeys
  BY DEF AdminRole, ReservedKeys, LegacyKeys, LegacyDefaultKey, LegacyPublicKey,
         DefaultKey, PublicKey
<1>3. ASSUME NEW k \in Keys
      PROVE  normalizeSectionKeys(bootstrapPermissions)[k] = bootstrapPermissions[k]
  BY <1>2 DEF bootstrapPermissions, normalizeSectionKeys, Keys, ReservedKeys,
         LegacyKeys, LegacyKeyOf, LegacyDefaultKey, LegacyPublicKey, DefaultKey,
         PublicKey
<1>4. normalizeSectionKeys(bootstrapPermissions) \in Config
  BY <1>1, NormalizeType
<1> QED
  BY <1>1, <1>3, <1>4 DEF Config

\* The merged contents a write-back stores are a configuration.
LEMMA WithDefaultsType ==
    ASSUME NEW c \in Config PROVE withManagedDefaults(c) \in Config
<1>1. DefaultKey \in Keys /\ LegacyDefaultKey \in Keys
  BY DEF Keys, ReservedKeys, LegacyKeys
<1>2. currentDefault(c) \in Section
  BY <1>1, RuleAssumption DEF currentDefault, OrEmpty, Config
<1>3. mergeManagedDefaults(currentDefault(c)) \in Section
  BY <1>2, MergeAssumption
<1> QED
  BY <1>1, <1>3 DEF withManagedDefaults, Config

\* A run of the write-back starts with a valid configuration, or not at all.
LEMMA StartRunType ==
    ASSUME NEW d \in Doc, NEW n \in Nat
    PROVE  /\ startRun(d, n) \in WriterState
           /\ startRun(d, n).pc = "put" => startRun(d, n).doc.data \in Config
  BY DEF startRun, IdleWriter, NoDoc, Doc, Data, WriterState, isValidRulesConfig

-----------------------------------------------------------------------------
(***************************************************************************)
(* Type correctness                                                        *)
(***************************************************************************)
\* The records that stand for "nothing is going on" are well typed.
LEMMA IdleTypes ==
    /\ NoDoc \in Doc
    /\ IdleFetch \in FetchState
    /\ SentFeed \in FeedState
    /\ IdleWriter \in WriterState /\ IdleWriter.pc = "idle"
    /\ InitStartup \in StartupState
    /\ DOMAIN NoAbilities \subseteq User
  BY DEF NoDoc, Doc, Data, IdleFetch, SentFeed, IdleWriter, NoAbilities,
         FetchState, FeedState, WriterState, StartupState, InitStartup

\* A run that is about to write holds a valid configuration.
WritersHoldConfigs ==
    \A w \in Writer : writer[w].pc = "put" => writer[w].doc.data \in Config

Typed == TypeOK /\ WritersHoldConfigs

\* The initial state is well typed.
LEMMA TypedInit == Init => Typed
<1> SUFFICES ASSUME Init PROVE Typed
  OBVIOUS
<1>1. doc \in Doc
  BY DataAssumption DEF Init, Doc, Data
<1>2. writer \in [Writer -> WriterState] /\ WritersHoldConfigs
  BY IdleTypes DEF Init, WritersHoldConfigs
<1> QED
  BY <1>1, <1>2, IdleTypes DEF Init, Typed, TypeOK

\* Changing one run keeps the runs typed.
LEMMA WriterUpdate ==
    ASSUME Typed, NEW w \in Writer, NEW r \in WriterState,
           r.pc = "put" => r.doc.data \in Config,
           writer' = [writer EXCEPT ![w] = r]
    PROVE  writer' \in [Writer -> WriterState] /\ WritersHoldConfigs'
  BY DEF Typed, TypeOK, WritersHoldConfigs

\* Every step keeps the types.
LEMMA TypedStep == Typed /\ [Next]_vars => Typed'
<1> SUFFICES ASSUME Typed, [Next]_vars PROVE Typed'
  OBVIOUS
<1> USE DEF feedVars, rulesVars
<1>0. TypeOK
  BY DEF Typed
<1>w. UNCHANGED writer =>
        writer' \in [Writer -> WriterState] /\ WritersHoldConfigs'
  BY DEF Typed, TypeOK, WritersHoldConfigs
<1>1. CASE AdminEdit
  <2>1. doc' \in Doc
    BY <1>0, <1>1, DataAssumption DEF AdminEdit, Doc, Data, TypeOK
  <2> QED
    BY <1>0, <1>1, <1>w, <2>1 DEF AdminEdit, Typed, TypeOK
<1>2. CASE FeedStep
  <2>1. CASE FeedOpen
    <3>1. feed' \in FeedState
      BY <1>0, <2>1 DEF FeedOpen, FeedState, Doc, TypeOK
    <3> QED
      BY <1>0, <1>w, <2>1, <3>1 DEF FeedOpen, Typed, TypeOK
  <2>2. CASE FeedAnswer
    <3>1. feed' \in FeedState
      BY <1>0, <2>2 DEF FeedAnswer, EventOf, FeedState, Doc, TypeOK
    <3> QED
      BY <1>0, <1>w, <2>2, <3>1 DEF FeedAnswer, Typed, TypeOK
  <2>3. CASE FeedReceive
    <3>1. /\ lastSeq' \in Nat \cup {Now} /\ anchor' \in Nat \cup {Now}
          /\ queue' \in Seq({"changed", "deleted"})
      BY <1>0, <2>3 DEF FeedReceive, FeedState, TypeOK
    <3> QED
      BY <1>0, <1>w, <2>3, <3>1, IdleTypes DEF FeedReceive, Typed, TypeOK
  <2> QED
    BY <1>2, <2>1, <2>2, <2>3 DEF FeedStep
<1>3. CASE FeedFail
  BY <1>0, <1>3, <1>w, IdleTypes DEF FeedFail, Fault, Typed, TypeOK
<1>4. CASE FetchStep
  <2>1. CASE applyPermissionDeletion
    <3>1. queue' \in Seq({"changed", "deleted"})
      BY <1>0, <2>1 DEF applyPermissionDeletion, TypeOK
    <3>2. /\ permission' \in Config \cup {Undefined}
          /\ DOMAIN abilities' \subseteq User /\ clearTimers' \in Nat
      BY <1>0, <2>1, BootstrapType, IdleTypes
         DEF applyPermissionDeletion, setPermission, onPermissionsChanged, TypeOK
    <3> QED
      BY <1>0, <1>w, <2>1, <3>1, <3>2 DEF applyPermissionDeletion, Typed, TypeOK
  <2>2. CASE FetchStart
    <3>1. queue' \in Seq({"changed", "deleted"})
      BY <1>0, <2>2 DEF FetchStart, TypeOK
    <3>2. fetch' \in FetchState
      BY <2>2, IdleTypes DEF FetchStart, FetchState
    <3> QED
      BY <1>0, <1>w, <2>2, <3>1, <3>2 DEF FetchStart, Typed, TypeOK
  <2>3. CASE FetchRead
    <3>1. fetch' \in FetchState
      BY <1>0, <2>3 DEF FetchRead, FetchState, TypeOK
    <3> QED
      BY <1>0, <1>w, <2>3, <3>1 DEF FetchRead, Typed, TypeOK
  <2>4. CASE FetchNotFound
    BY <1>0, <1>w, <2>4, IdleTypes DEF FetchNotFound, Typed, TypeOK
  <2>5. CASE applyUpdatedPermission
    <3>0. fetch.doc \in Doc
      BY <1>0 DEF TypeOK, FetchState
    <3>1. CASE isValidRulesConfig(fetch.doc.data)
      <4>1. permission' \in Config
        BY <2>5, <3>1, NormalizeType
           DEF applyUpdatedPermission, setPermission, isValidRulesConfig
      <4>2. DOMAIN abilities' \subseteq User /\ clearTimers' \in Nat
        BY <1>0, <2>5, <3>1, IdleTypes
           DEF applyUpdatedPermission, onPermissionsChanged, TypeOK
      <4>3. PICK w \in Writer :
                writer' = [writer EXCEPT ![w] = startRun(fetch.doc, 0)]
        BY <2>5, <3>1 DEF applyUpdatedPermission
      <4>4. writer' \in [Writer -> WriterState] /\ WritersHoldConfigs'
        BY <3>0, <4>3, StartRunType, WriterUpdate
      <4> QED
        BY <1>0, <2>5, <4>1, <4>2, <4>4, IdleTypes
           DEF applyUpdatedPermission, Typed, TypeOK
    <3>2. CASE ~ isValidRulesConfig(fetch.doc.data)
      BY <1>0, <1>w, <2>5, <3>2, IdleTypes
         DEF applyUpdatedPermission, Typed, TypeOK
    <3> QED
      BY <3>1, <3>2
  <2> QED
    BY <1>4, <2>1, <2>2, <2>3, <2>4, <2>5 DEF FetchStep
<1>5. CASE FetchFail
  <2>1. fetch.tries + 1 \in Nat
    BY <1>0 DEF FetchState, TypeOK
  <2>2. [IdleFetch EXCEPT !.pc = "get", !.tries = fetch.tries + 1] \in FetchState
    BY <2>1, IdleTypes DEF IdleFetch, FetchState
  <2>3. fetch' \in FetchState
    BY <1>5, <2>2, IdleTypes DEF FetchFail
  <2> QED
    BY <1>0, <1>5, <1>w, <2>3 DEF FetchFail, Fault, Typed, TypeOK
<1>6. CASE FetchRejected
  BY <1>0, <1>6, <1>w, IdleTypes DEF FetchRejected, Fault, Typed, TypeOK
<1>7. CASE LoadStep
  <2>0. startup.doc \in Doc /\ startup.tries \in Nat
    BY <1>0 DEF TypeOK, StartupState
  <2>1. CASE LoadRead
    <3>0. startup \in StartupState /\ doc \in Doc /\ startup.tries + 1 \in Nat
      BY <1>0, <2>0 DEF TypeOK
    <3>1. startup' \in StartupState
      BY <2>1, <3>0 DEF LoadRead, StartupState
    <3> QED
      BY <1>0, <1>w, <2>1, <3>1 DEF LoadRead, Typed, TypeOK
  <2>2. CASE LoadValid
    <3>1. writer' \in [Writer -> WriterState] /\ WritersHoldConfigs'
      BY <2>0, <2>2, StartRunType, WriterUpdate, BoundAssumption DEF LoadValid
    <3>2. permission' \in Config \cup {Undefined}
      BY <1>0, <2>2, NormalizeType
         DEF LoadValid, setPermission, isValidRulesConfig, TypeOK
    <3>3. startup' \in StartupState
      BY <1>0, <2>2, IdleTypes DEF LoadValid, StartupState, TypeOK
    <3> QED
      BY <1>0, <2>2, <3>1, <3>2, <3>3 DEF LoadValid, Typed, TypeOK
  <2>3. CASE LoadDone
    <3>1. startup' \in StartupState
      BY <1>0, <2>3 DEF LoadDone, StartupState, TypeOK
    <3> QED
      BY <1>0, <1>w, <2>3, <3>1 DEF LoadDone, Ready, Typed, TypeOK
  <2>4. CASE enterBootstrapMode
    <3>1. permission' \in Config \cup {Undefined}
      BY <1>0, <2>4, BootstrapType DEF enterBootstrapMode, setPermission, TypeOK
    <3>2. startup' \in StartupState
      BY <1>0, <2>4, IdleTypes DEF enterBootstrapMode, StartupState, TypeOK
    <3> QED
      BY <1>0, <1>w, <2>4, <3>1, <3>2 DEF enterBootstrapMode, Ready, Typed, TypeOK
  <2>5. CASE LoadInvalid
    <3>1. startup' \in StartupState
      BY <1>0, <2>5, IdleTypes DEF LoadInvalid, LoadFailed, StartupState, TypeOK
    <3> QED
      BY <1>0, <1>w, <2>5, <3>1 DEF LoadInvalid, LoadFailed, Ready, Typed, TypeOK
  <2>6. CASE waitForNextRetry
    <3>1. startup' \in StartupState
      BY <1>0, <2>6 DEF waitForNextRetry, StartupState, TypeOK
    <3> QED
      BY <1>0, <1>w, <2>6, <3>1 DEF waitForNextRetry, Ready, Typed, TypeOK
  <2> QED
    BY <1>7, <2>1, <2>2, <2>3, <2>4, <2>5, <2>6 DEF LoadStep
<1>8. CASE LoadFail
  <2>1. startup' \in StartupState
    BY <1>0, <1>8, IdleTypes DEF LoadFail, LoadFailed, StartupState, TypeOK
  <2>2. faults' \in Nat
    BY <1>0, <1>8 DEF LoadFail, Fault, TypeOK
  <2>3. synced' \in Config \cup {Undefined}
    BY <1>0, <1>8 DEF LoadFail, LoadFailed, Ready, TypeOK
  <2>4. UNCHANGED <<doc, feedVars, queue, fetch, rulesVars, writer, lastUpdate>>
    BY <1>8 DEF LoadFail, LoadFailed
  <2> QED
    BY <1>0, <1>w, <2>1, <2>2, <2>3, <2>4 DEF Typed, TypeOK
<1>9. ASSUME NEW w \in Writer, WriterPut(w) PROVE Typed'
  <2>0. writer[w] \in WriterState
    BY <1>0 DEF TypeOK
  <2>1. CASE writer[w].doc.rev = doc.rev
    <3>1. doc' \in Doc
      BY <1>0, <1>9, <2>1, WithDefaultsType
         DEF WriterPut, Doc, Data, Typed, TypeOK, WritersHoldConfigs
    <3>2. writer' \in [Writer -> WriterState] /\ WritersHoldConfigs'
      BY <1>9, <2>1, IdleTypes, WriterUpdate DEF WriterPut
    <3> QED
      BY <1>0, <1>9, <2>1, <3>1, <3>2 DEF WriterPut, Typed, TypeOK
  <2>2. CASE writer[w].doc.rev # doc.rev
    <3> DEFINE r == IF writer[w].attempt + 1 < WriteAttempts
                    THEN [IdleWriter EXCEPT !.pc = "get",
                                            !.attempt = writer[w].attempt]
                    ELSE IdleWriter
    <3>1. r \in WriterState /\ r.pc # "put"
      BY <2>0, IdleTypes DEF WriterState
    <3>2. writer' = [writer EXCEPT ![w] = r]
      BY <1>9, <2>2 DEF WriterPut
    <3> HIDE DEF r
    <3>3. writer' \in [Writer -> WriterState] /\ WritersHoldConfigs'
      BY <3>1, <3>2, WriterUpdate
    <3> QED
      BY <1>0, <1>9, <2>2, <3>3 DEF WriterPut, Typed, TypeOK
  <2> QED
    BY <2>1, <2>2
<1>10. ASSUME NEW w \in Writer, WriterRefetch(w) PROVE Typed'
  <2>0. writer[w].attempt + 1 \in Nat /\ doc \in Doc
    BY <1>0 DEF TypeOK, WriterState
  <2>1. writer' \in [Writer -> WriterState] /\ WritersHoldConfigs'
    BY <1>10, <2>0, StartRunType, WriterUpdate DEF WriterRefetch
  <2> QED
    BY <1>0, <1>10, <2>1 DEF WriterRefetch, Typed, TypeOK
<1>11. ASSUME NEW w \in Writer, WriterFail(w) PROVE Typed'
  <2>1. writer' \in [Writer -> WriterState] /\ WritersHoldConfigs'
    BY <1>11, IdleTypes, WriterUpdate DEF WriterFail
  <2> QED
    BY <1>0, <1>11, <2>1 DEF WriterFail, Fault, Typed, TypeOK
<1>12. ASSUME NEW u \in User, getAbilityFor(u) PROVE Typed'
  BY <1>0, <1>12, <1>w DEF getAbilityFor, Typed, TypeOK
<1>13. CASE ClearLocal
  BY <1>0, <1>13, <1>w DEF ClearLocal, Typed, TypeOK
<1>14. CASE ClearLocalFail
  BY <1>0, <1>14, <1>w DEF ClearLocalFail, Fault, Typed, TypeOK
<1>15. CASE Restart
  <2>1. writer' \in [Writer -> WriterState] /\ WritersHoldConfigs'
    BY <1>15, IdleTypes DEF Restart, WritersHoldConfigs
  <2> QED
    BY <1>0, <1>15, <2>1, IdleTypes DEF Restart, Fault, Typed, TypeOK
<1>16. CASE UNCHANGED vars
  BY <1>0, <1>16, <1>w DEF vars, Typed, TypeOK
<1> QED
  BY <1>1, <1>2, <1>3, <1>4, <1>5, <1>6, <1>7, <1>8, <1>9, <1>10, <1>11, <1>12,
     <1>13, <1>14, <1>15, <1>16 DEF Next, UpdateNext, WriterStep

\* Types hold throughout, the copies held by write-back runs included.
LEMMA TypedAlways == Spec => []Typed
  BY TypedInit, TypedStep, PTL DEF Spec

\* Every state variable keeps its type, whatever the constants are: documents
\* that are read, merged and written back stay documents.
THEOREM TypeCorrect == Spec => []TypeOK
<1>1. Typed => TypeOK
  BY DEF Typed
<1> QED
  BY <1>1, TypedAlways, PTL
-----------------------------------------------------------------------------
(***************************************************************************)
(* The ability cache                                                       *)
(***************************************************************************)
\* AbilitiesCurrent is not inductive by itself: the first configuration is set
\* without telling the cache, so the cache has to be empty until then, which in
\* turn needs that no request is served before a configuration is loaded.
AbilitiesInv ==
    /\ AbilitiesCurrent
    /\ ServesConfigured
    /\ permission = Undefined => DOMAIN abilities = {}
    /\ startup.pc = "defaults" => permission # Undefined

\* No configuration is the undefined one.
LEMMA ConfigDefined ==
    /\ \A c \in Config : c # Undefined /\ normalizeSectionKeys(c) # Undefined
    /\ bootstrapPermissions # Undefined
  BY NormalizeType, BootstrapType, DataAssumption

\* Replacing the configuration through onPermissionsChanged keeps the cache
\* current.
LEMMA ChangeKeepsCurrent ==
    ASSUME AbilitiesInv, NEW c, c # Undefined,
           permission' = c, onPermissionsChanged(c)
    PROVE  /\ AbilitiesCurrent'
           /\ permission' # Undefined
<1>1. CASE permission = Undefined
  BY <1>1 DEF AbilitiesInv, AbilitiesCurrent, onPermissionsChanged
<1>2. CASE permission = c
  BY <1>2 DEF AbilitiesInv, AbilitiesCurrent, onPermissionsChanged, rulesFor
<1>3. CASE permission # Undefined /\ permission # c
  BY <1>3 DEF AbilitiesCurrent, onPermissionsChanged, NoAbilities
<1> QED
  BY <1>1, <1>2, <1>3

\* Steps that touch neither the configuration, the cache nor the startup.
LEMMA AbilitiesFrame ==
    ASSUME AbilitiesInv, UNCHANGED <<permission, abilities, startup>>
    PROVE  AbilitiesInv'
  BY DEF AbilitiesInv, AbilitiesCurrent, ServesConfigured, rulesFor

\* Every step keeps the invariant.
LEMMA AbilitiesStep == Typed /\ AbilitiesInv /\ [Next]_vars => AbilitiesInv'
<1> SUFFICES ASSUME Typed, AbilitiesInv, [Next]_vars PROVE AbilitiesInv'
  OBVIOUS
<1> USE DEF feedVars, rulesVars
<1>0. startup \in StartupState /\ fetch \in FetchState
  BY DEF Typed, TypeOK
<1>1. CASE AdminEdit
  BY <1>1, AbilitiesFrame DEF AdminEdit
<1>2. CASE FeedStep \/ FeedFail
  BY <1>2, AbilitiesFrame DEF FeedStep, FeedOpen, FeedAnswer, FeedReceive, FeedFail
<1>3. CASE applyPermissionDeletion
  <2>1. AbilitiesCurrent' /\ permission' # Undefined
    BY <1>3, BootstrapType, ConfigDefined, ChangeKeepsCurrent
       DEF applyPermissionDeletion, setPermission
  <2> QED
    BY <1>3, <2>1 DEF applyPermissionDeletion, AbilitiesInv, ServesConfigured
<1>4. CASE FetchStart \/ FetchRead \/ FetchNotFound \/ FetchFail \/ FetchRejected
  BY <1>4, AbilitiesFrame
     DEF FetchStart, FetchRead, FetchNotFound, FetchFail, FetchRejected
<1>5. CASE applyUpdatedPermission
  <2>1. CASE isValidRulesConfig(fetch.doc.data)
    <3>1. AbilitiesCurrent' /\ permission' # Undefined
      BY <1>5, <2>1, ConfigDefined, ChangeKeepsCurrent
         DEF applyUpdatedPermission, setPermission, isValidRulesConfig
    <3> QED
      BY <1>5, <3>1 DEF applyUpdatedPermission, AbilitiesInv, ServesConfigured
  <2>2. CASE ~ isValidRulesConfig(fetch.doc.data)
    BY <1>5, <2>2, AbilitiesFrame DEF applyUpdatedPermission
  <2> QED
    BY <2>1, <2>2
<1>6. CASE LoadRead
  <2>1. startup'.pc = "reply"
    BY <1>0, <1>6 DEF LoadRead, StartupState
  <2> QED
    BY <1>6, <2>1
       DEF LoadRead, AbilitiesInv, AbilitiesCurrent, ServesConfigured, rulesFor
<1>7. CASE LoadValid
  <2>1. startup'.pc = "defaults"
    BY <1>0, <1>7 DEF LoadValid, StartupState
  <2>2. permission' # Undefined
    BY <1>7, ConfigDefined DEF LoadValid, setPermission, isValidRulesConfig
  <2>3. AbilitiesCurrent'
    BY <1>7 DEF LoadValid, AbilitiesInv, AbilitiesCurrent, rulesFor
  <2> QED
    BY <2>1, <2>2, <2>3 DEF AbilitiesInv, ServesConfigured
<1>8. CASE LoadDone
  BY <1>8 DEF LoadDone, AbilitiesInv, AbilitiesCurrent, ServesConfigured, rulesFor
<1>9. CASE enterBootstrapMode
  <2>1. permission' # Undefined
    BY <1>9, BootstrapType, ConfigDefined DEF enterBootstrapMode, setPermission
  <2>2. AbilitiesCurrent'
    BY <1>9 DEF enterBootstrapMode, AbilitiesInv, AbilitiesCurrent, rulesFor
  <2> QED
    BY <2>1, <2>2 DEF AbilitiesInv, ServesConfigured
<1>10. CASE LoadInvalid \/ LoadFail
  <2>1. LoadFailed
    BY <1>10 DEF LoadInvalid, LoadFail
  <2>2. startup'.pc = IF permission # Undefined THEN "ready" ELSE "wait"
    BY <1>0, <2>1 DEF LoadFailed, StartupState
  <2> QED
    BY <2>1, <2>2
       DEF LoadFailed, AbilitiesInv, AbilitiesCurrent, ServesConfigured, rulesFor
<1>11. CASE waitForNextRetry
  <2>1. startup'.pc = IF permission # Undefined THEN "ready"
                      ELSE IF startup.tries < InitTries THEN "get" ELSE "aborted"
    BY <1>0, <1>11 DEF waitForNextRetry, StartupState
  <2> QED
    BY <1>11, <2>1
       DEF waitForNextRetry, AbilitiesInv, AbilitiesCurrent, ServesConfigured,
           rulesFor
<1>12. ASSUME NEW w \in Writer, WriterPut(w) \/ WriterRefetch(w) \/ WriterFail(w)
       PROVE  AbilitiesInv'
  BY <1>12, AbilitiesFrame DEF WriterPut, WriterRefetch, WriterFail
<1>13. ASSUME NEW u \in User, getAbilityFor(u) PROVE AbilitiesInv'
  <2>1. permission # Undefined
    BY <1>13 DEF getAbilityFor, AbilitiesInv, ServesConfigured
  <2>2. AbilitiesCurrent'
    BY <1>13 DEF getAbilityFor, AbilitiesInv, AbilitiesCurrent, rulesFor
  <2> QED
    BY <1>13, <2>1, <2>2 DEF getAbilityFor, AbilitiesInv, ServesConfigured
<1>14. CASE ClearLocal \/ ClearLocalFail
  BY <1>14, AbilitiesFrame DEF ClearLocal, ClearLocalFail
<1>15. CASE Restart
  BY <1>15
     DEF Restart, AbilitiesInv, AbilitiesCurrent, ServesConfigured, NoAbilities,
         InitStartup
<1>16. CASE UNCHANGED vars
  BY <1>16, AbilitiesFrame DEF vars
<1> QED
  BY <1>1, <1>2, <1>3, <1>4, <1>5, <1>6, <1>7, <1>8, <1>9, <1>10, <1>11, <1>12,
     <1>13, <1>14, <1>15, <1>16
     DEF Next, UpdateNext, FetchStep, LoadStep, WriterStep

\* The invariant holds throughout.
LEMMA AbilitiesInvAlways == Spec => []AbilitiesInv
<1>1. Init => AbilitiesInv
  BY DEF Init, AbilitiesInv, AbilitiesCurrent, ServesConfigured, NoAbilities,
         InitStartup
<1> QED
  BY <1>1, TypedAlways, AbilitiesStep, PTL DEF Spec

\* No request is ever judged by rules of an earlier configuration: for any
\* configurations, users and cache size, and with any faults and restarts,
\* every cached ability is the one getRulesForUser would compute now.
THEOREM AbilitiesAlwaysCurrent == Spec => []AbilitiesCurrent
<1>1. AbilitiesInv => AbilitiesCurrent
  BY DEF AbilitiesInv
<1> QED
  BY <1>1, AbilitiesInvAlways, PTL

\* The server never listens without a configuration, however the startup load
\* and the change feed race and fail.
THEOREM AlwaysServesConfigured == Spec => []ServesConfigured
<1>1. AbilitiesInv => ServesConfigured
  BY DEF AbilitiesInv
<1> QED
  BY <1>1, AbilitiesInvAlways, PTL
-----------------------------------------------------------------------------
(***************************************************************************)
(* Copies of the document                                                  *)
(***************************************************************************)
\* A copy of the document that was read earlier: if nothing was written since
\* then, it is still the document.
IsCopy(d) == d.rev <= doc.rev /\ (d.rev = doc.rev => d = doc)

\* Every answer on its way and every run about to write holds such a copy, and
\* a run writes only what needs the managed rules.
CopiesInv ==
    /\ \A w \in Writer : writer[w].pc = "put" =>
            IsCopy(writer[w].doc) /\ needsManagedDefaults(writer[w].doc.data)
    /\ fetch.pc = "reply" => IsCopy(fetch.doc)
    /\ startup.pc = "reply" => IsCopy(startup.doc)

\* A run that starts from a copy holds it.
LEMMA StartRunCopy ==
    ASSUME NEW d, NEW n, startRun(d, n).pc = "put"
    PROVE  startRun(d, n).doc = d /\ needsManagedDefaults(d.data)
  BY DEF startRun, IdleWriter

\* A new revision leaves every older copy a copy.
LEMMA CopyOutlivesWrite ==
    ASSUME doc \in Doc, doc'.rev = doc.rev + 1, NEW d \in Doc, IsCopy(d)
    PROVE  IsCopy(d)'
  BY DEF IsCopy, Doc

\* Every step keeps the invariant.
LEMMA CopiesStep == Typed /\ CopiesInv /\ [Next]_vars => CopiesInv'
<1> SUFFICES ASSUME Typed, CopiesInv, [Next]_vars PROVE CopiesInv'
  OBVIOUS
<1> USE DEF feedVars, rulesVars
<1>0. /\ doc \in Doc /\ startup \in StartupState /\ fetch \in FetchState
      /\ writer \in [Writer -> WriterState]
  BY DEF Typed, TypeOK
<1>d. IsCopy(doc)
  BY <1>0 DEF IsCopy, Doc
<1>f. UNCHANGED <<doc, writer, fetch, startup>> => CopiesInv'
  BY DEF CopiesInv, IsCopy
<1>g. fetch.pc # "idle" => fetch.doc \in Doc
  BY <1>0 DEF FetchState
<1>s. startup.doc \in Doc
  BY <1>0 DEF StartupState
<1>w. \A w \in Writer : writer[w].doc \in Doc
  BY <1>0 DEF WriterState
<1>1. CASE AdminEdit
  <2>1. doc'.rev = doc.rev + 1 /\ UNCHANGED <<writer, fetch, startup>>
    BY <1>1 DEF AdminEdit
  <2> QED
    BY <1>0, <1>g, <1>s, <1>w, <2>1, CopyOutlivesWrite DEF CopiesInv
<1>2. CASE FeedStep \/ FeedFail
  BY <1>2, <1>f DEF FeedStep, FeedOpen, FeedAnswer, FeedReceive, FeedFail
<1>3. CASE applyPermissionDeletion
  BY <1>3, <1>f DEF applyPermissionDeletion
<1>4. CASE FetchStart \/ FetchNotFound \/ FetchFail \/ FetchRejected
  <2>1. CASE FetchStart
    BY <2>1 DEF FetchStart, IdleFetch, CopiesInv, IsCopy
  <2>2. CASE FetchNotFound \/ FetchRejected
    BY <2>2 DEF FetchNotFound, FetchRejected, IdleFetch, CopiesInv, IsCopy
  <2>3. CASE FetchFail
    <3>1. CASE fetch.tries < FetchRetries
      BY <2>3, <3>1 DEF FetchFail, IdleFetch, CopiesInv, IsCopy
    <3>2. CASE ~ (fetch.tries < FetchRetries)
      BY <2>3, <3>2 DEF FetchFail, IdleFetch, CopiesInv, IsCopy
    <3> QED
      BY <3>1, <3>2
  <2> QED
    BY <1>4, <2>1, <2>2, <2>3
<1>5. CASE FetchRead
  <2>1. fetch'.doc = doc /\ UNCHANGED <<doc, writer, startup>>
    BY <1>0, <1>5 DEF FetchRead, FetchState
  <2> QED
    BY <1>d, <2>1 DEF CopiesInv, IsCopy
<1>6. CASE applyUpdatedPermission
  <2>0. fetch'.pc # "reply" /\ UNCHANGED <<doc, startup>>
    BY <1>6 DEF applyUpdatedPermission, IdleFetch
  <2>1. CASE isValidRulesConfig(fetch.doc.data)
    <3>1. PICK w \in Writer : writer' = [writer EXCEPT ![w] = startRun(fetch.doc, 0)]
      BY <1>6, <2>1 DEF applyUpdatedPermission
    <3>2. IsCopy(fetch.doc)
      BY <1>6 DEF applyUpdatedPermission, CopiesInv
    <3> QED
      BY <1>0, <2>0, <3>1, <3>2, StartRunCopy DEF CopiesInv, IsCopy
  <2>2. CASE ~ isValidRulesConfig(fetch.doc.data)
    BY <1>6, <2>0, <2>2 DEF applyUpdatedPermission, CopiesInv, IsCopy
  <2> QED
    BY <2>1, <2>2
<1>7. CASE LoadRead
  <2>1. startup'.doc = doc /\ UNCHANGED <<doc, writer, fetch>>
    BY <1>0, <1>7 DEF LoadRead, StartupState
  <2> QED
    BY <1>d, <2>1 DEF CopiesInv, IsCopy
<1>8. CASE LoadValid
  <2>1. startup'.pc = "defaults" /\ UNCHANGED <<doc, fetch>>
    BY <1>0, <1>8 DEF LoadValid, StartupState
  <2>2. IsCopy(startup.doc)
    BY <1>8 DEF LoadValid, CopiesInv
  <2>3. writer' = [writer EXCEPT ![StartupWriter] = startRun(startup.doc, 0)]
    BY <1>8 DEF LoadValid
  <2> QED
    BY <1>0, <2>1, <2>2, <2>3, StartRunCopy DEF CopiesInv, IsCopy
<1>9. CASE LoadDone \/ enterBootstrapMode \/ waitForNextRetry
  <2>1. startup'.pc # "reply" /\ UNCHANGED <<doc, writer, fetch>>
    BY <1>0, <1>9
       DEF LoadDone, enterBootstrapMode, waitForNextRetry, StartupState
  <2> QED
    BY <2>1 DEF CopiesInv, IsCopy
<1>10. CASE LoadInvalid \/ LoadFail
  <2>1. LoadFailed
    BY <1>10 DEF LoadInvalid, LoadFail
  <2>2. startup'.pc # "reply" /\ UNCHANGED <<doc, writer, fetch>>
    BY <1>0, <2>1 DEF LoadFailed, StartupState
  <2> QED
    BY <2>2 DEF CopiesInv, IsCopy
<1>11. ASSUME NEW w \in Writer, WriterPut(w) PROVE CopiesInv'
  <2>1. CASE writer[w].doc.rev = doc.rev
    <3>1. doc'.rev = doc.rev + 1 /\ UNCHANGED <<fetch, startup>>
      BY <1>11, <2>1 DEF WriterPut
    <3>2. writer' = [writer EXCEPT ![w] = IdleWriter]
      BY <1>11, <2>1 DEF WriterPut
    <3>3. ASSUME NEW v \in Writer, writer'[v].pc = "put"
          PROVE  writer'[v] = writer[v]
      BY <1>0, <3>2, <3>3 DEF IdleWriter
    <3> QED
      BY <1>0, <1>g, <1>s, <1>w, <3>1, <3>3, CopyOutlivesWrite DEF CopiesInv
  <2>2. CASE writer[w].doc.rev # doc.rev
    <3>1. UNCHANGED <<doc, fetch, startup>>
      BY <1>11, <2>2 DEF WriterPut
    <3> DEFINE r == IF writer[w].attempt + 1 < WriteAttempts
                    THEN [IdleWriter EXCEPT !.pc = "get",
                                            !.attempt = writer[w].attempt]
                    ELSE IdleWriter
    <3>a. r.pc # "put"
      BY DEF IdleWriter
    <3>b. writer' = [writer EXCEPT ![w] = r]
      BY <1>11, <2>2 DEF WriterPut
    <3> HIDE DEF r
    <3>2. ASSUME NEW v \in Writer, writer'[v].pc = "put"
          PROVE  writer'[v] = writer[v]
      BY <1>0, <3>2, <3>a, <3>b
    <3> QED
      BY <3>1, <3>2 DEF CopiesInv, IsCopy
  <2> QED
    BY <2>1, <2>2
<1>12. ASSUME NEW w \in Writer, WriterRefetch(w) PROVE CopiesInv'
  <2>1. /\ writer' = [writer EXCEPT ![w] = startRun(doc, writer[w].attempt + 1)]
        /\ UNCHANGED <<doc, fetch, startup>>
    BY <1>12 DEF WriterRefetch
  <2> QED
    BY <1>0, <1>d, <2>1, StartRunCopy DEF CopiesInv, IsCopy
<1>13. ASSUME NEW w \in Writer, WriterFail(w) PROVE CopiesInv'
  <2>1. /\ writer' = [writer EXCEPT ![w] = IdleWriter]
        /\ UNCHANGED <<doc, fetch, startup>>
    BY <1>13 DEF WriterFail
  <2> QED
    BY <1>0, <2>1, IdleTypes DEF CopiesInv, IsCopy
<1>14. ASSUME NEW u \in User, getAbilityFor(u) PROVE CopiesInv'
  BY <1>14, <1>f DEF getAbilityFor
<1>15. CASE ClearLocal \/ ClearLocalFail
  BY <1>15, <1>f DEF ClearLocal, ClearLocalFail
<1>16. CASE Restart
  BY <1>16, IdleTypes DEF Restart, CopiesInv, IdleFetch, InitStartup
<1>17. CASE UNCHANGED vars
  BY <1>17, <1>f DEF vars
<1> QED
  BY <1>1, <1>2, <1>3, <1>4, <1>5, <1>6, <1>7, <1>8, <1>9, <1>10, <1>11, <1>12,
     <1>13, <1>14, <1>15, <1>16, <1>17
     DEF Next, UpdateNext, FetchStep, LoadStep, WriterStep

\* The invariant holds throughout.
LEMMA CopiesAlways == Spec => []CopiesInv
<1>1. Init => CopiesInv
  BY IdleTypes DEF Init, CopiesInv, IdleFetch, InitStartup
<1> QED
  BY <1>1, TypedAlways, CopiesStep, PTL DEF Spec

\* The write-back of the managed defaults never loses an edit and never brings
\* a deleted document back, with any number of runs, editors and conflicts:
\* whenever it changes the document, it merges into the contents that are
\* there, and something was missing.
THEOREM WriteBackSafe == Spec => WriteBackLosesNothing
<1> DEFINE A == WroteDefaults =>
                  /\ isValidRulesConfig(doc.data)
                  /\ doc'.data = withManagedDefaults(doc.data)
                  /\ needsManagedDefaults(doc.data)
<1>1. Typed /\ CopiesInv /\ [Next]_vars => [A]_vars
  <2> SUFFICES ASSUME Typed, CopiesInv, [Next]_vars, WroteDefaults
               PROVE  A
    OBVIOUS
  <2> USE DEF feedVars, rulesVars
  <2>1. ASSUME NEW w \in Writer, WriterPut(w) PROVE A
    <3>1. writer[w].doc.rev = doc.rev
      BY <2>1 DEF WriterPut, WroteDefaults
    <3>2. writer[w].doc = doc /\ needsManagedDefaults(doc.data)
      BY <2>1, <3>1 DEF WriterPut, CopiesInv, IsCopy
    <3>3. isValidRulesConfig(doc.data)
      BY <2>1, <3>2 DEF WriterPut, Typed, WritersHoldConfigs, isValidRulesConfig
    <3> QED
      BY <2>1, <3>1, <3>2, <3>3 DEF WriterPut
  <2>2. CASE AdminEdit
    BY <2>2 DEF AdminEdit, WroteDefaults
  <2>3. ASSUME ~ AdminEdit, \A w \in Writer : ~ WriterPut(w)
        PROVE  UNCHANGED doc
    BY <2>3
       DEF Next, UpdateNext, FeedStep, FeedOpen, FeedAnswer, FeedReceive, FeedFail,
           FetchStep, applyPermissionDeletion, FetchStart, FetchRead, FetchNotFound,
           applyUpdatedPermission, FetchFail, FetchRejected, LoadStep, LoadRead,
           LoadValid, LoadDone, enterBootstrapMode, LoadInvalid, LoadFailed,
           LoadFail, waitForNextRetry, WriterStep, WriterRefetch, WriterFail,
           getAbilityFor, ClearLocal, ClearLocalFail, Restart, vars
  <2> QED
    BY <2>1, <2>2, <2>3 DEF WroteDefaults
<1>2. [][A]_vars <=> WriteBackLosesNothing
  BY DEF WriteBackLosesNothing
<1> QED
  BY <1>1, <1>2, TypedAlways, CopiesAlways, PTL DEF Spec
-----------------------------------------------------------------------------
(***************************************************************************)
(* The change feed                                                         *)
(***************************************************************************)
\* What is known of an open request and of an answer on its way.
RequestInv ==
    /\ lastSeq = Now <=> anchor = Now
    /\ lastSeq # Now => anchor <= lastSeq /\ lastSeq <= doc.rev
    /\ feed.pc # "sent" =>
          /\ feed.from <= doc.rev
          /\ lastSeq # Now => feed.from = lastSeq
    /\ feed.pc = "reply" =>
          /\ feed.from <= feed.last /\ feed.last <= doc.rev
          /\ feed.event = "none" <=> feed.last = feed.from
          /\ feed.event # "none" /\ feed.last = doc.rev =>
                (feed.event = "deleted" <=> doc.data = Absent)

\* The feed has reported the latest change of the document.
Reported == lastSeq # Now /\ anchor < doc.rev /\ lastSeq = doc.rev

\* Then the last event still waiting is about that change, or the fetch it led
\* to will see or has seen the document as it is, or the update is applied.
PendingInv ==
    Reported =>
        /\ queue # <<>> => (queue[Len(queue)] = "deleted" <=> doc.data = Absent)
        /\ queue = <<>> /\ fetch.pc = "get" => doc.data # Absent
        /\ queue = <<>> /\ fetch.pc = "reply" =>
                fetch.doc = doc /\ doc.data # Absent
        /\ queue = <<>> /\ fetch.pc = "idle" =>
                \/ lastUpdate = "dropped"
                \/ doc.data = Invalid
                \/ permission = Effective(doc.data)

\* The configuration a valid or absent document asks for is a configuration.
LEMMA EffectiveDefined ==
    ASSUME NEW d \in Data, d # Invalid PROVE Effective(d) # Undefined
  BY NormalizeType, BootstrapType, DataAssumption DEF Effective, Data

\* A new revision has not been reported yet.
LEMMA NewRevision ==
    ASSUME Typed, RequestInv, doc' \in Doc, doc'.rev = doc.rev + 1,
           UNCHANGED <<lastSeq, anchor, feed>>
    PROVE  RequestInv' /\ ~ Reported'
  BY BoundAssumption DEF Typed, TypeOK, RequestInv, Reported, Doc, FeedState

\* Every step keeps what is known of the requests.
LEMMA RequestStep == Typed /\ RequestInv /\ [Next]_vars => RequestInv'
<1> SUFFICES ASSUME Typed, RequestInv, [Next]_vars PROVE RequestInv'
  OBVIOUS
<1> USE DEF feedVars, rulesVars
<1>0. /\ doc \in Doc /\ doc' \in Doc /\ feed \in FeedState
      /\ lastSeq \in Nat \cup {Now} /\ anchor \in Nat \cup {Now}
  BY TypedStep DEF Typed, TypeOK
<1>f. UNCHANGED <<doc, lastSeq, anchor, feed>> => RequestInv'
  BY DEF RequestInv
<1>1. CASE AdminEdit
  BY <1>0, <1>1, NewRevision DEF AdminEdit
<1>2. ASSUME NEW w \in Writer, WriterPut(w) PROVE RequestInv'
  <2>1. CASE UNCHANGED doc
    BY <1>2, <1>f, <2>1 DEF WriterPut
  <2>2. CASE doc' # doc
    BY <1>0, <1>2, <2>2, NewRevision DEF WriterPut
  <2> QED
    BY <2>1, <2>2
<1>3. CASE FeedOpen
  <2>1. /\ feed'.pc = "open" /\ UNCHANGED <<doc, lastSeq, anchor>>
        /\ feed'.from = IF lastSeq = Now THEN doc.rev ELSE lastSeq
    BY <1>0, <1>3 DEF FeedOpen, FeedState
  <2> QED
    BY <1>0, <2>1 DEF RequestInv, Doc
<1>4. CASE FeedAnswer
  <2>1. /\ feed'.pc = "reply" /\ feed'.from = feed.from /\ feed'.last = doc.rev
        /\ feed'.event = EventOf(doc, feed.from)
        /\ feed.pc = "open" /\ UNCHANGED <<doc, lastSeq, anchor>>
    BY <1>0, <1>4 DEF FeedAnswer, FeedState
  <2>2. feed.from \in Nat /\ doc.rev \in Nat /\ feed.from <= doc.rev
    BY <1>0, <2>1 DEF RequestInv, FeedState, Doc
  <2>3. /\ feed'.event = "none" <=> doc.rev = feed.from
        /\ feed'.event # "none" => (feed'.event = "deleted" <=> doc.data = Absent)
    BY <2>1, <2>2 DEF EventOf
  <2> QED
    BY <2>1, <2>2, <2>3 DEF RequestInv
<1>5. CASE FeedReceive
  <2>1. /\ feed'.pc = "sent" /\ feed.pc = "reply" /\ UNCHANGED doc
        /\ lastSeq' = feed.last
        /\ anchor' = IF lastSeq = Now THEN feed.from ELSE anchor
    BY <1>5 DEF FeedReceive, SentFeed
  <2>2. feed.from \in Nat /\ feed.last \in Nat
    BY <1>0 DEF FeedState
  <2> QED
    BY <1>0, <2>1, <2>2, BoundAssumption DEF RequestInv, Doc
<1>6. CASE FeedFail \/ Restart
  BY <1>0, <1>6 DEF FeedFail, Restart, SentFeed, RequestInv
<1>7. CASE FetchStep \/ FetchFail \/ FetchRejected
  BY <1>7, <1>f
     DEF FetchStep, applyPermissionDeletion, FetchStart, FetchRead, FetchNotFound,
         applyUpdatedPermission, FetchFail, FetchRejected
<1>8. CASE LoadStep \/ LoadFail
  BY <1>8, <1>f
     DEF LoadStep, LoadRead, LoadValid, LoadDone, enterBootstrapMode, LoadInvalid,
         LoadFailed, LoadFail, waitForNextRetry
<1>9. ASSUME NEW w \in Writer, WriterRefetch(w) \/ WriterFail(w) PROVE RequestInv'
  BY <1>9, <1>f DEF WriterRefetch, WriterFail
<1>10. ASSUME NEW u \in User, getAbilityFor(u) PROVE RequestInv'
  BY <1>10, <1>f DEF getAbilityFor
<1>11. CASE ClearLocal \/ ClearLocalFail \/ UNCHANGED vars
  BY <1>11, <1>f DEF ClearLocal, ClearLocalFail, vars
<1> QED
  BY <1>1, <1>2, <1>3, <1>4, <1>5, <1>6, <1>7, <1>8, <1>9, <1>10, <1>11
     DEF Next, UpdateNext, FeedStep, WriterStep
\* Taking the first of several events leaves the last one in place.
LEMMA LastOfTail ==
    ASSUME NEW S, NEW q \in Seq(S), q # <<>>
    PROVE  /\ Tail(q) # <<>> => Tail(q)[Len(Tail(q))] = q[Len(q)]
           /\ Tail(q) = <<>> => Head(q) = q[Len(q)]
<1> DEFINE t == Tail(q)
<1>1. Len(q) \in Nat \ {0} /\ t \in Seq(S) /\ Len(t) = Len(q) - 1
  BY EmptySeq, HeadTailProperties
<1>2. Head(q) = q[1] /\ \A i \in 1 .. Len(t) : t[i] = q[i + 1]
  BY HeadTailProperties
<1>3. Len(<<>>) = 0 /\ (t # <<>> => Len(t) \in Nat \ {0})
  BY <1>1, EmptySeq
<1> HIDE DEF t
<1>4. t = <<>> => Len(t) = 0
  BY <1>3
<1>5. t = <<>> => Len(q) = 1
  BY <1>1, <1>4
<1>6. t # <<>> => t[Len(t)] = q[Len(q)]
  BY <1>1, <1>2, <1>3
<1> QED
  BY <1>2, <1>5, <1>6 DEF t

\* Every step keeps the pending work in line with the document.
LEMMA PendingStep ==
    Typed /\ RequestInv /\ PendingInv /\ [Next]_vars => PendingInv'
<1> SUFFICES ASSUME Typed, RequestInv, PendingInv, [Next]_vars PROVE PendingInv'
  OBVIOUS
<1> USE DEF feedVars, rulesVars
<1>0. /\ doc \in Doc /\ doc' \in Doc /\ feed \in FeedState /\ fetch \in FetchState
      /\ queue \in Seq({"changed", "deleted"})
      /\ lastSeq \in Nat \cup {Now} /\ anchor \in Nat \cup {Now}
  BY TypedStep DEF Typed, TypeOK
<1>1. doc.rev \in Nat /\ doc.data \in Data
  BY <1>0 DEF Doc
<1>f. UNCHANGED <<doc, lastSeq, anchor, queue, fetch, lastUpdate, permission>>
        => PendingInv'
  BY DEF PendingInv, Reported, Effective
<1>2. CASE AdminEdit
  BY <1>0, <1>2, NewRevision DEF AdminEdit, PendingInv
<1>3. ASSUME NEW w \in Writer, WriterPut(w) PROVE PendingInv'
  <2>1. CASE UNCHANGED doc
    BY <1>3, <1>f, <2>1 DEF WriterPut
  <2>2. CASE doc' # doc
    BY <1>0, <1>3, <2>2, NewRevision DEF WriterPut, PendingInv
  <2> QED
    BY <2>1, <2>2
<1>4. CASE FeedOpen \/ FeedAnswer \/ FeedFail
  BY <1>4, <1>f DEF FeedOpen, FeedAnswer, FeedFail
<1>5. CASE FeedReceive
  <2>0. /\ feed.pc = "reply" /\ lastSeq' = feed.last
        /\ anchor' = IF lastSeq = Now THEN feed.from ELSE anchor
        /\ queue' = IF feed.event = "none" THEN queue ELSE Append(queue, feed.event)
        /\ UNCHANGED <<doc, fetch, lastUpdate, permission>>
    BY <1>5 DEF FeedReceive
  <2>1. feed.from \in Nat /\ feed.last \in Nat
        /\ feed.event \in {"none", "changed", "deleted"}
    BY <1>0 DEF FeedState
  <2>2. CASE feed.event = "none" /\ lastSeq = Now
    <3>1. ~ Reported'
      BY <1>1, <2>0, <2>1, <2>2 DEF RequestInv, Reported
    <3> QED
      BY <3>1 DEF PendingInv
  <2>3. CASE feed.event = "none" /\ lastSeq # Now
    <3>1. UNCHANGED <<lastSeq, anchor, queue>>
      BY <2>0, <2>1, <2>3 DEF RequestInv
    <3> QED
      BY <1>f, <2>0, <3>1
  <2>4. CASE feed.event # "none"
    <3>1. queue' # <<>> /\ queue'[Len(queue')] = feed.event
      BY <1>0, <2>0, <2>4
    <3>2. Reported' => (feed.event = "deleted" <=> doc.data = Absent)
      BY <2>0, <2>4 DEF RequestInv, Reported
    <3> QED
      BY <2>0, <3>1, <3>2 DEF PendingInv
  <2> QED
    BY <2>2, <2>3, <2>4
<1>6. CASE applyPermissionDeletion
  <2>0. /\ queue # <<>> /\ Head(queue) = "deleted" /\ queue' = Tail(queue)
        /\ permission' = bootstrapPermissions /\ fetch.pc = "idle"
        /\ UNCHANGED <<doc, lastSeq, anchor, fetch>>
    BY <1>6, BootstrapType DEF applyPermissionDeletion, setPermission
  <2>1. Reported' => Reported
    BY <2>0 DEF Reported
  <2>2. CASE queue' = <<>>
    <3>1. Reported => doc.data = Absent
      BY <1>0, <2>0, <2>2, LastOfTail DEF PendingInv
    <3> QED
      BY <2>0, <2>1, <2>2, <3>1 DEF PendingInv, Effective
  <2>3. CASE queue' # <<>>
    <3>1. queue'[Len(queue')] = queue[Len(queue)]
      BY <1>0, <2>0, <2>3, LastOfTail
    <3> QED
      BY <2>0, <2>1, <2>3, <3>1 DEF PendingInv
  <2> QED
    BY <2>2, <2>3
<1>7. CASE FetchStart
  <2>0. /\ queue # <<>> /\ Head(queue) = "changed" /\ queue' = Tail(queue)
        /\ fetch'.pc = "get" /\ UNCHANGED <<doc, lastSeq, anchor>>
    BY <1>7 DEF FetchStart, IdleFetch
  <2>1. Reported' => Reported
    BY <2>0 DEF Reported
  <2>2. CASE queue' = <<>>
    <3>1. Reported => doc.data # Absent
      BY <1>0, <2>0, <2>2, LastOfTail DEF PendingInv
    <3> QED
      BY <2>0, <2>1, <2>2, <3>1 DEF PendingInv
  <2>3. CASE queue' # <<>>
    <3>1. queue'[Len(queue')] = queue[Len(queue)]
      BY <1>0, <2>0, <2>3, LastOfTail
    <3> QED
      BY <2>0, <2>1, <2>3, <3>1 DEF PendingInv
  <2> QED
    BY <2>2, <2>3
<1>8. CASE FetchRead
  <2>1. /\ fetch.pc = "get" /\ fetch'.pc = "reply" /\ fetch'.doc = doc
        /\ UNCHANGED <<doc, lastSeq, anchor, queue>>
    BY <1>0, <1>8 DEF FetchRead, FetchState
  <2> QED
    BY <2>1 DEF PendingInv, Reported
<1>9. CASE FetchNotFound
  <2>1. /\ fetch.pc = "reply" /\ fetch.doc.data = Absent /\ fetch'.pc = "idle"
        /\ UNCHANGED <<doc, lastSeq, anchor, queue>>
    BY <1>9 DEF FetchNotFound, IdleFetch
  <2> QED
    BY <2>1 DEF PendingInv, Reported
<1>10. CASE applyUpdatedPermission
  <2>1. /\ fetch.pc = "reply" /\ fetch'.pc = "idle"
        /\ UNCHANGED <<doc, lastSeq, anchor, queue>>
    BY <1>10 DEF applyUpdatedPermission, IdleFetch
  <2>2. Reported' => Reported
    BY <2>1 DEF Reported
  <2>3. CASE queue = <<>> /\ Reported
    <3>1. fetch.doc = doc /\ doc.data # Absent
      BY <2>1, <2>3 DEF PendingInv
    <3>2. CASE isValidRulesConfig(doc.data)
      <4>1. permission' = normalizeSectionKeys(doc.data)
        BY <1>10, <3>1, <3>2 DEF applyUpdatedPermission, setPermission
      <4> QED
        BY <2>1, <2>3, <3>1, <4>1 DEF PendingInv, Effective
    <3>3. CASE ~ isValidRulesConfig(doc.data)
      <4>1. doc.data = Invalid
        BY <1>1, <3>1, <3>3 DEF isValidRulesConfig, Data
      <4> QED
        BY <2>1, <2>3, <4>1 DEF PendingInv
    <3> QED
      BY <3>2, <3>3
  <2>4. CASE queue # <<>> /\ Reported
    BY <2>1, <2>4 DEF PendingInv
  <2>5. CASE ~ Reported
    BY <2>2, <2>5 DEF PendingInv
  <2> QED
    BY <2>3, <2>4, <2>5
<1>11. CASE FetchFail
  <2>1. /\ fetch.pc # "idle" /\ UNCHANGED <<doc, lastSeq, anchor, queue>>
        /\ \/ fetch'.pc = "get"
           \/ fetch'.pc = "idle" /\ lastUpdate' = "dropped"
    <3>1. CASE fetch.tries < FetchRetries
      BY <1>11, <3>1 DEF FetchFail, IdleFetch
    <3>2. CASE ~ (fetch.tries < FetchRetries)
      BY <1>11, <3>2 DEF FetchFail, IdleFetch
    <3> QED
      BY <3>1, <3>2
  <2>2. fetch.pc \in {"get", "reply"}
    BY <1>0, <2>1 DEF FetchState
  <2> QED
    BY <2>1, <2>2 DEF PendingInv, Reported
<1>12. CASE FetchRejected
  <2>1. /\ fetch'.pc = "idle" /\ lastUpdate' = "dropped"
        /\ UNCHANGED <<doc, lastSeq, anchor, queue>>
    BY <1>12 DEF FetchRejected, IdleFetch
  <2> QED
    BY <2>1 DEF PendingInv, Reported
<1>13. CASE LoadValid \/ enterBootstrapMode
  <2>1. /\ permission # Undefined => UNCHANGED permission
        /\ UNCHANGED <<doc, lastSeq, anchor, queue, fetch, lastUpdate>>
    BY <1>13 DEF LoadValid, enterBootstrapMode
  <2>2. doc.data # Invalid /\ permission = Effective(doc.data)
            => permission # Undefined
    BY <1>1, EffectiveDefined
  <2> QED
    BY <2>1, <2>2 DEF PendingInv, Reported, Effective
<1>14. CASE LoadRead \/ LoadDone \/ LoadInvalid \/ LoadFail \/ waitForNextRetry
  BY <1>14, <1>f
     DEF LoadRead, LoadDone, LoadInvalid, LoadFailed, LoadFail, waitForNextRetry
<1>15. ASSUME NEW w \in Writer, WriterRefetch(w) \/ WriterFail(w) PROVE PendingInv'
  BY <1>15, <1>f DEF WriterRefetch, WriterFail
<1>16. ASSUME NEW u \in User, getAbilityFor(u) PROVE PendingInv'
  BY <1>16, <1>f DEF getAbilityFor
<1>17. CASE ClearLocal \/ ClearLocalFail \/ UNCHANGED vars
  BY <1>17, <1>f DEF ClearLocal, ClearLocalFail, vars
<1>18. CASE Restart
  BY <1>18 DEF Restart, PendingInv, Reported
<1> QED
  BY <1>2, <1>3, <1>4, <1>5, <1>6, <1>7, <1>8, <1>9, <1>10, <1>11, <1>12, <1>13,
     <1>14, <1>15, <1>16, <1>17, <1>18
     DEF Next, UpdateNext, FeedStep, FetchStep, LoadStep, WriterStep

\* No update that the feed reports gets lost on its way into memory, whatever
\* the startup load does meanwhile: once the feed has reported the latest change
\* and its events are worked off, the configuration in memory is the one the
\* document asks for, the bootstrap rules if it was deleted.
THEOREM CaughtUpAlwaysCurrent == Spec => []CaughtUpMeansCurrent
<1>1. Init => RequestInv /\ PendingInv
  BY DEF Init, RequestInv, PendingInv, Reported, SentFeed
<1>2. RequestInv /\ PendingInv => CaughtUpMeansCurrent
  BY DEF RequestInv, PendingInv, Reported, CaughtUpMeansCurrent, CaughtUp
<1> QED
  BY <1>1, <1>2, TypedAlways, RequestStep, PendingStep, PTL DEF Spec
-----------------------------------------------------------------------------
(***************************************************************************)
(* Re-syncing the clients                                                  *)
(***************************************************************************)
\* The strengthening of ResyncPending: before the server listens clients may
\* not have synced at all, and timers exist only for a loaded configuration.
ResyncInv ==
    /\ permission = Undefined => synced = Undefined /\ clearTimers = 0
    /\ synced # Undefined => permission = synced \/ clearTimers > 0
    /\ startup.pc = "ready" => synced # Undefined

\* Replacing the configuration through onPermissionsChanged sets a timer.
LEMMA ChangeSetsTimer ==
    ASSUME Typed, ResyncInv, NEW c, c # Undefined, permission' = c,
           onPermissionsChanged(c), UNCHANGED <<synced, startup>>
    PROVE  ResyncInv'
<1>0. clearTimers \in Nat
  BY DEF Typed, TypeOK
<1>1. CASE permission = Undefined
  BY <1>1 DEF ResyncInv, onPermissionsChanged
<1>2. CASE permission = c
  BY <1>2 DEF ResyncInv, onPermissionsChanged
<1>3. CASE permission # Undefined /\ permission # c
  BY <1>0, <1>3 DEF ResyncInv, onPermissionsChanged
<1> QED
  BY <1>1, <1>2, <1>3

\* Whatever changes the rules also makes the clients sync again: as long as no
\* clearLocal fails and the process does not restart, clients whose last sync
\* was under other rules than the present ones have a clearLocal ahead of them.
THEOREM ResyncAlwaysPending ==
    ASSUME FaultKinds \cap {"clear", "crash"} = {}
    PROVE  Spec => []ResyncPending
<1> USE DEF feedVars, rulesVars
<1>1. Init => ResyncInv
  BY DEF Init, ResyncInv, InitStartup
<1>2. Typed /\ AbilitiesInv /\ ResyncInv /\ [Next]_vars => ResyncInv'
  <2> SUFFICES ASSUME Typed, AbilitiesInv, ResyncInv, [Next]_vars PROVE ResyncInv'
    OBVIOUS
  <2>0. startup \in StartupState /\ clearTimers \in Nat
    BY DEF Typed, TypeOK
  <2>f. UNCHANGED <<permission, synced, clearTimers, startup>> => ResyncInv'
    BY DEF ResyncInv
  <2>1. CASE AdminEdit
    BY <2>1, <2>f DEF AdminEdit
  <2>2. CASE FeedStep \/ FeedFail
    BY <2>2, <2>f DEF FeedStep, FeedOpen, FeedAnswer, FeedReceive, FeedFail
  <2>3. CASE applyPermissionDeletion
    BY <2>3, BootstrapType, ConfigDefined, ChangeSetsTimer
       DEF applyPermissionDeletion, setPermission
  <2>4. CASE FetchStart \/ FetchRead \/ FetchNotFound \/ FetchFail \/ FetchRejected
    BY <2>4, <2>f
       DEF FetchStart, FetchRead, FetchNotFound, FetchFail, FetchRejected
  <2>5. CASE applyUpdatedPermission
    <3>1. CASE isValidRulesConfig(fetch.doc.data)
      BY <2>5, <3>1, ConfigDefined, ChangeSetsTimer
         DEF applyUpdatedPermission, setPermission, isValidRulesConfig
    <3>2. CASE ~ isValidRulesConfig(fetch.doc.data)
      BY <2>5, <3>2, <2>f DEF applyUpdatedPermission
    <3> QED
      BY <3>1, <3>2
  <2>6. CASE LoadRead
    <3>1. startup'.pc = "reply"
      BY <2>0, <2>6 DEF LoadRead, StartupState
    <3> QED
      BY <2>6, <3>1 DEF LoadRead, ResyncInv
  <2>7. CASE LoadValid
    <3>1. startup'.pc = "defaults"
      BY <2>0, <2>7 DEF LoadValid, StartupState
    <3>2. permission' # Undefined
      BY <2>7, ConfigDefined DEF LoadValid, setPermission, isValidRulesConfig
    <3> QED
      BY <2>7, <3>1, <3>2 DEF LoadValid, ResyncInv
  <2>8. CASE LoadDone
    <3>1. permission # Undefined
      BY <2>8 DEF LoadDone, AbilitiesInv
    <3> QED
      BY <2>8, <3>1 DEF LoadDone, Ready, ResyncInv
  <2>9. CASE enterBootstrapMode
    <3>1. permission' # Undefined
      BY <2>9, BootstrapType, ConfigDefined DEF enterBootstrapMode, setPermission
    <3> QED
      BY <2>9, <3>1 DEF enterBootstrapMode, Ready, ResyncInv
  <2>10. CASE LoadInvalid \/ LoadFail
    <3>1. LoadFailed
      BY <2>10 DEF LoadInvalid, LoadFail
    <3>2. startup'.pc = IF permission # Undefined THEN "ready" ELSE "wait"
      BY <2>0, <3>1 DEF LoadFailed, StartupState
    <3> QED
      BY <3>1, <3>2 DEF LoadFailed, Ready, ResyncInv
  <2>11. CASE waitForNextRetry
    <3>1. startup'.pc = "ready" => permission # Undefined
      BY <2>0, <2>11 DEF waitForNextRetry, StartupState
    <3> QED
      BY <2>11, <3>1 DEF waitForNextRetry, Ready, ResyncInv
  <2>12. ASSUME NEW w \in Writer, WriterPut(w) \/ WriterRefetch(w) \/ WriterFail(w)
         PROVE  ResyncInv'
    BY <2>12, <2>f DEF WriterPut, WriterRefetch, WriterFail
  <2>13. ASSUME NEW u \in User, getAbilityFor(u) PROVE ResyncInv'
    BY <2>13, <2>f DEF getAbilityFor
  <2>14. CASE ClearLocal
    <3>1. permission # Undefined
      BY <2>14 DEF ClearLocal, ResyncInv
    <3> QED
      BY <2>14, <3>1 DEF ClearLocal, ResyncInv
  <2>15. ~ ClearLocalFail /\ ~ Restart
    BY DEF ClearLocalFail, Restart, Fault
  <2>16. CASE UNCHANGED vars
    BY <2>16, <2>f DEF vars
  <2> QED
    BY <2>1, <2>2, <2>3, <2>4, <2>5, <2>6, <2>7, <2>8, <2>9, <2>10, <2>11, <2>12,
       <2>13, <2>14, <2>15, <2>16
       DEF Next, UpdateNext, FetchStep, LoadStep, WriterStep
<1>3. ResyncInv => ResyncPending
  BY DEF ResyncInv, ResyncPending
<1> QED
  BY <1>1, <1>2, <1>3, TypedAlways, AbilitiesInvAlways, PTL DEF Spec
=============================================================================
