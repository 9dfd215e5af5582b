------------------------ MODULE PermissionWriteBack ------------------------
(***************************************************************************)
(* The functions of PermissionConfig at work on one document: the write-back *)
(* of the managed defaults is applied to it again and again, as the change   *)
(* event of every write triggers it.                                        *)
(***************************************************************************)
EXTENDS PermissionConfig

CONSTANT Contents       \* the configurations an administrator wrote

ASSUME ContentsAssumption == Contents \subseteq Config

VARIABLE config         \* the permission document

Init == config \in Contents

\* RulesService.writeManagedDefaults without its failures, which PermissionRules
\* has.
WriteBack ==
    /\ needsManagedDefaults(config)
    /\ config' = withManagedDefaults(config)

Spec == Init /\ [][WriteBack]_config

-----------------------------------------------------------------------------
\* The write-back settles: what it writes needs no further write, so the change
\* event it causes does not lead to another write (no endless rewriting).
WriteBackSettles == [][~ needsManagedDefaults(config')]_config

\* What a configuration says apart from the rules the backend manages.
AdminPart(c) ==
    LET n == normalizeSectionKeys(c)
    IN  [n EXCEPT ![DefaultKey] = adminRules(OrEmpty(n[DefaultKey]))]

\* The write-back leaves the rules of administrators as they were in effect,
\* in their order, and migrates legacy keys without changing what they grant.
WriteBackKeepsAdminPart == [][AdminPart(config') = AdminPart(config)]_config
=============================================================================
