-------------------------- MODULE MCPermissionRules --------------------------
(***************************************************************************)
(* Small instances of PermissionRules: one managed rule, one rule of the    *)
(* administrator, two users and the anonymous one.                          *)
(***************************************************************************)
EXTENDS PermissionRules, TLC

CONSTANTS managed, stale, own, alice, admin

MCRule == {managed, stale, own, AdminRule}
MCSection ==
    LET sections == {<<>>, <<own>>, <<stale, own>>, <<AdminRule>>}
    IN  sections \cup {mergeManagedDefaults(s) : s \in sections}
MCMarkerRules == {managed, stale}
MCManagedRules == <<managed>>
MCRoleKeys == {"admin_app", "user_app", "_custom"}
MCPrefixedKeys == {"_default", "_public", "_custom"}
MCUser == {alice, admin, Anonymous}
MCRolesOf ==
    alice :> <<"user_app", "default", "_custom">> @@ admin :> <<"admin_app", "user_app">>
        @@ Anonymous :> <<>>

NoSections == [k \in Keys |-> NoSection]

\* The administrator's own default rules, under the current and the legacy key.
CurrentKeyed == [NoSections EXCEPT !["_default"] = <<stale, own>>]
LegacyKeyed == [NoSections EXCEPT !["default"] = <<own>>, !["user_app"] = <<AdminRule>>,
                                  !["_custom"] = <<AdminRule>>]
\* What another backend writes back for CurrentKeyed.
UpToDate == [NoSections EXCEPT !["_default"] = <<managed, own>>]

MCEditData == {CurrentKeyed, LegacyKeyed, Absent, Invalid}
MCLiveEditData == {CurrentKeyed, UpToDate, Absent, Invalid}
MCBootEditData == {Absent, UpToDate}
=============================================================================
