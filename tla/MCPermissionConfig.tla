------------------------- MODULE MCPermissionConfig -------------------------
(***************************************************************************)
(* All configurations with default sections of up to two rules.             *)
(***************************************************************************)
EXTENDS PermissionWriteBack, TLC

CONSTANTS managed, stale, own, other, alice, bob

MCRule == {managed, stale, own, other, AdminRule}
MCMarkerRules == {managed, stale}
MCManagedRules == <<managed>>
MCRoleKeys == {"admin_app", "user_app", "_custom"}
MCPrefixedKeys == {"_default", "_public", "_custom"}
MCUser == {alice, bob, Anonymous}
\* All roles of bob are names that do not count.
MCRolesOf ==
    alice :> <<"user_app">> @@ bob :> <<"_public", "default", "_default", "_custom">>
        @@ Anonymous :> <<>>

SmallSections ==
    {<<>>, <<AdminRule>>}
        \cup UNION {[1 .. n -> {managed, stale, own, other}] : n \in 1 .. 2}
MCSection == SmallSections \cup {mergeManagedDefaults(s) : s \in SmallSections}

MCContents ==
    {[k \in Keys |->
        CASE k = "_default" -> d [] k = "default" -> l
          [] k = "_public" -> p  [] k = "public" -> q
          [] k \in {"user_app", "_custom"} -> <<AdminRule>>
          [] OTHER -> NoSection] :
     d \in SmallSections \cup {NoSection}, l \in SmallSections \cup {NoSection},
     p \in {NoSection, <<own>>, <<other>>}, q \in {NoSection, <<own>>, <<other>>}}
=============================================================================
