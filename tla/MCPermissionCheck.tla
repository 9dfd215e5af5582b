------------------------- MODULE MCPermissionCheck -------------------------
(***************************************************************************)
(* Two users with an entity each and two overlapping requests.              *)
(***************************************************************************)
EXTENDS PermissionCheck, TLC

CONSTANTS alice, bob, aliceEntity, bobEntity, r1, r2

MCEntityOf == alice :> aliceEntity @@ bob :> bobEntity
MCCall == Request \X UserId
=============================================================================
