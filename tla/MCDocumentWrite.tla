--------------------------- MODULE MCDocumentWrite ---------------------------
(***************************************************************************)
(* Small instances of DocumentWrite.  The author may do everything with own*)
(* documents and change the text of shared ones.  The reviewer may do      *)
(* everything with shared documents and nothing with own ones.  Each can   *)
(* turn what they may change into the other kind between another request's *)
(* check and its write.                                                    *)
(***************************************************************************)
EXTENDS DocumentWrite, TLC

CONSTANTS q1, q2, author, reviewer, own, shared, text

MCCreate == author :> {own} @@ reviewer :> {shared}
MCUpdate == author :> {own, shared} @@ reviewer :> {shared}
MCDelete == author :> {own} @@ reviewer :> {shared}
MCTextOnly == author :> {shared} @@ reviewer :> {}

Slots == Permutations({q1, q2})
=============================================================================
