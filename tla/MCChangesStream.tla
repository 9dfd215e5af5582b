--------------------------- MODULE MCChangesStream ---------------------------
(***************************************************************************)
(* Small instances of ChangesStream: documents that replicate and one that  *)
(* does not.                                                                *)
(***************************************************************************)
EXTENDS ChangesStream

CONSTANTS d1, d2, design
=============================================================================
