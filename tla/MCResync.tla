------------------------------ MODULE MCResync ------------------------------
(***************************************************************************)
(* Small instances of Resync: the permissions of a user for two kinds of     *)
(* documents are granted or revoked.                                        *)
(***************************************************************************)
EXTENDS Resync

CONSTANTS c1, d1, d2, a, b

Rules == {{a}, {a, b}}
=============================================================================
