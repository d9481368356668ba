--------------------------- MODULE MCMetaDirectSync ---------------------------
(***************************************************************************)
(* MetaDirectSync for TLC.                                                 *)
(***************************************************************************)
EXTENDS MetaDirectSync
=============================================================================
