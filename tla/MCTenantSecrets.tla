-------------------------- MODULE MCTenantSecrets --------------------------
(***************************************************************************)
(* TenantSecrets for TLC.  Editors are interchangeable, and so are the     *)
(* rotators.                                                               *)
(***************************************************************************)
EXTENDS TenantSecrets, TLC

Symmetry == Permutations(Editors) \cup Permutations(Rotators)
=============================================================================
