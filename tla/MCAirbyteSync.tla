--------------------------- MODULE MCAirbyteSync ---------------------------
(***************************************************************************)
(* AirbyteSync for TLC.  Workers are interchangeable.                      *)
(***************************************************************************)
EXTENDS AirbyteSync, TLC

Symmetry == Permutations(Workers)
=============================================================================
