-------------------------- MODULE MCGoogleAdsEngine --------------------------
(***************************************************************************)
(* GoogleAdsEngine for TLC.  Workers are interchangeable.                  *)
(***************************************************************************)
EXTENDS GoogleAdsEngine, TLC

Symmetry == Permutations(Workers)
=============================================================================
