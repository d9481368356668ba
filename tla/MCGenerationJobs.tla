------------------------- MODULE MCGenerationJobs -------------------------
(***************************************************************************)
(* GenerationJobs for TLC.  Workers are interchangeable, and so are users. *)
(***************************************************************************)
EXTENDS GenerationJobs, TLC

Symmetry == Permutations(Workers) \cup Permutations(Users)
=============================================================================
