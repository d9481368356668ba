-------------------------- MODULE MCContentWorkflow --------------------------
(***************************************************************************)
(* ContentWorkflow for TLC.  Rows of a kind and requests are               *)
(* interchangeable.                                                        *)
(***************************************************************************)
EXTENDS ContentWorkflow, TLC

Symmetry ==
  Permutations(Requests) \cup Permutations(Approvals) \cup Permutations(Schedules)
=============================================================================
