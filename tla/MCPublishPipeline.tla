-------------------------- MODULE MCPublishPipeline --------------------------
(***************************************************************************)
(* PublishPipeline for TLC.  Workers are interchangeable, and so are       *)
(* attempts of one channel.                                                *)
(***************************************************************************)
EXTENDS PublishPipeline, TLC

Symmetry == Permutations(Workers) \cup Permutations(FacebookAttempts)
=============================================================================
