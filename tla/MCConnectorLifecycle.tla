------------------------ MODULE MCConnectorLifecycle ------------------------
(***************************************************************************)
(* ConnectorLifecycle for TLC.  Requests are interchangeable.              *)
(***************************************************************************)
EXTENDS ConnectorLifecycle, TLC

Symmetry == Permutations(Requests)
=============================================================================
