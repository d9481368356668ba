--------------------------- MODULE MCReportExports ---------------------------
(***************************************************************************)
(* ReportExports for TLC.                                                  *)
(***************************************************************************)
EXTENDS ReportExports
=============================================================================
