------------------------ MODULE MCReportExports ------------------------
(* Small instances of ReportExports for TLC. *)
EXTENDS ReportExports, TLC
=============================================================================
