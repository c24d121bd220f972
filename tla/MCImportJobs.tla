---------------------------- MODULE MCImportJobs ---------------------------
(* Small instances of ImportJobs for TLC. *)
EXTENDS ImportJobs

CONSTANTS j1, j2, t1, t2

=============================================================================
