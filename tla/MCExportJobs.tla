---------------------------- MODULE MCExportJobs ----------------------------
(* Small instances of ExportJobs for TLC.                                  *)
EXTENDS ExportJobs, TLC

MCSymmetry == Permutations(Job) \cup Permutations(Worker)
=============================================================================
