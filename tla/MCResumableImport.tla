------------------------- MODULE MCResumableImport -------------------------
(* A file of a whole chunk and a short one, two uploads and four requests of them, one late   *)
(* answer, one crash of the API and one failure while finalising; then two *)
(* connections and two PATCH /status requests in two API processes.        *)
EXTENDS ResumableImport, TLC

MCUpload == 1..2
MCPatch == 1..4
MCSymmetry == Permutations(Process) \cup Permutations(Watcher) \cup Permutations(Edit)
=============================================================================
