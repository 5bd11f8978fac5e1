---------------------------- MODULE MCFileJobs ----------------------------
(***************************************************************************)
(* The instance of FileJobs for TLC.                                       *)
(***************************************************************************)
EXTENDS FileJobs

CONSTANTS r1, r2, r3

=============================================================================
