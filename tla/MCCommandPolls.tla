--------------------------- MODULE MCCommandPolls ---------------------------
(***************************************************************************)
(* The instance of CommandPolls for TLC; no symmetry, for the liveness.    *)
(***************************************************************************)
EXTENDS CommandPolls

=============================================================================
