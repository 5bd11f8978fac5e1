----------------------------- MODULE MCJobNews -----------------------------
(***************************************************************************)
(* The instance of JobNews for TLC.                                        *)
(***************************************************************************)
EXTENDS JobNews

CONSTANT caller  \* a call of the service or a request of the worker

=============================================================================
