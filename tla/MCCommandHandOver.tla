------------------------- MODULE MCCommandHandOver -------------------------
(***************************************************************************)
(* An instance of CommandHandOver for TLC.                                 *)
(***************************************************************************)
EXTENDS CommandHandOver

\* All operations in one batch.
OneBatch == [o \in Operations |-> CHOOSE b \in Batches : TRUE]

=============================================================================
