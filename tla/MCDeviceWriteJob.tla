-------------------------- MODULE MCDeviceWriteJob --------------------------
(***************************************************************************)
(* Instances of DeviceWriteJob for TLC.                                    *)
(***************************************************************************)
EXTENDS DeviceWriteJob, TLC

\* All operations in one batch.
OneBatch == [o \in Operations |-> CHOOSE b \in Batches : TRUE]

\* The requests of one kind are alike, and so are the operations of a batch.
Symmetry ==
  Permutations(Attempts) \cup Permutations(Reconcilers)
    \cup Permutations(Operations)

=============================================================================
