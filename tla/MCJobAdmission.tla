--------------------------- MODULE MCJobAdmission ---------------------------
(***************************************************************************)
(* Instances of JobAdmission for TLC.                                      *)
(***************************************************************************)
EXTENDS JobAdmission, TLC

CONSTANTS update, state, command

\* The status job of an import is the smallest job and waits for the update.
ImportWait == [j \in Jobs |-> IF j = state THEN update ELSE None]

SmallestWaits ==
  [j \in Jobs |-> CASE j = state -> 1 [] j = update -> 2 [] OTHER -> 3]

CallSymmetry == Permutations(Callers)

=============================================================================
