---------------------------- MODULE MCWriteJobs ----------------------------
(***************************************************************************)
(* An instance of WriteJobs for TLC: the two jobs of an import and a       *)
(* command job.                                                            *)
(***************************************************************************)
EXTENDS WriteJobs

CONSTANTS update, state, command

\* The status job of an import is the smallest job and waits for the update.
ImportWait == [j \in Jobs |-> IF j = state THEN update ELSE None]
SmallestWaits ==
  [j \in Jobs |-> IF j = state THEN 1 ELSE IF j = update THEN 2 ELSE 3]

\* No Google quota is reported, so no hold delays an admission.
WithoutHolds == JobsInit /\ [][JobsNext /\ report' = {}]_jobsVars

\* The properties see of an operation whether it is open and whether Google was
\* asked for it.  Which result it has, and whether Google has carried it out,
\* decides no later step that they could see.
View ==
  <<vars, [j \in Jobs |-> [o \in Operations |->
             <<known[j][o] = "open", world[j][o] = "untouched">>]]>>

=============================================================================
