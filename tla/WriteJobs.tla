----------------------------- MODULE WriteJobs -----------------------------
(***************************************************************************)
(* The write jobs of one customer and what they do at Google: the job      *)
(* service of JobAdmission decides when a job has the write slot, and each *)
(* job keeps its side of WriteContract, which DeviceWriteJob implements.   *)
(* A step of the job service that moves a job into the slot or out of it   *)
(* is a step of the contract of that job, too; between two such steps the  *)
(* job asks Google and reports as its contract allows.                     *)
(***************************************************************************)
EXTENDS JobAdmission

CONSTANT
  Operations  \* the operations of each job

VARIABLES
  known,  \* what each job reports of each of its operations
  world   \* what became of each operation of each job at Google

jobsVars == <<vars, known, world>>

\* Which jobs are updates matters to no property here, so each job that reads back
\* may fail an operation as an update does.
Contract(j) == INSTANCE WriteContract WITH
  slot <- Place(j), known <- known[j], world <- world[j],
  ReadsBack <- j \notin Commands, NamesValues <- j \notin Commands

Known == {"open", "done", "failed", "unknown", "dropped"}
World == {"untouched", "asked", "done"}

\* The type invariant.
JobsTypeOK ==
  /\ TypeOK
  /\ known \in [Jobs -> [Operations -> Known]]
  /\ world \in [Jobs -> [Operations -> World]]

JobsInit ==
  /\ Init
  /\ known = [j \in Jobs |-> [o \in Operations |-> "open"]]
  /\ world = [j \in Jobs |-> [o \in Operations |-> "untouched"]]

\* What the jobs may report when the job service moves
KnownNext ==
  IF \A j \in Jobs : Place(j)' = Place(j) THEN {known}
  ELSE [Jobs -> [Operations -> Known]]

\* A step of JobAdmission.  A job that it moves takes the slot, gives its place up
\* or lets the slot go, and decides its operations as the contract demands.
ServiceStep ==
  /\ Next
  /\ UNCHANGED world
  /\ known' \in KnownNext
  /\ \A j \in Jobs :
       IF Place(j)' = Place(j) THEN known'[j] = known[j] ELSE Contract(j)!Next

Touched(j) == \E o \in Operations : world[j][o] # "untouched"
Undecided(j) == \E o \in Operations : known[j][o] = "open"

\* The job asks Google under a claim of a batch (AskedUnderClaim of DeviceWriteJob),
\* Google carries out, or the job reports, by a read-back also after its end.
JobWorks(j) ==
  /\ UNCHANGED vars
  /\ known' \in {[known EXCEPT ![j] = k] : k \in [Operations -> Known]}
  /\ world' \in {[world EXCEPT ![j] = w] : w \in [Operations -> World]}
  /\ Contract(j)!Next
  /\ Touched(j)' => Touched(j) \/ j \in claimed

JobsNext == ServiceStep \/ \E j \in Jobs : JobWorks(j)

JobsSpec == JobsInit /\ [][JobsNext]_jobsVars

-----------------------------------------------------------------------------
(* Safety                                                                  *)

\* A job asks Google for its first operation only after every job that asked
\* before it has decided all of its operations: no two jobs of a customer ever
\* have writes under way together.
OneUnsettled ==
  \A i, j \in Jobs :
    /\ Touched(i) /\ Undecided(i)
    /\ Touched(j) /\ Undecided(j)
    => i = j

\* The status job of an import reaches no device before each operation of the
\* update job has its result.
ImportInOrder ==
  \A j \in Jobs : WaitFor[j] # None /\ Touched(j) => ~Undecided(WaitFor[j])

\* The cancel of the update job of an import keeps its status jobs from every
\* device, for good.
CancelledImportIsQuiet ==
  \A j \in Jobs :
    WaitFor[j] # None /\ WaitFor[j] \in requested => ~Touched(j)

-----------------------------------------------------------------------------
(* The inductive invariant of the jobs together                            *)

\* A job that has let its place go has decided every operation.
ReleasedIsDecided == \A j \in Jobs : Place(j) = "released" => ~Undecided(j)

\* Only a claimed job has asked Google.
TouchedIsClaimed == \A j \in Jobs : Touched(j) => j \in claimed

JobsTogetherInv ==
  AdmissionInv /\ JobsTypeOK /\ ReleasedIsDecided /\ TouchedIsClaimed

=============================================================================
