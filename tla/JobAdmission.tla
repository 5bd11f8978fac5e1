---------------------------- MODULE JobAdmission ----------------------------
(***************************************************************************)
(* The write jobs of one customer and their single write slot: the queue   *)
(* and its order, the status jobs of an import that wait for its update    *)
(* job, the cancel that reaches them, and the admission hold in PostgreSQL *)
(* (the registry) and Redis (the key), which the job service in the API    *)
(* keeps (api/src/app/jobs/job-service.ts and the cc.* functions of        *)
(* migration 017).                                                         *)
(*                                                                         *)
(* One action is one database transaction, one Redis command or one call   *)
(* of Kestra.  The life of a running job is the subject of DeviceWriteJob; *)
(* here it is claimed, reports backoff, and ends.                          *)
(***************************************************************************)
EXTENDS Naturals, Sequences

CONSTANTS
  Jobs,       \* the write jobs that people may confirm
  WaitFor,    \* the update job that a status job of an import waits for
  Rank,       \* the admission order: target count, creation, display id
  Commands,   \* the jobs that may await devices after their sends
  Callers,    \* the calls of the job service: ticks, events, confirmations
  MaxFaults,  \* bound: the failures of PostgreSQL, Redis, the API process
  None        \* no job

ASSUME AdmissionAssumption ==
  /\ None \notin Jobs
  /\ WaitFor \in [Jobs -> Jobs \cup {None}]
  /\ \A j \in Jobs : WaitFor[j] # None =>
       /\ WaitFor[WaitFor[j]] = None
       /\ WaitFor[j] \notin Commands
  /\ Rank \in [Jobs -> Nat]
  /\ \A i, j \in Jobs : Rank[i] = Rank[j] => i = j
  /\ Commands \subseteq Jobs
  /\ MaxFaults \in Nat

VARIABLES
  \* PostgreSQL
  status,     \* the status of each job
  claimed,    \* a worker has claimed a batch of the job
  requested,  \* the cancel request of each job
  report,     \* a backoff report that is new, recent, and under a live lease
  written,    \* hold registry: hold_written_at
  cleaned,    \* hold registry: hold_cleaned_at
  \* Redis
  key,        \* the owner of the hold key
  \* the job service
  pc,         \* the step of each call
  agenda,     \* what the call does after this step
  target,     \* the job in hand
  heldRead,   \* the hold flag as the admission read it
  todo,       \* the jobs that the cleanup still visits
  faults      \* the failures so far

dbVars == <<status, claimed, requested, report, written, cleaned>>
callVars == <<pc, agenda, target, heldRead, todo>>
vars == <<dbVars, key, callVars, faults>>

Waiting == {"accepted", "queued", "held"}
\* The statuses that keep no write slot.  "ended" stands for the finished ones.
Released == {"awaiting-devices", "ended"}
Status == Waiting \cup Released \cup {"absent", "running"}

\* Where a job is with the write slot of its customer
Place(j) ==
  CASE status[j] \in Waiting \cup {"absent"} -> "waiting"
    [] status[j] = "running" -> "running"
    [] OTHER -> "released"

\* The steps that open one part of a call, and "retry", which marks where a
\* refused start runs cleanup and admission again.
Parts == {"accept", "recover", "cleanup", "read", "retry"}
Steps == Parts \cup {"idle", "write", "release", "clean", "admit", "start",
                    "abandon"}

\* The type invariant.
TypeOK ==
  /\ status \in [Jobs -> Status]
  /\ claimed \subseteq Jobs /\ requested \subseteq Jobs
  /\ report \subseteq Jobs
  /\ written \subseteq Jobs /\ cleaned \subseteq Jobs
  /\ key \in Jobs \cup {None}
  /\ pc \in [Callers -> Steps]
  /\ agenda \in [Callers -> Seq(Parts)]
  /\ target \in [Callers -> Jobs \cup {None}]
  /\ heldRead \in [Callers -> BOOLEAN]
  /\ todo \in [Callers -> SUBSET Jobs]
  /\ faults \in 0 .. MaxFaults

Init ==
  /\ status = [j \in Jobs |-> "absent"]
  /\ claimed = {} /\ requested = {} /\ report = {}
  /\ written = {} /\ cleaned = {}
  /\ key = None
  /\ pc = [c \in Callers |-> "idle"]
  /\ agenda = [c \in Callers |-> <<>>]
  /\ target = [c \in Callers |-> None]
  /\ heldRead = [c \in Callers |-> FALSE]
  /\ todo = [c \in Callers |-> {}]
  /\ faults = 0

-----------------------------------------------------------------------------
(* People, workers and time.                                               *)

WaitingOn(j) == {w \in Jobs : WaitFor[w] = j}

\* A confirmation, or the Execute of an import, which confirms its update job
\* and its status jobs and links them in one transaction.
Confirm(j) ==
  /\ status[j] = "absent" /\ WaitFor[j] = None
  /\ status' = [i \in Jobs |-> IF i \in {j} \cup WaitingOn(j) THEN "accepted"
                               ELSE status[i]]
  /\ UNCHANGED <<claimed, requested, report, written, cleaned, key, callVars,
                 faults>>

\* The first batch claim of a job
JobClaims(j) ==
  /\ status[j] = "running" /\ j \notin claimed
  /\ claimed' = claimed \cup {j}
  /\ UNCHANGED <<status, requested, report, written, cleaned, key, callVars,
                 faults>>

\* report_device_update_backoff: a newer report under a live lease
ReportBackoff(j) ==
  /\ status[j] = "running" /\ j \in claimed /\ j \notin report
  /\ report' = report \cup {j}
  /\ UNCHANGED <<status, claimed, requested, written, cleaned, key, callVars,
                 faults>>

\* 30 s have passed, or the lease of the reporting attempt is over.
ReportLapses(j) ==
  /\ j \in report
  /\ report' = report \ {j}
  /\ UNCHANGED <<status, claimed, requested, written, cleaned, key, callVars,
                 faults>>

\* The run ends, by its finish or by the recovery (DeviceWriteJob).
RunEnds(j) ==
  /\ status[j] = "running"
  /\ status' \in {[status EXCEPT ![j] = "ended"]} \cup
       (IF j \in Commands THEN {[status EXCEPT ![j] = "awaiting-devices"]}
        ELSE {})
  /\ UNCHANGED <<claimed, requested, report, written, cleaned, key, callVars,
                 faults>>

\* The last poll of a command job
DevicesAnswer(j) ==
  /\ status[j] = "awaiting-devices"
  /\ status' = [status EXCEPT ![j] = "ended"]
  /\ UNCHANGED <<claimed, requested, report, written, cleaned, key, callVars,
                 faults>>

\* Mutant: the cancel stops at the job it names.
NoCascade(j) == {}

\* The unfinished status jobs that wait for j take the same request.
Cascade(j) == {w \in WaitingOn(j) : status[w] # "ended"}

\* request_job_cancel.  A job that never claimed ends at once.
Cancel(j) ==
  LET stopped == {i \in {j} \cup Cascade(j) :
                    IF i = j THEN status[j] # "running" \/ j \notin claimed
                    ELSE i \notin claimed}
  IN /\ j \notin requested
     /\ status[j] \in Waiting \cup {"running"}
     /\ requested' = requested \cup {j} \cup Cascade(j)
     /\ status' = [i \in Jobs |-> IF i \in stopped THEN "ended" ELSE status[i]]
     /\ UNCHANGED <<claimed, report, written, cleaned, key, callVars, faults>>

\* The hold lives 300 s after its last write.
KeyExpires ==
  /\ key # None
  /\ key' = None
  /\ UNCHANGED <<dbVars, callVars, faults>>

-----------------------------------------------------------------------------
(* The calls of the job service.  One lock serializes them: a call holds it *)
(* from its first step to its last.                                         *)

\* Mutant: nothing serializes the calls.
NoLock == TRUE

LockFree == \A c \in Callers : pc[c] = "idle"

\* The call c goes on with rest.
GoOn(c, rest) ==
  LET next == IF rest # <<>> /\ Head(rest) = "retry" THEN Tail(rest) ELSE rest
  IN /\ pc' = [pc EXCEPT ![c] = IF next = <<>> THEN "idle" ELSE Head(next)]
     /\ agenda' = [agenda EXCEPT ![c] = IF next = <<>> THEN <<>> ELSE Tail(next)]
     /\ target' = [target EXCEPT ![c] = None]
     /\ heldRead' = [heldRead EXCEPT ![c] = FALSE]
     /\ todo' = [todo EXCEPT ![c] = {}]

\* A part of the call goes on with step s and the job j in hand.
Step(c, s, j) ==
  /\ pc' = [pc EXCEPT ![c] = s]
  /\ target' = [target EXCEPT ![c] = j]

Begin(c, plan) ==
  /\ pc[c] = "idle" /\ LockFree
  /\ GoOn(c, plan)
  /\ UNCHANGED <<dbVars, key, faults>>

\* tick, every five seconds
Tick(c) == Begin(c, <<"accept", "recover", "cleanup", "read", "retry">>)

\* changed, after the event of a job that released the write slot
Changed(c) ==
  /\ \E j \in Jobs : status[j] \in Released
  /\ Begin(c, <<"cleanup", "read">>)

\* admit, after a confirmation
AdmitAfterConfirm(c) == Begin(c, <<"read">>)

\* Mutant: the transaction that accepts a report makes no registry entry.
NotRegistered(j) == written

\* The registry entry of a hold, before its key is written
Registered(j) == written \cup {j}

\* accept_device_update_hold, on a new and recent report of the running job
AcceptHold(c) ==
  LET held == {j \in report : status[j] = "running"}
  IN /\ pc[c] = "accept"
     /\ IF held = {} THEN GoOn(c, agenda[c]) /\ UNCHANGED dbVars
        ELSE \E j \in held :
               /\ report' = report \ {j}
               /\ written' = Registered(j)
               /\ Step(c, "write", j)
               /\ UNCHANGED <<status, claimed, requested, cleaned, agenda,
                              heldRead, todo>>
     /\ UNCHANGED <<key, faults>>

\* The rest of applyHoldLocked.  After more than 5 s the write is left out.
WriteHold(c) ==
  /\ pc[c] = "write"
  /\ key' \in {key, target[c]}
  /\ GoOn(c, <<"read", "retry">> \o agenda[c])
  /\ UNCHANGED <<dbVars, faults>>

\* The hold key of admitLocked: any owner holds the queue.
ReadHold(c) ==
  /\ pc[c] = "read"
  /\ pc' = [pc EXCEPT ![c] = "admit"]
  /\ heldRead' = [heldRead EXCEPT ![c] = key # None]
  /\ UNCHANGED <<dbVars, key, agenda, target, todo, faults>>

\* Mutant: an admission does not look for a running job.
NobodyRuns == FALSE

SomebodyRuns == \E j \in Jobs : status[j] = "running"

\* Mutant: the wait knows one label of the queue only.
AwaitsQueued(j) == WaitFor[j] # None /\ status[WaitFor[j]] = "queued"

\* The update job of the import has not finished.
Awaits(j) == WaitFor[j] # None /\ status[WaitFor[j]] # "ended"

\* Mutant: an admission forgets the jobs that a hold has labelled.
CandidatesNotHeld == {j \in Jobs : status[j] \in Waiting \ {"held"}}

Candidates == {j \in Jobs : status[j] \in Waiting}
Eligible == {j \in Candidates : ~Awaits(j)}
First(S) == CHOOSE j \in S : \A i \in S : Rank[j] <= Rank[i]

\* admit_device_update_job: the labels of the queue, and at most one admission.
AdmitJob(c) ==
  /\ pc[c] = "admit"
  /\ IF SomebodyRuns \/ heldRead[c] \/ Eligible = {}
     THEN /\ status' = [j \in Jobs |->
               IF j \in Eligible THEN IF heldRead[c] THEN "held" ELSE "queued"
               ELSE IF j \in Candidates THEN "queued"
               ELSE status[j]]
          /\ GoOn(c, agenda[c])
     ELSE /\ status' = [j \in Jobs |->
               IF j = First(Eligible) THEN "running"
               ELSE IF j \in Candidates THEN "queued"
               ELSE status[j]]
          /\ Step(c, "start", First(Eligible))
          /\ heldRead' = [heldRead EXCEPT ![c] = FALSE]
          /\ UNCHANGED <<agenda, todo>>
  /\ UNCHANGED <<claimed, requested, report, written, cleaned, key, faults>>

\* startLocked: Kestra takes the execution, or its answer says nothing, or it
\* refuses the execution with a 4xx answer.
StartJob(c) ==
  /\ pc[c] = "start"
  /\ \/ GoOn(c, agenda[c])
     \/ Step(c, "abandon", target[c]) /\ UNCHANGED <<agenda, heldRead, todo>>
  /\ UNCHANGED <<dbVars, key, faults>>

\* Mutant: a refused job waits for another chance.
Requeued(j) ==
  IF status[j] = "running" /\ j \notin claimed
  THEN [status EXCEPT ![j] = "queued"] ELSE status

\* abandon_device_update_start
Abandoned(j) ==
  IF status[j] = "running" /\ j \notin claimed
  THEN [status EXCEPT ![j] = "ended"] ELSE status

\* A refused start, and the retry after it
AbandonStart(c) ==
  /\ pc[c] = "abandon"
  /\ status' = Abandoned(target[c])
  /\ GoOn(c, IF agenda[c] # <<>> /\ Head(agenda[c]) = "retry"
             THEN <<"cleanup", "read">> \o Tail(agenda[c])
             ELSE agenda[c])
  /\ UNCHANGED <<claimed, requested, report, written, cleaned, key, faults>>

\* recoverLocked.  What the recovery writes to a running job belongs to its run
\* (RunEnds).  A lost start, or a lost runner, starts again; one customer has
\* one running job.
RecoverJobs(c) ==
  /\ pc[c] = "recover"
  /\ \/ GoOn(c, agenda[c])
     \/ GoOn(c, <<"cleanup", "read">> \o agenda[c])
     \/ \E j \in Jobs :
          /\ status[j] = "running"
          /\ Step(c, "start", j)
          /\ agenda' = [agenda EXCEPT ![c] = <<"cleanup", "read">> \o @]
          /\ UNCHANGED <<heldRead, todo>>
  /\ UNCHANGED <<dbVars, key, faults>>

\* Mutant: the cleanup does not visit a cancelled job.
UncleanedNotCancelled ==
  {j \in written \ cleaned : status[j] \in Released /\ j \notin requested}

Uncleaned == {j \in written \ cleaned : status[j] \in Released}

\* The selection of cleanupLocked
Cleanup(c) ==
  /\ pc[c] = "cleanup"
  /\ IF Uncleaned = {} THEN GoOn(c, agenda[c])
     ELSE /\ pc' = [pc EXCEPT ![c] = "release"]
          /\ todo' = [todo EXCEPT ![c] = Uncleaned]
          /\ UNCHANGED <<agenda, target, heldRead>>
  /\ UNCHANGED <<dbVars, key, faults>>

\* The compare-and-delete script
ReleaseHold(c) ==
  /\ pc[c] = "release"
  /\ \E j \in todo[c] :
       /\ key' = IF key = j THEN None ELSE key
       /\ Step(c, "clean", j)
       /\ todo' = [todo EXCEPT ![c] = @ \ {j}]
  /\ UNCHANGED <<dbVars, agenda, heldRead, faults>>

\* The cleanup goes on with its next job, or the call with its next part.
NextCleanup(c, rest) ==
  IF rest = {} THEN GoOn(c, agenda[c])
  ELSE /\ Step(c, "release", None)
       /\ todo' = [todo EXCEPT ![c] = rest]
       /\ UNCHANGED <<agenda, heldRead>>

\* clean_device_update_hold
CleanHold(c) ==
  /\ pc[c] = "clean"
  /\ cleaned' = IF /\ status[target[c]] \in Released
                   /\ target[c] \in written
                THEN cleaned \cup {target[c]} ELSE cleaned
  /\ NextCleanup(c, todo[c])
  /\ UNCHANGED <<status, claimed, requested, report, written, key, faults>>

-----------------------------------------------------------------------------
(* Failures.                                                               *)

Fault == faults < MaxFaults /\ faults' = faults + 1

\* A statement fails, or its answer is lost after the commit: the call drops the
\* part it is in, and goes on with a later part.  A call outside the tick, and
\* every call of a process that dies, drops all.
PartFails(c) ==
  /\ pc[c] # "idle" /\ Fault
  /\ \E n \in 0 .. Len(agenda[c]) : GoOn(c, SubSeq(agenda[c], n + 1, Len(agenda[c])))
  /\ UNCHANGED <<dbVars, key>>

\* A Redis error counts as held.
ReadHoldFails(c) ==
  /\ pc[c] = "read" /\ Fault
  /\ pc' = [pc EXCEPT ![c] = "admit"]
  /\ heldRead' = [heldRead EXCEPT ![c] = TRUE]
  /\ UNCHANGED <<dbVars, key, agenda, target, todo>>

\* Mutant: the registry forgets a job whose key could not be deleted.
CleanAnyway(c, j) ==
  /\ cleaned' = cleaned \cup {j}
  /\ NextCleanup(c, todo[c] \ {j})

\* A Redis error keeps the registry entry for the next run.
KeepEntry(c, j) ==
  /\ NextCleanup(c, todo[c] \ {j})
  /\ UNCHANGED cleaned

\* The script did not run, or only its answer was lost.
ReleaseHoldFails(c) ==
  /\ pc[c] = "release" /\ Fault
  /\ \E j \in todo[c] :
       /\ key' \in {key, IF key = j THEN None ELSE key}
       /\ KeepEntry(c, j)
  /\ UNCHANGED <<status, claimed, requested, report, written>>

-----------------------------------------------------------------------------
Call(c) ==
  \/ AcceptHold(c) \/ WriteHold(c) \/ ReadHold(c) \/ AdmitJob(c)
  \/ StartJob(c) \/ AbandonStart(c) \/ RecoverJobs(c)
  \/ Cleanup(c) \/ ReleaseHold(c) \/ CleanHold(c)

Fail(c) == PartFails(c) \/ ReadHoldFails(c) \/ ReleaseHoldFails(c)

Job(j) ==
  \/ Confirm(j) \/ JobClaims(j) \/ ReportBackoff(j) \/ ReportLapses(j)
  \/ RunEnds(j) \/ DevicesAnswer(j) \/ Cancel(j)

Next ==
  \/ \E j \in Jobs : Job(j)
  \/ \E c \in Callers :
       Tick(c) \/ Changed(c) \/ AdmitAfterConfirm(c) \/ Call(c) \/ Fail(c)
  \/ KeyExpires

Spec == Init /\ [][Next]_vars

\* The lock is first come, first served, and a tick asks for it every five
\* seconds; each statement of a call ends; a running job ends, which is
\* the liveness of WriteContract.  The expiry of the key is not needed.
Fairness ==
  /\ SF_vars(\E c \in Callers : Tick(c))
  /\ \A c \in Callers : WF_vars(Call(c))
  /\ \A j \in Jobs : WF_vars(RunEnds(j))

FairSpec == Spec /\ Fairness

-----------------------------------------------------------------------------
(* Safety                                                                  *)

\* One write job runs at a time.
OneWriter ==
  \A i, j \in Jobs : status[i] = "running" /\ status[j] = "running" => i = j

\* A status job of an import runs only after the update job of the import has
\* finished, cancelled included.
WaitRespected ==
  \A j \in Jobs :
    WaitFor[j] # None /\ status[j] \in {"running", "awaiting-devices"}
      => status[WaitFor[j]] = "ended"

\* The cancel of the update job of an import ends the status jobs that wait for
\* it, and none of them ever reaches a device.
CancelReachesWaiting ==
  \A j \in Jobs :
    WaitFor[j] # None /\ WaitFor[j] \in requested
      => status[j] = "ended" /\ j \notin claimed

\* Whoever owns the hold key has a registry entry that the cleanup will visit:
\* no failure of a write, a release or a process leaves a hold without it.
HoldIsRegistered == key # None => key \in written \ cleaned

\* No job starts under a hold: an admission and a hold write never overlap.
NoStartUnderHold ==
  [][\A j \in Jobs : status[j] \in Waiting /\ status'[j] = "running"
       => key = None]_vars

\* A job passes the write slot once: it takes it from the queue, lets it go, and
\* never comes back, whatever is cancelled, refused, started again or relabelled.
\* This is what JobAdmission does of WriteContract.
PassesSlotOnce ==
  [][\A j \in Jobs :
       Place(j)' # Place(j) =>
         <<Place(j), Place(j)'>> \in
            {<<"waiting", "running">>, <<"running", "released">>,
             <<"waiting", "released">>}]_vars

-----------------------------------------------------------------------------
(* The inductive invariant of the admission                                *)

\* The lock: at most one call is under way, and it has a job in hand where its
\* step needs one.
OneHolder ==
  \A c, d \in Callers : pc[c] # "idle" /\ pc[d] # "idle" => c = d

JobInHand ==
  \A c \in Callers :
    pc[c] \in {"write", "clean", "start", "abandon"} => target[c] \in Jobs

\* An import's jobs are confirmed together, and a job that never ran was never
\* claimed.
PlanTogether ==
  \A j \in Jobs :
    /\ WaitFor[j] # None =>
         (status[j] = "absent" <=> status[WaitFor[j]] = "absent")
    /\ status[j] \in Waiting \cup {"absent"} => j \notin claimed
    /\ status[j] = "absent" => j \notin requested

\* A status job is not even claimed before the update job has finished.
NeverAhead ==
  \A j \in Jobs :
    WaitFor[j] # None /\ status[WaitFor[j]] # "ended" => j \notin claimed

\* Only a released job is clean.
CleanIsReleased == \A j \in cleaned : status[j] \in Released

\* The job whose key is about to be written has its entry, and the job that is
\* about to be clean owns the key no longer.
RegistryInStep ==
  \A c \in Callers :
    /\ pc[c] = "write" => target[c] \in written \ cleaned
    /\ pc[c] = "clean" => key # target[c]

\* The hold flag is still right when the admission uses it.
FlagIsCurrent ==
  \A c \in Callers : pc[c] = "admit" /\ ~heldRead[c] => key = None

AdmissionInv ==
  /\ TypeOK /\ OneHolder /\ JobInHand
  /\ PlanTogether /\ NeverAhead
  /\ OneWriter /\ WaitRespected /\ CancelReachesWaiting
  /\ HoldIsRegistered /\ CleanIsReleased /\ RegistryInStep /\ FlagIsCurrent

-----------------------------------------------------------------------------
(* Liveness                                                                *)

\* A hold does not outlive its job until it expires: the cleanup deletes it.
HoldIsReleased ==
  \A j \in Jobs : key = j /\ status[j] \in Released ~> key # j

\* Every confirmed job leaves the queue, whatever the holds, the waits, the
\* refused starts and the failures before it.
QueueMoves ==
  \A j \in Jobs : status[j] \in Waiting ~> status[j] \notin Waiting

=============================================================================
