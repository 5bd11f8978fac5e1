------------------------------ MODULE FileJobs ------------------------------
(***************************************************************************)
(* One file job: a CSV export, a Sheet export or the validation of an      *)
(* import (migration 017, worker/src/device-export.ts, device-import.ts).  *)
(* The API dispatches the job once, with one lease ID.  The Kestra flow    *)
(* repeats a request that failed or got lost, and its error handler asks   *)
(* the worker to fail the job.  So several requests of the same lease may  *)
(* run at once, and only the header, the stamp of the Sheet and the        *)
(* attempt of the import keep them apart.                                  *)
(*                                                                         *)
(* The heartbeat of a run renews the lease and tells the run what its next *)
(* call would tell it, so it is no action: the lease stays alive until it  *)
(* lapses, and a run may quit at any time, because it was fenced, because  *)
(* the worker stops or because it died.                                    *)
(***************************************************************************)
EXTENDS Naturals, FiniteSets

CONSTANTS
  Requests,  \* the requests of the flow of the job
  Batches,   \* batches of lines in a full report of an import
  None       \* no request; as a source, the file that was uploaded

ASSUME ConstantsAssumption ==
  /\ IsFiniteSet(Requests)
  /\ Batches \in Nat \ {0}
  /\ None \notin Requests

VARIABLES
  kind,     \* "csv", "sheet" or "import"
  \* PostgreSQL
  job,      \* the header and the detail row
  source,   \* the stored files that are linked as the source of the import
  lines,    \* the stored batches of the report, each with its attempt
  result,   \* the request whose file or Sheet the job shows
  \* the worker, the artifact store and Google Drive
  run,      \* the requests of the worker
  files,    \* the artifact of each request's export
  sheets    \* the requests that have created a Sheet

dbVars == <<job, source, lines, result>>
vars == <<kind, dbVars, run, files, sheets>>

\* The lease: none yet, alive, lapsed, or lapsed 15 minutes ago; "lost" is also
\* a job that waits for its first claim for 60 minutes.
Leases == {"none", "live", "lapsed", "lost"}
Statuses == {"running", "completed", "failed", "cancelled"}

\* The work of a request, in the order of its calls.
Working == {"read", "work", "staged", "publish", "create"}
NoRun == [pc |-> "none", attempt |-> 0, batch |-> 0, file |-> FALSE,
          failing |-> FALSE]

Attempts == 0 .. Cardinality(Requests)

Header == [status : Statuses, cancel : BOOLEAN, claimed : BOOLEAN,
           lease : Leases, stamped : BOOLEAN, attempt : Attempts]
FileRun == [pc : Working \cup {"none", "finish", "discard", "over"},
            attempt : Attempts, batch : 0 .. Batches, file : BOOLEAN,
            failing : BOOLEAN]

TypeOK ==
  /\ kind \in {"csv", "sheet", "import"}
  /\ job \in Header
  /\ source \subseteq Requests \cup {None}
  /\ lines \subseteq Attempts \X (1 .. Batches)
  /\ result \in Requests \cup {None}
  /\ run \in [Requests -> FileRun]
  /\ files \in [Requests -> {"none", "published", "removed"}]
  /\ sheets \subseteq Requests

\* A job right after its creation.  The source of an import was uploaded, or
\* the worker reads it from Drive.
Init ==
  /\ kind \in {"csv", "sheet", "import"}
  /\ job = [status |-> "running", cancel |-> FALSE, claimed |-> FALSE,
            lease |-> "none", stamped |-> FALSE, attempt |-> 0]
  /\ source \in IF kind = "import" THEN {{}, {None}} ELSE {{}}
  /\ lines = {}
  /\ result = None
  /\ run = [r \in Requests |-> NoRun]
  /\ files = [r \in Requests |-> "none"]
  /\ sheets = {}

Running == job.status = "running"

\* What claims, renewals and stores ask first: if not, they answer "done".
Open == Running /\ ~job.cancel

\* Mutant: any attempt under the lease of the job writes.
OwnsLease(r) == job.lease = "live"

\* The fence of every write of a run.
Owns(r) ==
  job.lease = "live" /\ (kind = "import" => run[r].attempt = job.attempt)

\* A job that ends other than completed keeps no report.
Ends(status) ==
  /\ job' = [job EXCEPT !.status = status]
  /\ lines' = {}
  /\ UNCHANGED <<source, result>>

\* The status of a job that ends without a result.
WithoutResult == IF job.cancel THEN "cancelled" ELSE "failed"

Becomes(r, pc) == run' = [run EXCEPT ![r].pc = pc]

\* The next call of the request is its finish, of a file, a failure or neither.
ToFinish(r, file, failing) ==
  run' = [run EXCEPT ![r] = [@ EXCEPT !.pc = "finish", !.file = file,
                                      !.failing = failing]]

(***************************************************************************)
(* A request arrives and claims the job.                                   *)
(***************************************************************************)

\* The error handler runs after the last try of the task.
MayArrive(r, failing) ==
  /\ run[r].pc = "none"
  /\ ~failing => \A s \in Requests : ~run[s].failing

Arrives(r, attempt, pc, failing) ==
  run' = [run EXCEPT ![r] = [NoRun EXCEPT !.pc = pc, !.attempt = attempt,
                                          !.failing = failing]]

\* The claim answers done: a finish repeats the end, or ends a cancelled job.
ClaimDone(r, failing) ==
  /\ MayArrive(r, failing)
  /\ ~Open
  /\ Arrives(r, job.attempt, "finish", failing)
  /\ UNCHANGED <<kind, dbVars, files, sheets>>

\* Mutant: a repeated request continues the job.
NeverStamped == FALSE

Stamped == job.stamped

\* The Sheet of an earlier run may exist: no second one.
ClaimStamped(r, failing) ==
  /\ MayArrive(r, failing)
  /\ Open /\ Stamped
  /\ Ends("failed")
  /\ Arrives(r, job.attempt, "finish", failing)
  /\ UNCHANGED <<kind, files, sheets>>

\* The first phase of a claimed run.
FirstPhase(failing) ==
  IF failing THEN "finish"
  ELSE IF kind = "import" /\ source = {} THEN "read" ELSE "work"

\* A new attempt of an import starts without the report of the last one.
Claim(r, failing) ==
  LET attempt == IF kind = "import" THEN job.attempt + 1 ELSE job.attempt IN
    /\ MayArrive(r, failing)
    /\ Open /\ ~Stamped
    /\ job' = [job EXCEPT !.lease = "live", !.claimed = TRUE, !.attempt = attempt]
    /\ lines' = {}
    /\ Arrives(r, attempt, FirstPhase(failing), failing)
    /\ UNCHANGED <<kind, source, result, files, sheets>>

(***************************************************************************)
(* The work of a run.                                                      *)
(***************************************************************************)

\* A call of the run meets a cancelled or ended job: the run finishes without
\* a file.  When the call is fenced, the run quits.
SeesDone(r) ==
  /\ run[r].pc \in Working \ {"create"}
  /\ ~Open
  /\ ToFinish(r, FALSE, FALSE)
  /\ UNCHANGED <<kind, dbVars, files, sheets>>

\* A read of the inventory, a store or a Google call fails.
WorkFails(r) ==
  /\ run[r].pc \in Working
  /\ ToFinish(r, FALSE, TRUE)
  /\ UNCHANGED <<kind, dbVars, files, sheets>>

\* Fenced, aborted or dead.
Quit(r) ==
  /\ run[r].pc \in Working \cup {"finish", "discard"}
  /\ Becomes(r, "over")
  /\ UNCHANGED <<kind, dbVars, files, sheets>>

\* The rows of an export are staged.
Stage(r) ==
  /\ kind # "import"
  /\ run[r].pc = "work"
  /\ Open /\ Owns(r)
  /\ Becomes(r, "staged")
  /\ UNCHANGED <<kind, dbVars, files, sheets>>

\* The phase prepare-download of a CSV export.
Prepare(r) ==
  /\ kind = "csv"
  /\ run[r].pc = "staged"
  /\ Open /\ Owns(r)
  /\ Becomes(r, "publish")
  /\ UNCHANGED <<kind, dbVars, files, sheets>>

Publish(r) ==
  /\ run[r].pc = "publish"
  /\ files' = [files EXCEPT ![r] = "published"]
  /\ ToFinish(r, TRUE, FALSE)
  /\ UNCHANGED <<kind, dbVars, sheets>>

\* cc.start_device_export_sheet: the one permission to create the Sheet.
Stamp(r) ==
  /\ kind = "sheet"
  /\ run[r].pc = "staged"
  /\ Running /\ Owns(r) /\ ~Stamped
  /\ ~job.cancel
  /\ job' = [job EXCEPT !.stamped = TRUE]
  /\ Becomes(r, "create")
  /\ UNCHANGED <<kind, source, lines, result, files, sheets>>

\* The cancel came before the stamp.
StampCancelled(r) ==
  /\ kind = "sheet"
  /\ run[r].pc = "staged"
  /\ Running /\ Owns(r) /\ ~Stamped
  /\ job.cancel
  /\ Ends("cancelled")
  /\ ToFinish(r, FALSE, FALSE)
  /\ UNCHANGED <<kind, files, sheets>>

\* spreadsheets.create, and the rows; a failure of the rows is WorkFails after
\* the Sheet exists.
CreateSheet(r) ==
  /\ run[r].pc = "create"
  /\ r \notin sheets
  /\ sheets' = sheets \cup {r}
  /\ UNCHANGED <<kind, dbVars, run, files>>

FillSheet(r) ==
  /\ run[r].pc = "create"
  /\ r \in sheets
  /\ ToFinish(r, TRUE, FALSE)
  /\ UNCHANGED <<kind, dbVars, files, sheets>>

\* cc.store_device_import_source, and its answer, which may get lost.
LinkSource(r) ==
  /\ run[r].pc = "read"
  /\ Open /\ Owns(r)
  /\ source' = source \cup {r}
  /\ Becomes(r, "work") \/ ToFinish(r, FALSE, TRUE)
  /\ UNCHANGED <<kind, job, lines, result, files, sheets>>

\* cc.store_device_import_lines, and its answer, which may get lost.
StoreLines(r) ==
  LET batch == run[r].batch + 1 IN
    /\ kind = "import"
    /\ run[r].pc = "work"
    /\ batch \in 1 .. Batches
    /\ Open /\ Owns(r)
    /\ lines' = lines \cup {<<run[r].attempt, batch>>}
    /\ run' = [run EXCEPT ![r].batch = batch] \/ ToFinish(r, FALSE, TRUE)
    /\ UNCHANGED <<kind, job, source, result, files, sheets>>

\* The phase report, with every line stored.
Report(r) ==
  /\ kind = "import"
  /\ run[r].pc = "work"
  /\ run[r].batch = Batches
  /\ Open /\ Owns(r)
  /\ ToFinish(r, TRUE, FALSE)
  /\ UNCHANGED <<kind, dbVars, files, sheets>>

(***************************************************************************)
(* The finish.                                                             *)
(***************************************************************************)

\* cc.finish_device_export_job and cc.finish_device_import_job.
Finishes(r) ==
  IF ~Running \/ ~Owns(r) THEN UNCHANGED dbVars
  ELSE IF job.cancel \/ run[r].failing THEN Ends(WithoutResult)
  ELSE /\ run[r].file
       /\ job' = [job EXCEPT !.status = "completed"]
       /\ result' = r
       /\ UNCHANGED <<source, lines>>

\* The answer that a finish gives now.
Answered(r) ==
  IF ~Running THEN job.status
  ELSE IF ~Owns(r) THEN "fenced"
  ELSE IF job.cancel \/ run[r].failing THEN WithoutResult
  ELSE "completed"

\* Mutant: the file of a run whose finish failed is removed.
AfterLostRemoves(r) ==
  IF files[r] = "published" THEN Becomes(r, "discard") ELSE Becomes(r, "over")

\* The finish failed, perhaps after it committed: the published file stays.  A
\* validation tries again, with a failure.
AfterLost(r) ==
  IF kind = "import" /\ run[r].file THEN ToFinish(r, FALSE, TRUE)
  ELSE Becomes(r, "over")

\* The answer decides whether the run removes the file that it published.
AfterAnswer(r) ==
  IF files[r] = "published" /\ ~(Answered(r) = "completed" /\ run[r].file)
  THEN Becomes(r, "discard") ELSE Becomes(r, "over")

Finish(r) ==
  /\ run[r].pc = "finish"
  /\ Finishes(r)
  /\ AfterAnswer(r) \/ AfterLost(r)
  /\ UNCHANGED <<kind, files, sheets>>

\* The call fails before it commits.
FinishFails(r) ==
  /\ run[r].pc = "finish"
  /\ AfterLost(r)
  /\ UNCHANGED <<kind, dbVars, files, sheets>>

Discard(r) ==
  /\ run[r].pc = "discard"
  /\ files' = [files EXCEPT ![r] = "removed"]
  /\ Becomes(r, "over")
  /\ UNCHANGED <<kind, dbVars, sheets>>

(***************************************************************************)
(* People, time and the recovery.                                          *)
(***************************************************************************)

\* A stamped Sheet export offers nothing to stop.
Stoppable == ~job.stamped

\* cc.request_job_cancel: a job that was never claimed ends at once.
Cancel ==
  /\ Open /\ Stoppable
  /\ job' = [job EXCEPT !.cancel = TRUE,
               !.status = IF job.claimed THEN @ ELSE "cancelled"]
  /\ UNCHANGED <<kind, source, lines, result, run, files, sheets>>

\* No renewal for 120 seconds, then for 15 minutes; or no claim for an hour.
Lapse ==
  /\ job.lease # "lost"
  /\ job' = [job EXCEPT !.lease = IF @ = "live" THEN "lapsed" ELSE "lost"]
  /\ UNCHANGED <<kind, source, lines, result, run, files, sheets>>

\* Mutant: the recovery hands the job to one more attempt.
RecoverReopens ==
  /\ Running /\ job.lease = "lost"
  /\ job' = [job EXCEPT !.lease = "none", !.attempt = @ + 1]
  /\ UNCHANGED <<kind, source, lines, result, run, files, sheets>>

\* Mutant: the recovery looks only at the lease.
RecoverEnded ==
  /\ job.lease = "lost"
  /\ Ends(WithoutResult)
  /\ UNCHANGED <<kind, run, files, sheets>>

\* Mutant: the recovery looks only at jobs that were claimed.
RecoverClaimed ==
  /\ Running /\ job.claimed /\ job.lease = "lost"
  /\ Ends(WithoutResult)
  /\ UNCHANGED <<kind, run, files, sheets>>

\* cc.recover_device_file_jobs, by the tick of the job service.
Recover ==
  /\ Running /\ job.lease = "lost"
  /\ Ends(WithoutResult)
  /\ UNCHANGED <<kind, run, files, sheets>>

Step(r) ==
  \/ SeesDone(r) \/ WorkFails(r) \/ Quit(r)
  \/ Stage(r) \/ Prepare(r) \/ Publish(r)
  \/ Stamp(r) \/ StampCancelled(r) \/ CreateSheet(r) \/ FillSheet(r)
  \/ LinkSource(r) \/ StoreLines(r) \/ Report(r)
  \/ Finish(r) \/ FinishFails(r) \/ Discard(r)

Next ==
  \/ \E r \in Requests, failing \in BOOLEAN :
       ClaimDone(r, failing) \/ ClaimStamped(r, failing) \/ Claim(r, failing)
  \/ \E r \in Requests : Step(r)
  \/ Cancel \/ Lapse \/ Recover

Spec == Init /\ [][Next]_vars

Idle == \A r \in Requests : run[r].pc \in {"none", "over"}

\* A request has a timeout, time passes when no run renews the lease, and the
\* tick comes again and again.
Fairness ==
  /\ \A r \in Requests : WF_vars(Step(r))
  /\ WF_vars(Idle /\ Lapse)
  /\ WF_vars(Recover)

FairSpec == Spec /\ Fairness

(***************************************************************************)
(* Properties.                                                             *)
(***************************************************************************)

\* However many requests overlap, a job creates at most one Sheet, and a job
\* whose cancel was accepted creates none.
OneSheet ==
  /\ Cardinality(sheets) <= 1
  /\ job.cancel => sheets = {}

\* A completed export has its file: the artifact is there and no run removes
\* it, and the Sheet exists.  Any other job shows none.
FileKept ==
  /\ result # None <=> job.status = "completed"
  /\ result # None /\ kind = "csv" =>
       files[result] = "published" /\ run[result].pc # "discard"
  /\ result # None /\ kind = "sheet" => result \in sheets

\* A completed import shows the whole report of one attempt and nothing of
\* another, a failed or cancelled one shows none, and at most one file becomes
\* the source.
ReportOfOneAttempt ==
  /\ \A l \in lines : l[1] = job.attempt
  /\ kind = "import" /\ job.status = "completed" =>
       lines = {job.attempt} \X (1 .. Batches)
  /\ job.status \in {"failed", "cancelled"} => lines = {}
  /\ Cardinality(source) <= 1

\* Each claim uses up a request, and no run carries an attempt to come.
AttemptsUsed ==
  /\ job.attempt <= Cardinality({r \in Requests : run[r].pc # "none"})
  /\ \A r \in Requests : run[r].attempt <= job.attempt
  /\ job.lease = "live" => job.claimed

\* The stamp stands for the one run that may create, or has created, the Sheet.
StampIsPermission ==
  /\ \A r \in Requests :
       run[r].pc = "create" \/ r \in sheets => job.stamped /\ kind = "sheet"
  /\ \A r, s \in Requests :
       /\ run[r].pc = "create" \/ r \in sheets
       /\ run[s].pc = "create" \/ s \in sheets
       => r = s
  /\ job.stamped => ~job.cancel

\* Only a CSV export publishes, a run that finishes with a file has published it
\* or filled its Sheet, and the run of the shown file does nothing any more.
FileBehindFinish ==
  /\ \A r \in Requests : run[r].pc = "publish" => kind = "csv"
  /\ \A r \in Requests : run[r].pc = "finish" /\ run[r].file =>
       /\ kind = "csv" => files[r] = "published"
       /\ kind = "sheet" => r \in sheets
       /\ kind = "import" => run[r].batch = Batches
  /\ result # None /\ kind # "import" => run[result].pc = "over"

\* The run of the current attempt has stored what it counts, and it is the only
\* one that may still link a source.
ReportInStep ==
  /\ \A r \in Requests :
       kind = "import" /\ Running /\ run[r].attempt = job.attempt
       => {job.attempt} \X (1 .. run[r].batch) \subseteq lines
  /\ \A r, s \in Requests :
       /\ run[r].pc = "read" /\ run[s].pc = "read"
       /\ run[r].attempt = run[s].attempt
       => r = s
  /\ \A r \in Requests :
       run[r].pc = "read" => kind = "import"
                             /\ (run[r].attempt = job.attempt => source = {})
  /\ ~job.claimed => lines = {}

\* The inductive invariant.
FileInv ==
  /\ TypeOK /\ OneSheet /\ FileKept /\ ReportOfOneAttempt
  /\ AttemptsUsed /\ StampIsPermission /\ FileBehindFinish /\ ReportInStep

\* Whatever a late run or a repeated request does, an ended job stays as it is.
EndIsFinal ==
  [][~Running => job'.status = job.status /\ UNCHANGED <<source, lines, result>>]_vars

\* Every job ends, although every request may get lost, die or be fenced.
JobEnds == <>~Running

=============================================================================
