--------------------------- MODULE DeviceWriteJob ---------------------------
(***************************************************************************)
(* One Google device write job, from its admission to its end: the header, *)
(* its operations and batch leases in PostgreSQL (the cc.* functions of    *)
(* migration 017), the worker requests that send the operations to Google  *)
(* (worker/src/device-update.ts), the finish and reconcile requests, the   *)
(* tick that recovers a lost start or a lost runner, and a cancel.         *)
(*                                                                         *)
(* One action is one database transaction together with the worker's       *)
(* reaction to its answer, one exchange with Google, or one passage of     *)
(* time.  A request starts with its first transaction, under any token that *)
(* the tick has issued.  An answer that never reaches the worker is Quit:  *)
(* the request ends and the committed state stays.                         *)
(***************************************************************************)
EXTENDS Naturals, FiniteSets

CONSTANTS
  Operations,     \* the frozen targets of the job, one operation each
  Batches,        \* the batch numbers
  BatchOf,        \* the batch of each operation
  Attempts,       \* the batch requests; each draws a fresh attempt id
  Finishers,      \* the finish requests; each reads back under its own id
  Reconcilers,    \* the reconcile requests, of a person or of the reaper
  Kind,           \* what the job writes
  MaxExecutions,  \* the Kestra executions of one job; 3 in the code
  GoogleLag,      \* TRUE: Google may still apply a request long after the
                  \* worker gave up on it.  FALSE: it applies or drops the
                  \* request within the grace and the read-back delay
  None            \* no attempt, no owner

ASSUME ConstantsAssumption ==
  /\ BatchOf \in [Operations -> Batches]
  /\ Kind \in {"device-update", "device-status", "device-command"}
  /\ MaxExecutions \in Nat \ {0}
  /\ GoogleLag \in BOOLEAN
  /\ None \notin Attempts \cup Finishers \cup Reconcilers
  /\ None \notin Batches
  /\ Attempts \cap Finishers = {}
  /\ Attempts \cap Reconcilers = {}
  /\ Finishers \cap Reconcilers = {}

VARIABLES
  \* PostgreSQL
  job,      \* the header and detail row of the job
  op,       \* the operation rows
  tally,    \* the header counters, as the sets of operations they count
  owner,    \* the attempt of each batch row
  lease,    \* the lease of each batch row
  \* the requests that run in the worker
  pc,       \* the step of each request
  reqToken, \* the dispatch token a batch or finish request carries
  reqBatch, \* the batch of a batch request
  track,    \* what a batch request knows of each operation it claimed
  drained,  \* the batch requests whose renewal read a cancel request
  hold,     \* what a request read back of each operation it holds
  \* Google, and what was asked of it
  wire,     \* the requests <<attempt, operation>> on their way to Google
  applied,  \* the operations that Google carried out
  sentBy    \* history: the attempts that ever sent the operation

jobVars == <<job, op, tally, owner, lease>>
workerVars == <<pc, reqToken, reqBatch, track, drained, hold>>
googleVars == <<wire, applied, sentBy>>
vars == <<jobVars, workerVars, googleVars>>

Verifiers == Attempts \cup Finishers \cup Reconcilers
Tokens == 0 .. MaxExecutions

Waiting == {"accepted", "queued", "held"}
Ended == {"completed", "completed-with-errors", "failed", "needs-review",
          "cancelled"}
JobStatus == Waiting \cup Ended \cup {"running", "awaiting-devices"}

\* The counters of the header.  'expired' only comes from a command poll.
Counted == {"succeeded", "failed", "unknown", "skipped", "expired",
            "cancelled"}
OpStatus == Counted \cup {"pending", "dispatched", "issued"}

Leases == {"none", "live", "grace", "lapsed"}

Tracks == {"none", "unsent", "sent", "resent", "waiting", "rewaiting",
           "accepted", "refused", "differs", "rediffers", "unclear", "settled"}
Failing == {"refused", "differs", "rediffers"}
Answered == {"accepted", "unclear"} \cup Failing
InFlight == {"sent", "resent"}

Holds == {"none", "held", "matches", "differs"}

PCs == {"idle", "sending", "settling", "reading", "verifying", "finishing",
        "ended"}

Headers == [status : JobStatus, finished : BOOLEAN, failure : BOOLEAN,
            cancelRequested : BOOLEAN, token : Tokens, claimed : BOOLEAN,
            startDue : BOOLEAN, stale : BOOLEAN]

Row == [status : OpStatus, attempt : Attempts \cup {None},
        verifier : Verifiers \cup {None}, verifyLive : BOOLEAN,
        verifyWait : BOOLEAN]

Rows == [Operations -> Row]

\* The type invariant.
TypeOK ==
  /\ job \in Headers
  /\ op \in Rows
  /\ tally \in [Counted -> SUBSET Operations]
  /\ owner \in [Batches -> Attempts \cup {None}]
  /\ lease \in [Batches -> Leases]
  /\ pc \in [Verifiers -> PCs]
  /\ reqToken \in [Attempts \cup Finishers -> Tokens]
  /\ reqBatch \in [Attempts -> Batches \cup {None}]
  /\ track \in [Attempts -> [Operations -> Tracks]]
  /\ drained \subseteq Attempts
  /\ hold \in [Verifiers -> [Operations -> Holds]]
  /\ wire \subseteq Attempts \X Operations
  /\ applied \subseteq Operations
  /\ sentBy \in [Operations -> SUBSET Attempts]

-----------------------------------------------------------------------------
(* Helpers: the functions of the schema that the handlers share.           *)

OpsWith(rows, s) == {o \in Operations : rows[o].status = s}

\* Mutant: the counter of the operations in review is left as it was.
RefreshForgetsUnknown(rows) ==
  [s \in Counted |-> IF s = "unknown" THEN tally[s] ELSE OpsWith(rows, s)]

\* refresh_device_update_counters
Refresh(rows) == [s \in Counted |-> OpsWith(rows, s)]

\* device_update_terminal_status: it reads only the counters, in this order.
TerminalStatus(t) ==
  IF t["cancelled"] # {} THEN "cancelled"
  ELSE IF t["unknown"] # {} THEN "needs-review"
  ELSE IF t["succeeded"] = Operations THEN "completed"
  ELSE IF /\ t["succeeded"] # {}
          /\ t["failed"] \cup t["expired"] \cup t["skipped"] # {}
       THEN "completed-with-errors"
  ELSE "failed"

\* fence_device_update_operations: a lost dispatch becomes unknown, and a
\* claiming attempt v holds its read-back at once.
Fence(rows, S, v) ==
  [o \in Operations |->
     IF o \in S
     THEN [rows[o] EXCEPT !.status = "unknown", !.verifier = v,
                          !.verifyLive = (v # None), !.verifyWait = FALSE]
     ELSE rows[o]]

\* skip_device_update_pending: cancelled under a cancel request.
SkipPending(rows, requested) ==
  [o \in Operations |->
     IF rows[o].status = "pending"
     THEN [rows[o] EXCEPT !.status =
             IF requested THEN "cancelled" ELSE "skipped"]
     ELSE rows[o]]

\* Mutant: the grace of a lease is not waited for.
BusyWithoutGrace(b) == lease[b] = "live"

\* lease_expires_at + 30 s > now
Busy(b) == lease[b] \in {"live", "grace"}

\* Mutant: a lease that ended still counts until somebody clears it.
AnyUncleared == \E b \in Batches : lease[b] # "none"

AnyBusy == \E b \in Batches : Busy(b)

\* A command job never reads back: its unknown operations stay for review.
ReadsBack == Kind # "device-command"

PendingOf(b) == {o \in Operations : BatchOf[o] = b /\ op[o].status = "pending"}

\* The dispatched operations that the last owner of the batch left behind.
LostOf(b) == {o \in Operations : /\ BatchOf[o] = b
                                 /\ op[o].status = "dispatched"
                                 /\ owner[b] # None
                                 /\ op[o].attempt = owner[b]}

Untracked == [o \in Operations |-> "none"]
NotHeld == [o \in Operations |-> "none"]

\* A request is over: what it knew is gone.
EndBatch(a) ==
  /\ pc' = [pc EXCEPT ![a] = "ended"]
  /\ reqToken' = [reqToken EXCEPT ![a] = 0]
  /\ reqBatch' = [reqBatch EXCEPT ![a] = None]
  /\ track' = [track EXCEPT ![a] = Untracked]
  /\ drained' = drained \ {a}
  /\ hold' = [hold EXCEPT ![a] = NotHeld]

EndReader(v) ==
  /\ pc' = [pc EXCEPT ![v] = "ended"]
  /\ hold' = [hold EXCEPT ![v] = NotHeld]
  /\ reqToken' = IF v \in Finishers THEN [reqToken EXCEPT ![v] = 0]
                 ELSE reqToken
  /\ UNCHANGED <<reqBatch, track, drained>>

Init ==
  /\ job = [status |-> "accepted", finished |-> FALSE, failure |-> FALSE,
            cancelRequested |-> FALSE, token |-> 0, claimed |-> FALSE,
            startDue |-> FALSE, stale |-> FALSE]
  /\ op = [o \in Operations |->
             [status |-> "pending", attempt |-> None, verifier |-> None,
              verifyLive |-> FALSE, verifyWait |-> FALSE]]
  /\ tally = [s \in Counted |-> {}]
  /\ owner = [b \in Batches |-> None]
  /\ lease = [b \in Batches |-> "none"]
  /\ pc = [v \in Verifiers |-> "idle"]
  /\ reqToken = [p \in Attempts \cup Finishers |-> 0]
  /\ reqBatch = [a \in Attempts |-> None]
  /\ track = [a \in Attempts |-> Untracked]
  /\ drained = {}
  /\ hold = [v \in Verifiers |-> NotHeld]
  /\ wire = {}
  /\ applied = {}
  /\ sentBy = [o \in Operations |-> {}]

-----------------------------------------------------------------------------
(* The tick and the people: admission, start, recovery, cancel.            *)

\* admit_device_update_job, for a job that still waits for the write slot
Relabel ==
  /\ job.status \in Waiting
  /\ \E label \in {"queued", "held"} : job' = [job EXCEPT !.status = label]
  /\ UNCHANGED <<op, tally, owner, lease, workerVars, googleVars>>

\* admit_device_update_job, for the job that takes the write slot
Admit ==
  /\ job.status \in Waiting
  /\ job' = [job EXCEPT !.status = "running", !.token = 1,
                        !.startDue = FALSE]
  /\ UNCHANGED <<op, tally, owner, lease, workerVars, googleVars>>

\* What abandon_device_update_start writes.
Abandon ==
  /\ job' = [job EXCEPT !.status = "failed", !.failure = TRUE,
                        !.finished = TRUE]
  /\ op' = SkipPending(op, job.cancelRequested)
  /\ tally' = Refresh(op')
  /\ UNCHANGED <<owner, lease>>

\* Kestra refused the execution of token t: abandon_device_update_start
RefuseStart(t) ==
  /\ job.status = "running" /\ job.token = t /\ ~job.claimed
  /\ Abandon
  /\ UNCHANGED <<workerVars, googleVars>>

StartLost == job.status = "running" /\ ~job.claimed /\ job.startDue

\* No live lease, and a heartbeat of 10 minutes ago.
RunnerLost ==
  job.status = "running" /\ job.claimed /\ job.stale
  /\ \A b \in Batches : lease[b] # "live"

\* Mutant: nothing limits the executions of a job.
RotatesWithoutLimit == ~job.cancelRequested

\* A lost runner gets a new execution.
Rotates == job.token < MaxExecutions /\ ~job.cancelRequested

\* Mutant: a command job waits for its devices, whatever became of its commands.
CloseAlwaysWaits(rows) ==
  IF Kind = "device-command"
  THEN job' = [job EXCEPT !.status = "awaiting-devices"]
  ELSE job' = [job EXCEPT !.status = TerminalStatus(Refresh(rows)),
                          !.finished = TRUE]

\* Steps 6 and 7 of the finish: a command job that still waits for Google
\* keeps no write slot and no finished time.
Close(rows) ==
  IF Kind = "device-command" /\ OpsWith(rows, "issued") # {}
  THEN job' = [job EXCEPT !.status = "awaiting-devices"]
  ELSE job' = [job EXCEPT !.status = TerminalStatus(Refresh(rows)),
                          !.finished = TRUE]

\* finalize_device_update_job: it never acts while a lease or its grace lives.
Finalize ==
  /\ ~AnyBusy
  /\ op' = SkipPending(Fence(op, OpsWith(op, "dispatched"), None),
                       job.cancelRequested)
  /\ tally' = Refresh(op')
  /\ Close(op')
  /\ UNCHANGED <<owner, lease>>

\* recover_device_update_jobs
Recover ==
  /\ \/ /\ StartLost /\ job.token < MaxExecutions
        /\ job' = [job EXCEPT !.token = @ + 1, !.startDue = FALSE]
        /\ UNCHANGED <<op, tally, owner, lease>>
     \/ StartLost /\ job.token = MaxExecutions /\ Abandon
     \/ /\ RunnerLost /\ Rotates
        /\ job' = [job EXCEPT !.token = @ + 1, !.stale = FALSE]
        /\ UNCHANGED <<op, tally, owner, lease>>
     \/ RunnerLost /\ ~Rotates /\ Finalize
  /\ UNCHANGED <<workerVars, googleVars>>

Marked == [job EXCEPT !.cancelRequested = TRUE]

\* A job that never claimed has no worker that settles its operations.
StopsNow == job.status # "running" \/ ~job.claimed

\* request_job_cancel, for a device write job
RequestCancel ==
  /\ ~job.cancelRequested /\ ~job.finished
  /\ job.status # "awaiting-devices"
  /\ OpsWith(op, "pending") \cup OpsWith(op, "dispatched") # {}
  /\ IF StopsNow
     THEN /\ op' = SkipPending(op, TRUE)
          /\ tally' = Refresh(op')
          /\ job' = [Marked EXCEPT !.status = TerminalStatus(tally'),
                                   !.finished = TRUE]
     ELSE /\ job' = Marked
          /\ UNCHANGED <<op, tally>>
  /\ UNCHANGED <<owner, lease, workerVars, googleVars>>


-----------------------------------------------------------------------------
(* A batch request of the worker: claim, send, settle, read back, release. *)

\* The request ends without a further write: a crash of the worker, a store
\* error, a refused renewal, a busy poll that gave up, a lost answer.
Quit(p) ==
  /\ pc[p] \notin {"idle", "ended"}
  /\ IF p \in Attempts THEN EndBatch(p) ELSE EndReader(p)
  /\ UNCHANGED <<jobVars, googleVars>>

\* Mutant: the fence looks only at the token.
TokenIsCurrent(t) == job.token = t

\* The fence of a batch or finish request: the job runs under token t.
RunsUnder(t) == job.status = "running" /\ ~job.finished /\ job.token = t

\* Every claim under the current token proves that this execution runs the job.
Alive == [job EXCEPT !.claimed = TRUE, !.stale = FALSE]

\* claim_device_update_batch, answer superseded
ClaimSuperseded(a, t) ==
  /\ pc[a] = "idle" /\ ~RunsUnder(t)
  /\ EndBatch(a)
  /\ UNCHANGED <<jobVars, googleVars>>

\* claim_device_update_batch, the stop branch: done after a cancel request,
\* stopped after a recorded failure, a changed permission of the confirmer or
\* a changed connection.
ClaimStopped(a, t) ==
  /\ pc[a] = "idle" /\ RunsUnder(t)
  /\ job' = [Alive EXCEPT !.failure = @ \/ ~job.cancelRequested]
  /\ op' = SkipPending(op, job.cancelRequested)
  /\ tally' = Refresh(op')
  /\ EndBatch(a)
  /\ UNCHANGED <<owner, lease, googleVars>>

\* Mutant: a claim does not look for a failure or a cancel request.
MayClaimStopped(a, t, b) == pc[a] = "idle" /\ RunsUnder(t) /\ ~Busy(b)

\* The claim may dispatch: nothing stops the job, and the lease of another
\* attempt is over.  An answer busy leaves the request as it is.
MayClaim(a, t, b) == /\ pc[a] = "idle" /\ RunsUnder(t)
                     /\ ~job.failure /\ ~job.cancelRequested
                     /\ ~Busy(b)

\* claim_device_update_batch, answer done
ClaimDone(a, t, b) ==
  /\ MayClaim(a, t, b)
  /\ PendingOf(b) \cup LostOf(b) = {}
  /\ job' = Alive
  /\ EndBatch(a)
  /\ UNCHANGED <<op, tally, owner, lease, googleVars>>

\* claim_device_update_batch, answer claimed: the lost operations of the last
\* owner become unknown and this attempt holds their read-back; the pending
\* operations are dispatched to it.
Claim(a, t, b) ==
  LET pending == PendingOf(b)
      lost == LostOf(b)
  IN /\ MayClaim(a, t, b)
     /\ pending \cup lost # {}
     /\ op' = [o \in Operations |->
                 IF o \in pending
                 THEN [op[o] EXCEPT !.status = "dispatched", !.attempt = a]
                 ELSE Fence(op, lost, a)[o]]
     /\ tally' = IF lost # {} THEN Refresh(op') ELSE tally
     /\ owner' = [owner EXCEPT ![b] = a]
     /\ lease' = [lease EXCEPT ![b] = "live"]
     /\ job' = Alive
     /\ pc' = [pc EXCEPT ![a] = "sending"]
     /\ reqToken' = [reqToken EXCEPT ![a] = t]
     /\ reqBatch' = [reqBatch EXCEPT ![a] = b]
     /\ track' = [track EXCEPT ![a] = [o \in Operations |->
                    IF o \in pending THEN "unsent" ELSE "none"]]
     /\ hold' = [hold EXCEPT ![a] = [o \in Operations |->
                   IF o \in lost /\ ReadsBack THEN "held" ELSE "none"]]
     /\ UNCHANGED <<drained, googleVars>>

\* The lease fence of a renewal and of a write settlement.
OwnsLive(a) == /\ RunsUnder(reqToken[a])
               /\ owner[reqBatch[a]] = a /\ lease[reqBatch[a]] = "live"

\* renew_device_update_batch, every 30 s and before the settlement of a round,
\* and the read of the cancel request that follows it.  A refused renewal ends
\* the request (Quit).
Renew(a) ==
  /\ pc[a] \in {"sending", "settling", "reading"} /\ OwnsLive(a)
  /\ job' = [job EXCEPT !.stale = FALSE]
  /\ drained' \in {drained, IF job.cancelRequested THEN drained \cup {a}
                            ELSE drained}
  /\ UNCHANGED <<op, tally, owner, lease, pc, reqToken, reqBatch,
                 track, hold, googleVars>>

TrackedAs(a, T) == {o \in Operations : track[a][o] \in T}

\* The requests that a round may send: not sent yet, or waiting for a retry.
Due(a) == TrackedAs(a, {"unsent", "waiting", "rewaiting"})

\* onSend of one multipart round: one round is on its way at a time, and the
\* answers of the last one are settled first.
Send(a, S) ==
  /\ pc[a] = "sending" /\ a \notin drained
  /\ S # {} /\ S \subseteq Due(a)
  /\ TrackedAs(a, InFlight \cup Answered) = {}
  /\ track' = [track EXCEPT ![a] = [o \in Operations |->
                 IF o \notin S THEN track[a][o]
                 ELSE IF track[a][o] = "rewaiting" THEN "resent" ELSE "sent"]]
  /\ wire' = wire \cup ({a} \X S)
  /\ sentBy' = [o \in Operations |->
                  IF o \in S THEN sentBy[o] \cup {a} ELSE sentBy[o]]
  /\ UNCHANGED <<jobVars, pc, reqToken, reqBatch, drained, hold,
                 applied>>

\* Google answers, and the answer reaches a request that waits for it.
Answer(a, o, t) ==
  /\ pc[a] = "sending" /\ track[a][o] \in InFlight
  /\ track' = [track EXCEPT ![a][o] = t]
  /\ UNCHANGED <<jobVars, pc, reqToken, reqBatch, drained, hold,
                 sentBy>>

\* After a retry the first request may still be on its way.
Consume(a, o) ==
  wire' \in {wire \ {<<a, o>>},
             IF track[a][o] = "resent" THEN wire ELSE wire \ {<<a, o>>}}

GoogleAccepts(a, o) ==
  /\ <<a, o>> \in wire
  /\ Answer(a, o, "accepted")
  /\ applied' = applied \cup {o}
  /\ Consume(a, o)

\* Mutant: an earlier lost answer is forgotten when a later one refuses.
RefusedIsRefused(a, o) == "refused"

\* classifyWrite: a failed answer after a transient retry stays ambiguous.
Refusal(a, o) == IF track[a][o] = "resent" THEN "unclear" ELSE "refused"

\* A refusal, or a quota answer after the last retry.
GoogleRefuses(a, o) ==
  /\ <<a, o>> \in wire
  /\ Answer(a, o, Refusal(a, o))
  /\ Consume(a, o)
  /\ UNCHANGED applied

\* A 2xx answer to a PATCH that names other values than the wanted ones.  Unlike a
\* refusal it counts whatever the history of the operation: classifyWrite looks at
\* the transient retries of failed answers only.
GoogleDiffers(a, o) ==
  /\ <<a, o>> \in wire /\ Kind = "device-update"
  /\ Answer(a, o, IF track[a][o] = "resent" THEN "rediffers" ELSE "differs")
  /\ Consume(a, o)
  /\ UNCHANGED applied

\* A quota answer of a request that may be repeated; issueDeviceCommands sets
\* maxQuotaRetries to 0.
GoogleDefers(a, o) ==
  /\ <<a, o>> \in wire /\ Kind # "device-command"
  /\ Answer(a, o, IF track[a][o] = "resent" THEN "rewaiting" ELSE "waiting")
  /\ Consume(a, o)
  /\ UNCHANGED applied

\* Mutant: a POST whose answer is lost is repeated.
RetriesLostPost == TRUE

\* retryOrFail: only a PATCH is repeated after a transient failure.
RetriesLost == Kind = "device-update"

\* No answer, or one that the worker cannot read: Google may have the request.
LoseAnswer(a, o) ==
  /\ \/ Answer(a, o, "unclear")
     \/ RetriesLost /\ Answer(a, o, "rewaiting")
  /\ UNCHANGED <<wire, applied>>

\* Google carries out or drops a request that nobody waits for, or whose
\* answer gets lost.
GoogleAlone(a, o) ==
  /\ <<a, o>> \in wire
  /\ wire' = wire \ {<<a, o>>}
  /\ applied' \in {applied, applied \cup {o}}
  /\ UNCHANGED <<jobVars, workerVars, sentBy>>

\* Mutant: an operation on its way goes back to the queue.
OutcomeForgetsSent(a, o, stop) ==
  CASE track[a][o] = "accepted" -> "succeeded"
    [] track[a][o] \in Failing -> "failed"
    [] track[a][o] = "unclear" -> "unknown"
    [] OTHER -> "pending"

\* Mutant: no answer counts as a refusal.
OutcomeFailsUnclear(a, o, stop) ==
  CASE track[a][o] = "accepted" -> "issued"
    [] track[a][o] = "unsent" -> "pending"
    [] OTHER -> "failed"

\* classifyWrite and classifyStatus: only an operation that never left the
\* worker goes back to the queue, or is skipped when the job stops.
Outcome(a, o, stop) ==
  CASE track[a][o] = "accepted" ->
         IF Kind = "device-command" THEN "issued" ELSE "succeeded"
    [] track[a][o] \in Failing -> "failed"
    [] track[a][o] = "unsent" -> IF stop THEN "skipped" ELSE "pending"
    [] OTHER -> "unknown"

\* Mutant: a late settlement is recorded, whoever took the operation over.
SettlesLate(a, S) == {o \in S : op[o].attempt = a}

\* The operations that settle_device_update_operations records for attempt a.
Settles(a, S) ==
  {o \in S : OwnsLive(a) /\ op[o].status = "dispatched" /\ op[o].attempt = a}

\* One write or issue settlement of S, and the worker's reaction: a partial
\* recording fences the attempt.  An operation that becomes unknown keeps the
\* read-back of this attempt and its delay.
SettleWrite(a, S, fails, stop, next) ==
  LET done == Settles(a, S)
      kept == {o \in done : ReadsBack /\ Outcome(a, o, stop) = "unknown"}
  IN /\ op' = [o \in Operations |->
                 IF o \in done
                 THEN [op[o] EXCEPT
                         !.status = Outcome(a, o, stop),
                         !.verifier = IF o \in kept THEN a ELSE None,
                         !.verifyLive = o \in kept, !.verifyWait = o \in kept]
                 ELSE op[o]]
     /\ tally' = IF done # {} THEN Refresh(op') ELSE tally
     /\ job' = IF done # {}
               THEN [job EXCEPT !.failure = @ \/ fails, !.stale = FALSE]
               ELSE job
     /\ IF done = S
        THEN /\ pc' = [pc EXCEPT ![a] = next]
             /\ track' = [track EXCEPT ![a] = [o \in Operations |->
                            IF o \in S THEN "settled" ELSE track[a][o]]]
             /\ hold' = [hold EXCEPT ![a] = [o \in Operations |->
                           IF o \in kept THEN "held" ELSE hold[a][o]]]
             /\ UNCHANGED <<reqToken, reqBatch, drained>>
        ELSE EndBatch(a)
     /\ UNCHANGED <<owner, lease, googleVars>>

\* settleRound, after the answers of a round.  An answer of kind auth is a
\* failure of the job.
SettleRound(a) ==
  /\ pc[a] = "sending" /\ TrackedAs(a, InFlight) = {}
  /\ TrackedAs(a, Answered) # {}
  /\ \E fails \in BOOLEAN :
       /\ fails => TrackedAs(a, {"refused", "unclear"}) # {}
       /\ SettleWrite(a, TrackedAs(a, Answered), fails, fails, "sending")

\* The sending ends: nothing left to send, the watchdog of the lease, a fatal
\* batch error, a mint failure, a shutdown, a cancel request.
EndSending(a) ==
  /\ pc[a] = "sending"
  /\ pc' = [pc EXCEPT ![a] = "settling"]
  /\ UNCHANGED <<jobVars, reqToken, reqBatch, track, drained, hold,
                 googleVars>>

\* One settlement for everything that no round settled.  An unsent operation
\* goes back to pending after a cancel request, also after a failure.
SettleLeftovers(a) ==
  /\ pc[a] = "settling"
  /\ \E fails \in BOOLEAN :
       /\ job.failure => fails
       /\ SettleWrite(a, Operations \ TrackedAs(a, {"none", "settled"}),
                      fails, fails /\ a \notin drained, "reading")

\* release_device_update_batch.  A superseded or finished call changes nothing.
ReleaseBatch(a) ==
  /\ pc[a] = "reading"
  /\ IF RunsUnder(reqToken[a]) /\ owner[reqBatch[a]] = a
     THEN /\ owner' = [owner EXCEPT ![reqBatch[a]] = None]
          /\ lease' = [lease EXCEPT ![reqBatch[a]] = "none"]
     ELSE UNCHANGED <<owner, lease>>
  /\ EndBatch(a)
  /\ UNCHANGED <<job, op, tally, googleVars>>

-----------------------------------------------------------------------------
(* The read-back of unknown operations, the finish, and the reconcile.     *)

HeldBy(v) == {o \in Operations : hold[v][o] # "none"}

\* The device reads of the chunk that v holds, after the delay of all of it.
\* The reads in F fail.
ReadDevices(v, F) ==
  /\ pc[v] = "reading" /\ HeldBy(v) # {}
  /\ \A o \in HeldBy(v) : hold[v][o] = "held" /\ ~op[o].verifyWait
  /\ F \subseteq HeldBy(v) /\ F # HeldBy(v)
  /\ hold' = [hold EXCEPT ![v] = [o \in Operations |->
                IF o \notin HeldBy(v) \ F THEN hold[v][o]
                ELSE IF o \in applied THEN "matches" ELSE "differs"]]
  /\ UNCHANGED <<jobVars, pc, reqToken, reqBatch, track, drained, googleVars>>

\* Mutant: a device that could not be read counts as verified.
ReadOutcomeTrusts(v, o) ==
  IF hold[v][o] = "differs" THEN "failed" ELSE "succeeded"

ReadOutcome(v, o) == CASE hold[v][o] = "matches" -> "succeeded"
                       [] hold[v][o] = "differs" -> "failed"
                       [] OTHER -> "unknown"

\* The operations that a read-back settlement of v records.
Verifies(v) == {o \in HeldBy(v) : /\ op[o].status = "unknown"
                                  /\ op[o].verifier = v /\ op[o].verifyLive}

\* Mutant: a read-back leaves the status of the job as it is.
KeepsStatus(t) == job.status

\* A read-back decides the status of a job that has ended again.
StatusAfterReview(t) ==
  IF job.status \in Waiting \cup {"running"} THEN job.status
  ELSE TerminalStatus(t)

\* The read-back settlement of a chunk: a read that failed, a chunk without a
\* credential stay unknown, and so does, before its delay, a chunk whose delay
\* ends less than 15 s before its window (readBackHeld counts the window from
\* the batch claim).  Any settlement clears the delay.  It needs no token.
SettleReadBack(v) ==
  LET done == Verifies(v)
  IN /\ pc[v] = "reading" /\ HeldBy(v) # {}
     /\ op' = [o \in Operations |->
                 IF o \in done
                 THEN [op[o] EXCEPT !.status = ReadOutcome(v, o),
                                    !.verifier = None, !.verifyLive = FALSE,
                                    !.verifyWait = FALSE]
                 ELSE op[o]]
     /\ tally' = IF done # {} THEN Refresh(op') ELSE tally
     /\ job' = IF done = {} THEN job
               ELSE [job EXCEPT !.stale = FALSE,
                              !.status = StatusAfterReview(tally')]
     /\ IF v \in Reconcilers
        THEN EndReader(v)
        ELSE /\ pc' = [pc EXCEPT ![v] = IF v \in Finishers THEN "finishing"
                                        ELSE "reading"]
             /\ hold' = [hold EXCEPT ![v] = NotHeld]
             /\ UNCHANGED <<reqToken, reqBatch, track, drained>>
     /\ UNCHANGED <<owner, lease, googleVars>>

\* An answer superseded or finished, of the preparation or of the finish
FinishSuperseded(f, t) ==
  /\ \/ pc[f] = "idle"
     \/ pc[f] = "finishing" /\ t = reqToken[f]
  /\ ~RunsUnder(t)
  /\ EndReader(f)
  /\ UNCHANGED <<jobVars, googleVars>>

\* prepare_device_update_finish, answer ready: every open operation becomes
\* unknown, every pending one is skipped.  An answer busy is polled again.
Prepare(f, t) ==
  /\ pc[f] = "idle" /\ RunsUnder(t) /\ ~AnyBusy
  /\ op' = SkipPending(Fence(op, OpsWith(op, "dispatched"), None),
                       job.cancelRequested)
  /\ tally' = Refresh(op')
  /\ pc' = [pc EXCEPT ![f] = IF ReadsBack THEN "verifying" ELSE "finishing"]
  /\ reqToken' = [reqToken EXCEPT ![f] = t]
  /\ UNCHANGED <<job, owner, lease, reqBatch, track, drained, hold, googleVars>>

\* The unknown operations that nobody reads back.
Reviewable == {o \in OpsWith(op, "unknown") : ~op[o].verifyLive}

\* claim_device_update_verification
HoldReadBack(v, S) ==
  /\ op' = [o \in Operations |->
              IF o \in S THEN [op[o] EXCEPT !.verifier = v, !.verifyLive = TRUE]
              ELSE op[o]]
  /\ hold' = [hold EXCEPT ![v] =
                [o \in Operations |-> IF o \in S THEN "held" ELSE "none"]]
  /\ UNCHANGED <<job, tally, owner, lease, reqToken, reqBatch, track,
                 drained, googleVars>>

\* readBackClaimed of the finish: one chunk holds every operation here.
ClaimVerification(f) ==
  /\ pc[f] = "verifying"
  /\ pc' = [pc EXCEPT ![f] = IF Reviewable = {} THEN "finishing"
                             ELSE "reading"]
  /\ HoldReadBack(f, Reviewable)

Prepared == OpsWith(op, "dispatched") \cup OpsWith(op, "pending") = {}

\* finish_device_update_job.  An answer busy or not-prepared ends the request.
FinishJob(f) ==
  /\ pc[f] = "finishing" /\ RunsUnder(reqToken[f])
  /\ IF ~AnyBusy /\ Prepared
     THEN tally' = Refresh(op) /\ Close(op)
     ELSE UNCHANGED <<tally, job>>
  /\ EndReader(f)
  /\ UNCHANGED <<op, owner, lease, googleVars>>

\* A person reconciles one operation, or the reaper every one.
Reconcile(r) ==
  /\ pc[r] = "idle" /\ ReadsBack
  /\ \E S \in {{o} : o \in Reviewable} \cup {Reviewable} :
       S # {} /\ HoldReadBack(r, S)
  /\ pc' = [pc EXCEPT ![r] = "reading"]

-----------------------------------------------------------------------------
(* Time.  A lease of 180 s outlives the sends of its owner, whose watchdog  *)
(* aborts them at 150 s.                                                   *)

OpenRequests(o) == {a \in Attempts : <<a, o>> \in wire}

StartWindowEnds ==
  /\ job.status = "running" /\ ~job.claimed /\ ~job.startDue
  /\ job' = [job EXCEPT !.startDue = TRUE]
  /\ UNCHANGED <<op, tally, owner, lease, workerVars, googleVars>>

HeartbeatAges ==
  /\ job.status = "running" /\ job.claimed /\ ~job.stale /\ ~AnyBusy
  /\ job' = [job EXCEPT !.stale = TRUE]
  /\ UNCHANGED <<op, tally, owner, lease, workerVars, googleVars>>

\* Mutant: the watchdog does not stop the sends before the lease ends.
WatchdogLate(b) == TRUE

\* The watchdog has stopped the sends of the owner.
SendsStopped(b) == owner[b] # None => pc[owner[b]] # "sending"

LeaseLapses(b) ==
  /\ lease[b] = "live" /\ SendsStopped(b)
  /\ lease' = [lease EXCEPT ![b] = "grace"]
  /\ UNCHANGED <<job, op, tally, owner, workerVars, googleVars>>

GraceEnds(b) ==
  /\ lease[b] = "grace"
  /\ GoogleLag \/ \A o \in Operations : BatchOf[o] = b => OpenRequests(o) = {}
  /\ lease' = [lease EXCEPT ![b] = "lapsed"]
  /\ UNCHANGED <<job, op, tally, owner, workerVars, googleVars>>

\* 30 s after the request was given up
VerifyDelayEnds(o) ==
  /\ op[o].verifyWait
  /\ GoogleLag \/ OpenRequests(o) = {}
  /\ op' = [op EXCEPT ![o].verifyWait = FALSE]
  /\ UNCHANGED <<job, tally, owner, lease, workerVars, googleVars>>

\* 120 s after the hold began, longer than the delay
VerifyLeaseLapses(o) ==
  /\ op[o].verifyLive /\ ~op[o].verifyWait
  /\ op' = [op EXCEPT ![o].verifyLive = FALSE]
  /\ UNCHANGED <<job, tally, owner, lease, workerVars, googleVars>>

-----------------------------------------------------------------------------
\* The tokens that the tick has handed to Kestra.
Issued == 1 .. job.token

Tick == Relabel \/ Admit \/ Recover \/ RequestCancel
        \/ \E t \in Issued : RefuseStart(t)

BatchRequest(a) ==
  \/ \E t \in Issued : ClaimSuperseded(a, t) \/ ClaimStopped(a, t)
  \/ \E t \in Issued, b \in Batches : ClaimDone(a, t, b) \/ Claim(a, t, b)
  \/ Renew(a)
  \/ \E S \in SUBSET Operations : Send(a, S)
  \/ SettleRound(a) \/ EndSending(a) \/ SettleLeftovers(a)
  \/ ReleaseBatch(a)

FinishRequest(f) ==
  \/ \E t \in Issued : FinishSuperseded(f, t) \/ Prepare(f, t)
  \/ ClaimVerification(f) \/ FinishJob(f)

AnyRequest(v) ==
  \/ Quit(v) \/ SettleReadBack(v)
  \/ \E F \in SUBSET Operations : ReadDevices(v, F)

Google(a, o) ==
  \/ GoogleAccepts(a, o) \/ GoogleRefuses(a, o) \/ GoogleDiffers(a, o)
  \/ GoogleDefers(a, o) \/ LoseAnswer(a, o) \/ GoogleAlone(a, o)

Time ==
  \/ StartWindowEnds \/ HeartbeatAges
  \/ \E b \in Batches : LeaseLapses(b) \/ GraceEnds(b)
  \/ \E o \in Operations : VerifyDelayEnds(o) \/ VerifyLeaseLapses(o)

Next ==
  \/ Tick
  \/ \E a \in Attempts : BatchRequest(a)
  \/ \E f \in Finishers : FinishRequest(f)
  \/ \E r \in Reconcilers : Reconcile(r)
  \/ \E v \in Verifiers : AnyRequest(v)
  \/ \E a \in Attempts, o \in Operations : Google(a, o)
  \/ Time

Spec == Init /\ [][Next]_vars

\* The tick runs every few seconds, time passes, and the sending of a batch is
\* bounded by its retries and its watchdog.  Nothing else is promised: Kestra
\* may drop every execution and the worker may die in every request.
Fairness ==
  /\ WF_vars(Recover) /\ WF_vars(StartWindowEnds) /\ WF_vars(HeartbeatAges)
  /\ \A b \in Batches : WF_vars(LeaseLapses(b)) /\ WF_vars(GraceEnds(b))
  /\ \A a \in Attempts : WF_vars(EndSending(a))

FairSpec == Spec /\ Fairness

-----------------------------------------------------------------------------
(* Safety                                                                  *)

\* A request that sends to Google owns its batch under a live lease and the
\* current token of a running job: no takeover, finish, reaper or cancel ends
\* the job or moves the batch under a request that still sends.
SenderOwnsBatch ==
  \A a \in Attempts : pc[a] = "sending" => job.claimed /\ OwnsLive(a)

\* No two requests ever send the same operation: a takeover, a new execution
\* and a release after a partial batch never repeat what another one sent.
SentByOneAttempt ==
  \A o \in Operations : Cardinality(sentBy[o]) <= 1

\* An operation that counts as not attempted (pending, skipped, cancelled)
\* never left the worker, whatever was lost, taken over or cancelled.
UnattemptedNeverSent ==
  \A o \in Operations :
    op[o].status \in {"pending", "skipped", "cancelled"} => sentBy[o] = {}

\* What the job reports as done was carried out by Google.
SucceededWasApplied ==
  \A o \in Operations : op[o].status \in {"succeeded", "issued"} => o \in applied

\* The header counters always agree with the operation rows, although the
\* handlers refresh them one by one.
CountersAgree ==
  \A s \in Counted : tally[s] = {o \in Operations : op[o].status = s}

\* A job that ended holds no open operation and no lease, and its status is the
\* one its operations call for, also after a read-back that came later.
FinishedAgrees ==
  job.finished =>
    /\ \A o \in Operations :
         op[o].status \notin {"pending", "dispatched", "issued"}
    /\ job.status = "cancelled" <=> OpsWith(op, "cancelled") # {}
    /\ job.status = "needs-review" <=>
         OpsWith(op, "unknown") # {} /\ OpsWith(op, "cancelled") = {}
    /\ job.status = "completed" <=> OpsWith(op, "succeeded") = Operations
    /\ job.status = "failed" => OpsWith(op, "succeeded") = {}
    /\ ~AnyBusy

\* What the job reports as failed was not carried out by Google.
FailedNeverApplied ==
  \A o \in Operations : op[o].status = "failed" => o \notin applied

\* A device is read back only after the delay of its last open request:
\* "A read-back starts no earlier than verify_after".
ReadWaitsForDelay ==
  \A v \in Verifiers, o \in Operations :
    hold[v][o] \in {"matches", "differs"} /\ op[o].verifier = v
      => OpenRequests(o) = {}

\* A write settlement records a failure only when Google has not carried out the
\* operation and cannot any more: an earlier request without an answer keeps a
\* refusal unknown.  The one exception is a repeated PATCH that Google answers with
\* other values: it fails the operation while the first request may be on its way.
RefusalIsFinal ==
  [][\A o \in Operations :
       op[o].status = "dispatched" /\ op'[o].status = "failed"
         => \/ o \notin applied /\ OpenRequests(o) = {}
            \/ track[op[o].attempt][o] = "rediffers"]_vars

\* A takeover, the finish and the reaper act on an operation without a delay,
\* because the lease and its grace bound the requests of the lost attempt.
FencedIsQuiet ==
  [][ReadsBack /\ ~GoogleLag =>
       \A o \in Operations :
         op[o].status = "dispatched" /\ op'[o].status = "unknown"
           /\ ~op'[o].verifyWait => OpenRequests(o) = {}]_vars

\* A decided operation stays decided: late answers, takeovers, recoveries and
\* read-backs of other attempts change nothing.  Only a read-back decides an
\* unknown one.
SettledForever ==
  [][\A o \in Operations :
       /\ op[o].status \in {"succeeded", "failed", "skipped", "cancelled",
                            "issued"}
            => op'[o].status = op[o].status
       /\ op[o].status = "unknown"
            => op'[o].status \in {"unknown", "succeeded", "failed"}]_vars

\* A command is sent to Google at most once: a repeat could wipe or reboot a
\* device twice.
CommandSentOnce ==
  [][Kind = "device-command" =>
       \A a \in Attempts, o \in Operations :
         <<a, o>> \in wire' \ wire => sentBy[o] = {}]_vars

\* After a cancel request or a recorded failure no further operation is
\* dispatched, by whatever execution.
StopIsFinal ==
  [][job.cancelRequested \/ job.failure =>
       \A o \in Operations :
         op'[o].status = "dispatched" => op[o].status = "dispatched"]_vars

-----------------------------------------------------------------------------
(* The inductive invariant of the sends.  It ties what a request knows of   *)
(* an operation to the row of the operation, which is what each fence of    *)
(* the database relies on.                                                  *)

\* What a sending request has not settled yet is dispatched to it, in its batch.
SenderHoldsRows ==
  \A a \in Attempts :
    pc[a] = "sending" =>
      /\ reqBatch[a] \in Batches
      /\ \A o \in Operations :
           track[a][o] \notin {"none", "settled"} =>
             /\ op[o].status = "dispatched" /\ op[o].attempt = a
             /\ BatchOf[o] = reqBatch[a]

\* A dispatched operation was sent by the attempt of its row, if by any.
DispatchedByRow ==
  \A o \in Operations :
    op[o].status = "dispatched" => sentBy[o] \subseteq {op[o].attempt}

\* What a request counts as unsent it never sent.
UnsentIsUnsent ==
  \A a \in Attempts, o \in Operations :
    pc[a] \in {"sending", "settling"} /\ track[a][o] = "unsent"
      => a \notin sentBy[o]

\* A command waits for no retry.
CommandsNeverWait ==
  Kind = "device-command" =>
    \A a \in Attempts, o \in Operations :
      track[a][o] \notin {"waiting", "rewaiting"}

OneSender == \A o \in Operations : \A a, c \in sentBy[o] : a = c

SendInv ==
  /\ TypeOK
  /\ SenderOwnsBatch
  /\ UnattemptedNeverSent
  /\ SenderHoldsRows
  /\ DispatchedByRow
  /\ UnsentIsUnsent
  /\ CommandsNeverWait
  /\ OneSender

-----------------------------------------------------------------------------
(* The contract of a write job.                                            *)

\* What the job reports of an operation, whatever it still does with it.
ReportOf(o) ==
  CASE op[o].status \in {"pending", "dispatched"} -> "open"
    [] op[o].status \in {"succeeded", "issued"} -> "done"
    [] op[o].status \in {"skipped", "cancelled"} -> "dropped"
    [] op[o].status = "unknown" -> "unknown"
    [] OTHER -> "failed"

\* Only a running job has the write slot of its customer.
Slot ==
  CASE job.status \in Waiting -> "waiting"
    [] job.status = "running" -> "running"
    [] OTHER -> "released"

\* What became of an operation at Google.
AtGoogle(o) ==
  CASE o \in applied -> "done"
    [] o \notin applied /\ sentBy[o] # {} -> "asked"
    [] OTHER -> "untouched"

\* The leases, executions, requests and read-backs implement the contract: no
\* write without the slot, no report that was not true or does not stay, and
\* the slot comes back even when every execution is lost and every request dies.
Contract == INSTANCE WriteContract WITH
  slot <- Slot,
  known <- [o \in Operations |-> ReportOf(o)],
  world <- [o \in Operations |-> AtGoogle(o)],
  NamesValues <- Kind = "device-update"

ContractSafety == Contract!Init /\ [][Contract!Next]_(Contract!vars)
ContractSpec == Contract!Spec

\* A job asks Google only after it claimed a batch, and a claim stays: whoever
\* may refuse, abandon or cancel an unclaimed job finds no write of it at Google.
AskedUnderClaim ==
  \A o \in Operations : AtGoogle(o) # "untouched" => job.claimed

=============================================================================
