# Campus Commander: verification project

Campus Commander administers the Google Workspace devices of schools. A browser
talks to a NestJS API; the API and a worker share a PostgreSQL database whose
functions (`cc.*`) hold the protocol state; Kestra starts the worker's requests;
Redis holds short-lived keys. This directory holds TLA+ models of its protocols,
the TLC configurations that check them, and TLAPS proofs.

The code that changes devices at Google is the part where a mistake cannot be
undone: a repeated request may wipe a device twice, and a wrong record tells the
administrator that a device was, or was not, changed. It runs over three
unreliable parts (Kestra, the worker, Google), so it is modelled first.

## 1. The system and its components

| Component | State it keeps | Operations | What is hard |
|---|---|---|---|
| **Device write jobs** (`017-jobs.sql`, `018-device-write-access.sql`) | job header, detail row with dispatch token and stop record, operation rows, batch rows with leases | confirm, admit, abandon, recover, claim, renew, settle, release, verification claim, prepare, finish, finalize, cancel | two executions of one job; lost answers; leases that run out under a request; the order of a late settlement and a takeover |
| **Device write worker** (`worker/src/device-update.ts`) | what a request knows of its operations, its timers | batch, finish and reconcile request | the worker dies or is cut off at any point; the sending must end before the lease |
| **Google batch service** (`libs/google-connection/src/lib/batch.ts`) | retries of one call | send, wait, retry, cancel | which failures may be repeated; what a lost answer means |
| **Job service, tick** (`api/src/app/jobs/job-service.ts`) | an in-process lock that serializes ticks, events and confirmations; the service runs in one API process | admit, start, refuse, recover, hold, clean, relay, poll | one write slot for the customer; a start that is neither accepted nor refused; a step that fails half-way and the steps after it |
| **Backoff hold** (`report_device_update_backoff`, `accept_device_update_hold`, `clean_device_update_hold`, the Redis key) | the newest report and the registry entry in the detail row, a key with 300 s to live | report, accept, write, release, clean | the report, the registry and the key change one after another, in two stores |
| **Job API, events** (`api/src/app/jobs/jobs.ts`, `jobs-stream.ts`, `frontend/src/app/jobs/`) | streams, the revision a page holds | list, detail, cancel, reconcile, event stream, the reader of a page | an event before the subscription, during a read, or after the page was left |
| **Kestra flows** (`deployment/kestra/`, `api/src/app/orchestration/`) | executions | start batch and finish requests | executions are lost, repeated, overlapped |
| **Command polls** (`due_device_command_polls`, `claim_device_command_polls`, `settle_device_command_polls`) | poll lease of the job, claim of each operation, due time, watch window | due, claim with its sweep, settle, release | a late poll against the end of the watch, another lease, or another request of the same flow |
| **Job publications** (`record_job_change`, `read_job_publications`, `complete_job_publications`, the relay) | revision, publication rows | read, publish, complete | delivery across crashes, by couriers that overlap |
| **Previews** (`open_device_update_preview`, ...) | preview rows, digest, expiry | open, add, seal, confirm | a repeated confirmation, a changed selection |
| **Exports, imports** (`device-export.ts`, `device-import.ts`, `device-export-store.ts`) | file job rows with lease, attempt and stamp, report lines, artifacts, Sheets | claim, renew, stamp, store, finish, cancel, recover | the flow repeats a request whose run may still be alive |
| **Device inventory, sync, entity cache** (`016-device-inventory.sql`, `device-sync.ts`, `entity-cache.ts`) | rows with observation stamps, overlays of written values, sync lease and header | full sync, entity sync, fresh read, overlay | a list that lags behind a write, a sync that removes what a read has just found |
| **Google access tokens** (`008-google-token-coordination.sql`, `coordinator.ts`) | the shared token or failure, renewal lease | acquire, finish, reject, reset, health check | late answers of old tokens and old credentials |
| **Google connection** (`007`, `011`, `015`, `credential.ts`) | generation, credential, candidates | stage, verify, confirm, replace, rotate, disconnect | a plan reviewed for another generation, a replaced credential still in use |
| **Sign-in, grants, invitations, revocation** (`001`–`006`, `auth/`) | sessions, roles, invitations | login, grant, revoke | a revoked permission still in use |
| **Schools and settings** (`009`, `012`–`014`) | versioned rows | update with version | lost update |
| **Device queries, Drive, storage, web application, contracts, installer** | see `PROJECT.json` | reads, rendering, deployment | little protocol state |

How they interact: the API records a confirmed preview as an `accepted` job; the
**tick** of the job service admits the next job into the single write slot of the
customer, unless another job's backoff holds the queue, issues a dispatch token and asks
Kestra for an execution; the execution posts **batch** requests to the worker, one for
every batch of the job, then a **finish** request. The worker claims the batch in the
database, sends its operations to Google, settles what it learnt, reads back what stayed
unclear and releases the batch. When the execution or the worker is lost, the tick
issues a new token (up to three) or ends the job. A person or the tick may later
reconcile an operation whose outcome is unknown.

What makes the write job correct: only the owner of a live lease sends;
an operation is never sent by two requests, a command never twice; an operation
that counts as not attempted was never sent; a recorded success happened; a
recorded refusal is final; a decided operation stays decided; counters, rows and
status agree; a stop stays a stop; the write slot is always given back.

What makes the queue correct: one write job of a customer runs; no job starts under
a hold; a hold never outlives its job without a registry entry that the cleanup
visits; the status jobs of an import wait for its update job and are cancelled with
it; every confirmed job leaves the queue.

What makes the rest correct: a poll shows no state that Google has not reached and
never goes back, and every watch ends; a page that somebody looks at misses no
change; a file job creates one Sheet, shows a file that exists and a report of one
attempt, and ends; a token of another credential is never used; a written value
is not undone by a list or a read from before the write, and a sync removes only
what nothing has shown since its request.

## 2. What is modelled

### DeviceWriteJob

One job, from its admission to its end. One action is one database transaction
together with the worker's reaction to its answer, one exchange with Google, or
one passage of time; transactions take the job row lock first, so they are
atomic. `PROJECT.json` maps every definition to its lines.

| Model | Code |
|---|---|
| `job` | `cc.jobs` and `cc.device_update_jobs`: status, finished time, stop record (`failure`), cancel request, dispatch token, whether a claim proved the execution, whether the 10-minute windows for a start and for a heartbeat have passed |
| `op` | `cc.device_update_operations`: status, claiming attempt, verification attempt, its lease and the `verify_after` delay |
| `tally` | the header counters, as the sets of operations they count |
| `owner`, `lease` | attempt and lease of each batch row: none, live, in its 30 s grace, lapsed |
| `pc`, `reqToken`, `reqBatch`, `track`, `drained`, `hold` | the local state of the requests running in the worker |
| `wire`, `applied`, `sentBy` | requests on their way to Google, what Google carried out, a history variable |

| Actions | Code |
|---|---|
| `Relabel`, `Admit`, `RefuseStart`, `Recover`, `RequestCancel` | `admit_device_update_job`, `abandon_device_update_start`, `recover_device_update_jobs` (a fresh execution, an abandoned start, or `finalize_device_update_job`), `request_job_cancel` |
| `ClaimSuperseded`, `ClaimStopped`, `ClaimDone`, `Claim` | the answers of `claim_device_update_batch`; `busy` changes nothing |
| `Renew`, `Send`, `SettleRound`, `EndSending`, `SettleLeftovers`, `ReleaseBatch`, `Quit` | the batch request of `device-update.ts` |
| `GoogleAccepts`, `GoogleRefuses`, `GoogleDiffers`, `GoogleDefers`, `LoseAnswer`, `GoogleAlone` | one request's answer as `batch.ts` and `classifyWrite` read it; Google may act on a request whose answer nobody waits for |
| `ReadDevices`, `SettleReadBack`, `Prepare`, `FinishSuperseded`, `ClaimVerification`, `FinishJob`, `Reconcile` | read-back, finish and reconcile |
| `StartWindowEnds`, `HeartbeatAges`, `LeaseLapses`, `GraceEnds`, `VerifyDelayEnds`, `VerifyLeaseLapses` | clocks |

What is abstracted:

- Any batch, finish or reconcile request may start at any time under any token
  that was ever issued. This covers every order, repetition and overlap that
  Kestra's flows and its retries can produce.
- Clocks are states (a lease is live, in grace, lapsed). `LeaseLapses` waits
  until the owner has stopped sending, because the lease of 180 s outlives the
  watchdog that aborts the sends at 150 s; everything else may run late.
- `GoogleLag` says whether Google may still act on a request long after the worker
  gave it up. The fence at a takeover and the read-back delay assume that it may
  not; the properties that rest on this are checked where `GoogleLag` is FALSE,
  all the others where it is TRUE, the harder case, or in both.
- Access loss, a changed connection and errors of the store are nondeterministic
  (`ClaimStopped` may fire at any claim, `fails` at any settlement, `Quit`
  anywhere).
- The operations a read-back holds form one chunk. The parts of a status POST
  are answered one operation at a time. A device whose value differs from both
  the old and the wanted one is a device that differs.
- Field values are not modelled. A 2xx answer to a PATCH either confirms the wanted
  values (`GoogleAccepts`) or names others (`GoogleDiffers`); the second is taken as a
  write that had no effect, which is what `classifyWrite` concludes. Unlike a refusal, it
  fails the operation also when an earlier PATCH got no answer.
- Counters are sets, so a counter that has the right size for the wrong
  operations would be seen.

`WriteContract` is what a write job promises, without leases, requests, executions or
read-backs: it asks Google only while it has the write slot, and only for operations
that are open; what it reports of an operation is true at that moment and final,
except that a read-back may decide an unknown one (never of a command), and that an
update may fail although an earlier request of it was carried out, when a later answer
named other values (`NamesValues`); the slot goes with its last open operation, and it
does go. `ContractSpec` says that
`DeviceWriteJob` implements it: the slot is held by the status `running`, what is
reported is the row without the way it got there, and the world is what Google
received and carried out. `AskedUnderClaim` says what other jobs may conclude from a
missing claim: nothing was asked of Google.

### JobAdmission

All the write jobs of one customer and the job service that admits them. One action
is one database transaction, one Redis command or one Kestra call of the job
service; the life of a running job (`DeviceWriteJob`) is reduced to its claim, its
backoff reports and its end.

| Model | Code |
|---|---|
| `status`, `claimed`, `requested` | `cc.jobs.status` (the finished statuses are `"ended"`), `first_claimed_at`, `cancel_requested_at` |
| `report`, `written`, `cleaned` | an unused backoff report of less than 30 s under a live lease; the registry columns `hold_written_at` and `hold_cleaned_at` |
| `key` | the owner in the Redis key of the hold |
| `pc`, `agenda`, `target`, `heldRead`, `todo` | where each call of the job service is, what it does afterwards, and what it has in hand |
| `WaitFor`, `Rank`, `Commands` | `wait_for_job_id`, the admission order (target count, creation, display id), the jobs that may await devices |

| Actions | Code |
|---|---|
| `Tick`, `Changed`, `AdmitAfterConfirm` | the three ways into the lock of `JobService.exclusive`; the plan of a call is the sequence of its `step`s |
| `AcceptHold`, `WriteHold` | `applyHoldLocked`: `accept_device_update_hold`, then the key; after 5 s the write is left out |
| `ReadHold`, `AdmitJob`, `StartJob`, `AbandonStart` | `admitLocked` and `startLocked`: the key, `admit_device_update_job`, Kestra's answer, `abandon_device_update_start`, and the `"retry"` of a tick after a refusal |
| `RecoverJobs` | `recoverLocked`: nothing, a job that was repaired, or a fresh start |
| `Cleanup`, `ReleaseHold`, `CleanHold` | `cleanupLocked`: the selection, the compare-and-delete script, `clean_device_update_hold` |
| `Confirm`, `Cancel`, `JobClaims`, `ReportBackoff`, `ReportLapses`, `RunEnds`, `DevicesAnswer`, `KeyExpires` | confirmations and an import's Execute, `request_job_cancel` with its cascade, the worker, time |
| `PartFails`, `ReadHoldFails`, `ReleaseHoldFails` | a failed statement, an answer lost after its commit, a process that dies, a Redis error |

What is abstracted:

- One customer; the lock that customers share is the lock of its calls.
- A report is new and recent, or it is gone. The lease that it needs is part of it.
- `RunEnds` is every end that `DeviceWriteJob` describes: a finish, a recovery, an
  abandoned start. A command job may end its issuing in `"awaiting-devices"`.
- A Redis command that its client gave up after 3 s has taken effect by then or
  never does, and commands take effect in the order in which they were sent.
- The relay and the polls of the tick touch none of these variables; they are
  modelled by `JobNews` and `CommandPolls`.

### WriteJobs

The write jobs of a customer together, and what they do at Google: `JobAdmission`
composed with one `WriteContract` per job (`Contract(j)`), whose slot is the job's
place in the queue (`Place(j)`: the waiting statuses, `running`, or released).
`known` and `world` are the reports and the effects of each job. `ServiceStep` is a
step of `JobAdmission`; a job that it moves takes or leaves the slot as its contract
says. `JobWorks(j)` is a step of one job between two such steps: it asks Google,
under a claim, or reports. So the two models of a job meet here: `JobAdmission` knows
when it runs and not what it does, `DeviceWriteJob` what it does and not who else
runs.

The composition could hide a fault if `ServiceStep` left out a step that `JobAdmission`
takes. It does not, and this is a theorem (`ServiceUnhindered`): whatever the job
service does, the jobs that it moves have reports with which they keep their contracts
(`LastReports`: what is open may always become unknown, and a job that never ran has
dropped everything). `JobWorks` asks only under a claim because `AskedUnderClaim` holds
of `DeviceWriteJob`.

### CommandPolls, CommandWatch, CommandTerms

One command job after its release, in `"awaiting-devices"`: the commands were
issued, Google carries them out when the devices come online, and polls watch them.

| Model | Code |
|---|---|
| `status`, `op`, `tally` | the job, its operation rows (status, `command_state`, whether Google has named an expiry, whether the watch is over, whether a poll is due, the claiming run), the header counters |
| `poll`, `flows` | the poll lease of the job; the leases whose Kestra flow may still send a request |
| `run` | the poll requests in the worker: the lease they carry, the operations they claimed and the answers they have |
| `google` | where each command is at Google |
| `Due`, `Start`, `FlowEnds` | `due_device_command_polls` and the start of a flow by the tick; the flow's request, which may repeat and overlap |
| `Claim`, `Answer`, `Settle`, `EndRound`, `Release`, `Throw` | `runPoll`: `claim_device_command_polls` with the sweep of watches that ended, the reads at Google, `settle_device_command_polls`, `release_device_command_polls`, a lost answer or an error |
| `BecomesDue`, `WatchPasses`, `ClaimLapses`, `LeaseLapses`, `GoogleMoves` | time and Google |

`CommandWatch` is what the polls promise, without leases, flows and requests: a row
takes a state of Google no older than what it shows, the first answer that names
Google's expiry moves the end of the watch (in both directions for a reboot),
commands whose watch is over end as unknown, the job ends with its last one, and
no command stays issued beyond its watch. `WatchSpec` says that the polls implement
it. `CommandTerms` holds the vocabulary of both: states, outcomes, the order in
which a command moves.

### CommandHandOver

A command job between its two lives: `DeviceWriteJob` issues its commands and lets the
write slot go, `CommandPolls` watches them. `PollRow` is the part of an operation row
that the polls go by, `Polls` is `CommandPolls` over these rows, the header and the
counters of `DeviceWriteJob`, before any flow, lease or poll request. `HandOver` says
that what the finish or the recovery leaves behind is an initial state of `CommandPolls`
and that no batch has a lease any more; `HandedOver` that nothing which is still under
way in the worker (a late answer, a settlement, a retry of a batch, a second finish) and
no recovery writes the header, the counters or the rows from then on. So the two
modules, each checked and proved alone, describe one job without a gap and without a
second writer.

### JobNews, JobFollow

How a change of a job reaches a page.

| Model | Code |
|---|---|
| `rev`, `rows`, `hand` | `cc.jobs.revision`; the publication rows; what each courier (the relay, the service's own publications, the worker) has read and told |
| `server`, `wire`, `link` | the API's subscription (`device-events.ts`), the events on their way, the `EventSource` of the tab |
| `page`, `shown`, `reader`, `read` | the page, the answer it shows, the flags of `JobReader`, the read under way |
| `Commit`, `Take`, `Tell`, `Complete`, `Drop` | `record_job_change`; read the rows, publish, complete; a courier that dies or fails |
| `Enter`, `Leave`, `Connect`, `Opens`, `Deliver`, `Breaks`, `Notices` | `job-stream.ts`, `live-feeds.ts`: subscribe before the stream begins, each open asks for a read, a stream that ended is opened again |
| `TimerFires`, `Refresh`, `Answer`, `Arrives`, `Fails` | `job-reader.ts`: debounce, a read, its answer, a failure |

`JobFollow` is what the page promises: what it shows never goes back and is never
ahead of the job, and while somebody looks at it, it comes to show every revision.
`FollowSpec` is the refinement. A lost Redis message of a live subscription is not
modelled: Pub/Sub loses messages only with the connection, which ends the stream.

### FileJobs

One file job: a CSV export, a Sheet export, or the validation of an import (`kind`).

| Model | Code |
|---|---|
| `job` | `cc.jobs` with `cc.device_export_jobs` or `cc.device_import_jobs`: status, cancel request, whether a request has claimed it, lease, stamp of the Sheet, attempt |
| `source`, `lines`, `result` | stored sources of an import, its report lines with their attempt, the file or Sheet that the job shows |
| `run`, `files`, `sheets` | the requests of the flow in the worker, the artifact of each, the Sheets created |
| `Claim`, `ClaimDone`, `ClaimStamped` | the three answers of the claims; an export that was stamped ends at its next claim |
| `SeesDone`, `WorkFails`, `Quit`, `Stage`, `Prepare`, `Publish`, `Stamp`, `StampCancelled`, `CreateSheet`, `FillSheet`, `LinkSource`, `StoreLines`, `Report` | the phases of `device-export.ts` and `device-import.ts` |
| `Finish`, `FinishFails`, `Discard` | the finish, its lost answer (the run then asks what became of the job), the removal of an unused artifact |
| `Cancel`, `Lapse`, `Recover` | `request_job_cancel`, time, `recover_device_file_jobs` |

The heartbeat only renews the lease and tells a run what its next call would tell
it, so it is no action. Any request of the flow may start while others run; this
covers Kestra's retries and its error handler.

### GoogleAccess

The connection of the customer and the one access token that API and workers share.

| Model | Code |
|---|---|
| `conn`, `cand`, `row`, `check` | `cc.google_connection`, its candidates, the token row (empty, a renewal lease, a token, a failure), the claim of the health check |
| `reader`, `checker`, `editor` | reads of Google (`coordinator.ts`), health checks, and what each administrator is about to send, for the generation on the screen |
| `Stage`, `Verify`, `Expire`, `Plan`, `Confirm`, `Replace`, `Rotate`, `Disconnect` | the life of candidates and of the connection (`007`, `011`); each change of the credential starts a generation and closes what was reviewed for the last |
| `Ask`, `Cached`, `Acquire`, `StoreToken`, `StoreFailure`, `Reject`, `Record`, `GiveUp` | one read: the shared token or a renewal under a lease, the result, the report of a refusal |
| `Asked`, `ClaimCheck`, `FinishCheck`, `EndCheck`, `Retry` | the health check and the reset of a failure |
| `RowAges`, `CheckEnds` | time |

A credential is named by its candidate, a token by the read that renewed it. The
sealing of credentials and the key service are not modelled.

### DeviceInventory

One device and one of its fields, while full syncs, reads and writes observe it.

| Model | Code |
|---|---|
| `google`, `list` | the value of the field at Google, numbered in order, and what lists show of it |
| `clock`, `row`, `overlay` | the stamps of PostgreSQL, the row (value, stamp of the field, `last_entity_sync`, removed), the overlay of a written value |
| `sync`, `header`, `targets` | `cc.device_sync_state` with its lease, the job header of each sync, `cc.job_targets` |
| `run`, `read`, `write` | workers of a sync (`device-sync.ts`), reads of the device (`entity-sync.ts`, `device-fresh-read.ts`), operations of write jobs |
| `Request`, `Abandon`, `Claim`, `ReadPage`, `StagePage`, `Finish`, `FinishFailed`, `QuitRun`, `Cancel`, `Purge`, `Lapse` | the life of a full sync |
| `StampRead`, `Get`, `StoreFound`, `StoreMissing`, `QuitRead` | a read: stamp, Google, `upsert_devices` or `soft_delete_devices` |
| `Send`, `Answer`, `Lose`, `StampReadBack`, `ReadBack`, `Settle`, `SettleMissing` | a write as `settle_device_update_operations` records it in the inventory; its batch and its leases are `DeviceWriteJob` |
| `External`, `ListMoves`, `Expire` | Google's console, the list that catches up, the 36 hours of an overlay |

Assumed of Google: a list lags and never goes back, and it lags less than an overlay
lives. Every value of the field is new; with values that return, a list from before
the write that happens to show an equal value ends the overlay early, because
convergence compares values (`016-device-inventory.sql:516`). A device that Google
no longer returns is one that a list may leave out and a read may miss at any time.

Two behaviours of the code that the model shows and that no property forbids: a
refresh read that is stamped after a write and stored before its settlement keeps
the settlement from publishing, and leaves no overlay, so a list that lags can then
bring the old value back until the next observation; and a removal carries no
stamp, so a read that found the device and is stored late revives it until the
next observation.

## 3. The runs

The `MC` modules give the instances. All runs disable the deadlock check because each
system stops when its requests are used up and its jobs have ended. Runs with
liveness properties use no symmetry.

| Run | Instance | Question |
|---|---|---|
| `update_takeover` | update job, 2 operations in 1 batch, 2 batch requests, no lag | Partial batches and takeovers: `SentByOneAttempt`, `UnattemptedNeverSent`, `RefusalIsFinal`, `FencedIsQuiet`, `TypeOK` |
| `status_recovery` | status job, 1 operation, 2 batch requests, 1 finish, 1 reconciler, 2 executions, lag | Lost starts and runners, a second execution, takeover, cancel, and read-backs by several readers: `SenderOwnsBatch`, `SucceededWasApplied`, `CountersAgree`, `FinishedAgrees`, `SettledForever`, `StopIsFinal` |
| `command_recovery` | command job, 1 operation, 2 batch requests, 1 finish, 3 executions, lag, fairness | A command through all its executions: `CommandSentOnce`, `FailedNeverApplied`, the hand-over to the polls (`HandOver`, `HandedOver`), and the refinement `ContractSpec` |
| `import_writes` | `WriteJobs` with the two jobs of an import and a command job, 1 operation each; 1 call, 1 failure | The jobs together at Google: `OneUnsettled`, `ImportInOrder`, `CancelledImportIsQuiet` |
| `write_slot` | an update job, the status job of its import (first in the order) and a command job; 2 calls, 1 failure | The slot and the hold, over every order of the calls: `HoldIsRegistered`, `NoStartUnderHold`, `PassesSlotOnce` |
| `queue_moves` | the update job and its status job, 1 call, 1 failure, fairness | `HoldIsReleased`, `QueueMoves` |
| `command_watch` | 1 command, 2 leases, 2 requests, fairness | Lapsed leases, lost flows, dead requests: the refinement `WatchSpec`, `SupersededRunIsQuiet` |
| `job_news` | 2 revisions, the relay and one more courier, fairness | `NewsOnTheWay` and the refinement `FollowSpec` |
| `file_jobs` | the three kinds, 3 requests, 2 batches of lines, fairness | `OneSheet`, `FileKept`, `ReportOfOneAttempt`, `EndIsFinal`, `JobEnds` |
| `google_access` | 2 candidates, 2 reads, 1 health check, 2 administrators, 3 generations | `CredentialInStep`, `RowKept` |
| `device_inventory` | 2 full syncs, 2 workers, 1 read, 1 write with its read-back, 2 changes of the value | `OverlayHolds`, `WriteKept`, `OneSync`, `RemovedAsSeen` |
| `early_read` | update job, 1 operation, 1 batch request, 1 finish, no lag | the finding below |

Why these bounds are enough to be interesting:

- *Write job.* The hazards are between two owners of a batch, two settlements of an
  operation, or two executions of a job. Two requests produce every such pair; two
  operations in a batch produce partial settlements (one sent, one not).
  `command_recovery` has the three executions of the code; in `status_recovery` two give
  one rotation and the limit after it. Larger instances gave the same answers (a command
  job with two batches, a status job with two reconcilers, `ContractSpec` of a status
  job and, with 833,838 states, of an update job); several batches at once are covered
  by the proofs. A job with issued and decided rows at the hand-over needs two
  operations; an instance with two operations and two executions (425,624 states) gave
  the same answers, and the proof covers any number.
- *Queue.* Three jobs give a runner, a waiting job and a job that waits for it, with
  the waiting status job first in the order, where it would block the queue if the
  admission stopped at it. Two calls are enough to overlap, because a call depends
  on the others only through the lock, PostgreSQL and Redis. One failure
  (`MaxFaults`) hits any step of any call.
- *Jobs together.* Three jobs give two that could overlap and one that must wait. No
  quota is reported (`WithoutHolds`), because a hold only delays an admission, which
  `write_slot` checks; the view in `MCWriteJobs` forgets the result of a decided
  operation, which decides no later step. The proofs need neither.
- *Polls.* Two leases give a replaced one, two requests one that is late. In this
  instance the requests of one flow do not overlap (`Overlap` is 1); that they
  may, and several operations, are covered by the proofs, which hold for every
  `Overlap`. `Reported` leaves out states that the code treats like one of the
  three it keeps.
- *News.* Two revisions give an event that is older than what the page reads or
  holds. A second caller behaves like the first; the proofs hold for any number.
- *File jobs.* Three requests are a claim, the retry that overlaps it, and a late one
  after the end; two batches of lines give a report that is half stored.
- *Google access.* Two credentials and two administrators give a review that another
  change overtakes; the third generation lets a key rotation come between two credentials.
- *Inventory.* Two syncs give a replaced one, two workers a late one. The value
  changes by the write and by somebody else, in both orders. The stamps are
  unbounded, but only their order matters: the view in `MCDeviceInventory` replaces
  each stamp by the number of pending stamps below it. Instances with two writes
  (2.9 million states) gave the same answers.

The proofs below remove the bounds for the most important properties.

**Fairness.** In `command_recovery`, weak fairness of `Recover` (the tick runs every
few seconds and its query is repeated until it succeeds), of the clocks that
lead to it, and of `EndSending` (the retries are bounded and the watchdog aborts
at 150 s). Nothing is assumed of Kestra, the worker's requests, Google or people:
the slot is given back although every execution and request may be lost. The
contract promises the slot back of a job that runs, so admission needs no fairness.

In `queue_moves`, strong fairness of `Tick`: the timer asks for the lock every five
seconds and the lock is first come, first served, so events cannot keep the tick out.
Weak fairness of each step of a call: every statement ends, by its answer or by its
timeout. Weak fairness of `RunEnds`: a running job ends, which is the liveness of
`WriteContract`. The expiry of the key is not assumed: the cleanup alone releases a
hold. The number of failures is finite, as for every progress under failures.

In `command_watch`, time passes and requests end (weak fairness), and the tick's
start of a flow, the flow's request under a live lease and its claim succeed again
and again while they can (strong fairness): leases last ten minutes and flows start
within seconds. Google need not answer nor move: the watch ends by its deadline.

In `job_news`, strong fairness of the relay's read and publication (its timer repeats
them for ever; a failure must not happen each time), of a stream's opening and of
the API's answer; weak fairness of what ends by itself: the relay's completion or
loss of what it has in hand, the reconnection, the delivery of an event, the
debounce, the arrival of an answer. Nothing is assumed of the other couriers.

In `file_jobs`, weak fairness of each step of a request (calls end by their timeouts),
of the lapse of a lease that nobody renews, and of `Recover`, which the tick
repeats. No request need ever start: a job that nobody claims is ended as well.

`google_access`, `device_inventory` and the remaining runs check safety only.

## 4. The proofs

TLAPS proves, for any set of operations, batches and requests, for every kind of
job, any number of executions and either value of `GoogleLag`; for any jobs, waits,
order, calls and failures of the queue; for any leases, requests, overlap and page
size of the polls; for any couriers and revisions; for any syncs, requests, reads,
writes and values of the inventory; and for any requests, reads, checks and
administrators of the others:

| Module | Theorems |
|---|---|
| `DeviceWriteJobSendProofs` | `SendsCorrect` (the inductive invariant), `SenderOwnsBatchCorrect`, `UnattemptedNeverSentCorrect`, `SentByOneAttemptCorrect`, `CommandSentOnceCorrect`; `AnswersCorrect`, `RefusalIsFinalCorrect`, `FailedNeverAppliedCorrect`; `LeaseCoversCorrect`, `FencedIsQuietCorrect`; `ContractSafetyCorrect` (the safety part of the refinement), `AskedUnderClaimCorrect`; of `CommandHandOver`: `HandOverCorrect`, `HandedOverCorrect` |
| `DeviceWriteJobRowProofs` | `TypeCorrect`, `SettledForeverCorrect`, `StopIsFinalCorrect`, `SucceededWasAppliedCorrect`, `CountersAgreeCorrect`, `EndsCorrect`, `FinishedAgreesCorrect` |
| `JobAdmissionProofs` | `AdmissionCorrect` (the inductive invariant), `OneWriterCorrect`, `WaitRespectedCorrect`, `CancelReachesWaitingCorrect`, `HoldIsRegisteredCorrect`, `NoStartUnderHoldCorrect`, `PassesSlotOnceCorrect`, `TypeCorrect`; of `WriteJobs`: `JobsKeepQueue` and `JobsKeepContract` (it implements the queue and the contract of each job), `ServiceUnhindered` (and the contracts leave out no step of the service), `TogetherCorrect` (the inductive invariant), `OneUnsettledCorrect`, `ImportInOrderCorrect`, `CancelledImportIsQuietCorrect` |
| `CommandPollsProofs` | `PollCorrect` (the inductive invariant), `TypeCorrect`, `AwaitingCorrect`, `SupersededCorrect`, `WatchSafetyCorrect` (the safety part of the refinement) |
| `JobNewsProofs` | `TypeCorrect`, `NewsCorrect` (the inductive invariant), `NewsOnTheWayCorrect`, `FollowSafetyCorrect` (the safety part of the refinement) |
| `FileJobsProofs` | `FileJobCorrect` (the inductive invariant), `TypeCorrect`, `OneSheetCorrect`, `FileKeptCorrect`, `ReportOfOneAttemptCorrect`, `EndIsFinalCorrect` |
| `GoogleAccessProofs` | `TypeCorrect`, `AccessCorrect` (the inductive invariant), `CredentialInStepCorrect`, `RowKeptCorrect` |
| `DeviceInventoryProofs` | `TypeCorrect`, `OneSyncCorrect`, `RemovedAsSeenCorrect`, `OverlayHoldsCorrect`, `WriteKeptCorrect` |

Assumed: `ConstantsAssumption` of each module (sets that are disjoint, bounds that are
positive, `None` outside of what it stands for; that `Requests` of a file job and
`Operations` of the polls are finite, because they are counted).
`SentByOneAttemptCorrect` also assumes that `Attempts` is finite, because the property
counts the attempts. `EndsCorrect`, `FinishedAgreesCorrect`, `ContractSafetyCorrect`,
`HandOverCorrect` and `HandedOverCorrect` assume that a job has operations (a preview
without a target cannot be confirmed), and `FailedNeverAppliedCorrect` is about
commands. `AdmissionAssumption`: a wait is one level deep and names a job that never
awaits devices (an update job), and no two jobs have the same rank (the display id
decides in the end).

The argument about the sends. "No two requests send an operation" is not inductive:
from a state in which a request believes an operation unsent while its row is
pending again, the next claim would send it twice. `SendInv` ties the three places
where the code keeps this knowledge together: what a sending request has not
settled is dispatched *to it* in the row, and lies in the batch whose live lease it
holds (`SenderHoldsRows`, `SenderOwnsBatch`); a dispatched operation was sent by no
other attempt than the one in its row (`DispatchedByRow`); what a request counts
as unsent it did not send (`UnsentIsUnsent`), so that the settlement which gives it
back to the queue tells the truth (`UnattemptedNeverSent`). Each fence of the
database functions is what preserves one of these conjuncts: the live-lease check
of a claim keeps the owner alone, the attempt check of a settlement ignores a
late request, the watchdog ends the sends before the lease. Commands need in
addition that nothing waits for a retry (`CommandsNeverWait`).

The row proofs go action by action with the type invariant; `SucceededWasApplied`
needs that an accepted answer, or a read that matches, implies the write took
place; `CountersAgree` needs only that each write of a row is followed by a
refresh in the same transaction, or touches no counted status. `FinishedAgrees`
needs `EndInv`: finished time, status, cancel request and claim of the header go
together, and a job that no execution has claimed has only pending and skipped rows.
The last is what makes the fixed status "failed" of an abandoned start agree with its
rows, which the code writes without counting them.

Two invariants go from the sends to Google. `AnswerInv`: only what was sent arrives, and
a first answer that is no acceptance leaves nothing at Google; a failure is recorded
from such an answer, so it is final. The exception is an update whose first PATCH got no
answer and whose repeat was answered with other values: it fails while the first one may
be on its way, and both `RefusalIsFinal` and the contract name this case. `QuietInv`,
for a Google that does not lag: a dispatched row belongs to the last owner of its batch,
and while a request for it is open, the batch has a lease or its grace; so whoever
fences a row after the lease and its grace acts on an operation that nothing can reach
any more.

The contract follows from all of these: `SendInv` says that what is sent is open and the
job runs, `AnswerInv` and `SucceededWasApplied` that a report is true (the failure of an
update by its answer apart), the row steps that it stays, and `EndInv` that the slot
goes with the last open row.

The argument about the hand-over. A job begins to wait in the transaction of its finish
or of its finalization, which runs when no row is open and no batch busy
(`StartsWaiting`), and it waits only if some command is issued. `LeftToPolls` keeps of
this what the polls need: no row is open, none was decided by a device (a command is
never read back), no batch has a lease. The counters come from `CountersAgree`.
`WaitingIsFrozen` goes through every action that may still run: each fence of the
database functions wants a running job or a live lease, and neither comes back, so what
is under way ends without a write.

The argument about the queue. `AdmissionInv` has two halves. The jobs: an import's
jobs are confirmed together (`PlanTogether`), and none that waits was claimed before
its update job ended (`NeverAhead`); from these follow the wait and the cancel, because
a cancel finds every waiting job unclaimed and ends it. The hold: one call moves at a
time (`OneHolder`), its job in hand has a registry entry that is not yet clean when
its key is written, and its key is gone when the entry becomes clean
(`RegistryInStep`), a clean entry belongs to a released job, which never runs again
(`CleanIsReleased`), and a flag that says "no hold" is still right when the admission
uses it (`FlagIsCurrent`), because only the holder of the lock writes the key. The
proof is per action; most steps end a part of a call, which `GoOnInStep` settles for
all of them.

The argument about the jobs together. `JobsKeepQueue` carries `AdmissionInv` over to
`WriteJobs`, because a job's work leaves the queue alone. `JobsKeepContract` says that
each job keeps its contract, its place being its slot: a step that moves it is one of
its contract by `ServiceStep`, and one that moves another job leaves its place, its
reports and its effects alone (`PlaceStep`). Two facts then connect the jobs: a job that
let the slot go has decided every operation (`ReleasedIsDecided`, from the last step of
the contract and because reports stay), and a job that asked Google is claimed
(`TouchedIsClaimed`). The other direction, that no step of the service is lost, is
`ServiceUnhindered`: the moves that `PlaceStep` leaves are those of the contract, each
with the reports that `LastReports` gives it. With one runner, a job that has asked and
not decided is that runner (`OneUnsettled`). A status job that has asked is claimed, so
by `NeverAhead` its update job is over, hence decided (`ImportInOrder`); and after the
cancel of the update job it was never claimed, so it has not asked
(`CancelledImportIsQuiet`).

The argument about the polls. A settlement writes what Google said some time ago.
`PollInv` therefore says of the row and of every answer in a run's hand where they
stand in the order of a command's states: the row at or before the answer, the
answer at or before Google (`AnswersInStep`), for as long as the run may still
settle it. The claim of an operation is what preserves it: another run cannot
settle meanwhile, and a run that lost its claim cannot settle at all. Each step of
the polls is then a step of `CommandWatch` or a stutter.

The argument about the news. "The page misses nothing" needs to know of each
revision why it will come: its row is still there, or a courier has told it after
the page subscribed, or the page reads later than it (`Coming`). `NewsInv` adds that
what a courier has told is coming (`ToldIsComing`), so a row may go when its courier
completes it.

The argument about file jobs. One permission to create a Sheet is given because the
stamp is set once and only the run that set it creates (`StampIsPermission`); each
attempt of an import belongs to one run and lines of older ones are removed by the
claim that replaces them (`AttemptsUsed`, `ReportInStep`); and a run that published
does nothing more to its file once the job shows it, because after a lost answer
it asks before it cleans up (`FileBehindFinish`).

The argument about the token. `AccessInv` ties each late answer to the generation it
carries: what a read, a check or an administrator has in hand was the credential of
that generation (`CallsInStep`), and generations only grow. A call whose generation
is the current one therefore brings what belongs to the current credential, and the
comparison of generations in every function keeps the others out. `RowKept` speaks of the
steps from a token to a failure and of failures for good; that a token ages or is
replaced by another one of its credential needs no reason.

The argument about the inventory has two halves. The syncs (`SyncInv`): no sync is
open but the one that the state names, and the row was seen since its request exactly
if that sync listed it or a read has found it since; the finish compares these stamps,
so it removes what it should. The field (`FieldInv`): what lists, pages, reads and
settlements can still bring is ordered against the last published write. Without an
overlay, the lists and the page that may still be staged are as new as that write
(`ListsKeep`), because only an equal value in a list or time ends an overlay; a read
stamped after the row, or after a settlement that is still to come, has found that
write or a later value (`ReadsKeep`), because each stamp is taken before the read.

Only model-checked is what needs fairness, which is out of this prover's reach:
`HoldIsReleased`, `QueueMoves`, `JobEnds`, and the liveness parts of `ContractSpec`,
`WatchSpec` and `FollowSpec`. Every safety property of the passing runs is proved, and
so are `OneWriter`, `CancelReachesWaiting`, `WaitRespected` and the type invariants of
the modules whose runs do not list them (`OneUnsettled`, `CancelledImportIsQuiet` and
`ImportInOrder` of `import_writes` say the first three of what reaches Google). That the
queue moves also when every job is a `DeviceWriteJob` is not checked as one:
`queue_moves` assumes of each job the liveness that `command_recovery` checks.

## 5. Finding

`early_read` (`ReadWaitsForDelay`). The design
(`docs/superpowers/specs/2026-10-16-device-write-jobs-design.md:1041`) says: "A
read-back starts no earlier than `verify_after`". The code bounds the read-back of a
batch by the batch's own claim. When the sending took longer than 75 s, the delay
would end too close to that bound, so `settleChunk` settles the operation unknown at
once (`worker/src/device-update.ts:2263`). That settlement clears `verify_after`
(`017-jobs.sql:3009`). The finish then claims the operation without a delay and
reads the device while the request may still be on its way, and can record a
refusal of a write which Google then carries out. For this reason
`FailedNeverApplied` is checked for commands only, which have no read-back, and
`RefusalIsFinal` speaks of write settlements.

The exception in `RefusalIsFinal` is of the same kind. The table of that design settles
an operation `failed` after "A definitive refusal, and no open request" (line 1012). For
fields, `2026-10-21-update-device-fields-design.md:126` adds: "When a field differs, it
settles `failed` with `value-differs`". `classifyWrite` follows the second
(`device-update.ts:773-796`) without asking whether an earlier PATCH of the operation got
no answer, so such an operation can be failed while that PATCH may still be carried out.
Because the later document decides the case, it is stated in the properties and
is not a finding.

## 6. Not modelled, and the plan

`PROJECT.json` lists every component with its status, and every hazard with the
properties that cover it or the reason why none does.

Not modelled, because they keep little protocol state or only render it: device
queries and their selection, Drive access, the presentation of the web application,
the shared schemas, worker dispatch. Deployment (the installer, profiles, operations)
runs outside the program. Most files of the repository are of these kinds, or tests.

Not modelled, although they keep state:

- **Previews and confirmation.** The confirmation is one transaction: it compares the
  digest, the access, the connection and the expiry under locks and consumes the
  preview, and a repeated one finds the job it made. A model would restate the
  comparison.
- **Entity cache.** The worker and the API replace cached records without a
  comparison; a page takes a cached record only if its version equals the one the
  database computes in the same query (`device-query.ts:237`, `device-pager.ts:155`).
  The version is `record_version + telemetry_version`, a sum of two counters that
  never decrease, so equal sums mean that neither has moved. The query sets live
  under a generation that a full sync increments.
- **Refreshes of selected devices**: their batches, claims and in-flight sets.
- **Sign-in, sessions, grants, invitations, revocation, schools, settings**: single
  transactions with version checks. A revoked permission appears in
  `DeviceWriteJob` as a claim that stops.
- **The purge.** It removes old artifacts and rows; `DeviceInventory` has its part
  that closes full syncs. It also removes the artifact of a run whose finish met
  another run's completion: that run keeps its own published file
  (`worker/src/device-export.ts:636`).

What comes next: refreshes of selected devices.
