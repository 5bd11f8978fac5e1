----------------------- MODULE DeviceWriteJobRowProofs -----------------------
(***************************************************************************)
(* The type invariant of DeviceWriteJob, for every set of operations,      *)
(* batches and requests, every kind of job and every number of executions, *)
(* and what the rows of the job say: the counters agree with the rows, a   *)
(* decided operation stays decided, a stop is final, what the job reports  *)
(* as done was carried out by Google, and a finished job's status is the   *)
(* one its rows call for.                                                  *)
(***************************************************************************)
EXTENDS DeviceWriteJob, TLAPS

-----------------------------------------------------------------------------
(* The helpers return what their callers store.                            *)

\* device_update_terminal_status always names an end status.
LEMMA TerminalStatusType ==
  ASSUME NEW t PROVE TerminalStatus(t) \in Ended
BY DEF TerminalStatus, Ended

\* The counters only ever count operations of the job.
LEMMA RefreshType ==
  ASSUME NEW rows PROVE Refresh(rows) \in [Counted -> SUBSET Operations]
BY DEF Refresh, OpsWith

\* A settlement keeps a row well-formed.
LEMMA RowType ==
  ASSUME NEW r \in Row, NEW s \in OpStatus, NEW v \in Verifiers \cup {None},
         NEW b \in BOOLEAN, NEW c \in BOOLEAN
  PROVE  [r EXCEPT !.status = s, !.verifier = v, !.verifyLive = b,
                   !.verifyWait = c] \in Row
BY DEF Row

\* Fencing keeps the rows well-formed.
LEMMA FenceType ==
  ASSUME NEW rows \in Rows, NEW S, NEW v \in Verifiers \cup {None}
  PROVE  Fence(rows, S, v) \in Rows
<1>1. ASSUME NEW o \in Operations PROVE Fence(rows, S, v)[o] \in Row
  BY <1>1 DEF Fence, Rows, Row, OpStatus, Counted
<1> QED BY <1>1 DEF Fence, Rows

\* Skipping keeps the rows well-formed.
LEMMA SkipPendingType ==
  ASSUME NEW rows \in Rows, NEW requested
  PROVE  SkipPending(rows, requested) \in Rows
<1>1. ASSUME NEW o \in Operations
      PROVE  SkipPending(rows, requested)[o] \in Row
  BY <1>1 DEF SkipPending, Rows, Row, OpStatus, Counted
<1> QED BY <1>1 DEF SkipPending, Rows

\* A request that ends leaves a well-formed worker.
LEMMA EndBatchType ==
  ASSUME TypeOK, NEW a \in Attempts, EndBatch(a)
  PROVE  /\ pc' \in [Verifiers -> PCs]
         /\ reqToken' \in [Attempts \cup Finishers -> Tokens]
         /\ reqBatch' \in [Attempts -> Batches \cup {None}]
         /\ track' \in [Attempts -> [Operations -> Tracks]]
         /\ drained' \subseteq Attempts
         /\ hold' \in [Verifiers -> [Operations -> Holds]]
<1>1. /\ pc' \in [Verifiers -> PCs]
      /\ hold' \in [Verifiers -> [Operations -> Holds]]
  BY DEF EndBatch, TypeOK, PCs, Holds, NotHeld
<1>2. /\ reqToken' \in [Attempts \cup Finishers -> Tokens]
      /\ reqBatch' \in [Attempts -> Batches \cup {None}]
      /\ track' \in [Attempts -> [Operations -> Tracks]]
      /\ drained' \subseteq Attempts
  BY ConstantsAssumption DEF EndBatch, TypeOK, Tokens, Tracks, Untracked
<1> QED BY <1>1, <1>2

LEMMA EndReaderType ==
  ASSUME TypeOK, NEW v \in Verifiers, EndReader(v)
  PROVE  /\ pc' \in [Verifiers -> PCs]
         /\ reqToken' \in [Attempts \cup Finishers -> Tokens]
         /\ reqBatch' \in [Attempts -> Batches \cup {None}]
         /\ track' \in [Attempts -> [Operations -> Tracks]]
         /\ drained' \subseteq Attempts
         /\ hold' \in [Verifiers -> [Operations -> Holds]]
<1>1. /\ pc' \in [Verifiers -> PCs]
      /\ hold' \in [Verifiers -> [Operations -> Holds]]
  BY DEF EndReader, TypeOK, PCs, Holds, NotHeld
<1>2. /\ reqToken' \in [Attempts \cup Finishers -> Tokens]
      /\ reqBatch' \in [Attempts -> Batches \cup {None}]
      /\ track' \in [Attempts -> [Operations -> Tracks]]
      /\ drained' \subseteq Attempts
  BY ConstantsAssumption DEF EndReader, TypeOK, Tokens
<1> QED BY <1>1, <1>2

\* A header keeps its type when a job ends, waits for devices or goes on.
LEMMA CloseType ==
  ASSUME job \in Headers, NEW rows, Close(rows)
  PROVE  job' \in Headers
<1>1. TerminalStatus(Refresh(rows)) \in JobStatus
  BY TerminalStatusType DEF JobStatus
<1> QED BY <1>1 DEF Close, Headers, JobStatus

\* An abandoned start writes well-formed rows.
LEMMA AbandonType ==
  ASSUME TypeOK, Abandon
  PROVE  /\ job' \in Headers
         /\ op' \in Rows
         /\ tally' \in [Counted -> SUBSET Operations]
<1>1. job \in Headers /\ op \in Rows BY DEF TypeOK
<1>2. job' \in Headers BY <1>1 DEF Abandon, Headers, JobStatus, Ended
<1>3. op' \in Rows BY <1>1, SkipPendingType DEF Abandon
<1>4. tally' \in [Counted -> SUBSET Operations]
  BY RefreshType DEF Abandon
<1> QED BY <1>2, <1>3, <1>4

\* What the reaper writes is well-formed.
LEMMA FinalizeType ==
  ASSUME TypeOK, Finalize
  PROVE  /\ job' \in Headers
         /\ op' \in Rows
         /\ tally' \in [Counted -> SUBSET Operations]
<1>1. job \in Headers /\ op \in Rows BY DEF TypeOK
<1>2. job' \in Headers BY <1>1, CloseType DEF Finalize
<1>3. op' \in Rows BY <1>1, SkipPendingType, FenceType DEF Finalize
<1>4. tally' \in [Counted -> SUBSET Operations]
  BY RefreshType DEF Finalize
<1> QED BY <1>2, <1>3, <1>4

-----------------------------------------------------------------------------
(* Type correctness, action by action.                                     *)

LEMMA TickType ==
  ASSUME TypeOK, Tick
  PROVE  TypeOK'
<1>0. job \in Headers /\ op \in Rows BY DEF TypeOK
<1>1. CASE Relabel
  <2>1. job' \in Headers
    BY <1>0, <1>1 DEF Relabel, Headers, JobStatus, Waiting
  <2> QED BY <1>1, <2>1 DEF Relabel, TypeOK, workerVars, googleVars
<1>2. CASE Admit
  <2>1. 1 \in Tokens BY ConstantsAssumption DEF Tokens
  <2>2. job' \in Headers
    BY <1>0, <1>2, <2>1 DEF Admit, Headers, JobStatus
  <2> QED BY <1>2, <2>2 DEF Admit, TypeOK, workerVars, googleVars
<1>3. ASSUME NEW t \in Issued, RefuseStart(t) PROVE TypeOK'
  <2>1. Abandon BY <1>3 DEF RefuseStart
  <2>2. UNCHANGED <<owner, lease, workerVars, googleVars>>
    BY <1>3, <2>1 DEF RefuseStart, Abandon
  <2> QED BY <2>1, <2>2, AbandonType DEF TypeOK, workerVars, googleVars
<1>4. CASE Recover
  <2>1. UNCHANGED <<owner, lease, workerVars, googleVars>>
    BY <1>4 DEF Recover, Abandon, Finalize
  <2>2. CASE job' = [job EXCEPT !.token = @ + 1, !.startDue = FALSE]
             /\ job.token < MaxExecutions /\ UNCHANGED <<op, tally>>
    <3>1. job.token + 1 \in Tokens
      BY <1>0, <2>2, ConstantsAssumption DEF Headers, Tokens
    <3>2. job' \in Headers BY <1>0, <2>2, <3>1 DEF Headers
    <3> QED BY <2>1, <2>2, <3>2 DEF TypeOK, workerVars, googleVars
  <2>3. CASE job' = [job EXCEPT !.token = @ + 1, !.stale = FALSE]
             /\ job.token < MaxExecutions /\ UNCHANGED <<op, tally>>
    <3>1. job.token + 1 \in Tokens
      BY <1>0, <2>3, ConstantsAssumption DEF Headers, Tokens
    <3>2. job' \in Headers BY <1>0, <2>3, <3>1 DEF Headers
    <3> QED BY <2>1, <2>3, <3>2 DEF TypeOK, workerVars, googleVars
  <2>4. CASE Abandon
    BY <2>1, <2>4, AbandonType DEF TypeOK, workerVars, googleVars
  <2>5. CASE Finalize
    BY <2>1, <2>5, FinalizeType DEF TypeOK, workerVars, googleVars
  <2> QED BY <1>4, <2>2, <2>3, <2>4, <2>5 DEF Recover, Rotates
<1>5. CASE RequestCancel
  <2>1. op' \in Rows
    BY <1>0, <1>5, SkipPendingType DEF RequestCancel
  <2>2. tally' = tally \/ tally' = Refresh(op')
    BY <1>5 DEF RequestCancel
  <2>3. TerminalStatus(tally') \in JobStatus
    BY TerminalStatusType DEF JobStatus
  <2>4. Marked \in Headers BY <1>0 DEF Marked, Headers
  <2>5. job' \in Headers
    BY <1>5, <2>3, <2>4 DEF RequestCancel, Headers
  <2> QED BY <1>5, <2>1, <2>2, <2>5, RefreshType
          DEF RequestCancel, TypeOK, workerVars, googleVars
<1> QED BY <1>1, <1>2, <1>3, <1>4, <1>5 DEF Tick

\* The header that a claim writes.
LEMMA AliveType ==
  ASSUME job \in Headers
  PROVE  Alive \in Headers
BY DEF Alive, Headers

LEMMA ClaimType ==
  ASSUME TypeOK, NEW a \in Attempts, NEW t \in Issued, NEW b \in Batches,
         Claim(a, t, b)
  PROVE  TypeOK'
<1> DEFINE pending == PendingOf(b)
           lost == LostOf(b)
<1>0. job \in Headers /\ op \in Rows BY DEF TypeOK
<1>1. t \in Tokens
  BY <1>0, ConstantsAssumption DEF Issued, Headers, Tokens
<1>2. job' \in Headers BY <1>0, AliveType DEF Claim
<1>3. op' \in Rows
  <2>1. a \in Verifiers \cup {None} BY DEF Verifiers
  <2>2. Fence(op, lost, a) \in Rows BY <1>0, <2>1, FenceType
  <2>3. op' = [o \in Operations |->
                 IF o \in pending
                 THEN [op[o] EXCEPT !.status = "dispatched", !.attempt = a]
                 ELSE Fence(op, lost, a)[o]]
    BY DEF Claim
  <2> HIDE DEF pending, lost
  <2>4. ASSUME NEW o \in Operations PROVE op'[o] \in Row
    <3>1. op[o] \in Row /\ Fence(op, lost, a)[o] \in Row
      BY <1>0, <2>2 DEF Rows
    <3>2. [op[o] EXCEPT !.status = "dispatched", !.attempt = a] \in Row
      BY <3>1 DEF Row, OpStatus
    <3> QED BY <2>3, <3>1, <3>2
  <2> QED BY <2>3, <2>4 DEF Rows
<1>4. tally' = tally \/ tally' = Refresh(op')
  BY DEF Claim
<1>5. /\ owner' \in [Batches -> Attempts \cup {None}]
      /\ lease' \in [Batches -> Leases]
  BY DEF Claim, TypeOK, Leases
<1>6. /\ pc' \in [Verifiers -> PCs]
      /\ reqToken' \in [Attempts \cup Finishers -> Tokens]
      /\ reqBatch' \in [Attempts -> Batches \cup {None}]
  BY <1>1 DEF Claim, TypeOK, PCs
<1>7. /\ track' \in [Attempts -> [Operations -> Tracks]]
      /\ hold' \in [Verifiers -> [Operations -> Holds]]
  BY DEF Claim, TypeOK, Tracks, Holds
<1>8. UNCHANGED <<drained, googleVars>> BY DEF Claim
<1> QED BY <1>2, <1>3, <1>4, <1>5, <1>6, <1>7, <1>8, RefreshType
        DEF TypeOK, googleVars

\* What Outcome gives an operation is one of its statuses.
LEMMA OutcomeType ==
  ASSUME NEW a, NEW o, NEW stop
  PROVE  Outcome(a, o, stop) \in {"issued", "succeeded", "failed", "skipped",
                                  "pending", "unknown"}
BY DEF Outcome

LEMMA SettleWriteType ==
  ASSUME TypeOK, NEW a \in Attempts, NEW S \in SUBSET Operations,
         NEW fails \in BOOLEAN, NEW stop \in BOOLEAN, NEW next \in PCs,
         SettleWrite(a, S, fails, stop, next)
  PROVE  TypeOK'
<1> DEFINE done == Settles(a, S)
           kept == {o \in done : ReadsBack /\ Outcome(a, o, stop) = "unknown"}
<1>0. job \in Headers /\ op \in Rows BY DEF TypeOK
<1>1. op' \in Rows
  <2>1. \A o \in Operations : Outcome(a, o, stop) \in OpStatus
    BY OutcomeType DEF OpStatus, Counted
  <2>2. op' = [o \in Operations |->
                 IF o \in done
                 THEN [op[o] EXCEPT
                         !.status = Outcome(a, o, stop),
                         !.verifier = IF o \in kept THEN a ELSE None,
                         !.verifyLive = o \in kept, !.verifyWait = o \in kept]
                 ELSE op[o]]
    BY Zenon DEF SettleWrite
  <2>3. a \in Verifiers BY DEF Verifiers
  <2> HIDE DEF done, kept
  <2>4. ASSUME NEW o \in Operations PROVE op'[o] \in Row
    <3>1. op[o] \in Row BY <1>0 DEF Rows
    <3>2. /\ Outcome(a, o, stop) \in OpStatus
          /\ (IF o \in kept THEN a ELSE None) \in Verifiers \cup {None}
          /\ (o \in kept) \in BOOLEAN
      BY <2>1, <2>3
    <3> QED BY <2>2, <3>1, <3>2, RowType
  <2> QED BY <2>2, <2>4 DEF Rows
<1>2. tally' = tally \/ tally' = Refresh(op') BY DEF SettleWrite
<1>3. job' \in Headers
  <2>1. \/ job' = [job EXCEPT !.failure = @ \/ fails, !.stale = FALSE]
        \/ job' = job
    BY DEF SettleWrite
  <2> QED BY <1>0, <2>1 DEF Headers
<1>4. UNCHANGED <<owner, lease, googleVars>> BY DEF SettleWrite
<1>5. /\ pc' \in [Verifiers -> PCs]
      /\ reqToken' \in [Attempts \cup Finishers -> Tokens]
      /\ reqBatch' \in [Attempts -> Batches \cup {None}]
      /\ track' \in [Attempts -> [Operations -> Tracks]]
      /\ drained' \subseteq Attempts
      /\ hold' \in [Verifiers -> [Operations -> Holds]]
  <2>1. CASE EndBatch(a) BY <2>1, EndBatchType
  <2>2. CASE ~EndBatch(a)
    <3>1. /\ pc' = [pc EXCEPT ![a] = next]
          /\ track' = [track EXCEPT ![a] = [o \in Operations |->
                         IF o \in S THEN "settled" ELSE track[a][o]]]
          /\ hold' = [hold EXCEPT ![a] = [o \in Operations |->
                        IF o \in kept THEN "held" ELSE hold[a][o]]]
          /\ UNCHANGED <<reqToken, reqBatch, drained>>
      BY <2>2, Zenon DEF SettleWrite
    <3>2. track' \in [Attempts -> [Operations -> Tracks]]
      BY <3>1 DEF TypeOK, Tracks
    <3> HIDE DEF kept
    <3>3. a \in Verifiers BY DEF Verifiers
    <3>4. hold \in [Verifiers -> [Operations -> Holds]] BY DEF TypeOK
    <3>5. hold' \in [Verifiers -> [Operations -> Holds]]
      BY <3>1, <3>3, <3>4 DEF Holds
    <3> QED BY <3>1, <3>2, <3>5 DEF TypeOK
  <2> QED BY <2>1, <2>2
<1> QED BY <1>1, <1>2, <1>3, <1>4, <1>5, RefreshType DEF TypeOK, googleVars

\* A hold of a read-back keeps the rows and the holds well-formed.
LEMMA HoldReadBackType ==
  ASSUME TypeOK, NEW v \in Verifiers, NEW S, HoldReadBack(v, S),
         pc' \in [Verifiers -> PCs]
  PROVE  TypeOK'
<1>1. op \in Rows BY DEF TypeOK
<1>2. op' \in Rows
  <2>1. ASSUME NEW o \in Operations PROVE op'[o] \in Row
    <3>1. op[o] \in Row BY <1>1 DEF Rows
    <3>2. [op[o] EXCEPT !.verifier = v, !.verifyLive = TRUE] \in Row
      BY <3>1 DEF Row
    <3> QED BY <3>1, <3>2 DEF HoldReadBack
  <2> QED BY <2>1 DEF HoldReadBack, Rows
<1>3. hold' \in [Verifiers -> [Operations -> Holds]]
  BY DEF HoldReadBack, TypeOK, Holds
<1> QED BY <1>2, <1>3 DEF HoldReadBack, TypeOK, googleVars

LEMMA BatchRequestType ==
  ASSUME TypeOK, NEW a \in Attempts, BatchRequest(a)
  PROVE  TypeOK'
<1>0. job \in Headers /\ op \in Rows BY DEF TypeOK
<1>1. ASSUME NEW t \in Issued, ClaimSuperseded(a, t) PROVE TypeOK'
  BY <1>1, EndBatchType DEF ClaimSuperseded, TypeOK, jobVars, googleVars
<1>2. ASSUME NEW t \in Issued, ClaimStopped(a, t) PROVE TypeOK'
  <2>1. job' \in Headers
    BY <1>0, <1>2, AliveType DEF ClaimStopped, Headers
  <2>2. op' \in Rows BY <1>0, <1>2, SkipPendingType DEF ClaimStopped
  <2>3. tally' \in [Counted -> SUBSET Operations]
    BY <1>2, RefreshType DEF ClaimStopped
  <2> QED BY <1>2, <2>1, <2>2, <2>3, EndBatchType
          DEF ClaimStopped, TypeOK, googleVars
<1>3. ASSUME NEW t \in Issued, NEW b \in Batches, ClaimDone(a, t, b)
      PROVE  TypeOK'
  <2>1. job' \in Headers BY <1>0, <1>3, AliveType DEF ClaimDone
  <2> QED BY <1>3, <2>1, EndBatchType DEF ClaimDone, TypeOK, googleVars
<1>4. ASSUME NEW t \in Issued, NEW b \in Batches, Claim(a, t, b)
      PROVE  TypeOK'
  BY <1>4, ClaimType
<1>5. CASE Renew(a)
  <2>1. job' \in Headers BY <1>0, <1>5 DEF Renew, Headers
  <2>2. drained' \subseteq Attempts BY <1>5 DEF Renew, TypeOK
  <2> QED BY <1>5, <2>1, <2>2 DEF Renew, TypeOK, googleVars
<1>6. ASSUME NEW S \in SUBSET Operations, Send(a, S) PROVE TypeOK'
  <2>1. track' \in [Attempts -> [Operations -> Tracks]]
    BY <1>6 DEF Send, TypeOK, Tracks
  <2>2. wire' \subseteq Attempts \X Operations BY <1>6 DEF Send, TypeOK
  <2>3. sentBy' \in [Operations -> SUBSET Attempts]
    BY <1>6 DEF Send, TypeOK
  <2> QED BY <1>6, <2>1, <2>2, <2>3 DEF Send, TypeOK, jobVars
<1>7. CASE SettleRound(a)
  <2>1. TrackedAs(a, Answered) \in SUBSET Operations BY DEF TrackedAs
  <2> QED BY <1>7, <2>1, SettleWriteType DEF SettleRound, PCs
<1>8. CASE EndSending(a)
  BY <1>8 DEF EndSending, TypeOK, PCs, jobVars, googleVars
<1>9. CASE SettleLeftovers(a)
  <2>1. PICK fails \in BOOLEAN :
          SettleWrite(a, Operations \ TrackedAs(a, {"none", "settled"}),
                      fails, fails /\ a \notin drained, "reading")
    BY <1>9 DEF SettleLeftovers
  <2>2. (fails /\ a \notin drained) \in BOOLEAN OBVIOUS
  <2> QED BY <2>1, <2>2, SettleWriteType DEF PCs
<1>10. CASE ReleaseBatch(a)
  <2>1. /\ owner' \in [Batches -> Attempts \cup {None}]
        /\ lease' \in [Batches -> Leases]
    BY <1>10 DEF ReleaseBatch, TypeOK, Leases
  <2> QED BY <1>10, <2>1, EndBatchType DEF ReleaseBatch, TypeOK, googleVars
<1> QED BY <1>1, <1>2, <1>3, <1>4, <1>5, <1>6, <1>7, <1>8, <1>9, <1>10
        DEF BatchRequest

LEMMA FinishRequestType ==
  ASSUME TypeOK, NEW f \in Finishers, FinishRequest(f)
  PROVE  TypeOK'
<1>0. job \in Headers /\ op \in Rows /\ f \in Verifiers
  BY DEF TypeOK, Verifiers
<1>1. ASSUME NEW t \in Issued, FinishSuperseded(f, t) PROVE TypeOK'
  BY <1>0, <1>1, EndReaderType
  DEF FinishSuperseded, TypeOK, jobVars, googleVars
<1>2. ASSUME NEW t \in Issued, Prepare(f, t) PROVE TypeOK'
  <2>1. t \in Tokens
    BY <1>0, ConstantsAssumption DEF Issued, Headers, Tokens
  <2>2. op' \in Rows
    BY <1>0, <1>2, FenceType, SkipPendingType DEF Prepare
  <2>3. tally' \in [Counted -> SUBSET Operations]
    BY <1>2, RefreshType DEF Prepare
  <2>4. /\ pc' \in [Verifiers -> PCs]
        /\ reqToken' \in [Attempts \cup Finishers -> Tokens]
    BY <1>2, <2>1 DEF Prepare, TypeOK, PCs
  <2> QED BY <1>2, <2>2, <2>3, <2>4 DEF Prepare, TypeOK, googleVars
<1>3. CASE ClaimVerification(f)
  <2>1. pc' \in [Verifiers -> PCs]
    BY <1>3 DEF ClaimVerification, TypeOK, PCs
  <2> QED BY <1>0, <1>3, <2>1, HoldReadBackType DEF ClaimVerification
<1>4. CASE FinishJob(f)
  <2>1. job' \in Headers BY <1>0, <1>4, CloseType DEF FinishJob
  <2>2. tally' = tally \/ tally' = Refresh(op) BY <1>4 DEF FinishJob
  <2> QED BY <1>0, <1>4, <2>1, <2>2, RefreshType, EndReaderType
          DEF FinishJob, TypeOK, googleVars
<1> QED BY <1>1, <1>2, <1>3, <1>4 DEF FinishRequest

LEMMA ReconcileType ==
  ASSUME TypeOK, NEW r \in Reconcilers, Reconcile(r)
  PROVE  TypeOK'
<1>1. pc' \in [Verifiers -> PCs] BY DEF Reconcile, TypeOK, PCs
<1>2. PICK S : HoldReadBack(r, S) BY DEF Reconcile
<1>3. r \in Verifiers BY DEF Verifiers
<1> QED BY <1>1, <1>2, <1>3, HoldReadBackType

LEMMA AnyRequestType ==
  ASSUME TypeOK, NEW v \in Verifiers, AnyRequest(v)
  PROVE  TypeOK'
<1>0. job \in Headers /\ op \in Rows BY DEF TypeOK
<1>1. CASE Quit(v)
  BY <1>1, EndBatchType, EndReaderType
  DEF Quit, TypeOK, jobVars, googleVars
<1>2. CASE SettleReadBack(v)
  <2> DEFINE done == Verifies(v)
  <2>1. op' \in Rows
    <3>1. op' = [o \in Operations |->
                   IF o \in done
                   THEN [op[o] EXCEPT !.status = ReadOutcome(v, o),
                                      !.verifier = None, !.verifyLive = FALSE,
                                      !.verifyWait = FALSE]
                   ELSE op[o]]
      BY <1>2, Zenon DEF SettleReadBack
    <3> HIDE DEF done
    <3>2. ASSUME NEW o \in Operations PROVE op'[o] \in Row
      <4>1. ReadOutcome(v, o) \in OpStatus
        BY DEF ReadOutcome, OpStatus, Counted
      <4>2. op[o] \in Row BY <1>0 DEF Rows
      <4> QED BY <3>1, <4>1, <4>2, RowType
    <3> QED BY <3>1, <3>2 DEF Rows
  <2>2. tally' = tally \/ tally' = Refresh(op')
    BY <1>2 DEF SettleReadBack
  <2>3. job' \in Headers
    <3>1. \/ job' = job
          \/ job' = [job EXCEPT !.stale = FALSE,
                                !.status = StatusAfterReview(tally')]
      BY <1>2 DEF SettleReadBack
    <3>2. StatusAfterReview(tally') \in JobStatus
      BY <1>0, TerminalStatusType DEF StatusAfterReview, JobStatus, Headers
    <3> QED BY <1>0, <3>1, <3>2 DEF Headers
  <2>4. UNCHANGED <<owner, lease, googleVars>> BY <1>2 DEF SettleReadBack
  <2>5. /\ pc' \in [Verifiers -> PCs]
        /\ reqToken' \in [Attempts \cup Finishers -> Tokens]
        /\ reqBatch' \in [Attempts -> Batches \cup {None}]
        /\ track' \in [Attempts -> [Operations -> Tracks]]
        /\ drained' \subseteq Attempts
        /\ hold' \in [Verifiers -> [Operations -> Holds]]
    <3>1. CASE EndReader(v) BY <3>1, EndReaderType
    <3>2. CASE ~EndReader(v)
      <4>1. /\ pc' = [pc EXCEPT ![v] = IF v \in Finishers THEN "finishing"
                                       ELSE "reading"]
            /\ hold' = [hold EXCEPT ![v] = NotHeld]
            /\ UNCHANGED <<reqToken, reqBatch, track, drained>>
        BY <1>2, <3>2, Zenon DEF SettleReadBack
      <4> QED BY <4>1 DEF TypeOK, PCs, NotHeld, Holds
    <3> QED BY <3>1, <3>2
  <2> QED BY <2>1, <2>2, <2>3, <2>4, <2>5, RefreshType DEF TypeOK, googleVars
<1>3. ASSUME NEW F \in SUBSET Operations, ReadDevices(v, F) PROVE TypeOK'
  <2>1. hold' \in [Verifiers -> [Operations -> Holds]]
    BY <1>3 DEF ReadDevices, TypeOK, Holds
  <2> QED BY <1>3, <2>1 DEF ReadDevices, TypeOK, jobVars, googleVars
<1> QED BY <1>1, <1>2, <1>3 DEF AnyRequest

LEMMA GoogleType ==
  ASSUME TypeOK, NEW a \in Attempts, NEW o \in Operations, Google(a, o)
  PROVE  TypeOK'
<1>1. ASSUME NEW t \in Tracks, Answer(a, o, t)
      PROVE  track' \in [Attempts -> [Operations -> Tracks]]
  BY <1>1 DEF Answer, TypeOK
<1>2. CASE GoogleAccepts(a, o)
  <2>1. Answer(a, o, "accepted") /\ "accepted" \in Tracks
    BY <1>2 DEF GoogleAccepts, Tracks
  <2> QED BY <1>1, <1>2, <2>1
          DEF GoogleAccepts, Answer, Consume, TypeOK, jobVars
<1>3. CASE GoogleRefuses(a, o)
  <2>1. Answer(a, o, Refusal(a, o)) /\ Refusal(a, o) \in Tracks
    BY <1>3 DEF GoogleRefuses, Refusal, Tracks
  <2> QED BY <1>1, <1>3, <2>1
          DEF GoogleRefuses, Answer, Consume, TypeOK, jobVars
<1>4. CASE GoogleDefers(a, o)
  <2>1. PICK t \in Tracks : Answer(a, o, t)
    BY <1>4 DEF GoogleDefers, Tracks
  <2> QED BY <1>1, <1>4, <2>1
          DEF GoogleDefers, Answer, Consume, TypeOK, jobVars
<1>5. CASE LoseAnswer(a, o)
  <2>1. PICK t \in Tracks : Answer(a, o, t)
    BY <1>5 DEF LoseAnswer, Tracks
  <2> QED BY <1>1, <1>5, <2>1 DEF LoseAnswer, Answer, TypeOK, jobVars
<1>6. CASE GoogleAlone(a, o)
  BY <1>6 DEF GoogleAlone, TypeOK, jobVars, workerVars
<1>7. CASE GoogleDiffers(a, o)
  <2>1. PICK t \in Tracks : Answer(a, o, t)
    BY <1>7 DEF GoogleDiffers, Tracks
  <2> QED BY <1>1, <1>7, <2>1
          DEF GoogleDiffers, Answer, Consume, TypeOK, jobVars
<1> QED BY <1>2, <1>3, <1>4, <1>5, <1>6, <1>7 DEF Google

LEMMA TimeType ==
  ASSUME TypeOK, Time
  PROVE  TypeOK'
<1>0. job \in Headers /\ op \in Rows BY DEF TypeOK
<1>1. CASE StartWindowEnds
  <2>1. job' \in Headers BY <1>0, <1>1 DEF StartWindowEnds, Headers
  <2> QED BY <1>1, <2>1 DEF StartWindowEnds, TypeOK, workerVars, googleVars
<1>2. CASE HeartbeatAges
  <2>1. job' \in Headers BY <1>0, <1>2 DEF HeartbeatAges, Headers
  <2> QED BY <1>2, <2>1 DEF HeartbeatAges, TypeOK, workerVars, googleVars
<1>3. ASSUME NEW b \in Batches, LeaseLapses(b) \/ GraceEnds(b) PROVE TypeOK'
  BY <1>3
  DEF LeaseLapses, GraceEnds, TypeOK, Leases, workerVars, googleVars
<1>4. ASSUME NEW o \in Operations, VerifyDelayEnds(o) \/ VerifyLeaseLapses(o)
      PROVE  TypeOK'
  <2>1. op[o] \in Row BY <1>0 DEF Rows
  <2>2. /\ [op[o] EXCEPT !.verifyWait = FALSE] \in Row
        /\ [op[o] EXCEPT !.verifyLive = FALSE] \in Row
    BY <2>1 DEF Row
  <2>3. op' \in Rows
    BY <1>0, <1>4, <2>2 DEF VerifyDelayEnds, VerifyLeaseLapses, Rows
  <2> QED BY <1>4, <2>3 DEF VerifyDelayEnds, VerifyLeaseLapses, TypeOK,
                            workerVars, googleVars
<1> QED BY <1>1, <1>2, <1>3, <1>4 DEF Time

LEMMA InitType == Init => TypeOK
<1> SUFFICES ASSUME Init PROVE TypeOK OBVIOUS
<1>1. job \in Headers
  BY ConstantsAssumption DEF Init, Headers, JobStatus, Waiting, Tokens
<1>2. op \in Rows BY DEF Init, Rows, Row, OpStatus
<1>3. /\ tally \in [Counted -> SUBSET Operations]
      /\ owner \in [Batches -> Attempts \cup {None}]
      /\ lease \in [Batches -> Leases]
  BY DEF Init, Leases
<1>4. /\ pc \in [Verifiers -> PCs]
      /\ reqToken \in [Attempts \cup Finishers -> Tokens]
      /\ reqBatch \in [Attempts -> Batches \cup {None}]
  BY ConstantsAssumption DEF Init, PCs, Tokens
<1>5. /\ track \in [Attempts -> [Operations -> Tracks]]
      /\ drained \subseteq Attempts
      /\ hold \in [Verifiers -> [Operations -> Holds]]
  BY DEF Init, Tracks, Untracked, Holds, NotHeld
<1>6. /\ wire \subseteq Attempts \X Operations
      /\ applied \subseteq Operations
      /\ sentBy \in [Operations -> SUBSET Attempts]
  BY DEF Init
<1> QED BY <1>1, <1>2, <1>3, <1>4, <1>5, <1>6 DEF TypeOK

LEMMA StutterType ==
  ASSUME TypeOK, UNCHANGED vars
  PROVE  TypeOK'
BY DEF TypeOK, vars, jobVars, workerVars, googleVars

LEMMA NextType ==
  ASSUME TypeOK, [Next]_vars
  PROVE  TypeOK'
<1>1. CASE Next
  BY <1>1, TickType, BatchRequestType, FinishRequestType, ReconcileType,
     AnyRequestType, GoogleType, TimeType DEF Next
<1> QED BY <1>1, StutterType

\* Every row, lease, request and answer keeps its shape, however many
\* operations, batches and requests a job has.
THEOREM TypeCorrect == Spec => []TypeOK
<1>1. ASSUME TypeOK, [Next]_vars PROVE TypeOK' BY <1>1, NextType
<1> QED BY InitType, <1>1, PTL DEF Spec

\* Skipping and fencing keep the attempt of a row.
LEMMA SkippedRow ==
  ASSUME NEW rows \in Rows, NEW requested, NEW o \in Operations
  PROVE  LET r == SkipPending(rows, requested)[o]
         IN  /\ r.attempt = rows[o].attempt
             /\ IF rows[o].status = "pending"
                THEN r.status \in {"skipped", "cancelled"}
                ELSE r.status = rows[o].status
<1>1. rows[o] \in Row BY DEF Rows
<1>2. SkipPending(rows, requested)[o] =
        IF rows[o].status = "pending"
        THEN [rows[o] EXCEPT !.status =
                IF requested THEN "cancelled" ELSE "skipped"]
        ELSE rows[o]
  BY DEF SkipPending
<1> QED BY <1>1, <1>2 DEF Row

LEMMA FencedRow ==
  ASSUME NEW rows \in Rows, NEW S, NEW v, NEW o \in Operations
  PROVE  LET r == Fence(rows, S, v)[o]
         IN  /\ r.attempt = rows[o].attempt
             /\ r.status = IF o \in S THEN "unknown" ELSE rows[o].status
<1>1. rows[o] \in Row BY DEF Rows
<1>2. Fence(rows, S, v)[o] =
        IF o \in S
        THEN [rows[o] EXCEPT !.status = "unknown", !.verifier = v,
                             !.verifyLive = (v # None), !.verifyWait = FALSE]
        ELSE rows[o]
  BY DEF Fence
<1> QED BY <1>1, <1>2 DEF Row

-----------------------------------------------------------------------------
(* How the handlers change a row.                                          *)

\* What the worker knows of the answers of Google: an accepted request and a
\* matching read-back were carried out.
AnswersInv ==
  /\ TypeOK
  /\ SucceededWasApplied
  /\ \A a \in Attempts, o \in Operations :
       track[a][o] = "accepted" => o \in applied
  /\ \A v \in Verifiers, o \in Operations :
       hold[v][o] = "matches" => o \in applied

\* Every step moves the status of an operation along this relation.
RowSteps ==
  \A o \in Operations :
    \/ op'[o].status = op[o].status
    \/ /\ op[o].status = "pending"
       /\ \/ op'[o].status \in {"skipped", "cancelled"}
          \/ /\ op'[o].status = "dispatched"
             /\ ~job.failure /\ ~job.cancelRequested
    \/ /\ op[o].status = "dispatched"
       /\ op'[o].status \in {"issued", "succeeded", "failed", "skipped",
                             "pending", "unknown"}
       /\ op'[o].status \in {"issued", "succeeded"} =>
            \E a \in Attempts : track[a][o] = "accepted"
       /\ op'[o].status = "issued" => ~ReadsBack
       /\ op'[o].status = "succeeded" => ReadsBack
    \/ /\ op[o].status = "unknown"
       /\ op'[o].status \in {"unknown", "succeeded", "failed"}
       /\ op'[o].status = "succeeded" =>
            \E v \in Verifiers : hold[v][o] = "matches"

LEMMA SkipPendingSteps ==
  ASSUME op \in Rows, NEW requested, op' = SkipPending(op, requested)
  PROVE  RowSteps
BY SkippedRow DEF RowSteps

LEMMA FenceSteps ==
  ASSUME op \in Rows, NEW requested,
         op' = SkipPending(Fence(op, OpsWith(op, "dispatched"), None),
                           requested)
  PROVE  RowSteps
<1> DEFINE fenced == Fence(op, OpsWith(op, "dispatched"), None)
<1>1. fenced \in Rows BY FenceType
<1>2. ASSUME NEW o \in Operations
      PROVE  fenced[o].status = IF op[o].status = "dispatched"
                                THEN "unknown" ELSE op[o].status
  BY FencedRow DEF OpsWith
<1>3. op' = SkipPending(fenced, requested) OBVIOUS
<1> HIDE DEF fenced
<1> QED BY <1>1, <1>2, <1>3, SkippedRow DEF RowSteps

LEMMA ClaimSteps ==
  ASSUME TypeOK, NEW a \in Attempts, NEW t, NEW b \in Batches, Claim(a, t, b)
  PROVE  RowSteps
<1> DEFINE pending == PendingOf(b)
           lost == LostOf(b)
<1>0. op \in Rows BY DEF TypeOK
<1>1. ~job.failure /\ ~job.cancelRequested BY DEF Claim, MayClaim
<1>2. ASSUME NEW o \in Operations
      PROVE  \/ /\ op[o].status = "pending" /\ op'[o].status = "dispatched"
             \/ /\ op[o].status = "dispatched" /\ op'[o].status = "unknown"
             \/ op'[o].status = op[o].status
  <2>1. op[o] \in Row BY <1>0 DEF Rows
  <2>2. op' = [o_1 \in Operations |->
                 IF o_1 \in pending
                 THEN [op[o_1] EXCEPT !.status = "dispatched", !.attempt = a]
                 ELSE Fence(op, lost, a)[o_1]]
    BY DEF Claim
  <2>3. CASE o \in pending
    BY <2>1, <2>2, <2>3 DEF PendingOf, Row
  <2>4. CASE o \notin pending
    <3>1. op'[o] = Fence(op, lost, a)[o] BY <2>2, <2>4
    <3> QED BY <1>0, <3>1, FencedRow DEF LostOf
  <2> QED BY <2>3, <2>4
<1> QED BY <1>1, <1>2 DEF RowSteps

LEMMA SettleWriteSteps ==
  ASSUME TypeOK, NEW a \in Attempts, NEW S, NEW fails, NEW stop, NEW next,
         SettleWrite(a, S, fails, stop, next)
  PROVE  RowSteps
<1> DEFINE done == Settles(a, S)
           kept == {o \in done : ReadsBack /\ Outcome(a, o, stop) = "unknown"}
<1>0. op \in Rows BY DEF TypeOK
<1>1. ASSUME NEW o \in Operations
      PROVE  op'[o].status = IF o \in done THEN Outcome(a, o, stop)
                             ELSE op[o].status
  <2>1. op[o] \in Row BY <1>0 DEF Rows
  <2>2. op'[o] = IF o \in done
                 THEN [op[o] EXCEPT
                         !.status = Outcome(a, o, stop),
                         !.verifier = IF o \in kept THEN a ELSE None,
                         !.verifyLive = o \in kept, !.verifyWait = o \in kept]
                 ELSE op[o]
    BY Zenon DEF SettleWrite
  <2> HIDE DEF done, kept
  <2> QED BY <2>1, <2>2 DEF Row
<1>2. ASSUME NEW o \in done
      PROVE  /\ op[o].status = "dispatched"
             /\ Outcome(a, o, stop) \in {"issued", "succeeded", "failed",
                                         "skipped", "pending", "unknown"}
             /\ Outcome(a, o, stop) \in {"issued", "succeeded"} =>
                  track[a][o] = "accepted"
             /\ Outcome(a, o, stop) = "issued" => ~ReadsBack
             /\ Outcome(a, o, stop) = "succeeded" => ReadsBack
  BY DEF Settles, Outcome, ReadsBack
<1> HIDE DEF done, kept
<1> QED BY <1>1, <1>2 DEF RowSteps

LEMMA SettleReadBackSteps ==
  ASSUME TypeOK, NEW v \in Verifiers, SettleReadBack(v)
  PROVE  RowSteps
<1> DEFINE done == Verifies(v)
<1>0. op \in Rows BY DEF TypeOK
<1>1. op' = [o \in Operations |->
               IF o \in done
               THEN [op[o] EXCEPT !.status = ReadOutcome(v, o),
                                  !.verifier = None, !.verifyLive = FALSE,
                                  !.verifyWait = FALSE]
               ELSE op[o]]
  BY Zenon DEF SettleReadBack
<1>2. ASSUME NEW o \in done
      PROVE  /\ op[o].status = "unknown"
             /\ ReadOutcome(v, o) \in {"unknown", "succeeded", "failed"}
             /\ ReadOutcome(v, o) = "succeeded" => hold[v][o] = "matches"
  BY DEF Verifies, ReadOutcome
<1> HIDE DEF done
<1>3. ASSUME NEW o \in Operations
      PROVE  op'[o].status = IF o \in done THEN ReadOutcome(v, o)
                             ELSE op[o].status
  <2>1. op[o] \in Row BY <1>0 DEF Rows
  <2> QED BY <1>1, <2>1 DEF Row
<1> QED BY <1>2, <1>3 DEF RowSteps

\* A hold of a read-back and the passage of time leave every status alone.
LEMMA HoldSteps ==
  ASSUME TypeOK, NEW v, NEW S, HoldReadBack(v, S)
  PROVE  RowSteps
<1>1. ASSUME NEW o \in Operations PROVE op'[o].status = op[o].status
  <2>1. op[o] \in Row BY DEF TypeOK, Rows
  <2> QED BY <2>1 DEF HoldReadBack, Row
<1> QED BY <1>1 DEF RowSteps

LEMMA TimeStatus ==
  ASSUME TypeOK, Time
  PROVE  \A o \in Operations : op'[o].status = op[o].status
<1>0. op \in Rows BY DEF TypeOK
<1>1. ASSUME NEW o \in Operations PROVE op'[o].status = op[o].status
  <2>1. op[o] \in Row BY <1>0 DEF Rows
  <2>2. CASE UNCHANGED op BY <2>2
  <2>3. ASSUME NEW d \in Operations,
               VerifyDelayEnds(d) \/ VerifyLeaseLapses(d)
        PROVE  op'[o].status = op[o].status
    BY <1>0, <2>1, <2>3 DEF VerifyDelayEnds, VerifyLeaseLapses, Rows, Row
  <2> QED BY <2>2, <2>3
          DEF Time, StartWindowEnds, HeartbeatAges, LeaseLapses, GraceEnds
<1> QED BY <1>1

LEMMA TimeSteps ==
  ASSUME TypeOK, Time
  PROVE  RowSteps
BY TimeStatus DEF RowSteps

\* Every step of the specification is one of those.
LEMMA NextSteps ==
  ASSUME TypeOK, [Next]_vars
  PROVE  RowSteps
<1>0. op \in Rows BY DEF TypeOK
<1>1. CASE UNCHANGED op BY <1>1 DEF RowSteps
<1>2. CASE Tick
  <2>1. \/ UNCHANGED op
        \/ \E c : op' = SkipPending(op, c)
        \/ \E c : op' = SkipPending(Fence(op, OpsWith(op, "dispatched"),
                                          None), c)
    BY <1>2 DEF Tick, Relabel, Admit, RefuseStart, Abandon, Recover, Finalize,
                RequestCancel
  <2> QED BY <1>0, <1>1, <2>1, SkipPendingSteps, FenceSteps
<1>3. ASSUME NEW a \in Attempts, BatchRequest(a) PROVE RowSteps
  <2>1. ASSUME NEW t \in Issued, ClaimStopped(a, t) PROVE RowSteps
    BY <1>0, <2>1, SkipPendingSteps DEF ClaimStopped
  <2>2. ASSUME NEW t \in Issued, NEW b \in Batches, Claim(a, t, b)
        PROVE  RowSteps
    BY <2>2, ClaimSteps
  <2>3. CASE SettleRound(a) BY <2>3, SettleWriteSteps DEF SettleRound
  <2>4. CASE SettleLeftovers(a)
    BY <2>4, SettleWriteSteps DEF SettleLeftovers
  <2> QED BY <1>1, <1>3, <2>1, <2>2, <2>3, <2>4
          DEF BatchRequest, ClaimSuperseded, ClaimDone, Renew, Send,
              EndSending, ReleaseBatch, jobVars
<1>4. ASSUME NEW f \in Finishers, FinishRequest(f) PROVE RowSteps
  <2>1. ASSUME NEW t \in Issued, Prepare(f, t) PROVE RowSteps
    BY <1>0, <2>1, FenceSteps DEF Prepare
  <2>2. CASE ClaimVerification(f)
    BY <2>2, HoldSteps DEF ClaimVerification
  <2> QED BY <1>1, <1>4, <2>1, <2>2
          DEF FinishRequest, FinishSuperseded, FinishJob, jobVars
<1>5. ASSUME NEW r \in Reconcilers, Reconcile(r) PROVE RowSteps
  BY <1>5, HoldSteps DEF Reconcile
<1>6. ASSUME NEW v \in Verifiers, AnyRequest(v) PROVE RowSteps
  BY <1>1, <1>6, SettleReadBackSteps
  DEF AnyRequest, Quit, ReadDevices, jobVars
<1>7. ASSUME NEW a \in Attempts, NEW o \in Operations, Google(a, o)
      PROVE  RowSteps
  BY <1>1, <1>7
  DEF Google, GoogleAccepts, GoogleRefuses, GoogleDiffers, GoogleDefers,
      LoseAnswer, GoogleAlone, Answer, jobVars
<1>8. CASE Time BY <1>8, TimeSteps
<1>9. CASE UNCHANGED vars BY <1>1, <1>9 DEF vars, jobVars
<1> QED BY <1>2, <1>3, <1>4, <1>5, <1>6, <1>7, <1>8, <1>9 DEF Next

-----------------------------------------------------------------------------
(* What follows of the status of an operation.                             *)

\* A decided operation stays decided; only a read-back decides an unknown one.
THEOREM SettledForeverCorrect == Spec => SettledForever
<1>1. ASSUME TypeOK, [Next]_vars
      PROVE  \A o \in Operations :
               /\ op[o].status \in {"succeeded", "failed", "skipped",
                                    "cancelled", "issued"}
                    => op'[o].status = op[o].status
               /\ op[o].status = "unknown"
                    => op'[o].status \in {"unknown", "succeeded", "failed"}
  <2>1. RowSteps BY <1>1, NextSteps
  <2> QED BY <2>1 DEF RowSteps
<1> QED BY <1>1, TypeCorrect, PTL DEF SettledForever, Spec

\* After a cancel request or a failure no further operation is dispatched.
THEOREM StopIsFinalCorrect == Spec => StopIsFinal
<1>1. ASSUME TypeOK, [Next]_vars
      PROVE  job.cancelRequested \/ job.failure =>
               \A o \in Operations :
                 op'[o].status = "dispatched" => op[o].status = "dispatched"
  <2>1. RowSteps BY <1>1, NextSteps
  <2> QED BY <2>1 DEF RowSteps
<1> QED BY <1>1, TypeCorrect, PTL DEF StopIsFinal, Spec

-----------------------------------------------------------------------------
(* What the answers of Google prove.                                       *)

\* Nothing takes back what Google carried out, an accepted answer comes with
\* the carrying out, and a match is read from Google.
LEMMA AnswerSteps ==
  ASSUME TypeOK, [Next]_vars
  PROVE  /\ applied \subseteq applied'
         /\ \A a \in Attempts, o \in Operations :
              track'[a][o] = "accepted" =>
                track[a][o] = "accepted" \/ o \in applied'
         /\ \A v \in Verifiers, o \in Operations :
              hold'[v][o] = "matches" =>
                hold[v][o] = "matches" \/ o \in applied
<1> USE DEF Untracked, NotHeld
<1>0. /\ track \in [Attempts -> [Operations -> Tracks]]
      /\ hold \in [Verifiers -> [Operations -> Holds]]
  BY DEF TypeOK
<1>1. CASE UNCHANGED <<track, hold, applied>> BY <1>1
<1>2. ASSUME NEW a \in Attempts, EndBatch(a), UNCHANGED applied
      PROVE  /\ applied \subseteq applied'
             /\ \A c \in Attempts, o \in Operations :
                  track'[c][o] = "accepted" => track[c][o] = "accepted"
             /\ \A v \in Verifiers, o \in Operations :
                  hold'[v][o] = "matches" => hold[v][o] = "matches"
  BY <1>0, <1>2 DEF EndBatch
<1>3. ASSUME NEW v \in Verifiers, EndReader(v), UNCHANGED applied
      PROVE  /\ applied \subseteq applied' /\ UNCHANGED track
             /\ \A w \in Verifiers, o \in Operations :
                  hold'[w][o] = "matches" => hold[w][o] = "matches"
  BY <1>0, <1>3 DEF EndReader
<1>4. ASSUME NEW v \in Verifiers, NEW S, HoldReadBack(v, S)
      PROVE  /\ UNCHANGED <<applied, track>>
             /\ \A w \in Verifiers, o \in Operations :
                  hold'[w][o] = "matches" => hold[w][o] = "matches"
  BY <1>0, <1>4 DEF HoldReadBack, googleVars
<1>5. CASE Tick \/ Time \/ UNCHANGED vars
  <2>1. UNCHANGED <<workerVars, googleVars>>
    BY <1>5 DEF Tick, Relabel, Admit, RefuseStart, Recover, RequestCancel,
                Time, StartWindowEnds, HeartbeatAges, LeaseLapses, GraceEnds,
                VerifyDelayEnds, VerifyLeaseLapses, vars
  <2> QED BY <1>1, <2>1 DEF workerVars, googleVars
<1>6. ASSUME NEW a \in Attempts, BatchRequest(a)
      PROVE  /\ applied \subseteq applied'
             /\ \A c \in Attempts, o \in Operations :
                  track'[c][o] = "accepted" => track[c][o] = "accepted"
             /\ \A v \in Verifiers, o \in Operations :
                  hold'[v][o] = "matches" => hold[v][o] = "matches"
  <2>1. UNCHANGED applied
    BY <1>6 DEF BatchRequest, ClaimSuperseded, ClaimStopped, ClaimDone, Claim,
                Renew, Send, SettleRound, SettleWrite, EndSending,
                SettleLeftovers, ReleaseBatch, googleVars
  <2>2. CASE EndBatch(a) BY <1>2, <2>1, <2>2
  <2>3. ASSUME NEW t \in Issued, NEW b \in Batches, Claim(a, t, b)
        PROVE  /\ \A c \in Attempts, o \in Operations :
                    track'[c][o] = "accepted" => track[c][o] = "accepted"
               /\ \A v \in Verifiers, o \in Operations :
                    hold'[v][o] = "matches" => hold[v][o] = "matches"
    BY <1>0, <2>3 DEF Claim
  <2>4. ASSUME NEW S \in SUBSET Operations, Send(a, S)
        PROVE  /\ UNCHANGED hold
               /\ \A c \in Attempts, o \in Operations :
                    track'[c][o] = "accepted" => track[c][o] = "accepted"
    BY <1>0, <2>4 DEF Send
  <2>5. ASSUME NEW S, NEW fails, NEW stop, NEW next, ~EndBatch(a),
               SettleWrite(a, S, fails, stop, next)
        PROVE  /\ \A c \in Attempts, o \in Operations :
                    track'[c][o] = "accepted" => track[c][o] = "accepted"
               /\ \A v \in Verifiers, o \in Operations :
                    hold'[v][o] = "matches" => hold[v][o] = "matches"
    <3> DEFINE kept == {o \in Settles(a, S) :
                          ReadsBack /\ Outcome(a, o, stop) = "unknown"}
    <3>1. /\ track' = [track EXCEPT ![a] = [o \in Operations |->
                         IF o \in S THEN "settled" ELSE track[a][o]]]
          /\ hold' = [hold EXCEPT ![a] = [o \in Operations |->
                        IF o \in kept THEN "held" ELSE hold[a][o]]]
      BY <2>5, Zenon DEF SettleWrite
    <3> HIDE DEF kept
    <3> QED BY <1>0, <3>1
  <2>6. CASE Renew(a) \/ EndSending(a)
    BY <1>1, <2>1, <2>6 DEF Renew, EndSending
  <2> QED BY <1>6, <2>1, <2>2, <2>3, <2>4, <2>5, <2>6
          DEF BatchRequest, ClaimSuperseded, ClaimStopped, ClaimDone,
              SettleRound, SettleLeftovers, ReleaseBatch
<1>7. ASSUME NEW f \in Finishers, FinishRequest(f)
      PROVE  /\ UNCHANGED <<applied, track>>
             /\ \A v \in Verifiers, o \in Operations :
                  hold'[v][o] = "matches" => hold[v][o] = "matches"
  <2>1. f \in Verifiers BY DEF Verifiers
  <2>2. CASE \E t \in Issued : Prepare(f, t)
    BY <2>2 DEF Prepare, googleVars
  <2>3. CASE ClaimVerification(f)
    BY <1>4, <2>1, <2>3 DEF ClaimVerification
  <2> QED BY <1>3, <1>7, <2>1, <2>2, <2>3
          DEF FinishRequest, FinishSuperseded, FinishJob, googleVars
<1>8. ASSUME NEW r \in Reconcilers, Reconcile(r)
      PROVE  /\ UNCHANGED <<applied, track>>
             /\ \A v \in Verifiers, o \in Operations :
                  hold'[v][o] = "matches" => hold[v][o] = "matches"
  <2>1. r \in Verifiers BY DEF Verifiers
  <2> QED BY <1>4, <1>8, <2>1 DEF Reconcile
<1>9. ASSUME NEW v \in Verifiers, AnyRequest(v)
      PROVE  /\ UNCHANGED applied
             /\ \A c \in Attempts, o \in Operations :
                  track'[c][o] = "accepted" => track[c][o] = "accepted"
             /\ \A w \in Verifiers, o \in Operations :
                  hold'[w][o] = "matches" =>
                    hold[w][o] = "matches" \/ o \in applied
  <2>1. UNCHANGED applied
    BY <1>9 DEF AnyRequest, Quit, SettleReadBack, ReadDevices, googleVars
  <2>2. CASE Quit(v)
    BY <1>2, <1>3, <2>1, <2>2 DEF Quit
  <2>3. CASE SettleReadBack(v)
    <3>1. CASE EndReader(v) BY <1>3, <2>1, <3>1
    <3>2. CASE ~EndReader(v)
      <4>1. hold' = [hold EXCEPT ![v] = NotHeld] /\ UNCHANGED track
        BY <2>3, <3>2 DEF SettleReadBack
      <4> QED BY <1>0, <2>1, <4>1
    <3> QED BY <3>1, <3>2
  <2>4. ASSUME NEW F \in SUBSET Operations, ReadDevices(v, F)
        PROVE  /\ UNCHANGED track
               /\ \A w \in Verifiers, o \in Operations :
                    hold'[w][o] = "matches" =>
                      hold[w][o] = "matches" \/ o \in applied
    BY <1>0, <2>4 DEF ReadDevices
  <2> QED BY <1>9, <2>1, <2>2, <2>3, <2>4 DEF AnyRequest
<1>10. ASSUME NEW a \in Attempts, NEW o \in Operations, Google(a, o)
       PROVE  /\ applied \subseteq applied' /\ UNCHANGED hold
              /\ \A c \in Attempts, p \in Operations :
                   track'[c][p] = "accepted" =>
                     track[c][p] = "accepted" \/ p \in applied'
  <2>1. CASE GoogleAccepts(a, o)
    BY <1>0, <2>1 DEF GoogleAccepts, Answer
  <2>2. CASE GoogleAlone(a, o)
    BY <2>2 DEF GoogleAlone, workerVars
  <2>3. ASSUME NEW t, t # "accepted", Answer(a, o, t), UNCHANGED applied
        PROVE  /\ UNCHANGED hold
               /\ \A c \in Attempts, p \in Operations :
                    track'[c][p] = "accepted" => track[c][p] = "accepted"
    BY <1>0, <2>3 DEF Answer
  <2>4. Refusal(a, o) # "accepted" BY DEF Refusal
  <2> QED BY <1>10, <2>1, <2>2, <2>3, <2>4
          DEF Google, GoogleRefuses, GoogleDiffers, GoogleDefers, LoseAnswer
<1> QED BY <1>5, <1>6, <1>7, <1>8, <1>9, <1>10 DEF Next

\* What the job reports as succeeded or issued was carried out by Google.
THEOREM SucceededWasAppliedCorrect == Spec => []SucceededWasApplied
<1>1. Init => AnswersInv
  <2> SUFFICES ASSUME Init PROVE AnswersInv OBVIOUS
  <2>1. TypeOK BY InitType
  <2> QED BY <2>1 DEF Init, AnswersInv, SucceededWasApplied, Untracked, NotHeld
<1>2. ASSUME AnswersInv, [Next]_vars PROVE AnswersInv'
  <2>1. TypeOK BY <1>2 DEF AnswersInv
  <2>2. TypeOK' BY <1>2, <2>1, NextType
  <2>3. /\ applied \subseteq applied'
        /\ \A a \in Attempts, o \in Operations :
             track'[a][o] = "accepted" =>
               track[a][o] = "accepted" \/ o \in applied'
        /\ \A v \in Verifiers, o \in Operations :
             hold'[v][o] = "matches" =>
               hold[v][o] = "matches" \/ o \in applied
    BY <1>2, <2>1, AnswerSteps
  <2>4. RowSteps BY <1>2, <2>1, NextSteps
  <2>5. SucceededWasApplied'
    <3> SUFFICES ASSUME NEW o \in Operations,
                        op'[o].status \in {"succeeded", "issued"}
                 PROVE  o \in applied'
      BY DEF SucceededWasApplied
    <3>1. \/ op[o].status \in {"succeeded", "issued"}
          \/ \E a \in Attempts : track[a][o] = "accepted"
          \/ \E v \in Verifiers : hold[v][o] = "matches"
      BY <2>4 DEF RowSteps
    <3> QED BY <1>2, <2>3, <3>1 DEF AnswersInv, SucceededWasApplied
  <2> QED BY <1>2, <2>2, <2>3, <2>5 DEF AnswersInv
<1>3. AnswersInv => SucceededWasApplied BY DEF AnswersInv
<1> QED BY <1>1, <1>2, <1>3, PTL DEF Spec

-----------------------------------------------------------------------------
(* The counters.                                                           *)

\* A step refreshes the counters, or moves no operation into or out of them.
CountsStep ==
  \/ tally' = Refresh(op')
  \/ /\ UNCHANGED tally
     /\ \A o \in Operations :
          \/ op'[o].status = op[o].status
          \/ op[o].status = "pending" /\ op'[o].status = "dispatched"

LEMMA CountsKept ==
  ASSUME CountersAgree, CountsStep
  PROVE  CountersAgree'
<1>1. CASE tally' = Refresh(op')
  BY <1>1 DEF CountersAgree, Refresh, OpsWith
<1>2. CASE tally' # Refresh(op')
  <2> SUFFICES ASSUME NEW s \in Counted
               PROVE  tally'[s] = {o \in Operations : op'[o].status = s}
    BY DEF CountersAgree
  <2>1. \A o \in Operations : op'[o].status = s <=> op[o].status = s
    BY <1>2 DEF CountsStep, Counted
  <2>2. tally'[s] = {o \in Operations : op[o].status = s}
    BY <1>2 DEF CountsStep, CountersAgree
  <2> QED BY <2>1, <2>2
<1> QED BY <1>1, <1>2

LEMMA NextCounts ==
  ASSUME TypeOK, [Next]_vars
  PROVE  CountsStep
<1>0. op \in Rows BY DEF TypeOK
<1>1. CASE UNCHANGED <<op, tally>> BY <1>1 DEF CountsStep
<1>2. CASE Tick
  <2>1. tally' = Refresh(op') \/ UNCHANGED <<op, tally>>
    BY <1>2 DEF Tick, Relabel, Admit, RefuseStart, Abandon, Recover, Finalize,
                RequestCancel
  <2> QED BY <1>1, <2>1 DEF CountsStep
<1>3. ASSUME NEW a \in Attempts, BatchRequest(a) PROVE CountsStep
  <2>1. ASSUME NEW t \in Issued, NEW b \in Batches, Claim(a, t, b)
        PROVE  CountsStep
    <3>1. CASE LostOf(b) # {} BY <2>1, <3>1 DEF Claim, CountsStep
    <3>2. CASE LostOf(b) = {}
      <4>1. UNCHANGED tally BY <2>1, <3>2 DEF Claim
      <4>2. ASSUME NEW o \in Operations
            PROVE  \/ op'[o].status = op[o].status
                   \/ op[o].status = "pending" /\ op'[o].status = "dispatched"
        <5>1. op[o] \in Row BY <1>0 DEF Rows
        <5>2. Fence(op, LostOf(b), a)[o].status = op[o].status
          BY <1>0, <3>2, FencedRow
        <5> QED BY <2>1, <5>1, <5>2 DEF Claim, PendingOf, Row
      <4> QED BY <4>1, <4>2 DEF CountsStep
    <3> QED BY <3>1, <3>2
  <2>2. ASSUME NEW S, NEW fails, NEW stop, NEW next,
               SettleWrite(a, S, fails, stop, next)
        PROVE  CountsStep
    <3>1. CASE Settles(a, S) # {} BY <2>2, <3>1 DEF SettleWrite, CountsStep
    <3>2. CASE Settles(a, S) = {}
      <4>1. UNCHANGED tally BY <2>2, <3>2 DEF SettleWrite
      <4>2. \A o \in Operations : op'[o] = op[o]
        BY <2>2, <3>2, Zenon DEF SettleWrite
      <4> QED BY <4>1, <4>2 DEF CountsStep
    <3> QED BY <3>1, <3>2
  <2>3. ASSUME NEW t \in Issued, ClaimStopped(a, t) PROVE CountsStep
    BY <2>3 DEF ClaimStopped, CountsStep
  <2> QED BY <1>1, <1>3, <2>1, <2>2, <2>3
          DEF BatchRequest, ClaimSuperseded, ClaimDone, Renew, Send,
              SettleRound, EndSending, SettleLeftovers, ReleaseBatch, jobVars
<1>4. ASSUME NEW v \in Verifiers, NEW S, HoldReadBack(v, S) PROVE CountsStep
  <2>1. UNCHANGED tally BY <1>4 DEF HoldReadBack
  <2>2. ASSUME NEW o \in Operations PROVE op'[o].status = op[o].status
    <3>1. op[o] \in Row BY <1>0 DEF Rows
    <3> QED BY <1>4, <3>1 DEF HoldReadBack, Row
  <2> QED BY <2>1, <2>2 DEF CountsStep
<1>5. ASSUME NEW f \in Finishers, FinishRequest(f) PROVE CountsStep
  <2>1. ASSUME NEW t \in Issued, Prepare(f, t) PROVE CountsStep
    BY <2>1 DEF Prepare, CountsStep
  <2>2. CASE ClaimVerification(f)
    BY <1>4, <2>2 DEF ClaimVerification, Verifiers
  <2>3. CASE FinishJob(f) BY <2>3 DEF FinishJob, CountsStep
  <2> QED BY <1>1, <1>5, <2>1, <2>2, <2>3
          DEF FinishRequest, FinishSuperseded, jobVars
<1>6. ASSUME NEW r \in Reconcilers, Reconcile(r) PROVE CountsStep
  BY <1>4, <1>6 DEF Reconcile, Verifiers
<1>7. ASSUME NEW v \in Verifiers, AnyRequest(v) PROVE CountsStep
  <2>1. CASE SettleReadBack(v)
    <3>1. CASE Verifies(v) # {} BY <2>1, <3>1 DEF SettleReadBack, CountsStep
    <3>2. CASE Verifies(v) = {}
      <4>1. UNCHANGED tally BY <2>1, <3>2 DEF SettleReadBack
      <4>2. \A o \in Operations : op'[o] = op[o]
        BY <2>1, <3>2, Zenon DEF SettleReadBack
      <4> QED BY <4>1, <4>2 DEF CountsStep
    <3> QED BY <3>1, <3>2
  <2> QED BY <1>1, <1>7, <2>1 DEF AnyRequest, Quit, ReadDevices, jobVars
<1>8. ASSUME NEW a \in Attempts, NEW o \in Operations, Google(a, o)
      PROVE  CountsStep
  BY <1>1, <1>8
  DEF Google, GoogleAccepts, GoogleRefuses, GoogleDiffers, GoogleDefers,
      LoseAnswer, GoogleAlone, Answer, jobVars
<1>9. CASE Time
  <2>1. UNCHANGED tally
    BY <1>9 DEF Time, StartWindowEnds, HeartbeatAges, LeaseLapses, GraceEnds,
                VerifyDelayEnds, VerifyLeaseLapses
  <2>2. \A o \in Operations : op'[o].status = op[o].status
    BY <1>9, TimeStatus
  <2> QED BY <2>1, <2>2 DEF CountsStep
<1>10. CASE UNCHANGED vars BY <1>1, <1>10 DEF vars, jobVars
<1> QED BY <1>2, <1>3, <1>5, <1>6, <1>7, <1>8, <1>9, <1>10 DEF Next

\* The header counters agree with the operation rows after every step.
THEOREM CountersAgreeCorrect == Spec => []CountersAgree
<1>1. Init => CountersAgree
  BY DEF Init, CountersAgree, Counted
<1>2. ASSUME TypeOK, CountersAgree, [Next]_vars PROVE CountersAgree'
  BY <1>2, NextCounts, CountsKept
<1> QED BY <1>1, <1>2, TypeCorrect, PTL DEF Spec

-----------------------------------------------------------------------------
(* The end of the job.                                                     *)

\* A command job reads nothing back.
CommandsReadNothing ==
  ~ReadsBack => \A v \in Verifiers :
    pc[v] # "verifying" /\ \A o \in Operations : hold[v][o] = "none"

\* The flags of the header go together, and nothing was done for a job that no
\* execution has claimed.
HeaderInStep ==
  /\ job.finished <=> job.status \in Ended
  /\ job.status = "awaiting-devices" => ~ReadsBack
  /\ job.status \in Waiting => ~job.claimed
  /\ job.cancelRequested /\ ~job.finished => job.claimed
  /\ ~job.claimed =>
       /\ ~AnyBusy
       /\ ~job.finished =>
            \A o \in Operations : op[o].status \in {"pending", "skipped"}

\* No operation of these rows is open.
Decided(rows) ==
  \A o \in Operations : rows[o].status \notin {"pending", "dispatched", "issued"}

EndInv ==
  /\ TypeOK
  /\ CommandsReadNothing
  /\ ReadsBack => \A o \in Operations : op[o].status # "issued"
  /\ HeaderInStep
  /\ job.finished =>
       Decided(op) /\ job.status = TerminalStatus(Refresh(op)) /\ ~AnyBusy

\* What the status of an ended job says of its rows.
LEMMA StatusOfRows ==
  ASSUME NEW rows \in Rows, Decided(rows),
         NEW status, status = TerminalStatus(Refresh(rows))
  PROVE  /\ status = "cancelled" <=> OpsWith(rows, "cancelled") # {}
         /\ status = "needs-review" <=>
              OpsWith(rows, "unknown") # {} /\ OpsWith(rows, "cancelled") = {}
         /\ status = "completed" <=> OpsWith(rows, "succeeded") = Operations
         /\ status = "failed" => OpsWith(rows, "succeeded") = {}
<1>1. \A s \in Counted : Refresh(rows)[s] = OpsWith(rows, s)
  BY DEF Refresh
<1>2. \A o \in Operations : rows[o].status \in Counted
  BY DEF Rows, Row, OpStatus, Decided
<1>3. status =
        IF OpsWith(rows, "cancelled") # {} THEN "cancelled"
        ELSE IF OpsWith(rows, "unknown") # {} THEN "needs-review"
        ELSE IF OpsWith(rows, "succeeded") = Operations THEN "completed"
        ELSE IF /\ OpsWith(rows, "succeeded") # {}
                /\ OpsWith(rows, "failed") \cup OpsWith(rows, "expired")
                     \cup OpsWith(rows, "skipped") # {}
             THEN "completed-with-errors"
        ELSE "failed"
  BY <1>1 DEF TerminalStatus, Counted
<1>4. OpsWith(rows, "succeeded") = Operations =>
        OpsWith(rows, "cancelled") = {} /\ OpsWith(rows, "unknown") = {}
  BY DEF OpsWith
<1>5. /\ OpsWith(rows, "cancelled") = {} /\ OpsWith(rows, "unknown") = {}
      /\ OpsWith(rows, "failed") \cup OpsWith(rows, "expired")
           \cup OpsWith(rows, "skipped") = {}
      => OpsWith(rows, "succeeded") = Operations
  BY <1>2 DEF OpsWith, Counted
<1> QED BY <1>3, <1>4, <1>5

\* A step of a job that goes on as it was, and changes the status of no row.
LEMMA KeptEnd ==
  ASSUME EndInv, TypeOK', CommandsReadNothing',
         \A o \in Operations : op'[o].status = op[o].status,
         AnyBusy' => AnyBusy \/ (job'.claimed /\ ~job.finished),
         job'.status = job.status \/ {job.status, job'.status} \subseteq Waiting,
         job'.finished = job.finished, job'.cancelRequested = job.cancelRequested,
         job'.claimed = job.claimed \/ (job.status = "running" /\ job'.claimed)
  PROVE  EndInv'
<1>1. OpsWith(op', "cancelled") = OpsWith(op, "cancelled")
  BY DEF OpsWith
<1>2. Refresh(op') = Refresh(op)
  BY DEF Refresh, OpsWith
<1>3. HeaderInStep'
  BY DEF EndInv, HeaderInStep, Waiting, Ended, ReadsBack
<1>4. job'.finished =>
        Decided(op') /\ job'.status = TerminalStatus(Refresh(op')) /\ ~AnyBusy'
  BY <1>2 DEF EndInv, HeaderInStep, Decided, Waiting, Ended
<1> QED BY <1>3, <1>4 DEF EndInv, ReadsBack

\* A step of a running job that goes on.
LEMMA RunningEnd ==
  ASSUME EndInv, TypeOK', CommandsReadNothing',
         ReadsBack => \A o \in Operations : op'[o].status # "issued",
         job.status = "running", job'.status = "running", job'.finished = job.finished,
         \/ job'.claimed
         \/ /\ job'.claimed = job.claimed /\ job'.cancelRequested = job.cancelRequested
            /\ AnyBusy' => AnyBusy
            /\ \A o \in Operations :
                 op[o].status \in {"pending", "skipped"} =>
                   \/ op'[o].status \in {"pending", "skipped"}
                   \/ job.cancelRequested
  PROVE  EndInv'
<1>1. HeaderInStep'
  BY DEF EndInv, HeaderInStep, Waiting, Ended, ReadsBack
<1> QED BY <1>1 DEF EndInv, HeaderInStep, Ended, ReadsBack

\* A step that ends the job, or decides a row of an ended one.
LEMMA EndedEnd ==
  ASSUME EndInv, TypeOK', CommandsReadNothing', Decided(op'), ~AnyBusy',
         job'.finished, job'.status = TerminalStatus(Refresh(op'))
  PROVE  EndInv'
<1>1. job'.status \in Ended
  BY TerminalStatusType
<1>2. HeaderInStep'
  BY <1>1 DEF HeaderInStep, Waiting, Ended
<1> QED BY <1>2 DEF EndInv, Decided, ReadsBack

LEMMA CommandsStep ==
  ASSUME TypeOK, CommandsReadNothing, [Next]_vars
  PROVE  CommandsReadNothing'
<1> SUFFICES ASSUME ~ReadsBack
             PROVE  \A v \in Verifiers :
                      pc'[v] # "verifying" /\ \A o \in Operations : hold'[v][o] = "none"
  BY DEF CommandsReadNothing, ReadsBack
<1> DEFINE Nothing(p, h) ==
      \A v \in Verifiers : p[v] # "verifying" /\ \A o \in Operations : h[v][o] = "none"
<1> USE DEF NotHeld
<1>0. /\ pc \in [Verifiers -> PCs]
      /\ hold \in [Verifiers -> [Operations -> Holds]]
      /\ Nothing(pc, hold)
  BY DEF TypeOK, CommandsReadNothing
<1>1. CASE UNCHANGED <<pc, hold>> BY <1>0, <1>1
<1>2. ASSUME NEW v \in Verifiers, EndBatch(v) \/ EndReader(v)
      PROVE  Nothing(pc', hold')
  BY <1>0, <1>2 DEF EndBatch, EndReader
<1>3. \A v \in Verifiers : HeldBy(v) = {}
  BY <1>0 DEF HeldBy
<1>4. CASE Tick \/ Time \/ UNCHANGED vars
  BY <1>1, <1>4
     DEF Tick, Relabel, Admit, RefuseStart, Recover, RequestCancel, Time,
         StartWindowEnds, HeartbeatAges, LeaseLapses, GraceEnds, VerifyDelayEnds,
         VerifyLeaseLapses, vars, workerVars
<1>5. ASSUME NEW a \in Attempts, BatchRequest(a)
      PROVE  Nothing(pc', hold')
  <2>1. a \in Verifiers BY DEF Verifiers
  <2>2. CASE EndBatch(a) BY <1>2, <2>1, <2>2
  <2>3. ASSUME NEW t \in Issued, NEW b \in Batches, Claim(a, t, b)
        PROVE  Nothing(pc', hold')
    BY <1>0, <2>3 DEF Claim
  <2>4. ASSUME NEW S, NEW fails, NEW stop, NEW next, next \in {"sending", "reading"},
               ~EndBatch(a), SettleWrite(a, S, fails, stop, next)
        PROVE  Nothing(pc', hold')
    <3> DEFINE kept == {o \in Settles(a, S) :
                          ReadsBack /\ Outcome(a, o, stop) = "unknown"}
    <3>1. /\ pc' = [pc EXCEPT ![a] = next]
          /\ hold' = [hold EXCEPT ![a] = [o \in Operations |->
                        IF o \in kept THEN "held" ELSE hold[a][o]]]
      BY <2>4, Zenon DEF SettleWrite
    <3>2. kept = {} OBVIOUS
    <3> HIDE DEF kept
    <3> QED BY <1>0, <2>4, <3>1, <3>2
  <2>5. CASE Renew(a) \/ EndSending(a) \/ \E S \in SUBSET Operations : Send(a, S)
    BY <1>0, <2>5 DEF Renew, EndSending, Send
  <2> QED BY <1>5, <2>2, <2>3, <2>4, <2>5
          DEF BatchRequest, ClaimSuperseded, ClaimStopped, ClaimDone,
              SettleRound, SettleLeftovers, ReleaseBatch
<1>6. ASSUME NEW f \in Finishers, FinishRequest(f)
      PROVE  Nothing(pc', hold')
  <2>1. f \in Verifiers BY DEF Verifiers
  <2>2. ASSUME NEW t, Prepare(f, t) PROVE Nothing(pc', hold')
    BY <1>0, <2>2 DEF Prepare
  <2>3. ~ClaimVerification(f) BY <1>0, <2>1 DEF ClaimVerification
  <2> QED BY <1>2, <1>6, <2>1, <2>2, <2>3 DEF FinishRequest, FinishSuperseded, FinishJob
<1>7. \A r \in Reconcilers : ~Reconcile(r)
  BY DEF Reconcile
<1>8. ASSUME NEW v \in Verifiers, AnyRequest(v)
      PROVE  Nothing(pc', hold')
  BY <1>2, <1>3, <1>8 DEF AnyRequest, Quit, SettleReadBack, ReadDevices
<1>9. ASSUME NEW a \in Attempts, NEW o \in Operations, Google(a, o)
      PROVE  Nothing(pc', hold')
  BY <1>1, <1>9
     DEF Google, GoogleAccepts, GoogleRefuses, GoogleDiffers, GoogleDefers,
         LoseAnswer, GoogleAlone, Answer, workerVars
<1> QED BY <1>4, <1>5, <1>6, <1>7, <1>8, <1>9 DEF Next

\* No job but a command job issues an operation.
LEMMA IssuedStep ==
  ASSUME TypeOK, [Next]_vars, ReadsBack => \A o \in Operations : op[o].status # "issued"
  PROVE  ReadsBack => \A o \in Operations : op'[o].status # "issued"
<1>1. RowSteps BY NextSteps
<1> QED BY <1>1 DEF RowSteps

\* The rows that the skipping, and the fencing before it, leave.
LEMMA SkippedRows ==
  ASSUME NEW rows \in Rows, NEW requested
  PROVE  \A o \in Operations :
           SkipPending(rows, requested)[o].status =
             IF rows[o].status = "pending"
             THEN IF requested THEN "cancelled" ELSE "skipped"
             ELSE rows[o].status
<1> TAKE o \in Operations
<1>1. rows[o] \in Row BY DEF Rows
<1> QED BY <1>1 DEF SkipPending, Row

LEMMA FencedRows ==
  ASSUME TypeOK
  PROVE  /\ Fence(op, OpsWith(op, "dispatched"), None) \in Rows
         /\ \A o \in Operations :
              SkipPending(Fence(op, OpsWith(op, "dispatched"), None),
                          job.cancelRequested)[o].status =
                CASE op[o].status = "dispatched" -> "unknown"
                  [] op[o].status = "pending" ->
                       IF job.cancelRequested THEN "cancelled" ELSE "skipped"
                  [] OTHER -> op[o].status
<1> DEFINE fenced == Fence(op, OpsWith(op, "dispatched"), None)
<1>1. op \in Rows BY DEF TypeOK
<1>2. fenced \in Rows BY <1>1, FenceType
<1>3. \A o \in Operations :
        fenced[o].status = IF op[o].status = "dispatched" THEN "unknown"
                           ELSE op[o].status
  BY <1>1, FencedRow DEF OpsWith
<1> HIDE DEF fenced
<1>4. \A o \in Operations :
        SkipPending(fenced, job.cancelRequested)[o].status =
          CASE op[o].status = "dispatched" -> "unknown"
            [] op[o].status = "pending" ->
                 IF job.cancelRequested THEN "cancelled" ELSE "skipped"
            [] OTHER -> op[o].status
  BY <1>2, <1>3, SkippedRows
<1> QED BY <1>2, <1>4 DEF fenced

\* The finish of a job without open rows, which a command job may leave waiting.
LEMMA CloseEnd ==
  ASSUME EndInv, TypeOK', CommandsReadNothing', job.status = "running", Close(op'),
         \A o \in Operations : op'[o].status \notin {"pending", "dispatched"},
         ReadsBack => \A o \in Operations : op'[o].status # "issued",
         \A o \in Operations : op'[o].status = "issued" => op[o].status = "issued",
         ~AnyBusy, UNCHANGED lease
  PROVE  EndInv'
<1>0. job \in Headers /\ ~job.finished
  BY DEF EndInv, TypeOK, HeaderInStep, Ended
<1>1. ~AnyBusy'
  BY DEF AnyBusy, Busy
<1>2. CASE Kind = "device-command" /\ OpsWith(op', "issued") # {}
  <2>1. /\ job'.status = "awaiting-devices" /\ job'.finished = job.finished
        /\ job'.cancelRequested = job.cancelRequested /\ job'.claimed = job.claimed
    BY <1>0, <1>2 DEF Close, Headers
  <2>2. job.claimed
    BY <1>0, <1>2 DEF OpsWith, EndInv, HeaderInStep
  <2>3. HeaderInStep'
    BY <1>0, <1>2, <2>1, <2>2 DEF HeaderInStep, EndInv, Ended, Waiting, ReadsBack
  <2> QED BY <1>0, <2>1, <2>3 DEF EndInv, ReadsBack
<1>3. CASE ~(Kind = "device-command" /\ OpsWith(op', "issued") # {})
  <2>1. job'.status = TerminalStatus(Refresh(op')) /\ job'.finished
    BY <1>0, <1>3 DEF Close, Headers
  <2>2. Decided(op')
    BY <1>3 DEF Decided, OpsWith, ReadsBack
  <2> QED BY <1>1, <2>1, <2>2, EndedEnd
<1> QED BY <1>2, <1>3

\* A job that no execution has claimed has pending rows, and skipped ones.
LEMMA AbandonEnd ==
  ASSUME EndInv, TypeOK', CommandsReadNothing', Operations # {},
         job.status = "running", ~job.claimed, Abandon
  PROVE  EndInv'
<1>0. job \in Headers /\ op \in Rows /\ ~job.finished /\ ~job.cancelRequested
  BY DEF EndInv, TypeOK, HeaderInStep, Ended
<1>1. \A o \in Operations : op'[o].status = "skipped"
  BY <1>0, SkippedRows DEF Abandon, EndInv, HeaderInStep
<1>2. /\ Refresh(op')["cancelled"] = {} /\ Refresh(op')["unknown"] = {}
      /\ Refresh(op')["succeeded"] = {}
  BY <1>1 DEF Refresh, OpsWith, Counted
<1>3. TerminalStatus(Refresh(op')) = "failed"
  BY <1>2 DEF TerminalStatus
<1>4. job'.status = "failed" /\ job'.finished
  BY <1>0 DEF Abandon, Headers
<1>5. Decided(op') /\ ~AnyBusy'
  BY <1>0, <1>1 DEF Decided, AnyBusy, Busy, Abandon, EndInv, HeaderInStep
<1> QED BY <1>3, <1>4, <1>5, EndedEnd

LEMMA CancelEnd ==
  ASSUME EndInv, TypeOK', CommandsReadNothing', RequestCancel
  PROVE  EndInv'
<1>0. job \in Headers /\ op \in Rows
  BY DEF EndInv, TypeOK
<1>1. CASE StopsNow
  <2>1. ~job.claimed /\ ~job.finished
    BY <1>0, <1>1
       DEF RequestCancel, StopsNow, EndInv, HeaderInStep, Headers, JobStatus
  <2>2. \A o \in Operations : op'[o].status \in {"cancelled", "skipped"}
    <3>1. op' = SkipPending(op, TRUE)
      BY <1>1 DEF RequestCancel
    <3>2. \A o \in Operations :
            op'[o].status = IF op[o].status = "pending" THEN "cancelled"
                            ELSE op[o].status
      BY <1>0, <3>1, SkippedRows
    <3> QED BY <2>1, <3>2 DEF EndInv, HeaderInStep
  <2>3. job'.status = TerminalStatus(Refresh(op')) /\ job'.finished
    BY <1>0, <1>1 DEF RequestCancel, Marked, Headers
  <2>4. Decided(op') /\ ~AnyBusy'
    BY <2>1, <2>2 DEF Decided, AnyBusy, Busy, RequestCancel, EndInv, HeaderInStep
  <2> QED BY <2>3, <2>4, EndedEnd
<1>2. CASE ~StopsNow
  <2>1. /\ job.status = "running" /\ job.claimed /\ UNCHANGED op
        /\ job'.status = "running" /\ job'.claimed /\ job'.finished = job.finished
    BY <1>0, <1>2 DEF RequestCancel, StopsNow, Marked, Headers
  <2> QED BY <2>1, RunningEnd DEF EndInv
<1> QED BY <1>1, <1>2

LEMMA TickEnd ==
  ASSUME EndInv, TypeOK', CommandsReadNothing', Operations # {}, Tick
  PROVE  EndInv'
<1>0. job \in Headers
  BY DEF EndInv, TypeOK
<1>1. ASSUME UNCHANGED <<op, lease>>,
             job'.status = job.status \/ {job.status, job'.status} \subseteq Waiting,
             job'.finished = job.finished, job'.cancelRequested = job.cancelRequested,
             job'.claimed = job.claimed
      PROVE  EndInv'
  <2>1. AnyBusy' <=> AnyBusy
    BY <1>1 DEF AnyBusy, Busy
  <2>2. \A o \in Operations : op'[o].status = op[o].status
    BY <1>1
  <2>3. AnyBusy' => AnyBusy \/ (job'.claimed /\ ~job.finished)
    BY <2>1
  <2>4. job'.claimed = job.claimed \/ (job.status = "running" /\ job'.claimed)
    BY <1>1
  <2> QED BY <1>1, <2>2, <2>3, <2>4, KeptEnd
<1>2. CASE Relabel
  <2>1. job' \in Headers
    BY DEF TypeOK
  <2> QED BY <1>0, <1>1, <1>2 DEF Relabel, Headers, Waiting
<1>3. CASE Admit
  <2>1. /\ job.status \in Waiting /\ job'.status = "running"
        /\ job'.finished = job.finished /\ job'.claimed = job.claimed
        /\ job'.cancelRequested = job.cancelRequested /\ UNCHANGED <<op, lease>>
    BY <1>0, <1>3 DEF Admit, Headers
  <2>2. AnyBusy' <=> AnyBusy
    BY <2>1 DEF AnyBusy, Busy
  <2> QED BY <2>1, <2>2 DEF EndInv, HeaderInStep, Waiting, Ended, ReadsBack
<1>4. CASE \E t \in Issued : RefuseStart(t)
  BY <1>4, AbandonEnd DEF RefuseStart
<1>5. CASE Recover
  <2>1. CASE StartLost /\ job.token = MaxExecutions /\ Abandon
    BY <2>1, AbandonEnd DEF StartLost
  <2>2. CASE RunnerLost /\ ~Rotates /\ Finalize
    <3>1. /\ job.status = "running" /\ Close(op') /\ ~AnyBusy /\ UNCHANGED lease
          /\ op' = SkipPending(Fence(op, OpsWith(op, "dispatched"), None),
                              job.cancelRequested)
      BY <2>2 DEF RunnerLost, Finalize
    <3>2. TypeOK
      BY DEF EndInv
    <3>3. \A o \in Operations :
            op'[o].status = CASE op[o].status = "dispatched" -> "unknown"
                              [] op[o].status = "pending" ->
                                   IF job.cancelRequested
                                   THEN "cancelled" ELSE "skipped"
                              [] OTHER -> op[o].status
      BY <3>1, <3>2, FencedRows
    <3>4. /\ \A o \in Operations : op'[o].status \notin {"pending", "dispatched"}
          /\ \A o \in Operations : op'[o].status = "issued" => op[o].status = "issued"
      BY <3>3
    <3> QED BY <3>1, <3>4, CloseEnd DEF EndInv
  <2> QED BY <1>0, <1>1, <1>5, <2>1, <2>2 DEF Recover, Headers
<1>6. CASE RequestCancel
  BY <1>6, CancelEnd
<1> QED BY <1>2, <1>3, <1>4, <1>5, <1>6 DEF Tick

\* A write settlement changes rows of a running job that an execution claimed.
LEMMA SettleWriteEnd ==
  ASSUME EndInv, TypeOK', CommandsReadNothing',
         ReadsBack => \A o \in Operations : op'[o].status # "issued",
         NEW a \in Attempts, NEW S \in SUBSET Operations,
         NEW fails, NEW stop, NEW next,
         SettleWrite(a, S, fails, stop, next)
  PROVE  EndInv'
<1>0. job \in Headers
  BY DEF EndInv, TypeOK
<1>1. AnyBusy' <=> AnyBusy
  BY DEF SettleWrite, AnyBusy, Busy
<1>2. CASE Settles(a, S) = {}
  <2>1. job' = job
    BY <1>2 DEF SettleWrite
  <2>2. \A o \in Operations : op'[o].status = op[o].status
    BY <1>2, Zenon DEF SettleWrite
  <2> QED BY <1>1, <2>1, <2>2, KeptEnd
<1>3. CASE Settles(a, S) # {}
  <2>1. PICK o \in Operations : op[o].status = "dispatched" /\ OwnsLive(a)
    BY <1>3 DEF Settles
  <2>2. job.status = "running" /\ job.claimed
    BY <2>1 DEF OwnsLive, RunsUnder, EndInv, HeaderInStep
  <2>3. /\ job'.status = job.status /\ job'.finished = job.finished
        /\ job'.claimed = job.claimed
    BY <1>0, <1>3 DEF SettleWrite, Headers
  <2> QED BY <2>2, <2>3, RunningEnd
<1> QED BY <1>2, <1>3

LEMMA BatchEnd ==
  ASSUME EndInv, TypeOK', CommandsReadNothing',
         ReadsBack => \A o \in Operations : op'[o].status # "issued",
         NEW a \in Attempts, BatchRequest(a)
  PROVE  EndInv'
<1>0. job \in Headers
  BY DEF EndInv, TypeOK
<1>1. ASSUME UNCHANGED op, AnyBusy' => AnyBusy,
             job'.status = job.status, job'.finished = job.finished,
             job'.cancelRequested = job.cancelRequested,
             job'.claimed = job.claimed \/ (job.status = "running" /\ job'.claimed)
      PROVE  EndInv'
  <2>1. \A o \in Operations : op'[o].status = op[o].status
    BY <1>1
  <2> QED BY <1>1, <2>1, KeptEnd
<1>2. UNCHANGED lease => (AnyBusy' => AnyBusy)
  BY DEF AnyBusy, Busy
<1>3. ASSUME NEW t \in Issued, ClaimSuperseded(a, t) PROVE EndInv'
  BY <1>1, <1>2, <1>3 DEF ClaimSuperseded, jobVars
<1>4. ASSUME NEW t \in Issued, ClaimStopped(a, t) PROVE EndInv'
  <2>1. /\ job.status = "running" /\ job'.status = "running" /\ job'.claimed
        /\ job'.finished = job.finished
    BY <1>0, <1>4 DEF ClaimStopped, RunsUnder, Alive, Headers
  <2> QED BY <2>1, RunningEnd
<1>5. ASSUME NEW t \in Issued, NEW b \in Batches, ClaimDone(a, t, b) PROVE EndInv'
  <2>1. /\ job.status = "running" /\ job'.status = "running" /\ job'.claimed
        /\ job'.finished = job.finished
    BY <1>0, <1>5 DEF ClaimDone, MayClaim, RunsUnder, Alive, Headers
  <2> QED BY <2>1, RunningEnd
<1>6. ASSUME NEW t \in Issued, NEW b \in Batches, Claim(a, t, b) PROVE EndInv'
  <2>1. job' = Alive /\ RunsUnder(t)
    BY <1>6 DEF Claim, MayClaim
  <2>2. /\ job.status = "running" /\ job'.status = "running" /\ job'.claimed
        /\ job'.finished = job.finished
    BY <1>0, <2>1 DEF RunsUnder, Alive, Headers
  <2> QED BY <2>2, RunningEnd
<1>7. CASE Renew(a)
  BY <1>0, <1>1, <1>2, <1>7 DEF Renew, Headers
<1>8. CASE EndSending(a) \/ \E S \in SUBSET Operations : Send(a, S)
  BY <1>1, <1>2, <1>8 DEF EndSending, Send, jobVars
<1>9. CASE SettleRound(a)
  BY <1>9, SettleWriteEnd DEF SettleRound, TrackedAs
<1>10. CASE SettleLeftovers(a)
  BY <1>10, SettleWriteEnd DEF SettleLeftovers, TrackedAs
<1>11. CASE ReleaseBatch(a)
  <2>1. AnyBusy' => AnyBusy
    <3>1. lease \in [Batches -> Leases]
      BY DEF EndInv, TypeOK
    <3>2. \A b \in Batches : lease'[b] \in {lease[b], "none"}
      BY <1>11, <3>1 DEF ReleaseBatch
    <3> QED BY <3>2 DEF AnyBusy, Busy
  <2> QED BY <1>1, <1>11, <2>1 DEF ReleaseBatch
<1> QED
  BY <1>3, <1>4, <1>5, <1>6, <1>7, <1>8, <1>9, <1>10, <1>11 DEF BatchRequest

LEMMA FinishEnd ==
  ASSUME EndInv, TypeOK', CommandsReadNothing',
         ReadsBack => \A o \in Operations : op'[o].status # "issued",
         NEW f \in Finishers, FinishRequest(f)
  PROVE  EndInv'
<1>0. TypeOK /\ job \in Headers
  BY DEF EndInv, TypeOK
<1>1. UNCHANGED lease => (AnyBusy' <=> AnyBusy)
  BY DEF AnyBusy, Busy
<1>2. ASSUME NEW t \in Issued, FinishSuperseded(f, t) PROVE EndInv'
  <2>1. \A o \in Operations : op'[o].status = op[o].status
    BY <1>2 DEF FinishSuperseded, jobVars
  <2> QED BY <1>1, <1>2, <2>1, KeptEnd DEF FinishSuperseded, jobVars
<1>3. ASSUME NEW t \in Issued, Prepare(f, t) PROVE EndInv'
  <2>1. \A o \in Operations :
          op'[o].status = CASE op[o].status = "dispatched" -> "unknown"
                            [] op[o].status = "pending" ->
                                 IF job.cancelRequested THEN "cancelled" ELSE "skipped"
                            [] OTHER -> op[o].status
    BY <1>0, <1>3, FencedRows DEF Prepare
  <2>2. \A o \in Operations :
          op[o].status \in {"pending", "skipped"} =>
            op'[o].status \in {"pending", "skipped"} \/ job.cancelRequested
    BY <2>1
  <2>3. job.status = "running" /\ job' = job /\ UNCHANGED lease
    BY <1>3 DEF Prepare, RunsUnder
  <2> QED BY <1>1, <2>2, <2>3, RunningEnd
<1>4. CASE ClaimVerification(f)
  <2>1. \A o \in Operations : op'[o].status = op[o].status
    <3> TAKE o \in Operations
    <3>1. op[o] \in Row BY <1>0 DEF TypeOK, Rows
    <3> QED BY <1>4, <3>1 DEF ClaimVerification, HoldReadBack, Row
  <2>2. job' = job /\ UNCHANGED lease
    BY <1>4 DEF ClaimVerification, HoldReadBack
  <2> QED BY <1>1, <2>1, <2>2, KeptEnd
<1>5. CASE FinishJob(f)
  <2>1. UNCHANGED <<op, lease>> /\ job.status = "running"
    BY <1>5 DEF FinishJob, RunsUnder
  <2>2. CASE ~AnyBusy /\ Prepared
    <3>1. Close(op')
      BY <1>5, <2>1, <2>2 DEF FinishJob
    <3>2. \A o \in Operations : op'[o].status \notin {"pending", "dispatched"}
      BY <2>1, <2>2 DEF Prepared, OpsWith
    <3> QED BY <2>1, <2>2, <3>1, <3>2, CloseEnd
  <2>3. CASE ~(~AnyBusy /\ Prepared)
    <3>1. job' = job
      BY <1>5, <2>3 DEF FinishJob
    <3>2. \A o \in Operations : op'[o].status = op[o].status
      BY <2>1
    <3> QED BY <1>1, <2>1, <3>1, <3>2, KeptEnd
  <2> QED BY <2>2, <2>3
<1> QED BY <1>2, <1>3, <1>4, <1>5 DEF FinishRequest

\* A read-back decides the status of an ended job again.
LEMMA ReadBackEnd ==
  ASSUME EndInv, TypeOK', CommandsReadNothing', NEW v \in Verifiers, SettleReadBack(v)
  PROVE  EndInv'
<1> DEFINE done == Verifies(v)
<1>0. TypeOK /\ job \in Headers
  BY DEF EndInv, TypeOK
<1>1. AnyBusy' <=> AnyBusy
  BY DEF SettleReadBack, AnyBusy, Busy
<1>2. CASE done = {}
  <2>1. job' = job
    BY <1>2 DEF SettleReadBack
  <2>2. \A o \in Operations : op'[o].status = op[o].status
    BY <1>2, Zenon DEF SettleReadBack
  <2> QED BY <1>1, <2>1, <2>2, KeptEnd
<1>3. CASE done # {}
  <2>1. ReadsBack
    BY <1>3 DEF Verifies, HeldBy, EndInv, CommandsReadNothing
  <2>2. PICK o \in Operations : op[o].status = "unknown"
    BY <1>3 DEF Verifies, HeldBy
  <2>3. RowSteps
    BY <1>0, SettleReadBackSteps
  <2>4. \A p \in Operations :
          op'[p].status = op[p].status
            \/ op'[p].status \in {"unknown", "succeeded", "failed"}
    <3> TAKE p \in Operations
    <3>1. op[p] \in Row
      BY <1>0 DEF TypeOK, Rows
    <3>2. op'[p] = IF p \in done
                   THEN [op[p] EXCEPT !.status = ReadOutcome(v, p), !.verifier = None,
                                      !.verifyLive = FALSE, !.verifyWait = FALSE]
                   ELSE op[p]
      BY Zenon DEF SettleReadBack
    <3>3. ReadOutcome(v, p) \in {"unknown", "succeeded", "failed"}
      BY DEF ReadOutcome
    <3> HIDE DEF done
    <3> QED BY <3>1, <3>2, <3>3 DEF Row
  <2>5. /\ job'.status = StatusAfterReview(Refresh(op'))
        /\ job'.finished = job.finished /\ job'.claimed = job.claimed
        /\ job'.cancelRequested = job.cancelRequested
    BY <1>0, <1>3 DEF SettleReadBack, Headers
  <2>6. CASE job.finished
    <3>1. job'.status = TerminalStatus(Refresh(op'))
      BY <2>5, <2>6
         DEF StatusAfterReview, EndInv, HeaderInStep, Ended, Waiting
    <3>2. Decided(op')
      BY <2>4, <2>6 DEF EndInv, Decided
    <3> QED BY <1>1, <2>5, <2>6, <3>1, <3>2, EndedEnd DEF EndInv
  <2>7. CASE ~job.finished
    <3>1. job.claimed
      BY <2>2, <2>7 DEF EndInv, HeaderInStep
    <3>2. job.status = "running"
      BY <1>0, <2>1, <2>7, <3>1
         DEF EndInv, HeaderInStep, Headers, JobStatus
    <3>3. job'.status = "running"
      BY <2>5, <3>2 DEF StatusAfterReview
    <3>4. \A p \in Operations : op'[p].status # "issued"
      BY <2>1, <2>4 DEF EndInv
    <3> QED BY <2>5, <3>1, <3>2, <3>3, <3>4, RunningEnd
  <2> QED BY <2>6, <2>7
<1> QED BY <1>2, <1>3

LEMMA NextEnd ==
  ASSUME Operations # {}, EndInv, [Next]_vars
  PROVE  EndInv'
<1>0. TypeOK /\ job \in Headers
  BY DEF EndInv, TypeOK
<1>1. TypeOK' /\ CommandsReadNothing'
  BY <1>0, NextType, CommandsStep DEF EndInv
<1>2. ReadsBack => \A o \in Operations : op'[o].status # "issued"
  BY <1>0, IssuedStep DEF EndInv
<1>3. ASSUME UNCHANGED job, \A o \in Operations : op'[o].status = op[o].status,
             AnyBusy' => AnyBusy
      PROVE  EndInv'
  BY <1>1, <1>3, KeptEnd
<1>4. UNCHANGED lease => (AnyBusy' => AnyBusy)
  BY DEF AnyBusy, Busy
<1>5. UNCHANGED jobVars => EndInv'
  BY <1>3, <1>4 DEF jobVars
<1>6. ASSUME NEW r \in Reconcilers, Reconcile(r) PROVE EndInv'
  <2>1. \A o \in Operations : op'[o].status = op[o].status
    <3> TAKE o \in Operations
    <3>1. op[o] \in Row BY <1>0 DEF TypeOK, Rows
    <3>2. PICK S : HoldReadBack(r, S)
      BY <1>6 DEF Reconcile
    <3> QED BY <3>1, <3>2 DEF HoldReadBack, Row
  <2> QED BY <1>3, <1>4, <1>6, <2>1 DEF Reconcile, HoldReadBack
<1>7. ASSUME NEW v \in Verifiers, AnyRequest(v) PROVE EndInv'
  BY <1>1, <1>5, <1>7, ReadBackEnd DEF AnyRequest, Quit, ReadDevices
<1>8. ASSUME NEW a \in Attempts, NEW o \in Operations, Google(a, o) PROVE EndInv'
  BY <1>5, <1>8
     DEF Google, GoogleAccepts, GoogleRefuses, GoogleDiffers, GoogleDefers,
         LoseAnswer, GoogleAlone, Answer
<1>9. CASE Time
  <2>1. \A o \in Operations : op'[o].status = op[o].status
    BY <1>0, <1>9, TimeStatus
  <2>2. AnyBusy' => AnyBusy
    <3>1. \A b \in Batches : Busy(b)' => Busy(b)
      BY <1>0, <1>9
         DEF Time, StartWindowEnds, HeartbeatAges, LeaseLapses, GraceEnds,
             VerifyDelayEnds, VerifyLeaseLapses, Busy, TypeOK
    <3> QED BY <3>1 DEF AnyBusy
  <2>3. /\ job'.status = job.status /\ job'.finished = job.finished
        /\ job'.cancelRequested = job.cancelRequested /\ job'.claimed = job.claimed
    BY <1>0, <1>9
       DEF Time, StartWindowEnds, HeartbeatAges, LeaseLapses, GraceEnds,
           VerifyDelayEnds, VerifyLeaseLapses, Headers
  <2> QED BY <1>1, <2>1, <2>2, <2>3, KeptEnd
<1> QED
  BY <1>1, <1>2, <1>5, <1>6, <1>7, <1>8, <1>9, TickEnd, BatchEnd, FinishEnd
     DEF Next, vars

\* The header moves in step with its rows: an ended job has decided all of them,
\* and a waiting one has dispatched none.  A job has operations.
THEOREM EndsCorrect ==
  ASSUME Operations # {}
  PROVE  Spec => []EndInv
<1>1. Init => EndInv
  <2> SUFFICES ASSUME Init PROVE EndInv OBVIOUS
  <2>1. TypeOK BY InitType
  <2> QED
    BY <2>1
       DEF Init, EndInv, CommandsReadNothing, HeaderInStep, AnyBusy, Busy, NotHeld,
           Waiting, Ended
<1>2. EndInv /\ [Next]_vars => EndInv'
  BY NextEnd
<1> QED BY <1>1, <1>2, PTL DEF Spec

\* A job that ended is closed to the end: no row is open, no lease lives, and its
\* status is the one its rows call for, also after a later read-back.  A job has
\* operations.
THEOREM FinishedAgreesCorrect ==
  ASSUME Operations # {}
  PROVE  Spec => []FinishedAgrees
<1>1. EndInv => FinishedAgrees
  <2> SUFFICES ASSUME EndInv, job.finished PROVE FinishedAgrees
    BY DEF FinishedAgrees
  <2>1. /\ op \in Rows /\ Decided(op) /\ ~AnyBusy
        /\ job.status = TerminalStatus(Refresh(op))
    BY DEF EndInv, TypeOK
  <2> QED BY <2>1, StatusOfRows DEF FinishedAgrees, Decided
<1> QED BY <1>1, EndsCorrect, PTL

=============================================================================
