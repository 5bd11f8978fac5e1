---------------------- MODULE DeviceWriteJobSendProofs ----------------------
(***************************************************************************)
(* Who sends what, and what is left of it at Google.  SendInv is an         *)
(* inductive invariant of DeviceWriteJob, and from it follow that a sender  *)
(* owns its batch, that one attempt at most ever sends an operation, that   *)
(* an operation counted as not attempted never left the worker, and that a  *)
(* command is sent once.  With it, AnswerInv says that what a request       *)
(* believes of its answers is true of Google, so a refusal is final, and    *)
(* QuietInv that a lease and its grace outlive the requests of the batch,   *)
(* so a takeover acts on an operation that nothing can reach any more.      *)
(***************************************************************************)
EXTENDS DeviceWriteJobRowProofs, CommandHandOver, FiniteSetTheorems

-----------------------------------------------------------------------------
(* The sends.  Most steps neither start nor continue a send: they keep what *)
(* every request knows, or end the request (CalmRequests), and change rows  *)
(* only in ways that disturb no send (CalmRows).                            *)

CalmRequests ==
  \A a \in Attempts :
    \/ /\ pc'[a] = pc[a] \/ (pc[a] = "sending" /\ pc'[a] = "settling")
       /\ track'[a] = track[a]
       /\ reqBatch'[a] = reqBatch[a] /\ reqToken'[a] = reqToken[a]
    \/ pc'[a] = "ended" /\ track'[a] = Untracked

CalmRows ==
  \A o \in Operations :
    /\ op'[o].attempt = op[o].attempt
    /\ \/ op'[o].status = op[o].status
       \/ /\ op[o].status = "pending"
          /\ op'[o].status \in {"skipped", "cancelled"}
       \/ /\ op[o].status = "unknown"
          /\ op'[o].status \in {"succeeded", "failed"}
          /\ \E v \in Verifiers : hold[v][o] # "none"
       \/ /\ op[o].status = "dispatched" /\ ~AnyBusy
          /\ op'[o].status = "unknown"

\* A sender keeps the batch it owns while nobody touches the lease, the owner
\* and the header fields of its fence.
KeepsFence(a) ==
  /\ job'.status = job.status /\ job'.finished = job.finished
  /\ job'.token = job.token /\ job'.claimed = job.claimed
  /\ owner'[reqBatch[a]] = owner[reqBatch[a]]
  /\ lease'[reqBatch[a]] = lease[reqBatch[a]]

\* A request that sends keeps the finish, the reaper and a takeover out.
LEMMA SenderIsBusy ==
  ASSUME SendInv, NEW a \in Attempts, pc[a] = "sending"
  PROVE  /\ AnyBusy /\ reqBatch[a] \in Batches
         /\ lease[reqBatch[a]] = "live" /\ owner[reqBatch[a]] = a
         /\ job.status = "running" /\ ~job.finished /\ job.claimed
         /\ job.token = reqToken[a]
BY DEF SendInv, SenderOwnsBatch, SenderHoldsRows, OwnsLive, RunsUnder, AnyBusy, Busy

LEMMA FenceKept ==
  ASSUME SendInv, CalmRequests,
         \A a \in Attempts :
           pc[a] = "sending" /\ pc'[a] = "sending" => KeepsFence(a)
  PROVE  SenderOwnsBatch'
<1> SUFFICES ASSUME NEW a \in Attempts, pc'[a] = "sending"
             PROVE  job'.claimed /\ OwnsLive(a)'
  BY DEF SenderOwnsBatch
<1>1. /\ pc[a] = "sending"
      /\ reqBatch'[a] = reqBatch[a] /\ reqToken'[a] = reqToken[a]
  BY DEF CalmRequests
<1>2. KeepsFence(a) BY <1>1
<1> QED BY <1>1, <1>2, SenderIsBusy DEF KeepsFence, OwnsLive, RunsUnder

LEMMA CalmStep ==
  ASSUME SendInv, CalmRequests, CalmRows, UNCHANGED sentBy
  PROVE  /\ UnattemptedNeverSent' /\ SenderHoldsRows' /\ DispatchedByRow'
         /\ UnsentIsUnsent' /\ CommandsNeverWait' /\ OneSender'
<1>1. UnattemptedNeverSent'
  BY DEF SendInv, UnattemptedNeverSent, CalmRows
<1>2. SenderHoldsRows'
  <2> SUFFICES ASSUME NEW a \in Attempts, pc'[a] = "sending"
               PROVE  /\ reqBatch'[a] \in Batches
                      /\ \A o \in Operations :
                           track'[a][o] \notin {"none", "settled"} =>
                             /\ op'[o].status = "dispatched"
                             /\ op'[o].attempt = a
                             /\ BatchOf[o] = reqBatch'[a]
    BY DEF SenderHoldsRows
  <2>1. /\ pc[a] = "sending" /\ track'[a] = track[a]
        /\ reqBatch'[a] = reqBatch[a]
    BY DEF CalmRequests
  <2>2. AnyBusy BY <2>1, SenderIsBusy
  <2> QED BY <2>1, <2>2 DEF SendInv, SenderHoldsRows, CalmRows
<1>3. DispatchedByRow' BY DEF SendInv, DispatchedByRow, CalmRows
<1>4. UnsentIsUnsent'
  <2> SUFFICES ASSUME NEW a \in Attempts, NEW o \in Operations,
                      pc'[a] \in {"sending", "settling"},
                      track'[a][o] = "unsent"
               PROVE  a \notin sentBy[o]
    BY DEF UnsentIsUnsent
  <2>1. pc[a] \in {"sending", "settling"} /\ track'[a] = track[a]
    BY DEF CalmRequests
  <2> QED BY <2>1 DEF SendInv, UnsentIsUnsent
<1>5. CommandsNeverWait'
  BY DEF SendInv, CommandsNeverWait, CalmRequests, Untracked
<1>6. OneSender' BY DEF SendInv, OneSender
<1> QED BY <1>1, <1>2, <1>3, <1>4, <1>5, <1>6

\* Skipping what is pending disturbs no send.
LEMMA SkipPendingCalm ==
  ASSUME op \in Rows, NEW requested, op' = SkipPending(op, requested)
  PROVE  CalmRows
BY SkippedRow DEF CalmRows

\* Fencing what is dispatched disturbs no send once no lease is busy.
LEMMA FenceCalm ==
  ASSUME op \in Rows, ~AnyBusy, NEW requested,
         op' = SkipPending(Fence(op, OpsWith(op, "dispatched"), None),
                           requested)
  PROVE  CalmRows
<1> DEFINE fenced == Fence(op, OpsWith(op, "dispatched"), None)
<1>1. fenced \in Rows BY FenceType
<1>2. ASSUME NEW o \in Operations
      PROVE  /\ fenced[o].attempt = op[o].attempt
             /\ fenced[o].status = IF op[o].status = "dispatched"
                                   THEN "unknown" ELSE op[o].status
  BY FencedRow DEF OpsWith
<1>3. op' = SkipPending(fenced, requested) OBVIOUS
<1> HIDE DEF fenced
<1> QED BY <1>1, <1>2, <1>3, SkippedRow DEF CalmRows

\* A batch request that ends and a reader that ends disturb no send.
LEMMA EndBatchCalm ==
  ASSUME TypeOK, NEW a \in Attempts, EndBatch(a)
  PROVE  CalmRequests
<1> SUFFICES ASSUME NEW c \in Attempts
             PROVE  \/ /\ pc'[c] = pc[c] /\ track'[c] = track[c]
                       /\ reqBatch'[c] = reqBatch[c]
                       /\ reqToken'[c] = reqToken[c]
                    \/ pc'[c] = "ended" /\ track'[c] = Untracked
  BY DEF CalmRequests
<1>1. CASE c = a BY <1>1 DEF EndBatch, TypeOK, Verifiers
<1>2. CASE c # a BY <1>2 DEF EndBatch, TypeOK, Verifiers
<1> QED BY <1>1, <1>2

LEMMA EndReaderCalm ==
  ASSUME TypeOK, NEW v \in Finishers \cup Reconcilers, EndReader(v)
  PROVE  CalmRequests
<1>1. UNCHANGED <<track, reqBatch>> BY DEF EndReader
<1>2. ASSUME NEW a \in Attempts
      PROVE  pc'[a] = pc[a] /\ reqToken'[a] = reqToken[a]
  <2>1. a # v BY ConstantsAssumption
  <2> QED BY <2>1 DEF EndReader, TypeOK, Verifiers
<1> QED BY <1>1, <1>2 DEF CalmRequests

-----------------------------------------------------------------------------
(* The invariant of the sends, action by action.                           *)

LEMMA TickCalm ==
  ASSUME SendInv, Tick
  PROVE  /\ CalmRequests /\ CalmRows
         /\ UNCHANGED <<owner, lease, workerVars, googleVars>>
<1>0. TypeOK /\ job \in Headers /\ op \in Rows BY DEF SendInv, TypeOK
<1>1. UNCHANGED <<owner, lease, workerVars, googleVars>>
  BY DEF Tick, Relabel, Admit, RefuseStart, Abandon, Recover, Finalize,
         RequestCancel
<1>2. CalmRequests BY <1>1 DEF CalmRequests, workerVars
<1>3. CalmRows
  <2>1. CASE UNCHANGED op BY <2>1 DEF CalmRows
  <2>2. CASE Abandon BY <1>0, <2>2, SkipPendingCalm DEF Abandon
  <2>3. CASE Finalize BY <1>0, <2>3, FenceCalm DEF Finalize
  <2>4. CASE RequestCancel
    <3>1. UNCHANGED op \/ op' = SkipPending(op, TRUE)
      BY <2>4 DEF RequestCancel
    <3> QED BY <1>0, <2>1, <3>1, SkipPendingCalm
  <2> QED BY <2>1, <2>2, <2>3, <2>4
          DEF Tick, Relabel, Admit, RefuseStart, Recover
<1> QED BY <1>1, <1>2, <1>3

LEMMA TickSends ==
  ASSUME SendInv, Tick, TypeOK'
  PROVE  SendInv'
<1>0. TypeOK /\ job \in Headers /\ op \in Rows BY DEF SendInv, TypeOK
<1>1. UNCHANGED <<owner, lease, workerVars, googleVars>> BY TickCalm
<1>2. CalmRequests /\ CalmRows BY TickCalm
<1>4. ASSUME NEW a \in Attempts, pc[a] = "sending"
      PROVE  KeepsFence(a)
  <2>1. /\ AnyBusy /\ lease[reqBatch[a]] = "live" /\ reqBatch[a] \in Batches
        /\ job.status = "running" /\ ~job.finished /\ job.claimed
    BY <1>4, SenderIsBusy
  <2>2. ~Relabel /\ ~Admit
    BY <2>1 DEF Relabel, Admit, Waiting
  <2>3. ~RunnerLost /\ ~StartLost /\ \A t : ~RefuseStart(t)
    BY <2>1 DEF RunnerLost, StartLost, RefuseStart
  <2>4. RequestCancel BY <2>2, <2>3 DEF Tick, Recover
  <2>5. job' = Marked BY <2>1, <2>4 DEF RequestCancel, StopsNow
  <2> QED BY <1>0, <1>1, <2>5 DEF Marked, KeepsFence, Headers
<1>5. SenderOwnsBatch' BY <1>2, <1>4, FenceKept
<1> QED BY <1>1, <1>2, <1>5, CalmStep DEF SendInv, googleVars

LEMMA ReadersCalm ==
  ASSUME SendInv,
         \/ \E f \in Finishers : FinishRequest(f)
         \/ \E r \in Reconcilers : Reconcile(r)
  PROVE  /\ CalmRequests /\ CalmRows
         /\ UNCHANGED <<owner, lease, googleVars>>
<1>0. TypeOK /\ job \in Headers /\ op \in Rows BY DEF SendInv, TypeOK
<1>1. CASE \E f \in Finishers : FinishRequest(f)
  <2> PICK f \in Finishers : FinishRequest(f) BY <1>1
  <2>1. UNCHANGED <<owner, lease, googleVars>>
    BY DEF FinishRequest, FinishSuperseded, Prepare, ClaimVerification,
           FinishJob, HoldReadBack, jobVars
  <2>2. CalmRequests
    <3>1. CASE EndReader(f) BY <1>0, <3>1, EndReaderCalm
    <3>2. CASE (\E t \in Issued : Prepare(f, t)) \/ ClaimVerification(f)
      <4>1. UNCHANGED <<track, reqBatch>>
        BY <3>2 DEF Prepare, ClaimVerification, HoldReadBack
      <4>2. ASSUME NEW a \in Attempts
            PROVE  pc'[a] = pc[a] /\ reqToken'[a] = reqToken[a]
        <5>1. a # f BY ConstantsAssumption
        <5> QED BY <1>0, <3>2, <5>1
                DEF Prepare, ClaimVerification, HoldReadBack, TypeOK, Verifiers
      <4> QED BY <4>1, <4>2 DEF CalmRequests
    <3> QED BY <3>1, <3>2 DEF FinishRequest, FinishSuperseded, FinishJob
  <2>3. CalmRows
    <3>1. CASE \E t \in Issued : Prepare(f, t)
      BY <1>0, <3>1, FenceCalm DEF Prepare
    <3>2. CASE ClaimVerification(f)
      <4>1. ASSUME NEW o \in Operations
            PROVE  op'[o].status = op[o].status /\ op'[o].attempt = op[o].attempt
        <5>1. op[o] \in Row BY <1>0 DEF Rows
        <5> QED BY <3>2, <5>1 DEF ClaimVerification, HoldReadBack, Row
      <4> QED BY <4>1 DEF CalmRows
    <3>3. CASE UNCHANGED op BY <3>3 DEF CalmRows
    <3> QED BY <3>1, <3>2, <3>3
            DEF FinishRequest, FinishSuperseded, FinishJob, jobVars
  <2> QED BY <2>1, <2>2, <2>3
<1>2. CASE \E r \in Reconcilers : Reconcile(r)
  <2> PICK r \in Reconcilers : Reconcile(r) BY <1>2
  <2>0. PICK S : HoldReadBack(r, S) BY DEF Reconcile
  <2>1. UNCHANGED <<job, owner, lease, googleVars>>
    BY <2>0 DEF HoldReadBack
  <2>2. CalmRequests
    <3>1. UNCHANGED <<track, reqBatch, reqToken>>
      BY <2>0 DEF HoldReadBack
    <3>2. ASSUME NEW a \in Attempts PROVE pc'[a] = pc[a]
      <4>1. a # r BY ConstantsAssumption
      <4> QED BY <1>0, <4>1 DEF Reconcile, TypeOK, Verifiers
    <3> QED BY <3>1, <3>2 DEF CalmRequests
  <2>3. CalmRows
    <3>1. ASSUME NEW o \in Operations
          PROVE  op'[o].status = op[o].status /\ op'[o].attempt = op[o].attempt
      <4>1. op[o] \in Row BY <1>0 DEF Rows
      <4> QED BY <2>0, <4>1 DEF HoldReadBack, Row
    <3> QED BY <3>1 DEF CalmRows
  <2> QED BY <2>1, <2>2, <2>3
<1> QED BY <1>1, <1>2

LEMMA ReadersSends ==
  ASSUME SendInv, TypeOK',
         \/ \E f \in Finishers : FinishRequest(f)
         \/ \E r \in Reconcilers : Reconcile(r)
  PROVE  SendInv'
<1>1. CalmRequests /\ CalmRows /\ UNCHANGED <<owner, lease, googleVars>>
  BY ReadersCalm
<1>2. ASSUME NEW a \in Attempts, pc[a] = "sending"
      PROVE  KeepsFence(a)
  <2>1. AnyBusy BY <1>2, SenderIsBusy
  <2>2. UNCHANGED job
    BY <2>1 DEF FinishRequest, FinishSuperseded, Prepare, ClaimVerification,
                FinishJob, Reconcile, HoldReadBack, jobVars
  <2> QED BY <1>1, <2>2 DEF KeepsFence
<1>3. SenderOwnsBatch' BY <1>1, <1>2, FenceKept
<1> QED BY <1>1, <1>3, CalmStep DEF SendInv, googleVars

\* What a claim does to a row.
LEMMA ClaimedRow ==
  ASSUME TypeOK, NEW a \in Attempts, NEW t, NEW b \in Batches, Claim(a, t, b),
         NEW o \in Operations
  PROVE  /\ o \in PendingOf(b) =>
              /\ BatchOf[o] = b /\ op[o].status = "pending"
              /\ op'[o].status = "dispatched" /\ op'[o].attempt = a
         /\ o \in LostOf(b) =>
              /\ BatchOf[o] = b /\ op[o].status = "dispatched"
              /\ op[o].attempt = owner[b] /\ op'[o].status = "unknown"
         /\ o \notin PendingOf(b) \cup LostOf(b) =>
              op'[o].status = op[o].status /\ op'[o].attempt = op[o].attempt
<1> DEFINE pending == PendingOf(b)
           lost == LostOf(b)
<1>1. op' = [d \in Operations |->
               IF d \in pending
               THEN [op[d] EXCEPT !.status = "dispatched", !.attempt = a]
               ELSE Fence(op, lost, a)[d]]
  BY DEF Claim
<1>2. op \in Rows /\ op[o] \in Row BY DEF TypeOK, Rows
<1>3. CASE o \in pending
  BY <1>1, <1>2, <1>3 DEF PendingOf, LostOf, Row
<1>4. CASE o \notin pending
  <2>1. op'[o] = Fence(op, lost, a)[o] BY <1>1, <1>4
  <2> QED BY <1>2, <1>4, <2>1, FencedRow DEF LostOf
<1> QED BY <1>3, <1>4

\* A takeover finds no sender of the batch; what it dispatches was never sent.
LEMMA ClaimSends ==
  ASSUME SendInv, NEW a \in Attempts, NEW t \in Issued, NEW b \in Batches,
         Claim(a, t, b), TypeOK'
  PROVE  SendInv'
<1> DEFINE pending == PendingOf(b)
           lost == LostOf(b)
<1>0. TypeOK /\ job \in Headers /\ op \in Rows BY DEF SendInv, TypeOK
<1>1. /\ pc[a] = "idle" /\ RunsUnder(t) /\ ~Busy(b)
      /\ ~job.failure /\ ~job.cancelRequested
  BY DEF Claim, MayClaim
<1>2. /\ job' = Alive /\ UNCHANGED <<drained, googleVars>>
      /\ owner' = [owner EXCEPT ![b] = a]
      /\ lease' = [lease EXCEPT ![b] = "live"]
      /\ pc' = [pc EXCEPT ![a] = "sending"]
      /\ reqToken' = [reqToken EXCEPT ![a] = t]
      /\ reqBatch' = [reqBatch EXCEPT ![a] = b]
      /\ track' = [track EXCEPT ![a] = [o \in Operations |->
                     IF o \in pending THEN "unsent" ELSE "none"]]
      /\ op' = [o \in Operations |->
                  IF o \in pending
                  THEN [op[o] EXCEPT !.status = "dispatched", !.attempt = a]
                  ELSE Fence(op, lost, a)[o]]
  BY DEF Claim
<1>3. ASSUME NEW o \in Operations
      PROVE  /\ o \in pending => /\ BatchOf[o] = b /\ op[o].status = "pending"
                                 /\ op'[o].status = "dispatched"
                                 /\ op'[o].attempt = a
             /\ o \in lost => /\ BatchOf[o] = b /\ op[o].status = "dispatched"
                              /\ op[o].attempt = owner[b]
                              /\ op'[o].status = "unknown"
             /\ o \notin pending \cup lost =>
                  /\ op'[o].status = op[o].status
                  /\ op'[o].attempt = op[o].attempt
  BY <1>0, ClaimedRow
<1>4. ASSUME NEW c \in Attempts, c # a
      PROVE  /\ pc'[c] = pc[c] /\ track'[c] = track[c]
             /\ reqBatch'[c] = reqBatch[c] /\ reqToken'[c] = reqToken[c]
  BY <1>0, <1>2, <1>4 DEF TypeOK, Verifiers
<1>5. /\ pc'[a] = "sending" /\ reqBatch'[a] = b /\ reqToken'[a] = t
      /\ track'[a] = [o \in Operations |->
                        IF o \in pending THEN "unsent" ELSE "none"]
  BY <1>0, <1>2 DEF TypeOK, Verifiers
<1>6. /\ job'.status = job.status /\ job'.finished = job.finished
      /\ job'.token = job.token /\ job'.claimed
  BY <1>0, <1>2 DEF Alive, Headers
<1>7. ASSUME NEW c \in Attempts, pc[c] = "sending"
      PROVE  /\ c # a /\ reqBatch[c] # b /\ reqBatch[c] \in Batches
             /\ owner[reqBatch[c]] = c
  BY <1>1, <1>7, SenderIsBusy DEF Busy
<1> HIDE DEF pending, lost
<1>8. SenderOwnsBatch'
  <2> SUFFICES ASSUME NEW c \in Attempts, pc'[c] = "sending"
               PROVE  job'.claimed /\ OwnsLive(c)'
    BY DEF SenderOwnsBatch
  <2>1. CASE c = a
    <3>1. owner'[b] = a /\ lease'[b] = "live"
      BY <1>0, <1>2 DEF TypeOK
    <3> QED BY <1>1, <1>5, <1>6, <2>1, <3>1 DEF OwnsLive, RunsUnder
  <2>2. CASE c # a
    <3>1. pc[c] = "sending" BY <1>4, <2>2
    <3>2. /\ owner'[reqBatch[c]] = owner[reqBatch[c]]
          /\ lease'[reqBatch[c]] = lease[reqBatch[c]]
      BY <1>0, <1>2, <1>7, <3>1 DEF TypeOK
    <3> QED BY <1>4, <1>6, <2>2, <3>1, <3>2, SenderIsBusy DEF OwnsLive, RunsUnder
  <2> QED BY <2>1, <2>2
<1>9. sentBy' = sentBy BY <1>2 DEF googleVars
<1>10. UnattemptedNeverSent'
  BY <1>3, <1>9 DEF SendInv, UnattemptedNeverSent
<1>11. SenderHoldsRows'
  <2> SUFFICES ASSUME NEW c \in Attempts, pc'[c] = "sending"
               PROVE  /\ reqBatch'[c] \in Batches
                      /\ \A o \in Operations :
                           track'[c][o] \notin {"none", "settled"} =>
                             /\ op'[o].status = "dispatched"
                             /\ op'[o].attempt = c
                             /\ BatchOf[o] = reqBatch'[c]
    BY DEF SenderHoldsRows
  <2>1. CASE c = a BY <1>3, <1>5, <2>1
  <2>2. CASE c # a
    <3>1. pc[c] = "sending" BY <1>4, <2>2
    <3>2. ASSUME NEW o \in Operations, track[c][o] \notin {"none", "settled"}
          PROVE  /\ op[o].status = "dispatched" /\ op[o].attempt = c
                 /\ BatchOf[o] = reqBatch[c]
      BY <3>1, <3>2 DEF SendInv, SenderHoldsRows
    <3>3. ASSUME NEW o \in Operations, track[c][o] \notin {"none", "settled"}
          PROVE  o \notin pending \cup lost
      BY <1>3, <1>7, <3>1, <3>2, <3>3
    <3> QED BY <1>3, <1>4, <1>7, <2>2, <3>1, <3>2, <3>3
  <2> QED BY <2>1, <2>2
<1>12. DispatchedByRow'
  <2> SUFFICES ASSUME NEW o \in Operations, op'[o].status = "dispatched"
               PROVE  sentBy[o] \subseteq {op'[o].attempt}
    BY <1>9 DEF DispatchedByRow
  <2>1. CASE o \in pending
    BY <1>3, <2>1 DEF SendInv, UnattemptedNeverSent
  <2>2. CASE o \notin pending
    BY <1>3, <2>2 DEF SendInv, DispatchedByRow
  <2> QED BY <2>1, <2>2
<1>13. UnsentIsUnsent'
  <2> SUFFICES ASSUME NEW c \in Attempts, NEW o \in Operations,
                      pc'[c] \in {"sending", "settling"},
                      track'[c][o] = "unsent"
               PROVE  c \notin sentBy[o]
    BY <1>9 DEF UnsentIsUnsent
  <2>1. CASE c = a
    <3>1. op[o].status = "pending" BY <1>3, <1>5, <2>1
    <3> QED BY <3>1 DEF SendInv, UnattemptedNeverSent
  <2>2. CASE c # a BY <1>4, <2>2 DEF SendInv, UnsentIsUnsent
  <2> QED BY <2>1, <2>2
<1>14. CommandsNeverWait'
  <2> SUFFICES ASSUME Kind = "device-command",
                      NEW c \in Attempts, NEW o \in Operations
               PROVE  track'[c][o] \notin {"waiting", "rewaiting"}
    BY DEF CommandsNeverWait
  <2>1. CASE c = a BY <1>5, <2>1
  <2>2. CASE c # a BY <1>4, <2>2 DEF SendInv, CommandsNeverWait
  <2> QED BY <2>1, <2>2
<1>15. OneSender' BY <1>9 DEF SendInv, OneSender
<1> QED BY <1>8, <1>10, <1>11, <1>12, <1>13, <1>14, <1>15 DEF SendInv

\* A round sends only what is dispatched to it, and a command only once.
LEMMA SendSends ==
  ASSUME SendInv, NEW a \in Attempts, NEW S \in SUBSET Operations, Send(a, S),
         TypeOK'
  PROVE  SendInv'
<1>0. TypeOK BY DEF SendInv
<1>1. /\ pc[a] = "sending" /\ UNCHANGED <<jobVars, pc, reqToken, reqBatch>>
      /\ \A o \in S : track[a][o] \in {"unsent", "waiting", "rewaiting"}
  BY DEF Send, Due, TrackedAs
<1>2. ASSUME NEW o \in Operations
      PROVE  /\ sentBy'[o] = IF o \in S THEN sentBy[o] \cup {a} ELSE sentBy[o]
             /\ track'[a][o] = IF o \notin S THEN track[a][o]
                               ELSE IF track[a][o] = "rewaiting"
                                    THEN "resent" ELSE "sent"
  BY <1>0 DEF Send, TypeOK
<1>3. ASSUME NEW c \in Attempts, c # a PROVE track'[c] = track[c]
  BY <1>0, <1>3 DEF Send, TypeOK
<1>4. ASSUME NEW o \in S
      PROVE  /\ op[o].status = "dispatched" /\ op[o].attempt = a
             /\ sentBy[o] \subseteq {a}
  BY <1>1 DEF SendInv, SenderHoldsRows, DispatchedByRow
<1>5. SenderOwnsBatch'
  BY <1>1 DEF SendInv, SenderOwnsBatch, OwnsLive, RunsUnder, jobVars
<1>6. UnattemptedNeverSent'
  <2> SUFFICES ASSUME NEW o \in Operations,
                      op'[o].status \in {"pending", "skipped", "cancelled"}
               PROVE  sentBy'[o] = {}
    BY DEF UnattemptedNeverSent
  <2>1. op'[o] = op[o] BY <1>1 DEF jobVars
  <2> QED BY <1>2, <1>4, <2>1 DEF SendInv, UnattemptedNeverSent
<1>7. SenderHoldsRows'
  <2> SUFFICES ASSUME NEW c \in Attempts, pc'[c] = "sending"
               PROVE  /\ reqBatch'[c] \in Batches
                      /\ \A o \in Operations :
                           track'[c][o] \notin {"none", "settled"} =>
                             /\ op'[o].status = "dispatched"
                             /\ op'[o].attempt = c
                             /\ BatchOf[o] = reqBatch'[c]
    BY DEF SenderHoldsRows
  <2>1. pc[c] = "sending" /\ reqBatch'[c] = reqBatch[c] /\ op' = op
    BY <1>1 DEF jobVars
  <2>2. ASSUME NEW o \in Operations, track'[c][o] \notin {"none", "settled"}
        PROVE  track[c][o] \notin {"none", "settled"}
    BY <1>1, <1>2, <1>3, <2>2
  <2> QED BY <2>1, <2>2 DEF SendInv, SenderHoldsRows
<1>8. DispatchedByRow'
  <2> SUFFICES ASSUME NEW o \in Operations, op[o].status = "dispatched"
               PROVE  sentBy'[o] \subseteq {op[o].attempt}
    BY <1>1 DEF DispatchedByRow, jobVars
  <2>1. sentBy[o] \subseteq {op[o].attempt} BY DEF SendInv, DispatchedByRow
  <2> QED BY <1>2, <1>4, <2>1
<1>9. UnsentIsUnsent'
  <2> SUFFICES ASSUME NEW c \in Attempts, NEW o \in Operations,
                      pc[c] \in {"sending", "settling"},
                      track'[c][o] = "unsent"
               PROVE  c \notin sentBy'[o]
    BY <1>1 DEF UnsentIsUnsent
  <2>1. CASE c = a
    <3>1. o \notin S /\ track[a][o] = "unsent" BY <1>2, <2>1
    <3> QED BY <1>2, <2>1, <3>1 DEF SendInv, UnsentIsUnsent
  <2>2. CASE c # a
    <3>1. c \notin sentBy[o]
      BY <1>3, <2>2 DEF SendInv, UnsentIsUnsent
    <3> QED BY <1>2, <2>2, <3>1
  <2> QED BY <2>1, <2>2
<1>10. CommandsNeverWait'
  <2> SUFFICES ASSUME Kind = "device-command",
                      NEW c \in Attempts, NEW o \in Operations
               PROVE  track'[c][o] \notin {"waiting", "rewaiting"}
    BY DEF CommandsNeverWait
  <2>1. track[c][o] \notin {"waiting", "rewaiting"}
    BY DEF SendInv, CommandsNeverWait
  <2> QED BY <1>2, <1>3, <2>1
<1>11. OneSender'
  <2> SUFFICES ASSUME NEW o \in Operations,
                      NEW c \in sentBy'[o], NEW d \in sentBy'[o]
               PROVE  c = d
    BY DEF OneSender
  <2>1. CASE o \in S
    <3>1. sentBy'[o] \subseteq {a} BY <1>2, <1>4, <2>1
    <3> QED BY <3>1
  <2>2. CASE o \notin S BY <1>2, <2>2 DEF SendInv, OneSender
  <2> QED BY <2>1, <2>2
<1> QED BY <1>5, <1>6, <1>7, <1>8, <1>9, <1>10, <1>11 DEF SendInv

\* An answer changes what one request knows of one operation on its way.
LEMMA AnswerSends ==
  ASSUME SendInv, NEW a \in Attempts, NEW o \in Operations,
         NEW t \in Tracks \ {"none", "settled", "unsent"},
         Kind = "device-command" => t \notin {"waiting", "rewaiting"},
         Answer(a, o, t), TypeOK'
  PROVE  SendInv'
<1>0. TypeOK BY DEF SendInv
<1>1. /\ pc[a] = "sending" /\ track[a][o] \in InFlight
      /\ track' = [track EXCEPT ![a][o] = t]
      /\ UNCHANGED <<jobVars, pc, reqToken, reqBatch, sentBy>>
  BY DEF Answer
<1>2. ASSUME NEW c \in Attempts, NEW d \in Operations
      PROVE  track'[c][d] = IF c = a /\ d = o THEN t ELSE track[c][d]
  BY <1>0, <1>1 DEF TypeOK
<1>3. SenderOwnsBatch'
  BY <1>1 DEF SendInv, SenderOwnsBatch, OwnsLive, RunsUnder, jobVars
<1>4. UnattemptedNeverSent'
  BY <1>1 DEF SendInv, UnattemptedNeverSent, jobVars
<1>5. SenderHoldsRows'
  <2>1. ASSUME NEW c \in Attempts, NEW d \in Operations,
               track'[c][d] \notin {"none", "settled"}
        PROVE  track[c][d] \notin {"none", "settled"}
    BY <1>1, <1>2, <2>1 DEF InFlight
  <2> QED BY <1>1, <2>1 DEF SendInv, SenderHoldsRows, jobVars
<1>6. DispatchedByRow' BY <1>1 DEF SendInv, DispatchedByRow, jobVars
<1>7. UnsentIsUnsent' BY <1>1, <1>2 DEF SendInv, UnsentIsUnsent
<1>8. CommandsNeverWait' BY <1>2 DEF SendInv, CommandsNeverWait
<1>9. OneSender' BY <1>1 DEF SendInv, OneSender
<1> QED BY <1>3, <1>4, <1>5, <1>6, <1>7, <1>8, <1>9 DEF SendInv

LEMMA GoogleSends ==
  ASSUME SendInv, NEW a \in Attempts, NEW o \in Operations, Google(a, o),
         TypeOK'
  PROVE  SendInv'
<1>1. CASE GoogleAlone(a, o)
  <2>1. UNCHANGED <<jobVars, workerVars, sentBy>> BY <1>1 DEF GoogleAlone
  <2>2. CalmRequests BY <2>1 DEF CalmRequests, workerVars
  <2>3. CalmRows BY <2>1 DEF CalmRows, jobVars
  <2>4. \A c \in Attempts : KeepsFence(c) BY <2>1 DEF KeepsFence, jobVars
  <2> QED BY <2>1, <2>2, <2>3, <2>4, FenceKept, CalmStep DEF SendInv
<1>2. CASE ~GoogleAlone(a, o)
  <2>1. PICK t \in Tracks \ {"none", "settled", "unsent"} :
          /\ Kind = "device-command" => t \notin {"waiting", "rewaiting"}
          /\ Answer(a, o, t)
    BY <1>2 DEF Google, GoogleAccepts, GoogleRefuses, Refusal, GoogleDiffers,
                GoogleDefers, LoseAnswer, RetriesLost, Tracks
  <2> QED BY <2>1, AnswerSends
<1> QED BY <1>1, <1>2

\* What a settlement does to a row.
LEMMA SettledRow ==
  ASSUME TypeOK, NEW a \in Attempts, NEW S, NEW fails, NEW stop, NEW next,
         SettleWrite(a, S, fails, stop, next), NEW o \in Operations
  PROVE  /\ op'[o].attempt = op[o].attempt
         /\ o \in Settles(a, S) =>
              /\ o \in S /\ op[o].status = "dispatched" /\ op[o].attempt = a
              /\ op'[o].status = Outcome(a, o, stop)
              /\ ReadsBack /\ op'[o].status = "unknown" => op'[o].verifyWait
         /\ o \notin Settles(a, S) => op'[o].status = op[o].status
<1> DEFINE done == Settles(a, S)
           kept == {d \in done : ReadsBack /\ Outcome(a, d, stop) = "unknown"}
<1>1. op[o] \in Row BY DEF TypeOK, Rows
<1>2. op'[o] = IF o \in done
               THEN [op[o] EXCEPT
                       !.status = Outcome(a, o, stop),
                       !.verifier = IF o \in kept THEN a ELSE None,
                       !.verifyLive = o \in kept, !.verifyWait = o \in kept]
               ELSE op[o]
  BY Zenon DEF SettleWrite
<1>3. o \in done => o \in S /\ op[o].status = "dispatched" /\ op[o].attempt = a
  BY DEF Settles
<1>4. o \in kept <=> /\ o \in done /\ ReadsBack
                     /\ Outcome(a, o, stop) = "unknown"
  OBVIOUS
<1> HIDE DEF done, kept
<1>5. op'[o].attempt = op[o].attempt BY <1>1, <1>2 DEF Row
<1>6. o \in done => op'[o].status = Outcome(a, o, stop) BY <1>1, <1>2 DEF Row
<1>7. o \in done => op'[o].verifyWait = (o \in kept) BY <1>1, <1>2 DEF Row
<1>8. o \notin done => op'[o].status = op[o].status BY <1>2
<1> QED BY <1>3, <1>4, <1>5, <1>6, <1>7, <1>8 DEF done

\* A settlement records only what is dispatched to its attempt, and gives
\* back only what that attempt never sent.
LEMMA SettleWriteSends ==
  ASSUME SendInv, NEW a \in Attempts, NEW S \in SUBSET Operations,
         NEW fails \in BOOLEAN, NEW stop \in BOOLEAN,
         NEW next \in {"sending", "reading"},
         pc[a] \in {"sending", "settling"},
         pc[a] = "settling" => next = "reading",
         SettleWrite(a, S, fails, stop, next), TypeOK'
  PROVE  SendInv'
<1> DEFINE done == Settles(a, S)
<1>0. TypeOK /\ job \in Headers BY DEF SendInv, TypeOK
<1>1. ASSUME NEW o \in Operations
      PROVE  /\ op'[o].attempt = op[o].attempt
             /\ o \in done => /\ o \in S /\ op[o].status = "dispatched"
                              /\ op[o].attempt = a
                              /\ op'[o].status = Outcome(a, o, stop)
             /\ o \notin done => op'[o].status = op[o].status
  BY <1>0, SettledRow
<1>2. /\ UNCHANGED <<owner, lease, googleVars>>
      /\ \/ job' = [job EXCEPT !.failure = @ \/ fails, !.stale = FALSE]
         \/ job' = job
  BY DEF SettleWrite
<1>3. ASSUME NEW c \in Attempts, c # a
      PROVE  /\ pc'[c] = pc[c] /\ track'[c] = track[c]
             /\ reqBatch'[c] = reqBatch[c] /\ reqToken'[c] = reqToken[c]
  BY <1>0, <1>3 DEF SettleWrite, EndBatch, TypeOK, Verifiers
<1>4. \/ pc'[a] = "ended" /\ track'[a] = Untracked
      \/ /\ pc'[a] = next
         /\ track'[a] = [o \in Operations |->
                           IF o \in S THEN "settled" ELSE track[a][o]]
         /\ reqBatch'[a] = reqBatch[a] /\ reqToken'[a] = reqToken[a]
  <2>1. CASE EndBatch(a) BY <1>0, <2>1 DEF EndBatch, TypeOK, Verifiers
  <2>2. CASE ~EndBatch(a)
    <3>1. /\ pc' = [pc EXCEPT ![a] = next]
          /\ track' = [track EXCEPT ![a] = [o \in Operations |->
                         IF o \in S THEN "settled" ELSE track[a][o]]]
          /\ UNCHANGED <<reqToken, reqBatch>>
      BY <2>2, Zenon DEF SettleWrite
    <3> QED BY <1>0, <3>1 DEF TypeOK, Verifiers
  <2> QED BY <2>1, <2>2
<1> HIDE DEF done
<1>5. sentBy' = sentBy BY <1>2 DEF googleVars
<1>6. SenderOwnsBatch'
  <2> SUFFICES ASSUME NEW c \in Attempts, pc'[c] = "sending"
               PROVE  job'.claimed /\ OwnsLive(c)'
    BY DEF SenderOwnsBatch
  <2>1. /\ pc[c] = "sending"
        /\ reqBatch'[c] = reqBatch[c] /\ reqToken'[c] = reqToken[c]
    BY <1>3, <1>4
  <2>2. /\ job'.status = job.status /\ job'.finished = job.finished
        /\ job'.token = job.token /\ job'.claimed = job.claimed
    BY <1>0, <1>2 DEF Headers
  <2> QED BY <1>2, <2>1, <2>2, SenderIsBusy DEF OwnsLive, RunsUnder
<1>7. UnattemptedNeverSent'
  <2> SUFFICES ASSUME NEW o \in Operations,
                      op'[o].status \in {"pending", "skipped", "cancelled"}
               PROVE  sentBy[o] = {}
    BY <1>5 DEF UnattemptedNeverSent
  <2>1. CASE o \in done
    <3>1. track[a][o] = "unsent"
      BY <1>1, <2>1 DEF Outcome
    <3>2. a \notin sentBy[o] BY <3>1 DEF SendInv, UnsentIsUnsent
    <3>3. sentBy[o] \subseteq {a}
      BY <1>1, <2>1 DEF SendInv, DispatchedByRow
    <3> QED BY <3>2, <3>3
  <2>2. CASE o \notin done
    BY <1>1, <2>2 DEF SendInv, UnattemptedNeverSent
  <2> QED BY <2>1, <2>2
<1>8. SenderHoldsRows'
  <2> SUFFICES ASSUME NEW c \in Attempts, pc'[c] = "sending"
               PROVE  /\ reqBatch'[c] \in Batches
                      /\ \A o \in Operations :
                           track'[c][o] \notin {"none", "settled"} =>
                             /\ op'[o].status = "dispatched"
                             /\ op'[o].attempt = c
                             /\ BatchOf[o] = reqBatch'[c]
    BY DEF SenderHoldsRows
  <2>1. pc[c] = "sending" /\ reqBatch'[c] = reqBatch[c] BY <1>3, <1>4
  <2>2. ASSUME NEW o \in Operations, track'[c][o] \notin {"none", "settled"}
        PROVE  /\ track[c][o] \notin {"none", "settled"}
               /\ o \notin S \/ c # a
    BY <1>3, <1>4, <2>2 DEF Untracked
  <2>3. ASSUME NEW o \in Operations, track'[c][o] \notin {"none", "settled"}
        PROVE  /\ op[o].status = "dispatched" /\ op[o].attempt = c
               /\ BatchOf[o] = reqBatch[c]
    BY <2>1, <2>2, <2>3 DEF SendInv, SenderHoldsRows
  <2>4. reqBatch[c] \in Batches BY <2>1, SenderIsBusy
  <2> QED BY <1>1, <2>1, <2>2, <2>3, <2>4
<1>9. DispatchedByRow'
  <2>1. ASSUME NEW o \in Operations, op'[o].status = "dispatched"
        PROVE  op[o].status = "dispatched"
    BY <1>1, <2>1
  <2> QED BY <1>1, <1>5, <2>1 DEF SendInv, DispatchedByRow
<1>10. UnsentIsUnsent'
  <2> SUFFICES ASSUME NEW c \in Attempts, NEW o \in Operations,
                      pc'[c] \in {"sending", "settling"},
                      track'[c][o] = "unsent"
               PROVE  c \notin sentBy[o]
    BY <1>5 DEF UnsentIsUnsent
  <2>1. pc[c] \in {"sending", "settling"} /\ track[c][o] = "unsent"
    BY <1>3, <1>4
  <2> QED BY <2>1 DEF SendInv, UnsentIsUnsent
<1>11. CommandsNeverWait'
  <2> SUFFICES ASSUME Kind = "device-command",
                      NEW c \in Attempts, NEW o \in Operations
               PROVE  track'[c][o] \notin {"waiting", "rewaiting"}
    BY DEF CommandsNeverWait
  <2>1. track[c][o] \notin {"waiting", "rewaiting"}
    BY DEF SendInv, CommandsNeverWait
  <2> QED BY <1>3, <1>4, <2>1 DEF Untracked
<1>12. OneSender' BY <1>5 DEF SendInv, OneSender
<1> QED BY <1>6, <1>7, <1>8, <1>9, <1>10, <1>11, <1>12 DEF SendInv

\* Both settlements of a request are a write settlement.  Only the one that
\* leaves nothing open lets the request go on to its read-back.
Settlement(a) ==
  \E S \in SUBSET Operations, fails \in BOOLEAN, stop \in BOOLEAN,
     next \in {"sending", "reading"} :
    /\ pc[a] \in {"sending", "settling"}
    /\ pc[a] = "settling" => next = "reading"
    /\ next = "reading" => S = Operations \ TrackedAs(a, {"none", "settled"})
    /\ SettleWrite(a, S, fails, stop, next)

LEMMA SettlementStep ==
  ASSUME NEW a \in Attempts, SettleRound(a) \/ SettleLeftovers(a)
  PROVE  Settlement(a)
<1>1. CASE SettleRound(a)
  <2>1. TrackedAs(a, Answered) \in SUBSET Operations BY DEF TrackedAs
  <2>2. PICK fails \in BOOLEAN :
          SettleWrite(a, TrackedAs(a, Answered), fails, fails, "sending")
    BY <1>1 DEF SettleRound
  <2>3. pc[a] = "sending" BY <1>1 DEF SettleRound
  <2> QED BY <2>1, <2>2, <2>3 DEF Settlement
<1>2. CASE SettleLeftovers(a)
  <2>1. PICK fails \in BOOLEAN :
          SettleWrite(a, Operations \ TrackedAs(a, {"none", "settled"}),
                      fails, fails /\ a \notin drained, "reading")
    BY <1>2 DEF SettleLeftovers
  <2>2. (fails /\ a \notin drained) \in BOOLEAN OBVIOUS
  <2>3. pc[a] = "settling" BY <1>2 DEF SettleLeftovers
  <2> QED BY <2>1, <2>2, <2>3 DEF Settlement
<1> QED BY <1>1, <1>2

\* The steps of a batch request that neither claim, send nor settle.
CalmBatch(a) ==
  \/ \E t \in Issued : ClaimSuperseded(a, t) \/ ClaimStopped(a, t)
  \/ \E t \in Issued, b \in Batches : ClaimDone(a, t, b)
  \/ Renew(a) \/ EndSending(a) \/ ReleaseBatch(a)

LEMMA BatchRequestCalm ==
  ASSUME SendInv, NEW a \in Attempts, CalmBatch(a)
  PROVE  /\ CalmRequests /\ CalmRows /\ UNCHANGED googleVars
         /\ UNCHANGED <<owner, lease>> \/ ReleaseBatch(a)
<1>0. TypeOK /\ op \in Rows BY DEF SendInv, TypeOK
<1>1. ASSUME NEW t \in Issued,
             \/ ClaimSuperseded(a, t) \/ ClaimStopped(a, t)
             \/ \E b \in Batches : ClaimDone(a, t, b)
      PROVE  /\ CalmRequests /\ CalmRows
             /\ UNCHANGED <<owner, lease, googleVars>>
  <2>1. EndBatch(a) /\ UNCHANGED <<owner, lease, googleVars>>
    BY <1>1 DEF ClaimSuperseded, ClaimStopped, ClaimDone, jobVars
  <2>2. CalmRequests BY <1>0, <2>1, EndBatchCalm
  <2>3. CalmRows
    <3>1. UNCHANGED op \/ \E c : op' = SkipPending(op, c)
      BY <1>1 DEF ClaimSuperseded, ClaimStopped, ClaimDone, jobVars
    <3>2. CASE UNCHANGED op BY <3>2 DEF CalmRows
    <3> QED BY <1>0, <3>1, <3>2, SkipPendingCalm
  <2> QED BY <2>1, <2>2, <2>3
<1>2. CASE Renew(a)
  BY <1>2 DEF Renew, CalmRequests, CalmRows
<1>3. CASE EndSending(a)
  <2>1. UNCHANGED <<jobVars, reqToken, reqBatch, track, googleVars>>
    BY <1>3 DEF EndSending
  <2>2. CalmRequests
    BY <1>0, <1>3, <2>1 DEF EndSending, CalmRequests, TypeOK, Verifiers
  <2>3. CalmRows BY <2>1 DEF CalmRows, jobVars
  <2> QED BY <2>1, <2>2, <2>3 DEF jobVars
<1>4. CASE ReleaseBatch(a)
  <2>1. EndBatch(a) /\ UNCHANGED <<op, googleVars>>
    BY <1>4 DEF ReleaseBatch
  <2>2. CalmRequests BY <1>0, <2>1, EndBatchCalm
  <2>3. CalmRows BY <2>1 DEF CalmRows
  <2> QED BY <1>4, <2>1, <2>2, <2>3
<1> QED BY <1>1, <1>2, <1>3, <1>4 DEF CalmBatch

LEMMA CalmBatchSends ==
  ASSUME SendInv, NEW a \in Attempts, CalmBatch(a), TypeOK'
  PROVE  SendInv'
<1>0. TypeOK /\ job \in Headers BY DEF SendInv, TypeOK
<1>1. CalmRequests /\ CalmRows /\ UNCHANGED googleVars
  BY BatchRequestCalm
<1>2. ASSUME NEW c \in Attempts, pc[c] = "sending" PROVE KeepsFence(c)
  <2>1. job.claimed BY <1>2, SenderIsBusy
  <2>2. /\ job'.status = job.status /\ job'.finished = job.finished
        /\ job'.token = job.token /\ job'.claimed = job.claimed
    <3>1. \/ UNCHANGED job \/ job' = Alive
          \/ job' = [Alive EXCEPT !.failure = @ \/ ~job.cancelRequested]
          \/ job' = [job EXCEPT !.stale = FALSE]
      BY DEF CalmBatch, ClaimSuperseded, ClaimStopped, ClaimDone, Renew,
             EndSending, ReleaseBatch, jobVars
    <3> QED BY <1>0, <2>1, <3>1 DEF Alive, Headers
  <2>3. CASE UNCHANGED <<owner, lease>> BY <2>2, <2>3 DEF KeepsFence
  <2>4. CASE ReleaseBatch(a)
    <3>1. owner[reqBatch[c]] = c /\ c # a /\ reqBatch[c] \in Batches
      BY <1>2, <2>4, SenderIsBusy DEF ReleaseBatch
    <3>2. /\ owner'[reqBatch[c]] = owner[reqBatch[c]]
          /\ lease'[reqBatch[c]] = lease[reqBatch[c]]
      <4>1. CASE owner[reqBatch[a]] = a
        BY <1>0, <2>4, <3>1, <4>1 DEF ReleaseBatch, TypeOK
      <4>2. CASE owner[reqBatch[a]] # a
        BY <2>4, <4>2 DEF ReleaseBatch
      <4> QED BY <4>1, <4>2
    <3> QED BY <2>2, <3>2 DEF KeepsFence
  <2> QED BY <2>3, <2>4, BatchRequestCalm
<1>3. SenderOwnsBatch' BY <1>1, <1>2, FenceKept
<1> QED BY <1>1, <1>3, CalmStep DEF SendInv, googleVars

LEMMA BatchRequestSends ==
  ASSUME SendInv, NEW a \in Attempts, BatchRequest(a), TypeOK'
  PROVE  SendInv'
<1>1. CASE CalmBatch(a) BY <1>1, CalmBatchSends
<1>2. ASSUME NEW t \in Issued, NEW b \in Batches, Claim(a, t, b)
      PROVE  SendInv'
  BY <1>2, ClaimSends
<1>3. ASSUME NEW S \in SUBSET Operations, Send(a, S) PROVE SendInv'
  BY <1>3, SendSends
<1>4. CASE SettleRound(a) \/ SettleLeftovers(a)
  BY <1>4, SettlementStep, SettleWriteSends DEF Settlement
<1> QED BY <1>1, <1>2, <1>3, <1>4 DEF BatchRequest, CalmBatch

LEMMA AnyRequestCalm ==
  ASSUME SendInv, NEW v \in Verifiers, AnyRequest(v)
  PROVE  /\ CalmRequests /\ CalmRows
         /\ UNCHANGED <<owner, lease, googleVars>>
<1>0. TypeOK /\ job \in Headers /\ op \in Rows BY DEF SendInv, TypeOK
<1>1. CASE Quit(v)
  <2>1. UNCHANGED <<jobVars, googleVars>> BY <1>1 DEF Quit
  <2>2. CalmRequests
    <3>1. CASE v \in Attempts BY <1>0, <1>1, <3>1, EndBatchCalm DEF Quit
    <3>2. CASE v \notin Attempts
      BY <1>0, <1>1, <3>2, EndReaderCalm DEF Quit, Verifiers
    <3> QED BY <3>1, <3>2
  <2>3. CalmRows BY <2>1 DEF CalmRows, jobVars
  <2> QED BY <2>1, <2>2, <2>3 DEF jobVars
<1>2. CASE SettleReadBack(v)
  <2> DEFINE done == Verifies(v)
  <2>1. /\ pc[v] = "reading" /\ UNCHANGED <<owner, lease, googleVars>>
    BY <1>2 DEF SettleReadBack
  <2>2. CalmRequests
    <3>1. CASE v \in Reconcilers
      BY <1>0, <1>2, <3>1, EndReaderCalm DEF SettleReadBack
    <3>2. CASE v \notin Reconcilers
      <4>1. /\ pc' = [pc EXCEPT ![v] = IF v \in Finishers THEN "finishing"
                                       ELSE "reading"]
            /\ UNCHANGED <<reqToken, reqBatch, track>>
        BY <1>2, <3>2, Zenon DEF SettleReadBack
      <4>2. ASSUME NEW c \in Attempts PROVE pc'[c] = pc[c]
        <5>1. c \notin Finishers BY ConstantsAssumption
        <5> QED BY <1>0, <2>1, <4>1, <5>1 DEF TypeOK, Verifiers
      <4> QED BY <4>1, <4>2 DEF CalmRequests
    <3> QED BY <3>1, <3>2
  <2>3. CalmRows
    <3>1. op' = [o \in Operations |->
                   IF o \in done
                   THEN [op[o] EXCEPT !.status = ReadOutcome(v, o),
                                      !.verifier = None, !.verifyLive = FALSE,
                                      !.verifyWait = FALSE]
                   ELSE op[o]]
      BY <1>2, Zenon DEF SettleReadBack
    <3>2. ASSUME NEW o \in done
          PROVE  /\ op[o].status = "unknown" /\ hold[v][o] # "none"
                 /\ ReadOutcome(v, o) \in {"unknown", "succeeded", "failed"}
      BY DEF Verifies, HeldBy, ReadOutcome
    <3> HIDE DEF done
    <3>3. ASSUME NEW o \in Operations
          PROVE  /\ op'[o].attempt = op[o].attempt
                 /\ op'[o].status = IF o \in done THEN ReadOutcome(v, o)
                                    ELSE op[o].status
      <4>1. op[o] \in Row BY <1>0 DEF Rows
      <4> QED BY <3>1, <4>1 DEF Row
    <3> QED BY <3>2, <3>3 DEF CalmRows
  <2> QED BY <2>1, <2>2, <2>3
<1>3. ASSUME NEW F \in SUBSET Operations, ReadDevices(v, F)
      PROVE  /\ CalmRequests /\ CalmRows
             /\ UNCHANGED <<owner, lease, googleVars>>
  BY <1>3 DEF ReadDevices, CalmRequests, CalmRows, jobVars
<1> QED BY <1>1, <1>2, <1>3 DEF AnyRequest

LEMMA AnyRequestSends ==
  ASSUME SendInv, NEW v \in Verifiers, AnyRequest(v), TypeOK'
  PROVE  SendInv'
<1>0. TypeOK /\ job \in Headers BY DEF SendInv, TypeOK
<1>1. CalmRequests /\ CalmRows /\ UNCHANGED <<owner, lease, googleVars>>
  BY AnyRequestCalm
<1>2. ASSUME NEW c \in Attempts, pc[c] = "sending" PROVE KeepsFence(c)
  <2>1. job.status = "running" BY <1>2, SenderIsBusy
  <2>2. StatusAfterReview(tally') = job.status
    BY <2>1 DEF StatusAfterReview
  <2>3. \/ UNCHANGED job
        \/ job' = [job EXCEPT !.stale = FALSE,
                              !.status = StatusAfterReview(tally')]
    BY DEF AnyRequest, Quit, SettleReadBack, ReadDevices, jobVars
  <2> QED BY <1>0, <1>1, <2>2, <2>3 DEF KeepsFence, Headers
<1>3. SenderOwnsBatch' BY <1>1, <1>2, FenceKept
<1> QED BY <1>1, <1>3, CalmStep DEF SendInv, googleVars

LEMMA TimeCalm ==
  ASSUME SendInv, Time
  PROVE  /\ CalmRequests /\ CalmRows
         /\ UNCHANGED <<owner, workerVars, googleVars>>
         /\ \/ UNCHANGED lease
            \/ \E b \in Batches : LeaseLapses(b) \/ GraceEnds(b)
<1>0. TypeOK /\ job \in Headers /\ op \in Rows BY DEF SendInv, TypeOK
<1>1. UNCHANGED <<owner, workerVars, googleVars>>
  BY DEF Time, StartWindowEnds, HeartbeatAges, LeaseLapses, GraceEnds,
         VerifyDelayEnds, VerifyLeaseLapses
<1>2. CalmRequests BY <1>1 DEF CalmRequests, workerVars
<1>3. CalmRows
  <2>1. ASSUME NEW o \in Operations
        PROVE  op'[o].status = op[o].status /\ op'[o].attempt = op[o].attempt
    <3>1. op[o] \in Row BY <1>0 DEF Rows
    <3>2. CASE UNCHANGED op BY <3>2
    <3>3. ASSUME NEW d \in Operations,
                 VerifyDelayEnds(d) \/ VerifyLeaseLapses(d)
          PROVE  op'[o].status = op[o].status /\ op'[o].attempt = op[o].attempt
      BY <1>0, <3>1, <3>3 DEF VerifyDelayEnds, VerifyLeaseLapses, Rows, Row
    <3> QED BY <3>2, <3>3
            DEF Time, StartWindowEnds, HeartbeatAges, LeaseLapses, GraceEnds
  <2> QED BY <2>1 DEF CalmRows
<1>4. UNCHANGED lease \/ \E b \in Batches : LeaseLapses(b) \/ GraceEnds(b)
  BY DEF Time, StartWindowEnds, HeartbeatAges, VerifyDelayEnds,
         VerifyLeaseLapses
<1> QED BY <1>1, <1>2, <1>3, <1>4

LEMMA TimeSends ==
  ASSUME SendInv, Time, TypeOK'
  PROVE  SendInv'
<1>0. TypeOK /\ job \in Headers BY DEF SendInv, TypeOK
<1>1. UNCHANGED <<owner, workerVars, googleVars>> BY TimeCalm
<1>2. CalmRequests BY TimeCalm
<1>3. CalmRows BY TimeCalm
<1>4. ASSUME NEW c \in Attempts, pc[c] = "sending" PROVE KeepsFence(c)
  <2>1. /\ lease[reqBatch[c]] = "live" /\ owner[reqBatch[c]] = c
        /\ reqBatch[c] \in Batches
    BY <1>4, SenderIsBusy
  <2>2. /\ job'.status = job.status /\ job'.finished = job.finished
        /\ job'.token = job.token /\ job'.claimed = job.claimed
    BY <1>0 DEF Time, StartWindowEnds, HeartbeatAges, LeaseLapses, GraceEnds,
                VerifyDelayEnds, VerifyLeaseLapses, Headers
  <2>3. c # None BY ConstantsAssumption
  <2>4. lease'[reqBatch[c]] = lease[reqBatch[c]]
    BY <1>0, <1>4, <2>1, <2>3
    DEF Time, StartWindowEnds, HeartbeatAges, LeaseLapses, SendsStopped,
        GraceEnds, VerifyDelayEnds, VerifyLeaseLapses, TypeOK
  <2> QED BY <1>1, <2>2, <2>4 DEF KeepsFence
<1> QED BY <1>1, <1>2, <1>3, <1>4, FenceKept, CalmStep DEF SendInv, googleVars

LEMMA InitSends == Init => SendInv
<1> SUFFICES ASSUME Init PROVE SendInv OBVIOUS
<1>1. /\ \A a \in Attempts : pc[a] = "idle"
      /\ \A a \in Attempts, o \in Operations : track[a][o] = "none"
      /\ \A o \in Operations : sentBy[o] = {}
  BY DEF Init, Verifiers, Untracked
<1> QED BY <1>1, InitType
        DEF SendInv, SenderOwnsBatch, UnattemptedNeverSent, SenderHoldsRows,
            DispatchedByRow, UnsentIsUnsent, CommandsNeverWait, OneSender

LEMMA StutterSends ==
  ASSUME SendInv, UNCHANGED vars
  PROVE  SendInv'
<1>1. TypeOK' BY StutterType DEF SendInv
<1>2. UNCHANGED <<jobVars, workerVars, googleVars>> BY DEF vars
<1>3. CalmRequests BY <1>2 DEF CalmRequests, workerVars
<1>4. CalmRows BY <1>2 DEF CalmRows, jobVars
<1>5. \A c \in Attempts : KeepsFence(c) BY <1>2 DEF KeepsFence, jobVars
<1> QED BY <1>1, <1>2, <1>3, <1>4, <1>5, FenceKept, CalmStep
        DEF SendInv, googleVars

\* The invariant of the sends is inductive.
THEOREM SendsCorrect == Spec => []SendInv
<1>1. ASSUME SendInv, [Next]_vars PROVE SendInv'
  <2>1. TypeOK BY <1>1 DEF SendInv
  <2>2. CASE Next
    <3>1. TypeOK' BY <1>1, <2>1, NextType
    <3> QED BY <1>1, <2>2, <3>1, TickSends, BatchRequestSends, ReadersSends,
               AnyRequestSends, GoogleSends, TimeSends DEF Next
  <2> QED BY <1>1, <2>2, StutterSends
<1> QED BY InitSends, <1>1, PTL DEF Spec

-----------------------------------------------------------------------------
(* What the invariant gives.                                               *)

\* While a request sends, its job runs under its token and its batch is its
\* own under a live lease: takeover, finish and reaper wait.
THEOREM SenderOwnsBatchCorrect == Spec => []SenderOwnsBatch
<1>1. SendInv => SenderOwnsBatch BY DEF SendInv
<1> QED BY <1>1, SendsCorrect, PTL

\* What counts as pending, skipped or cancelled never left the worker.
THEOREM UnattemptedNeverSentCorrect == Spec => []UnattemptedNeverSent
<1>1. SendInv => UnattemptedNeverSent BY DEF SendInv
<1> QED BY <1>1, SendsCorrect, PTL

\* At most one attempt ever sends an operation.
THEOREM SentByOneAttemptCorrect == Spec => []SentByOneAttempt
<1>1. ASSUME SendInv PROVE SentByOneAttempt
  <2> SUFFICES ASSUME NEW o \in Operations
               PROVE  Cardinality(sentBy[o]) <= 1
    BY DEF SentByOneAttempt
  <2>1. CASE sentBy[o] = {} BY <2>1, FS_EmptySet
  <2>2. ASSUME NEW a \in sentBy[o] PROVE Cardinality(sentBy[o]) <= 1
    <3>1. sentBy[o] = {a} BY <1>1 DEF SendInv, OneSender
    <3>2. Cardinality(sentBy[o]) = 1 BY <3>1, FS_Singleton
    <3> QED BY <3>2
  <2> QED BY <2>1, <2>2
<1> QED BY <1>1, SendsCorrect, PTL

\* A command goes to Google at most once, whatever is lost or taken over.
THEOREM CommandSentOnceCorrect == Spec => CommandSentOnce
<1> DEFINE Once == Kind = "device-command" =>
                     \A a \in Attempts, o \in Operations :
                       <<a, o>> \in wire' \ wire => sentBy[o] = {}
<1>1. ASSUME SendInv, [Next]_vars PROVE Once
  <2> SUFFICES ASSUME Kind = "device-command",
                      NEW a \in Attempts, NEW o \in Operations,
                      <<a, o>> \in wire' \ wire
               PROVE  sentBy[o] = {}
    OBVIOUS
  <2>1. PICK c \in Attempts, S \in SUBSET Operations : Send(c, S)
    <3>1. ~UNCHANGED wire OBVIOUS
    <3>2. ~Tick BY <3>1 DEF Tick, Relabel, Admit, RefuseStart, Recover,
                            RequestCancel, googleVars
    <3>3. \A f \in Finishers : ~FinishRequest(f)
      BY <3>1 DEF FinishRequest, FinishSuperseded, Prepare, ClaimVerification,
                  HoldReadBack, FinishJob, googleVars
    <3>4. \A r \in Reconcilers : ~Reconcile(r)
      BY <3>1 DEF Reconcile, HoldReadBack, googleVars
    <3>5. \A v \in Verifiers : ~AnyRequest(v)
      BY <3>1 DEF AnyRequest, Quit, SettleReadBack, ReadDevices, googleVars
    <3>6. ASSUME NEW c \in Attempts, NEW p \in Operations
          PROVE  ~Google(c, p)
      BY DEF Google, GoogleAccepts, GoogleRefuses, GoogleDiffers, GoogleDefers,
             LoseAnswer, GoogleAlone, Consume
    <3>7. ~Time
      BY <3>1 DEF Time, StartWindowEnds, HeartbeatAges, LeaseLapses,
                  GraceEnds, VerifyDelayEnds, VerifyLeaseLapses, googleVars
    <3>8. ~UNCHANGED vars BY <3>1 DEF vars, googleVars
    <3>9. PICK c \in Attempts : BatchRequest(c)
      BY <1>1, <3>2, <3>3, <3>4, <3>5, <3>6, <3>7, <3>8 DEF Next
    <3> QED
      BY <3>1, <3>9
      DEF BatchRequest, ClaimSuperseded, ClaimStopped, ClaimDone, Claim,
          Renew, SettleRound, SettleWrite, EndSending, SettleLeftovers,
          ReleaseBatch, googleVars
  <2>2. c = a /\ o \in S BY <2>1 DEF Send
  <2>3. track[a][o] = "unsent"
    BY <1>1, <2>1, <2>2 DEF Send, Due, TrackedAs, SendInv, CommandsNeverWait
  <2>4. /\ pc[a] = "sending" /\ op[o].status = "dispatched"
        /\ op[o].attempt = a
    BY <1>1, <2>1, <2>2, <2>3 DEF Send, SendInv, SenderHoldsRows
  <2>5. a \notin sentBy[o] /\ sentBy[o] \subseteq {a}
    BY <1>1, <2>3, <2>4 DEF SendInv, UnsentIsUnsent, DispatchedByRow
  <2> QED BY <2>5
<1> QED BY <1>1, SendsCorrect, PTL DEF CommandSentOnce, Spec

-----------------------------------------------------------------------------
(* Every step is calm, or a claim, a send, a settlement or one of Google.  *)

CalmStepTaken ==
  /\ CalmRequests /\ CalmRows /\ UNCHANGED googleVars
  /\ \/ UNCHANGED <<owner, lease>>
     \/ UNCHANGED owner /\ \E b \in Batches : LeaseLapses(b) \/ GraceEnds(b)
     \/ \E a \in Attempts : ReleaseBatch(a)

LEMMA StepKinds ==
  ASSUME SendInv, [Next]_vars
  PROVE  \/ CalmStepTaken
         \/ \E a \in Attempts, t \in Issued, b \in Batches : Claim(a, t, b)
         \/ \E a \in Attempts, S \in SUBSET Operations : Send(a, S)
         \/ \E a \in Attempts : Settlement(a)
         \/ \E a \in Attempts, o \in Operations : Google(a, o)
<1>1. CASE Tick BY <1>1, TickCalm DEF CalmStepTaken
<1>2. ASSUME NEW a \in Attempts, BatchRequest(a)
      PROVE  \/ CalmStepTaken
             \/ \E t \in Issued, b \in Batches : Claim(a, t, b)
             \/ \E S \in SUBSET Operations : Send(a, S)
             \/ Settlement(a)
  <2>1. CASE CalmBatch(a) BY <2>1, BatchRequestCalm DEF CalmStepTaken
  <2>2. CASE SettleRound(a) \/ SettleLeftovers(a)
    BY <2>2, SettlementStep
  <2> QED BY <1>2, <2>1, <2>2 DEF BatchRequest, CalmBatch
<1>3. CASE \/ \E f \in Finishers : FinishRequest(f)
           \/ \E r \in Reconcilers : Reconcile(r)
  BY <1>3, ReadersCalm DEF CalmStepTaken
<1>4. ASSUME NEW v \in Verifiers, AnyRequest(v) PROVE CalmStepTaken
  BY <1>4, AnyRequestCalm DEF CalmStepTaken
<1>5. CASE Time BY <1>5, TimeCalm DEF CalmStepTaken
<1>6. CASE UNCHANGED vars
  BY <1>6 DEF CalmStepTaken, CalmRequests, CalmRows, vars, jobVars, workerVars
<1> QED BY <1>1, <1>2, <1>3, <1>4, <1>5, <1>6 DEF Next

-----------------------------------------------------------------------------
(* What a request believes of an operation is true of Google.              *)

Active(a) == pc[a] \in {"sending", "settling"}

\* Only what a request has sent is on its way, or was carried out.
OnlySentArrives ==
  \A o \in Operations :
    /\ \A a \in Attempts : <<a, o>> \in wire => a \in sentBy[o]
    /\ o \in applied => sentBy[o] # {}

\* A first answer that is no acceptance leaves nothing behind at Google.
FirstAnswerIsTrue ==
  \A a \in Attempts, o \in Operations :
    Active(a) =>
      /\ track[a][o] \notin {"none", "settled", "unsent"} => a \in sentBy[o]
      /\ track[a][o] \in {"waiting", "refused", "differs"} =>
           o \notin applied /\ <<a, o>> \notin wire
      /\ track[a][o] = "sent" /\ <<a, o>> \in wire => o \notin applied
      /\ track[a][o] = "rediffers" => Kind = "device-update"

AnswerInv == OnlySentArrives /\ FirstAnswerIsTrue

\* No request learns anything of an operation; some may end or settle it, or
\* start with what is not sent yet.
NothingLearnt ==
  \A a \in Attempts, o \in Operations :
    Active(a)' /\ track'[a][o] \notin {"none", "settled", "unsent"} =>
      Active(a) /\ track'[a][o] = track[a][o]

LEMMA AnswersKept ==
  ASSUME AnswerInv, NothingLearnt, UNCHANGED googleVars
  PROVE  AnswerInv'
<1>1. OnlySentArrives' BY DEF AnswerInv, OnlySentArrives, googleVars
<1>2. FirstAnswerIsTrue'
  BY DEF AnswerInv, FirstAnswerIsTrue, NothingLearnt, googleVars
<1> QED BY <1>1, <1>2 DEF AnswerInv

LEMMA CalmLearnsNothing ==
  ASSUME CalmRequests PROVE NothingLearnt
BY DEF CalmRequests, NothingLearnt, Active, Untracked

LEMMA ClaimLearnsNothing ==
  ASSUME TypeOK, NEW a \in Attempts, NEW t, NEW b \in Batches, Claim(a, t, b)
  PROVE  NothingLearnt
<1>1. ASSUME NEW c \in Attempts, c # a
      PROVE  pc'[c] = pc[c] /\ track'[c] = track[c]
  BY <1>1 DEF Claim, TypeOK, Verifiers
<1>2. ASSUME NEW o \in Operations PROVE track'[a][o] \in {"unsent", "none"}
  BY DEF Claim, TypeOK
<1> QED BY <1>1, <1>2 DEF NothingLearnt, Active

\* What a settlement does to its request.
LEMMA SettledRequest ==
  ASSUME TypeOK, NEW a \in Attempts, NEW S, NEW fails, NEW stop, NEW next,
         next \in PCs, SettleWrite(a, S, fails, stop, next)
  PROVE  /\ \A c \in Attempts \ {a} : pc'[c] = pc[c] /\ track'[c] = track[c]
         /\ \/ pc'[a] = "ended" /\ track'[a] = Untracked
            \/ /\ pc'[a] = next /\ S = Settles(a, S)
               /\ track'[a] = [o \in Operations |->
                                 IF o \in S THEN "settled" ELSE track[a][o]]
<1>1. ASSUME NEW c \in Attempts, c # a
      PROVE  pc'[c] = pc[c] /\ track'[c] = track[c]
  BY <1>1 DEF SettleWrite, EndBatch, TypeOK, Verifiers
<1>2. CASE EndBatch(a) BY <1>1, <1>2 DEF EndBatch, TypeOK, Verifiers
<1>3. CASE ~EndBatch(a)
  <2>1. /\ Settles(a, S) = S
        /\ pc' = [pc EXCEPT ![a] = next]
        /\ track' = [track EXCEPT ![a] = [o \in Operations |->
                       IF o \in S THEN "settled" ELSE track[a][o]]]
    BY <1>3, Zenon DEF SettleWrite
  <2> QED BY <1>1, <2>1 DEF TypeOK, Verifiers
<1> QED BY <1>2, <1>3

LEMMA SettlementLearnsNothing ==
  ASSUME TypeOK, NEW a \in Attempts, Settlement(a)
  PROVE  NothingLearnt
<1> PICK S \in SUBSET Operations, fails \in BOOLEAN, stop \in BOOLEAN,
         next \in {"sending", "reading"} :
           /\ pc[a] \in {"sending", "settling"}
           /\ SettleWrite(a, S, fails, stop, next)
  BY DEF Settlement
<1>1. next \in PCs BY DEF PCs
<1>2. \A c \in Attempts \ {a} : pc'[c] = pc[c] /\ track'[c] = track[c]
  BY <1>1, SettledRequest
<1>3. ASSUME NEW o \in Operations
      PROVE  \/ track'[a][o] \in {"none", "settled"}
             \/ track'[a][o] = track[a][o]
  <2>1. \/ track'[a] = Untracked
        \/ track'[a] = [d \in Operations |->
                          IF d \in S THEN "settled" ELSE track[a][d]]
    BY <1>1, SettledRequest
  <2> QED BY <2>1 DEF Untracked
<1> QED BY <1>2, <1>3 DEF NothingLearnt, Active

\* A round sends what nobody sent, or what Google has put off.
LEMMA SendAnswers ==
  ASSUME SendInv, AnswerInv, NEW a \in Attempts, NEW S \in SUBSET Operations,
         Send(a, S)
  PROVE  AnswerInv'
<1>0. TypeOK BY DEF SendInv
<1>1. /\ pc[a] = "sending" /\ UNCHANGED <<pc, applied>>
      /\ wire' = wire \cup ({a} \X S)
      /\ \A o \in S : track[a][o] \in {"unsent", "waiting", "rewaiting"}
  BY DEF Send, Due, TrackedAs
<1>2. ASSUME NEW o \in Operations
      PROVE  /\ sentBy'[o] = IF o \in S THEN sentBy[o] \cup {a} ELSE sentBy[o]
             /\ track'[a][o] = IF o \notin S THEN track[a][o]
                               ELSE IF track[a][o] = "rewaiting"
                                    THEN "resent" ELSE "sent"
  BY <1>0 DEF Send, TypeOK
<1>3. ASSUME NEW c \in Attempts, c # a PROVE track'[c] = track[c]
  BY <1>0, <1>3 DEF Send, TypeOK
<1>4. ASSUME NEW o \in S PROVE sentBy[o] \subseteq {a}
  BY <1>1 DEF SendInv, SenderHoldsRows, DispatchedByRow
<1>5. ASSUME NEW c \in Attempts, NEW o \in Operations, c # a \/ o \notin S
      PROVE  <<c, o>> \in wire' <=> <<c, o>> \in wire
  BY <1>1, <1>5
<1>6. OnlySentArrives'
  <2> SUFFICES ASSUME NEW o \in Operations
               PROVE  /\ \A c \in Attempts : <<c, o>> \in wire' =>
                                               c \in sentBy'[o]
                      /\ o \in applied => sentBy'[o] # {}
    BY <1>1 DEF OnlySentArrives
  <2> QED BY <1>2, <1>5 DEF AnswerInv, OnlySentArrives
<1>7. FirstAnswerIsTrue'
  <2> SUFFICES ASSUME NEW c \in Attempts, NEW o \in Operations, Active(c)
               PROVE  /\ track'[c][o] \notin {"none", "settled", "unsent"} =>
                           c \in sentBy'[o]
                      /\ track'[c][o] \in {"waiting", "refused", "differs"} =>
                           o \notin applied /\ <<c, o>> \notin wire'
                      /\ track'[c][o] = "sent" /\ <<c, o>> \in wire' =>
                           o \notin applied
                      /\ track'[c][o] = "rediffers" => Kind = "device-update"
    BY <1>1 DEF FirstAnswerIsTrue, Active
  <2>1. CASE c # a \/ o \notin S
    <3>1. track'[c][o] = track[c][o] BY <1>2, <1>3, <2>1
    <3> QED BY <1>2, <1>5, <2>1, <3>1 DEF AnswerInv, FirstAnswerIsTrue
  <2>2. CASE c = a /\ o \in S
    <3>1. track'[a][o] \in {"sent", "resent"} /\ a \in sentBy'[o]
      BY <1>2, <2>2
    <3>2. ASSUME track'[a][o] = "sent" PROVE o \notin applied
      <4>1. track[a][o] \in {"unsent", "waiting"} BY <1>1, <1>2, <2>2, <3>2
      <4>2. CASE track[a][o] = "unsent"
        <5>1. a \notin sentBy[o]
          BY <1>1, <2>2, <4>2 DEF SendInv, UnsentIsUnsent
        <5> QED BY <1>4, <2>2, <5>1 DEF AnswerInv, OnlySentArrives
      <4>3. CASE track[a][o] = "waiting"
        BY <2>2, <4>3 DEF AnswerInv, FirstAnswerIsTrue
      <4> QED BY <4>1, <4>2, <4>3
    <3> QED BY <2>2, <3>1, <3>2
  <2> QED BY <2>1, <2>2
<1> QED BY <1>6, <1>7 DEF AnswerInv

\* Google carries out or drops what was sent; an answer says which.
LEMMA GoogleAnswers ==
  ASSUME SendInv, AnswerInv, NEW a \in Attempts, NEW o \in Operations,
         Google(a, o)
  PROVE  AnswerInv'
<1>0. TypeOK BY DEF SendInv
<1>1. /\ UNCHANGED <<pc, sentBy>>
      /\ wire \ {<<a, o>>} \subseteq wire' /\ wire' \subseteq wire
      /\ applied \subseteq applied' /\ applied' \subseteq applied \cup {o}
      /\ o \in applied' \ applied => <<a, o>> \in wire
  BY DEF Google, GoogleAccepts, GoogleRefuses, GoogleDiffers, GoogleDefers,
         LoseAnswer, GoogleAlone, Answer, Consume, workerVars
<1>2. ASSUME NEW c \in Attempts, NEW d \in Operations, c # a \/ d # o
      PROVE  track'[c][d] = track[c][d]
  BY <1>0, <1>2 DEF Google, GoogleAccepts, GoogleRefuses, GoogleDiffers,
                    GoogleDefers, LoseAnswer, GoogleAlone, Answer, workerVars,
                    TypeOK
<1>3. \/ /\ track'[a][o] = track[a][o]
         /\ <<a, o>> \in wire /\ <<a, o>> \notin wire'
      \/ /\ pc[a] = "sending" /\ track[a][o] \in {"sent", "resent"}
         /\ track'[a][o] \in {"accepted", "unclear", "rewaiting"}
      \/ /\ pc[a] = "sending" /\ track[a][o] = "sent" /\ UNCHANGED applied
         /\ track'[a][o] \in {"waiting", "refused", "differs"}
         /\ <<a, o>> \in wire /\ <<a, o>> \notin wire'
      \/ /\ pc[a] = "sending" /\ track[a][o] = "resent"
         /\ track'[a][o] = "rediffers" /\ Kind = "device-update"
  <2>1. CASE GoogleAlone(a, o) BY <2>1 DEF GoogleAlone, workerVars
  <2>2. ASSUME NEW t, Answer(a, o, t)
        PROVE  /\ pc[a] = "sending" /\ track[a][o] \in {"sent", "resent"}
               /\ track'[a][o] = t
    BY <1>0, <2>2 DEF Answer, InFlight, TypeOK
  <2>3. CASE GoogleAccepts(a, o) \/ LoseAnswer(a, o)
    BY <2>2, <2>3 DEF GoogleAccepts, LoseAnswer
  <2>4. CASE GoogleRefuses(a, o) \/ GoogleDefers(a, o)
    BY <2>2, <2>4 DEF GoogleRefuses, GoogleDiffers, GoogleDefers, Refusal, Consume
  <2>5. CASE GoogleDiffers(a, o)
    BY <2>2, <2>5 DEF GoogleDiffers, Consume
  <2> QED BY <2>1, <2>3, <2>4, <2>5 DEF Google
<1>4. OnlySentArrives'
  <2>1. o \in applied' => sentBy[o] # {}
    BY <1>1 DEF AnswerInv, OnlySentArrives
  <2> QED BY <1>1, <2>1 DEF AnswerInv, OnlySentArrives
<1>5. FirstAnswerIsTrue'
  <2> SUFFICES ASSUME NEW c \in Attempts, NEW d \in Operations, Active(c)
               PROVE  /\ track'[c][d] \notin {"none", "settled", "unsent"} =>
                           c \in sentBy[d]
                      /\ track'[c][d] \in {"waiting", "refused", "differs"} =>
                           d \notin applied' /\ <<c, d>> \notin wire'
                      /\ track'[c][d] = "sent" /\ <<c, d>> \in wire' =>
                           d \notin applied'
                      /\ track'[c][d] = "rediffers" => Kind = "device-update"
    BY <1>1 DEF FirstAnswerIsTrue, Active
  <2>1. CASE d # o
    BY <1>1, <1>2, <2>1 DEF AnswerInv, FirstAnswerIsTrue
  <2>2. CASE d = o /\ c # a
    <3>1. track'[c][o] = track[c][o] BY <1>2, <2>2
    <3>2. ASSUME track[c][o] \notin {"none", "settled", "unsent"}
          PROVE  c \in sentBy[o] /\ <<a, o>> \notin wire
      <4>1. c \in sentBy[o]
        BY <2>2, <3>2 DEF AnswerInv, FirstAnswerIsTrue
      <4>2. a \notin sentBy[o] BY <2>2, <4>1 DEF SendInv, OneSender
      <4> QED BY <4>1, <4>2 DEF AnswerInv, OnlySentArrives
    <3> QED BY <1>1, <2>2, <3>1, <3>2 DEF AnswerInv, FirstAnswerIsTrue
  <2>3. CASE d = o /\ c = a
    BY <1>1, <1>3, <2>3 DEF AnswerInv, FirstAnswerIsTrue
  <2> QED BY <2>1, <2>2, <2>3
<1> QED BY <1>4, <1>5 DEF AnswerInv

LEMMA InitAnswers == Init => AnswerInv
BY DEF Init, AnswerInv, OnlySentArrives, FirstAnswerIsTrue, Active, Verifiers

\* What a request believes of its requests is true of Google, for as long as it
\* may still settle them.
THEOREM AnswersCorrect == Spec => []AnswerInv
<1>1. ASSUME SendInv, AnswerInv, [Next]_vars PROVE AnswerInv'
  <2>0. TypeOK BY <1>1 DEF SendInv
  <2>1. CASE CalmStepTaken
    BY <1>1, <2>1, CalmLearnsNothing, AnswersKept DEF CalmStepTaken
  <2>2. ASSUME NEW a \in Attempts, NEW t \in Issued, NEW b \in Batches,
               Claim(a, t, b)
        PROVE  AnswerInv'
    BY <1>1, <2>0, <2>2, ClaimLearnsNothing, AnswersKept DEF Claim
  <2>3. ASSUME NEW a \in Attempts, Settlement(a) PROVE AnswerInv'
    <3>1. UNCHANGED googleVars BY <2>3 DEF Settlement, SettleWrite
    <3> QED BY <1>1, <2>0, <2>3, <3>1, SettlementLearnsNothing, AnswersKept
  <2> QED BY <1>1, <2>1, <2>2, <2>3, SendAnswers, GoogleAnswers, StepKinds
<1> QED BY InitAnswers, SendsCorrect, <1>1, PTL DEF Spec

-----------------------------------------------------------------------------
(* The lease covers the sends: who may act on a lost operation, and when.  *)

\* A dispatched operation belongs to the last owner of its batch; while that
\* request lives, it counts the operation as not settled.
DispatchedByOwner ==
  \A o \in Operations :
    op[o].status = "dispatched" =>
      /\ op[o].attempt \in Attempts
      /\ owner[BatchOf[o]] = op[o].attempt
      /\ pc[op[o].attempt] # "idle"
      /\ pc[op[o].attempt] \in {"sending", "settling", "reading"} =>
           track[op[o].attempt][o] \notin {"none", "settled"}

\* A request that reads back or releases has settled all that it claimed.
ReaderHasSettled ==
  \A a \in Attempts, o \in Operations :
    pc[a] = "reading" => track[a][o] \in {"none", "settled"}

\* Without a lag at Google, the lease of a batch and its grace outlive every
\* request for its dispatched operations.
LeaseCoversSends ==
  ~GoogleLag =>
    \A a \in Attempts, o \in Operations :
      op[o].status = "dispatched" /\ <<a, o>> \in wire => Busy(BatchOf[o])

QuietInv == DispatchedByOwner /\ ReaderHasSettled /\ LeaseCoversSends

LEMMA CalmQuiet ==
  ASSUME SendInv, QuietInv, CalmStepTaken
  PROVE  QuietInv'
<1>0. /\ TypeOK /\ CalmRequests /\ CalmRows /\ UNCHANGED googleVars
      /\ BatchOf \in [Operations -> Batches] /\ None \notin Attempts
  BY ConstantsAssumption DEF SendInv, CalmStepTaken
<1>1. ASSUME NEW o \in Operations, op'[o].status = "dispatched"
      PROVE  /\ op[o].status = "dispatched" /\ op'[o].attempt = op[o].attempt
             /\ op[o].attempt \in Attempts
             /\ owner[BatchOf[o]] = op[o].attempt
  BY <1>0, <1>1 DEF CalmRows, QuietInv, DispatchedByOwner
<1>2. ASSUME NEW a \in Attempts, ReleaseBatch(a), NEW o \in Operations,
             op'[o].status = "dispatched"
      PROVE  /\ owner'[BatchOf[o]] = owner[BatchOf[o]]
             /\ lease'[BatchOf[o]] = lease[BatchOf[o]]
  <2>1. pc[a] = "reading" BY <1>2 DEF ReleaseBatch
  <2>2. op[o].attempt # a
    BY <1>1, <1>2, <2>1 DEF QuietInv, DispatchedByOwner, ReaderHasSettled
  <2>3. owner[BatchOf[o]] # a BY <1>1, <1>2, <2>2
  <2>4. CASE RunsUnder(reqToken[a]) /\ owner[reqBatch[a]] = a
    <3>1. /\ owner' = [owner EXCEPT ![reqBatch[a]] = None]
          /\ lease' = [lease EXCEPT ![reqBatch[a]] = "none"]
      BY <1>2, <2>4 DEF ReleaseBatch
    <3>2. BatchOf[o] # reqBatch[a] /\ BatchOf[o] \in Batches
      BY <1>0, <2>3, <2>4
    <3> QED BY <1>0, <3>1, <3>2 DEF TypeOK
  <2>5. CASE ~(RunsUnder(reqToken[a]) /\ owner[reqBatch[a]] = a)
    BY <1>2, <2>5 DEF ReleaseBatch
  <2> QED BY <2>4, <2>5
<1>3. DispatchedByOwner'
  <2> SUFFICES ASSUME NEW o \in Operations, op'[o].status = "dispatched"
               PROVE  /\ op'[o].attempt \in Attempts
                      /\ owner'[BatchOf[o]] = op'[o].attempt
                      /\ pc'[op'[o].attempt] # "idle"
                      /\ pc'[op'[o].attempt] \in
                           {"sending", "settling", "reading"} =>
                           track'[op'[o].attempt][o] \notin {"none", "settled"}
    BY DEF DispatchedByOwner
  <2> DEFINE x == op[o].attempt
  <2>1. /\ op[o].status = "dispatched" /\ op'[o].attempt = x
        /\ x \in Attempts /\ owner[BatchOf[o]] = x
    BY <1>1
  <2>2. owner'[BatchOf[o]] = x BY <1>2, <2>1 DEF CalmStepTaken
  <2>3. /\ pc[x] # "idle"
        /\ pc[x] \in {"sending", "settling", "reading"} =>
             track[x][o] \notin {"none", "settled"}
    BY <2>1 DEF QuietInv, DispatchedByOwner
  <2> HIDE DEF x
  <2> QED BY <1>0, <2>1, <2>2, <2>3 DEF CalmRequests
<1>4. ReaderHasSettled'
  BY <1>0 DEF CalmRequests, QuietInv, ReaderHasSettled
<1>5. LeaseCoversSends'
  <2> SUFFICES ASSUME ~GoogleLag, NEW a \in Attempts, NEW o \in Operations,
                      op'[o].status = "dispatched", <<a, o>> \in wire
               PROVE  lease'[BatchOf[o]] \in {"live", "grace"}
    BY <1>0 DEF LeaseCoversSends, Busy, googleVars
  <2>1. lease[BatchOf[o]] \in {"live", "grace"}
    BY <1>1 DEF QuietInv, LeaseCoversSends, Busy
  <2>2. ASSUME NEW b \in Batches, LeaseLapses(b)
        PROVE  lease'[BatchOf[o]] \in {"live", "grace"}
    BY <1>0, <2>1, <2>2 DEF LeaseLapses, TypeOK
  <2>3. ASSUME NEW b \in Batches, GraceEnds(b)
        PROVE  lease'[BatchOf[o]] \in {"live", "grace"}
    <3>1. BatchOf[o] # b BY <2>3 DEF GraceEnds, OpenRequests
    <3> QED BY <1>0, <2>1, <2>3, <3>1 DEF GraceEnds, TypeOK
  <2> QED BY <1>2, <2>1, <2>2, <2>3 DEF CalmStepTaken
<1> QED BY <1>3, <1>4, <1>5 DEF QuietInv

\* A claim takes over what the last owner left; nothing of it stays dispatched.
LEMMA ClaimQuiet ==
  ASSUME SendInv, AnswerInv, QuietInv, NEW a \in Attempts, NEW t \in Issued,
         NEW b \in Batches, Claim(a, t, b)
  PROVE  QuietInv'
<1>0. /\ TypeOK /\ pc[a] = "idle" /\ UNCHANGED googleVars
      /\ BatchOf \in [Operations -> Batches] /\ None \notin Attempts
  BY ConstantsAssumption DEF SendInv, Claim, MayClaim
<1>1. /\ \A d \in Batches \ {b} : owner'[d] = owner[d] /\ lease'[d] = lease[d]
      /\ owner'[b] = a /\ lease'[b] = "live"
      /\ \A c \in Attempts \ {a} : pc'[c] = pc[c] /\ track'[c] = track[c]
      /\ pc'[a] = "sending"
      /\ \A o \in PendingOf(b) : track'[a][o] = "unsent"
  BY <1>0 DEF Claim, TypeOK, Verifiers, PendingOf
<1>2. ASSUME NEW o \in Operations, op'[o].status = "dispatched",
             o \notin PendingOf(b)
      PROVE  /\ op[o].status = "dispatched" /\ op'[o].attempt = op[o].attempt
             /\ op[o].attempt \in Attempts \ {a} /\ BatchOf[o] # b
             /\ owner[BatchOf[o]] = op[o].attempt
  <2>1. o \notin LostOf(b) BY <1>0, <1>2, ClaimedRow
  <2>2. op[o].status = "dispatched" /\ op'[o].attempt = op[o].attempt
    BY <1>0, <1>2, <2>1, ClaimedRow
  <2>3. /\ op[o].attempt \in Attempts /\ owner[BatchOf[o]] = op[o].attempt
        /\ pc[op[o].attempt] # "idle"
    BY <2>2 DEF QuietInv, DispatchedByOwner
  <2>4. BatchOf[o] # b BY <1>0, <2>1, <2>2, <2>3 DEF LostOf
  <2> QED BY <1>0, <2>2, <2>3, <2>4
<1>3. DispatchedByOwner'
  <2> SUFFICES ASSUME NEW o \in Operations, op'[o].status = "dispatched"
               PROVE  /\ op'[o].attempt \in Attempts
                      /\ owner'[BatchOf[o]] = op'[o].attempt
                      /\ pc'[op'[o].attempt] # "idle"
                      /\ pc'[op'[o].attempt] \in
                           {"sending", "settling", "reading"} =>
                           track'[op'[o].attempt][o] \notin {"none", "settled"}
    BY DEF DispatchedByOwner
  <2>1. CASE o \in PendingOf(b)
    <3>1. op'[o].attempt = a /\ BatchOf[o] = b BY <1>0, <2>1, ClaimedRow
    <3> QED BY <1>1, <2>1, <3>1
  <2>2. CASE o \notin PendingOf(b)
    <3> DEFINE x == op[o].attempt
    <3>1. /\ op[o].status = "dispatched" /\ op'[o].attempt = x
          /\ x \in Attempts \ {a} /\ BatchOf[o] \in Batches \ {b}
          /\ owner[BatchOf[o]] = x
      BY <1>0, <1>2, <2>2
    <3>2. /\ pc[x] # "idle"
          /\ pc[x] \in {"sending", "settling", "reading"} =>
               track[x][o] \notin {"none", "settled"}
      BY <3>1 DEF QuietInv, DispatchedByOwner
    <3> HIDE DEF x
    <3> QED BY <1>1, <3>1, <3>2
  <2> QED BY <2>1, <2>2
<1>4. ReaderHasSettled' BY <1>1 DEF QuietInv, ReaderHasSettled
<1>5. LeaseCoversSends'
  <2> SUFFICES ASSUME ~GoogleLag, NEW c \in Attempts, NEW o \in Operations,
                      op'[o].status = "dispatched", <<c, o>> \in wire
               PROVE  lease'[BatchOf[o]] \in {"live", "grace"}
    BY <1>0 DEF LeaseCoversSends, Busy, googleVars
  <2>1. CASE o \in PendingOf(b)
    BY <1>1, <2>1 DEF PendingOf
  <2>2. CASE o \notin PendingOf(b)
    BY <1>0, <1>1, <1>2, <2>2 DEF QuietInv, LeaseCoversSends, Busy
  <2> QED BY <2>1, <2>2
<1> QED BY <1>3, <1>4, <1>5 DEF QuietInv

\* A settlement leaves nothing open that it has recorded, or ends the request.
LEMMA SettlementQuiet ==
  ASSUME SendInv, QuietInv, NEW a \in Attempts, Settlement(a)
  PROVE  QuietInv'
<1>0. TypeOK BY DEF SendInv
<1>1. PICK S \in SUBSET Operations, fails \in BOOLEAN, stop \in BOOLEAN,
           next \in {"sending", "reading"} :
        /\ pc[a] \in {"sending", "settling"}
        /\ next = "reading" => S = Operations \ TrackedAs(a, {"none", "settled"})
        /\ SettleWrite(a, S, fails, stop, next)
  BY DEF Settlement
<1>2. UNCHANGED <<owner, lease, googleVars>> BY <1>1 DEF SettleWrite
<1>3. next \in PCs BY DEF PCs
<1>4. /\ \A c \in Attempts \ {a} : pc'[c] = pc[c] /\ track'[c] = track[c]
      /\ \/ pc'[a] = "ended"
         \/ /\ pc'[a] = next /\ S = Settles(a, S)
            /\ track'[a] = [o \in Operations |->
                              IF o \in S THEN "settled" ELSE track[a][o]]
  BY <1>0, <1>1, <1>3, SettledRequest
<1>5. ASSUME NEW o \in Operations, op'[o].status = "dispatched"
      PROVE  /\ op[o].status = "dispatched" /\ op'[o].attempt = op[o].attempt
             /\ o \notin Settles(a, S)
  BY <1>0, <1>1, <1>5, SettledRow, OutcomeType
<1>6. DispatchedByOwner'
  <2> SUFFICES ASSUME NEW o \in Operations, op'[o].status = "dispatched"
               PROVE  /\ op[o].attempt \in Attempts
                      /\ owner[BatchOf[o]] = op[o].attempt
                      /\ pc'[op[o].attempt] # "idle"
                      /\ pc'[op[o].attempt] \in
                           {"sending", "settling", "reading"} =>
                           track'[op[o].attempt][o] \notin {"none", "settled"}
    BY <1>2, <1>5 DEF DispatchedByOwner
  <2> DEFINE x == op[o].attempt
  <2>1. op[o].status = "dispatched" /\ o \notin Settles(a, S) BY <1>5
  <2>2. /\ x \in Attempts /\ owner[BatchOf[o]] = x /\ pc[x] # "idle"
        /\ pc[x] \in {"sending", "settling", "reading"} =>
             track[x][o] \notin {"none", "settled"}
    BY <2>1 DEF QuietInv, DispatchedByOwner
  <2> HIDE DEF x
  <2>3. CASE x # a BY <1>4, <2>2, <2>3 DEF x
  <2>4. CASE x = a
    <3>1. track[a][o] \notin {"none", "settled"} BY <1>1, <2>2, <2>4
    <3>2. \/ pc'[a] = "ended"
          \/ pc'[a] = next /\ track'[a][o] = track[a][o]
      BY <1>4, <2>1
    <3> QED BY <2>2, <2>4, <3>1, <3>2 DEF x
  <2> QED BY <2>3, <2>4
<1>7. ReaderHasSettled'
  <2> SUFFICES ASSUME NEW c \in Attempts, NEW o \in Operations,
                      pc'[c] = "reading"
               PROVE  track'[c][o] \in {"none", "settled"}
    BY DEF ReaderHasSettled
  <2>1. CASE c # a BY <1>4, <2>1 DEF QuietInv, ReaderHasSettled
  <2>2. CASE c = a
    <3>1. /\ S = Operations \ TrackedAs(a, {"none", "settled"})
          /\ track'[a] = [d \in Operations |->
                            IF d \in S THEN "settled" ELSE track[a][d]]
      BY <1>1, <1>4, <2>2
    <3> QED BY <2>2, <3>1 DEF TrackedAs
  <2> QED BY <2>1, <2>2
<1>8. LeaseCoversSends'
  BY <1>2, <1>5 DEF QuietInv, LeaseCoversSends, Busy, googleVars
<1> QED BY <1>6, <1>7, <1>8 DEF QuietInv

\* A round is sent under the live lease of the batch.
LEMMA SendQuiet ==
  ASSUME SendInv, QuietInv, NEW a \in Attempts, NEW S \in SUBSET Operations,
         Send(a, S)
  PROVE  QuietInv'
<1>0. TypeOK BY DEF SendInv
<1>1. /\ pc[a] = "sending" /\ UNCHANGED <<jobVars, pc>>
      /\ wire' = wire \cup ({a} \X S)
      /\ \A o \in S : track[a][o] \in {"unsent", "waiting", "rewaiting"}
  BY DEF Send, Due, TrackedAs
<1>2. /\ \A c \in Attempts \ {a} : track'[c] = track[c]
      /\ \A o \in Operations :
           track'[a][o] = IF o \notin S THEN track[a][o]
                          ELSE IF track[a][o] = "rewaiting"
                               THEN "resent" ELSE "sent"
  BY <1>0 DEF Send, TypeOK
<1>3. DispatchedByOwner'
  <2> SUFFICES ASSUME NEW o \in Operations, op[o].status = "dispatched"
               PROVE  /\ op[o].attempt \in Attempts
                      /\ owner[BatchOf[o]] = op[o].attempt
                      /\ pc[op[o].attempt] # "idle"
                      /\ pc[op[o].attempt] \in
                           {"sending", "settling", "reading"} =>
                           track'[op[o].attempt][o] \notin {"none", "settled"}
    BY <1>1 DEF DispatchedByOwner, jobVars
  <2> DEFINE x == op[o].attempt
  <2>1. /\ x \in Attempts /\ owner[BatchOf[o]] = x /\ pc[x] # "idle"
        /\ pc[x] \in {"sending", "settling", "reading"} =>
             track[x][o] \notin {"none", "settled"}
    BY DEF QuietInv, DispatchedByOwner
  <2> HIDE DEF x
  <2> QED BY <1>2, <2>1 DEF x
<1>4. ReaderHasSettled' BY <1>1, <1>2 DEF QuietInv, ReaderHasSettled
<1>5. LeaseCoversSends'
  <2> SUFFICES ASSUME ~GoogleLag, NEW c \in Attempts, NEW o \in Operations,
                      op[o].status = "dispatched", <<c, o>> \in wire'
               PROVE  Busy(BatchOf[o])
    BY <1>1 DEF LeaseCoversSends, Busy, jobVars
  <2>1. CASE <<c, o>> \in wire BY <2>1 DEF QuietInv, LeaseCoversSends
  <2>2. CASE o \in S
    <3>1. BatchOf[o] = reqBatch[a]
      BY <1>1, <2>2 DEF SendInv, SenderHoldsRows
    <3> QED BY <1>1, <3>1, SenderIsBusy DEF Busy
  <2> QED BY <1>1, <2>1, <2>2
<1> QED BY <1>3, <1>4, <1>5 DEF QuietInv

LEMMA GoogleQuiet ==
  ASSUME SendInv, QuietInv, NEW a \in Attempts, NEW o \in Operations,
         Google(a, o)
  PROVE  QuietInv'
<1>0. TypeOK BY DEF SendInv
<1>1. UNCHANGED <<jobVars, pc>> /\ wire' \subseteq wire
  BY DEF Google, GoogleAccepts, GoogleRefuses, GoogleDiffers, GoogleDefers,
         LoseAnswer, GoogleAlone, Answer, Consume, workerVars
<1>2. ASSUME NEW c \in Attempts, NEW d \in Operations
      PROVE  \/ track'[c][d] = track[c][d]
             \/ /\ pc[c] = "sending"
                /\ track'[c][d] \notin {"none", "settled"}
  <2>1. CASE UNCHANGED track BY <2>1
  <2>2. ASSUME NEW t \in Tracks \ {"none", "settled"}, Answer(a, o, t)
        PROVE  \/ track'[c][d] = track[c][d]
               \/ /\ pc[c] = "sending"
                  /\ track'[c][d] \notin {"none", "settled"}
    BY <1>0, <2>2 DEF Answer, TypeOK
  <2> QED BY <2>1, <2>2
          DEF Google, GoogleAccepts, GoogleRefuses, Refusal, GoogleDiffers,
              GoogleDefers, LoseAnswer, GoogleAlone, workerVars, Tracks
<1>3. DispatchedByOwner'
  BY <1>1, <1>2 DEF QuietInv, DispatchedByOwner, jobVars
<1>4. ReaderHasSettled' BY <1>1, <1>2 DEF QuietInv, ReaderHasSettled
<1>5. LeaseCoversSends'
  BY <1>1 DEF QuietInv, LeaseCoversSends, Busy, jobVars
<1> QED BY <1>3, <1>4, <1>5 DEF QuietInv

LEMMA InitQuiet == Init => QuietInv
BY DEF Init, QuietInv, DispatchedByOwner, ReaderHasSettled, LeaseCoversSends,
       Untracked, Verifiers

\* A dispatched operation stays with the last owner of its batch, and the lease
\* and its grace outlive its requests.
THEOREM LeaseCoversCorrect == Spec => []QuietInv
<1>1. ASSUME SendInv, AnswerInv, QuietInv, [Next]_vars PROVE QuietInv'
  BY <1>1, StepKinds, CalmQuiet, ClaimQuiet, SettlementQuiet, SendQuiet,
     GoogleQuiet
<1> QED BY InitQuiet, SendsCorrect, AnswersCorrect, <1>1, PTL DEF Spec

-----------------------------------------------------------------------------
(* What a failed operation means, and when a lost one is taken over.       *)

\* An operation fails by an answer that its owner settles, or by a read-back.
LEMMA Refusals ==
  ASSUME SendInv, [Next]_vars, NEW o \in Operations,
         op[o].status # "failed", op'[o].status = "failed"
  PROVE  /\ UNCHANGED googleVars
         /\ \/ /\ op[o].status = "dispatched"
               /\ \E a \in Attempts : /\ Active(a) /\ op[o].attempt = a
                                      /\ track[a][o] \in Failing
            \/ /\ op[o].status = "unknown"
               /\ \E v \in Verifiers : hold[v][o] # "none"
<1>0. TypeOK BY DEF SendInv
<1>1. CASE CalmStepTaken BY <1>1 DEF CalmStepTaken, CalmRows
<1>2. ASSUME NEW a \in Attempts, NEW t \in Issued, NEW b \in Batches,
             Claim(a, t, b)
      PROVE  FALSE
  BY <1>0, <1>2, ClaimedRow
<1>3. ASSUME NEW a \in Attempts, Settlement(a)
      PROVE  /\ UNCHANGED googleVars /\ op[o].status = "dispatched"
             /\ Active(a) /\ op[o].attempt = a /\ track[a][o] \in Failing
  <2>1. PICK S \in SUBSET Operations, fails \in BOOLEAN, stop \in BOOLEAN,
             next \in {"sending", "reading"} :
          /\ pc[a] \in {"sending", "settling"}
          /\ SettleWrite(a, S, fails, stop, next)
    BY <1>3 DEF Settlement
  <2>2. o \in Settles(a, S) BY <1>0, <2>1, SettledRow
  <2>3. /\ op[o].status = "dispatched" /\ op[o].attempt = a
        /\ op'[o].status = Outcome(a, o, stop)
    BY <1>0, <2>1, <2>2, SettledRow
  <2>4. track[a][o] \in Failing BY <2>3 DEF Outcome
  <2>5. UNCHANGED googleVars BY <2>1 DEF SettleWrite
  <2> QED BY <2>1, <2>3, <2>4, <2>5 DEF Active
<1>4. ASSUME NEW a \in Attempts, NEW S \in SUBSET Operations, Send(a, S)
      PROVE  FALSE
  BY <1>4 DEF Send, jobVars
<1>5. ASSUME NEW a \in Attempts, NEW d \in Operations, Google(a, d)
      PROVE  FALSE
  BY <1>5 DEF Google, GoogleAccepts, GoogleRefuses, GoogleDiffers,
              GoogleDefers, LoseAnswer, GoogleAlone, Answer, jobVars
<1> QED BY <1>1, <1>2, <1>3, <1>4, <1>5, StepKinds

\* What its owner holds as failed left nothing behind at Google, unless the
\* failure is the answer to a repeated request that names other values.
LEMMA RefusedIsQuiet ==
  ASSUME SendInv, AnswerInv, NEW a \in Attempts, NEW o \in Operations,
         Active(a), track[a][o] \in Failing, track[a][o] # "rediffers"
  PROVE  o \notin applied /\ OpenRequests(o) = {}
<1>1. a \in sentBy[o] /\ o \notin applied /\ <<a, o>> \notin wire
  BY DEF AnswerInv, FirstAnswerIsTrue, Failing
<1>2. ASSUME NEW c \in Attempts, <<c, o>> \in wire PROVE FALSE
  <2>1. c \in sentBy[o] BY <1>2 DEF AnswerInv, OnlySentArrives
  <2> QED BY <1>1, <1>2, <2>1 DEF SendInv, OneSender
<1> QED BY <1>1, <1>2 DEF OpenRequests

\* A write settlement records a failure only when Google has not carried out the
\* operation and cannot any more, except when the answer to a repeated PATCH names
\* other values: after a lost answer no refusal is recorded.
THEOREM RefusalIsFinalCorrect == Spec => RefusalIsFinal
<1> DEFINE Final ==
      \A o \in Operations :
        op[o].status = "dispatched" /\ op'[o].status = "failed"
          => \/ o \notin applied /\ OpenRequests(o) = {}
             \/ track[op[o].attempt][o] = "rediffers"
<1>1. ASSUME SendInv, AnswerInv, [Next]_vars PROVE Final
  BY <1>1, Refusals, RefusedIsQuiet
<1> QED BY <1>1, SendsCorrect, AnswersCorrect, PTL DEF RefusalIsFinal, Spec

\* A command job reads nothing back.
LEMMA ReadsNothingCorrect == Spec => []CommandsReadNothing
<1>1. Init => CommandsReadNothing
  BY DEF Init, CommandsReadNothing, NotHeld
<1>2. ASSUME TypeOK, CommandsReadNothing, [Next]_vars
      PROVE  CommandsReadNothing'
  BY <1>2, CommandsStep
<1> QED BY <1>1, <1>2, TypeCorrect, PTL DEF Spec

\* A failed command is behind Google: nothing of it is on its way.
FailedIsQuiet ==
  \A o \in Operations :
    op[o].status = "failed" => o \notin applied /\ OpenRequests(o) = {}

\* What a command job reports as failed was not carried out.  A command has no
\* read-back, which could fail an operation too early.
THEOREM FailedNeverAppliedCorrect ==
  ASSUME Kind = "device-command"
  PROVE  Spec => []FailedNeverApplied
<1>1. ASSUME SendInv, AnswerInv, CommandsReadNothing, FailedIsQuiet,
             [Next]_vars
      PROVE  FailedIsQuiet'
  <2> SUFFICES ASSUME NEW o \in Operations, op'[o].status = "failed"
               PROVE  o \notin applied' /\ OpenRequests(o)' = {}
    BY DEF FailedIsQuiet
  <2>1. CASE op[o].status # "failed"
    <3>1. \A a \in Attempts : Active(a) => track[a][o] # "rediffers"
      BY <1>1 DEF AnswerInv, FirstAnswerIsTrue
    <3>2. UNCHANGED googleVars /\ o \notin applied /\ OpenRequests(o) = {}
      BY <1>1, <2>1, <3>1, Refusals, RefusedIsQuiet
         DEF CommandsReadNothing, ReadsBack
    <3> QED BY <3>2 DEF OpenRequests, googleVars
  <2>2. CASE op[o].status = "failed"
    <3>0. o \notin applied /\ \A c \in Attempts : <<c, o>> \notin wire
      BY <1>1, <2>2 DEF FailedIsQuiet, OpenRequests
    <3>1. ASSUME NEW a \in Attempts, NEW S \in SUBSET Operations, Send(a, S)
          PROVE  /\ o \notin applied'
                 /\ \A c \in Attempts : <<c, o>> \notin wire'
      <4>1. o \notin S
        BY <1>1, <2>2, <3>1
           DEF Send, Due, TrackedAs, SendInv, SenderHoldsRows
      <4> QED BY <3>0, <3>1, <4>1 DEF Send
    <3>2. ASSUME NEW a \in Attempts, NEW d \in Operations, Google(a, d)
          PROVE  /\ o \notin applied'
                 /\ \A c \in Attempts : <<c, o>> \notin wire'
      <4>1. /\ wire' \subseteq wire /\ applied' \subseteq applied \cup {d}
            /\ d \in applied' \ applied => <<a, d>> \in wire
        BY <3>2 DEF Google, GoogleAccepts, GoogleRefuses, GoogleDiffers,
                    GoogleDefers, LoseAnswer, GoogleAlone, Consume
      <4> QED BY <3>0, <4>1
    <3>3. CASE UNCHANGED googleVars
      BY <3>0, <3>3 DEF googleVars, OpenRequests
    <3>4. \/ UNCHANGED googleVars
          \/ \E a \in Attempts, S \in SUBSET Operations : Send(a, S)
          \/ \E a \in Attempts, d \in Operations : Google(a, d)
      <4>1. \A a \in Attempts, t \in Issued, b \in Batches :
              Claim(a, t, b) => UNCHANGED googleVars
        BY DEF Claim
      <4>2. ASSUME NEW a \in Attempts, Settlement(a)
            PROVE  UNCHANGED googleVars
        BY <4>2 DEF Settlement, SettleWrite
      <4>3. CalmStepTaken => UNCHANGED googleVars BY DEF CalmStepTaken
      <4> HIDE DEF googleVars, Send, Google
      <4> QED BY <1>1, <4>1, <4>2, <4>3, StepKinds
    <3> QED BY <3>1, <3>2, <3>3, <3>4 DEF OpenRequests
  <2> QED BY <2>1, <2>2
<1>2. Init => FailedIsQuiet BY DEF Init, FailedIsQuiet
<1>3. FailedIsQuiet => FailedNeverApplied
  BY DEF FailedIsQuiet, FailedNeverApplied
<1> QED BY <1>1, <1>2, <1>3, SendsCorrect, AnswersCorrect, ReadsNothingCorrect,
           PTL DEF Spec

\* A takeover, the finish and the reaper fence an operation without a delay only
\* when no request of it is left, because the lease and its grace outlive them.
THEOREM FencedIsQuietCorrect == Spec => FencedIsQuiet
<1> DEFINE Quiet == ReadsBack /\ ~GoogleLag =>
             \A o \in Operations :
               op[o].status = "dispatched" /\ op'[o].status = "unknown"
                 /\ ~op'[o].verifyWait => OpenRequests(o) = {}
<1>1. ASSUME SendInv, QuietInv, [Next]_vars PROVE Quiet
  <2> SUFFICES ASSUME ReadsBack, ~GoogleLag, NEW o \in Operations,
                      op[o].status = "dispatched", op'[o].status = "unknown",
                      ~op'[o].verifyWait
               PROVE  ~Busy(BatchOf[o])
    BY <1>1 DEF QuietInv, LeaseCoversSends, OpenRequests
  <2>0. TypeOK /\ BatchOf[o] \in Batches
    BY <1>1, ConstantsAssumption DEF SendInv
  <2>1. CASE CalmStepTaken
    BY <2>0, <2>1 DEF CalmStepTaken, CalmRows, AnyBusy
  <2>2. ASSUME NEW a \in Attempts, NEW t \in Issued, NEW b \in Batches,
               Claim(a, t, b)
        PROVE  ~Busy(BatchOf[o])
    <3>1. o \in LostOf(b) BY <2>0, <2>2, ClaimedRow
    <3> QED BY <2>2, <3>1 DEF LostOf, Claim, MayClaim
  <2>3. ASSUME NEW a \in Attempts, Settlement(a) PROVE FALSE
    BY <2>0, <2>3, SettledRow DEF Settlement
  <2>4. ASSUME NEW a \in Attempts, NEW S \in SUBSET Operations, Send(a, S)
        PROVE  FALSE
    BY <2>4 DEF Send, jobVars
  <2>5. ASSUME NEW a \in Attempts, NEW d \in Operations, Google(a, d)
        PROVE  FALSE
    BY <2>5 DEF Google, GoogleAccepts, GoogleRefuses, GoogleDiffers, GoogleDefers,
                LoseAnswer, GoogleAlone, Answer, jobVars
  <2> QED BY <1>1, <2>1, <2>2, <2>3, <2>4, <2>5, StepKinds
<1> QED BY <1>1, SendsCorrect, LeaseCoversCorrect, PTL DEF FencedIsQuiet, Spec

-----------------------------------------------------------------------------
(* The job implements its contract.                                        *)

\* A waiting job decides nothing, except that a cancel ends it.
LEMMA WaitingSteps ==
  ASSUME EndInv, [Next]_vars, job.status \in Waiting
  PROVE  \/ \A o \in Operations : op'[o].status = op[o].status
         \/ RequestCancel
<1>0. TypeOK /\ op \in Rows BY DEF EndInv, TypeOK
<1>1. /\ job.status # "running" /\ \A t : ~RunsUnder(t)
      /\ \A o \in Operations : op[o].status \in {"pending", "skipped"}
  BY DEF EndInv, HeaderInStep, Waiting, Ended, RunsUnder
<1>2. CASE UNCHANGED op BY <1>2
<1>3. CASE Tick
  BY <1>1, <1>3 DEF Tick, Relabel, Admit, RefuseStart, Recover, StartLost,
                    RunnerLost
<1>4. ASSUME NEW v \in Verifiers, NEW S, HoldReadBack(v, S)
      PROVE  \A o \in Operations : op'[o].status = op[o].status
  <2> TAKE o \in Operations
  <2>1. op[o] \in Row BY <1>0 DEF Rows
  <2>2. op'[o] = IF o \in S
                 THEN [op[o] EXCEPT !.verifier = v, !.verifyLive = TRUE]
                 ELSE op[o]
    BY <1>4, Zenon DEF HoldReadBack
  <2> QED BY <2>1, <2>2 DEF Row
<1>5. ASSUME NEW a \in Attempts, BatchRequest(a)
      PROVE  \A o \in Operations : op'[o].status = op[o].status
  <2>1. ASSUME NEW S, NEW fails, NEW stop, NEW next,
               SettleWrite(a, S, fails, stop, next)
        PROVE  \A o \in Operations : op'[o].status = op[o].status
    <3> TAKE o \in Operations
    <3>1. o \notin Settles(a, S) BY <1>1 DEF Settles, OwnsLive
    <3> QED BY <1>0, <2>1, <3>1, SettledRow
  <2>2. CASE SettleRound(a) \/ SettleLeftovers(a)
    BY <2>1, <2>2 DEF SettleRound, SettleLeftovers
  <2>3. ASSUME NEW t \in Issued, ClaimSuperseded(a, t) \/ ClaimStopped(a, t)
        PROVE  UNCHANGED op
    BY <1>1, <2>3 DEF ClaimSuperseded, ClaimStopped, jobVars
  <2>4. ASSUME NEW t \in Issued, NEW b \in Batches,
               ClaimDone(a, t, b) \/ Claim(a, t, b)
        PROVE  UNCHANGED op
    BY <1>1, <2>4 DEF ClaimDone, Claim, MayClaim
  <2>5. CASE Renew(a) \/ EndSending(a) \/ ReleaseBatch(a)
    BY <2>5 DEF Renew, EndSending, ReleaseBatch, jobVars
  <2>6. ASSUME NEW S \in SUBSET Operations, Send(a, S)
        PROVE  UNCHANGED op
    BY <2>6 DEF Send, jobVars
  <2> QED BY <1>5, <2>2, <2>3, <2>4, <2>5, <2>6 DEF BatchRequest
<1>6. ASSUME NEW f \in Finishers, FinishRequest(f)
      PROVE  \A o \in Operations : op'[o].status = op[o].status
  <2>1. f \in Verifiers BY DEF Verifiers
  <2>2. CASE ClaimVerification(f)
    BY <1>4, <2>1, <2>2 DEF ClaimVerification
  <2> QED BY <1>1, <1>6, <2>2
          DEF FinishRequest, FinishSuperseded, Prepare, FinishJob, jobVars
<1>7. ASSUME NEW r \in Reconcilers, Reconcile(r)
      PROVE  \A o \in Operations : op'[o].status = op[o].status
  BY <1>4, <1>7 DEF Reconcile, Verifiers
<1>8. ASSUME NEW v \in Verifiers, AnyRequest(v)
      PROVE  \A o \in Operations : op'[o].status = op[o].status
  <2>1. CASE SettleReadBack(v)
    <3>1. Verifies(v) = {} BY <1>1 DEF Verifies, HeldBy
    <3> QED BY <2>1, <3>1 DEF SettleReadBack
  <2> QED BY <1>8, <2>1 DEF AnyRequest, Quit, ReadDevices, jobVars
<1>9. ASSUME NEW a \in Attempts, NEW o \in Operations, Google(a, o)
      PROVE  UNCHANGED op
  BY <1>9 DEF Google, GoogleAccepts, GoogleRefuses, GoogleDiffers,
              GoogleDefers, LoseAnswer, GoogleAlone, Answer, jobVars
<1>10. CASE Time BY <1>0, <1>10, TimeStatus
<1> QED BY <1>2, <1>3, <1>5, <1>6, <1>7, <1>8, <1>9, <1>10
        DEF Next, vars, jobVars

\* The steps that write the header.
LEMMA HeaderSteps ==
  ASSUME [Next]_vars
  PROVE  \/ UNCHANGED job \/ Tick \/ Time
         \/ \E a \in Attempts : BatchRequest(a)
         \/ \E f \in Finishers : FinishJob(f)
         \/ \E v \in Verifiers : SettleReadBack(v)
<1>1. ASSUME NEW f \in Finishers, FinishRequest(f)
      PROVE  UNCHANGED job \/ FinishJob(f)
  BY <1>1 DEF FinishRequest, FinishSuperseded, Prepare, ClaimVerification,
              HoldReadBack, jobVars
<1>2. ASSUME NEW r \in Reconcilers, Reconcile(r)
      PROVE  UNCHANGED job
  BY <1>2 DEF Reconcile, HoldReadBack
<1>3. ASSUME NEW v \in Verifiers, AnyRequest(v)
      PROVE  UNCHANGED job \/ SettleReadBack(v)
  BY <1>3 DEF AnyRequest, Quit, ReadDevices, jobVars
<1>4. ASSUME NEW a \in Attempts, NEW o \in Operations, Google(a, o)
      PROVE  UNCHANGED job
  BY <1>4 DEF Google, GoogleAccepts, GoogleRefuses, GoogleDiffers,
              GoogleDefers, LoseAnswer, GoogleAlone, Answer, jobVars
<1> QED BY <1>1, <1>2, <1>3, <1>4 DEF Next, vars, jobVars

\* A command job lets the write slot go: some command is issued, every other
\* operation is decided, and no lease is left.
StartsWaiting ==
  /\ job'.status = "awaiting-devices"
  /\ OpsWith(op', "issued") # {}
  /\ \A o \in Operations : op'[o].status \notin {"pending", "dispatched"}
  /\ ~AnyBusy'

\* How the status of a job moves.
LEMMA StatusSteps ==
  ASSUME EndInv, [Next]_vars
  PROVE  \/ job'.status = job.status
         \/ {job.status, job'.status} \subseteq Waiting
         \/ Admit
         \/ job.status \in Waiting /\ RequestCancel /\ job'.status \in Ended
         \/ job.status = "running" /\ job'.status \in Ended
         \/ job.status = "running" /\ StartsWaiting
         \/ /\ job.status \notin Waiting \cup {"running"}
            /\ job'.status \in Ended
<1>0. TypeOK /\ job \in Headers /\ op \in Rows BY DEF EndInv, TypeOK
<1>1. CASE UNCHANGED job BY <1>1
<1>2. ASSUME NEW rows, Close(rows), job.status = "running"
      PROVE  \/ job'.status \in Ended
             \/ job'.status = "awaiting-devices" /\ OpsWith(rows, "issued") # {}
  <2>1. CASE /\ job' = [job EXCEPT !.status = "awaiting-devices"]
             /\ OpsWith(rows, "issued") # {}
    BY <1>0, <2>1 DEF Headers
  <2>2. CASE job' = [job EXCEPT !.status = TerminalStatus(Refresh(rows)),
                                !.finished = TRUE]
    <3>1. job'.status = TerminalStatus(Refresh(rows))
      BY <1>0, <2>2 DEF Headers
    <3> QED BY <3>1, TerminalStatusType
  <2> QED BY <1>2, <2>1, <2>2 DEF Close
<1>3. CASE Abandon /\ job.status = "running"
  BY <1>0, <1>3 DEF Abandon, Headers, Ended
<1>4. CASE Finalize /\ job.status = "running"
  <2>1. Close(op') /\ op' = SkipPending(Fence(op, OpsWith(op, "dispatched"),
                                              None), job.cancelRequested)
    BY <1>4 DEF Finalize
  <2>2. \A o \in Operations : op'[o].status \notin {"pending", "dispatched"}
    BY <1>0, <2>1, FencedRows
  <2>3. ~AnyBusy' BY <1>4 DEF Finalize, AnyBusy, Busy
  <2> QED BY <1>2, <1>4, <2>1, <2>2, <2>3 DEF StartsWaiting
<1>5. CASE Tick
  <2>1. CASE Relabel
    BY <1>0, <2>1 DEF Relabel, Headers, Waiting
  <2>2. CASE RequestCancel
    <3>1. CASE UNCHANGED job BY <3>1
    <3>2. CASE StopsNow
      <4>1. job'.status = TerminalStatus(tally')
        BY <1>0, <2>2, <3>2 DEF RequestCancel, Marked, Headers
      <4>2. ~job.finished /\ job.status # "awaiting-devices"
        BY <2>2 DEF RequestCancel
      <4>3. job.status \in Waiting \cup {"running"}
        BY <1>0, <4>2 DEF EndInv, HeaderInStep, Headers, JobStatus
      <4> QED BY <2>2, <4>1, <4>3, TerminalStatusType
    <3>3. CASE ~StopsNow
      BY <1>0, <2>2, <3>3 DEF RequestCancel, Marked, Headers
    <3> QED BY <3>2, <3>3
  <2>3. CASE \E t \in Issued : RefuseStart(t)
    BY <1>3, <2>3 DEF RefuseStart
  <2>4. CASE Recover
    <3>1. CASE StartLost /\ Abandon BY <1>3, <3>1 DEF StartLost
    <3>2. CASE RunnerLost /\ Finalize BY <1>4, <3>2 DEF RunnerLost
    <3> QED BY <1>0, <2>4, <3>1, <3>2 DEF Recover, Headers
  <2> QED BY <1>5, <2>1, <2>2, <2>3, <2>4 DEF Tick
<1>6. ASSUME NEW a \in Attempts, BatchRequest(a)
      PROVE  job'.status = job.status
  <2>1. Alive.status = job.status /\ Alive \in Headers
    BY <1>0, AliveType DEF Alive, Headers
  <2>2. ASSUME NEW t \in Issued, ClaimSuperseded(a, t) \/ ClaimStopped(a, t)
        PROVE  job'.status = job.status
    BY <2>1, <2>2 DEF ClaimSuperseded, ClaimStopped, jobVars, Headers
  <2>3. ASSUME NEW t \in Issued, NEW b \in Batches,
               ClaimDone(a, t, b) \/ Claim(a, t, b)
        PROVE  job'.status = job.status
    BY <2>1, <2>3 DEF ClaimDone, Claim
  <2>4. ASSUME NEW S, NEW fails, NEW stop, NEW next,
               SettleWrite(a, S, fails, stop, next)
        PROVE  job'.status = job.status
    BY <1>0, <2>4 DEF SettleWrite, Headers
  <2>5. CASE SettleRound(a) \/ SettleLeftovers(a)
    BY <2>4, <2>5 DEF SettleRound, SettleLeftovers
  <2>6. CASE Renew(a) \/ EndSending(a) \/ ReleaseBatch(a)
    BY <1>0, <2>6 DEF Renew, EndSending, ReleaseBatch, jobVars, Headers
  <2>7. ASSUME NEW S \in SUBSET Operations, Send(a, S)
        PROVE  UNCHANGED job
    BY <2>7 DEF Send, jobVars
  <2> QED BY <1>6, <2>2, <2>3, <2>5, <2>6, <2>7 DEF BatchRequest
<1>7. ASSUME NEW f \in Finishers, FinishJob(f), ~UNCHANGED job
      PROVE  /\ job.status = "running" /\ Close(op) /\ UNCHANGED op
             /\ \A o \in Operations :
                  op[o].status \notin {"pending", "dispatched"}
  BY <1>7 DEF FinishJob, RunsUnder, Prepared, OpsWith
<1>8. ASSUME NEW v \in Verifiers, SettleReadBack(v)
      PROVE  \/ job'.status = job.status
             \/ /\ job.status \notin Waiting \cup {"running"}
                /\ job'.status \in Ended
  <2>1. CASE Verifies(v) = {}
    BY <1>8, <2>1 DEF SettleReadBack
  <2>2. CASE Verifies(v) # {}
    <3>1. job'.status = StatusAfterReview(tally')
      BY <1>0, <1>8, <2>2 DEF SettleReadBack, Headers
    <3> QED BY <3>1, TerminalStatusType DEF StatusAfterReview
  <2> QED BY <2>1, <2>2
<1>9. CASE Time
  BY <1>0, <1>9 DEF Time, StartWindowEnds, HeartbeatAges, LeaseLapses,
                    GraceEnds, VerifyDelayEnds, VerifyLeaseLapses, Headers
<1>10. \/ UNCHANGED job \/ Tick \/ Time
       \/ \E a \in Attempts : BatchRequest(a)
       \/ \E f \in Finishers : FinishJob(f)
       \/ \E v \in Verifiers : SettleReadBack(v)
  BY HeaderSteps
<1>11. ASSUME NEW f \in Finishers, FinishJob(f), ~UNCHANGED job
       PROVE  \/ job.status = "running" /\ job'.status \in Ended
              \/ job.status = "running" /\ StartsWaiting
  <2>1. job.status = "running" /\ Close(op) /\ UNCHANGED op
        /\ \A o \in Operations : op[o].status \notin {"pending", "dispatched"}
    BY <1>7, <1>11
  <2>2. OpsWith(op', "issued") = OpsWith(op, "issued") BY <2>1
  <2>3. ~AnyBusy' BY <1>11 DEF FinishJob, AnyBusy, Busy
  <2> QED BY <1>2, <2>1, <2>2, <2>3 DEF StartsWaiting
<1> QED BY <1>1, <1>5, <1>6, <1>8, <1>9, <1>10, <1>11

\* What the contract needs to know of the state before a step.
ContractInv == SendInv /\ AnswerInv /\ EndInv /\ SucceededWasApplied

\* What the job may report next of an operation.
LEMMA ReportSteps ==
  ASSUME ContractInv, ContractInv', [Next]_vars, UNCHANGED googleVars,
         NEW o \in Operations
  PROVE  ReportOf(o)' \in Contract!MayReport(o)
<1>0. op \in Rows /\ op' \in Rows BY DEF ContractInv, SendInv, TypeOK
<1>1. RowSteps BY NextSteps DEF ContractInv, SendInv
<1>2. /\ op'[o].status \in {"succeeded", "issued"} => o \in applied
      /\ op'[o].status \in {"skipped", "cancelled"} => sentBy[o] = {}
      /\ o \in applied => sentBy[o] # {}
  BY DEF ContractInv, SendInv, UnattemptedNeverSent, SucceededWasApplied,
         AnswerInv, OnlySentArrives, googleVars
<1>3. ASSUME op[o].status # "failed", op'[o].status = "failed"
      PROVE  \/ /\ op[o].status = "dispatched" /\ sentBy[o] # {}
                /\ o \notin applied \/ Kind = "device-update"
             \/ op[o].status = "unknown" /\ ReadsBack
  <2>1. ASSUME NEW a \in Attempts, Active(a), track[a][o] \in Failing
        PROVE  /\ sentBy[o] # {}
               /\ o \notin applied \/ Kind = "device-update"
    BY <2>1 DEF ContractInv, AnswerInv, FirstAnswerIsTrue, Failing
  <2>2. ASSUME NEW v \in Verifiers, hold[v][o] # "none"
        PROVE  ReadsBack
    BY <2>2 DEF ContractInv, EndInv, CommandsReadNothing
  <2> QED BY <1>3, <2>1, <2>2, Refusals DEF ContractInv
<1>4. ASSUME op[o].status = "unknown", op'[o].status = "succeeded"
      PROVE  ReadsBack
  <2>1. PICK v \in Verifiers : hold[v][o] = "matches"
    BY <1>1, <1>4 DEF RowSteps
  <2> QED BY <2>1 DEF ContractInv, EndInv, CommandsReadNothing
<1>5. \/ op'[o].status = op[o].status
      \/ /\ op[o].status = "pending"
         /\ op'[o].status \in {"skipped", "cancelled", "dispatched"}
      \/ /\ op[o].status = "dispatched"
         /\ op'[o].status \in {"issued", "succeeded", "failed", "skipped",
                               "pending", "unknown"}
      \/ /\ op[o].status = "unknown"
         /\ op'[o].status \in {"unknown", "succeeded", "failed"}
  BY <1>1 DEF RowSteps
<1>6. ReportOf(o) \in Contract!MayReport(o)
  BY DEF Contract!MayReport
<1>7. CASE op'[o].status = op[o].status
  BY <1>6, <1>7 DEF ReportOf
<1>8. CASE ReportOf(o) = "open"
  <2>1. /\ op[o].status \in {"pending", "dispatched"}
        /\ "open" \in Contract!MayReport(o)
        /\ "unknown" \in Contract!MayReport(o)
        /\ AtGoogle(o) = "untouched" => "dropped" \in Contract!MayReport(o)
        /\ AtGoogle(o) = "asked" => "failed" \in Contract!MayReport(o)
        /\ AtGoogle(o) = "done" => "done" \in Contract!MayReport(o)
        /\ AtGoogle(o) = "done" /\ Kind = "device-update" =>
             "failed" \in Contract!MayReport(o)
    <3>1. op[o].status \in {"pending", "dispatched"}
      BY <1>0, <1>8 DEF ReportOf
    <3>2. Contract!MayReport(o) =
            {"open", "unknown"} \cup
            CASE AtGoogle(o) = "untouched" -> {"dropped"}
              [] AtGoogle(o) = "asked" -> {"failed"}
              [] OTHER -> {"done"} \cup
                   (IF Kind = "device-update" THEN {"failed"} ELSE {})
      BY <1>8 DEF Contract!MayReport
    <3> QED BY <3>1, <3>2
  <2>2. AtGoogle(o) = IF o \in applied THEN "done"
                      ELSE IF sentBy[o] # {} THEN "asked" ELSE "untouched"
    BY DEF AtGoogle
  <2> HIDE DEF AtGoogle
  <2>3. CASE op'[o].status \in {"pending", "dispatched", "unknown"}
    BY <2>1, <2>3 DEF ReportOf
  <2>4. CASE op'[o].status \in {"skipped", "cancelled"}
    <3>1. AtGoogle(o) = "untouched" BY <1>2, <2>2, <2>4
    <3> QED BY <2>1, <2>4, <3>1 DEF ReportOf
  <2>5. CASE op'[o].status \in {"succeeded", "issued"}
    <3>1. AtGoogle(o) = "done" BY <1>2, <2>2, <2>5
    <3> QED BY <2>1, <2>5, <3>1 DEF ReportOf
  <2>6. CASE op'[o].status = "failed"
    <3>1. sentBy[o] # {} /\ (o \notin applied \/ Kind = "device-update")
      BY <1>3, <2>1, <2>6
    <3>2. "failed" \in Contract!MayReport(o) BY <2>1, <2>2, <3>1
    <3> QED BY <2>6, <3>2 DEF ReportOf
  <2> QED BY <1>5, <2>1, <2>3, <2>4, <2>5, <2>6
<1>9. CASE op[o].status = "unknown"
  <2>1. Contract!MayReport(o) =
          {"unknown"} \cup
          IF ReadsBack
          THEN {"failed"} \cup (IF AtGoogle(o) = "done" THEN {"done"} ELSE {})
          ELSE {}
    BY <1>9 DEF Contract!MayReport, ReportOf
  <2> QED BY <1>2, <1>3, <1>4, <1>5, <1>9, <2>1 DEF ReportOf, AtGoogle
<1>10. ReportOf(o) = "open" <=> op[o].status \in {"pending", "dispatched"}
  BY <1>0 DEF ReportOf
<1> QED BY <1>5, <1>7, <1>8, <1>9, <1>10

\* A step that leaves Google alone starts, reports, lets the slot go, or is none.
LEMMA JobContract ==
  ASSUME ContractInv, ContractInv', [Next]_vars, UNCHANGED googleVars
  PROVE  [Contract!Next]_(Contract!vars)
<1>0. TypeOK /\ TypeOK' /\ EndInv /\ EndInv'
  BY DEF ContractInv, SendInv
<1>1. op \in Rows /\ op' \in Rows /\ job \in Headers BY <1>0 DEF TypeOK
<1>2. \A o \in Operations : AtGoogle(o)' = AtGoogle(o)
  BY DEF AtGoogle, googleVars
<1>3. ASSUME \A o \in Operations : op'[o].status = op[o].status
      PROVE  \A o \in Operations : ReportOf(o)' = ReportOf(o)
  BY <1>3 DEF ReportOf
<1>4. Contract!Reports
  <2>1. \A o \in Operations : ReportOf(o)' \in Contract!Known
    <3> TAKE o \in Operations
    <3> QED BY DEF ReportOf, Contract!Known
  <2> QED BY <1>2, <2>1, ReportSteps DEF Contract!Reports
<1>5. CASE job.status \in Waiting /\ job'.status \in Waiting
  <2>1. Slot' = Slot BY <1>5 DEF Slot, Waiting
  <2>2. \A o \in Operations : op'[o].status = op[o].status
    <3>1. ~RequestCancel
      <4>1. ASSUME RequestCancel PROVE job'.status \in Ended
        <5>1. StopsNow BY <1>5 DEF StopsNow, Waiting
        <5>2. job'.status = TerminalStatus(tally')
          BY <1>1, <4>1, <5>1 DEF RequestCancel, Marked, Headers
        <5> QED BY <5>2, TerminalStatusType
      <4> QED BY <1>5, <4>1 DEF Waiting, Ended
    <3> QED BY <1>0, <1>5, <3>1, WaitingSteps
  <2> QED BY <1>2, <1>3, <2>1, <2>2 DEF Contract!vars
<1>6. CASE Admit
  <2>1. Slot = "waiting" /\ Slot' = "running"
    BY <1>1, <1>6 DEF Admit, Slot, Headers, Waiting
  <2>2. \A o \in Operations : ReportOf(o)' = ReportOf(o)
    BY <1>3, <1>6 DEF Admit
  <2> QED BY <1>2, <2>1, <2>2 DEF Contract!Next, Contract!Start
<1>7. CASE job.status \in Waiting /\ RequestCancel /\ job'.status \in Ended
  <2>1. Slot = "waiting" /\ Slot' = "released"
    BY <1>7 DEF Slot, Waiting, Ended
  <2>2. \A o \in Operations : ReportOf(o)' = "dropped"
    <3> TAKE o \in Operations
    <3>1. op[o].status \in {"pending", "skipped"}
      BY <1>0, <1>7 DEF EndInv, HeaderInStep, Waiting, Ended
    <3>2. op' = SkipPending(op, TRUE)
      BY <1>7 DEF RequestCancel, StopsNow, Waiting
    <3> QED BY <1>1, <3>1, <3>2, SkippedRow DEF ReportOf
  <2> QED BY <1>2, <2>1, <2>2 DEF Contract!Next, Contract!GiveUp
<1>8. CASE job.status = "running" /\ job'.status \notin Waiting \cup {"running"}
  <2>1. Slot = "running" /\ Slot' = "released"
    BY <1>8 DEF Slot, Waiting
  <2>2. \A o \in Operations : op'[o].status \notin {"pending", "dispatched"}
    <3>1. CASE job'.status \in Ended
      BY <1>0, <3>1 DEF EndInv, HeaderInStep, Decided
    <3>2. CASE job'.status \notin Ended
      BY <1>0, <1>8, <3>2, StatusSteps DEF Admit, Waiting, StartsWaiting
    <3> QED BY <3>1, <3>2
  <2>3. \A o \in Operations : ReportOf(o)' # "open"
    <3> TAKE o \in Operations
    <3>1. op'[o].status \in OpStatus \ {"pending", "dispatched"}
      BY <1>1, <2>2 DEF Rows, Row
    <3> QED BY <3>1 DEF ReportOf, OpStatus, Counted
  <2> QED BY <1>4, <2>1, <2>3
          DEF Contract!Next, Contract!LetGo, Contract!Release
<1>9. CASE job.status \notin Waiting /\ Slot' = Slot
  <2>1. Slot # "waiting" BY <1>9 DEF Slot
  <2> QED BY <1>4, <1>9, <2>1 DEF Contract!Next, Contract!Report
<1>10. \/ job.status \in Waiting /\ job'.status \in Waiting
       \/ Admit
       \/ job.status \in Waiting /\ RequestCancel /\ job'.status \in Ended
       \/ job.status = "running" /\ job'.status \notin Waiting \cup {"running"}
       \/ job.status \notin Waiting /\ Slot' = Slot
  BY <1>0, StatusSteps DEF Slot, Waiting, Ended, StartsWaiting
<1> QED BY <1>5, <1>6, <1>7, <1>8, <1>9, <1>10

\* A round asks Google under the slot, and Google carries out what it was asked.
LEMMA GoogleContract ==
  ASSUME ContractInv, [Next]_vars,
         \/ \E a \in Attempts, S \in SUBSET Operations : Send(a, S)
         \/ \E a \in Attempts, o \in Operations : Google(a, o)
  PROVE  [Contract!Next]_(Contract!vars)
<1>0. SendInv /\ TypeOK BY DEF ContractInv, SendInv
<1>1. UNCHANGED <<job, op>>
  <2>1. ASSUME NEW a \in Attempts, NEW S, Send(a, S) PROVE UNCHANGED <<job, op>>
    BY <2>1 DEF Send, jobVars
  <2>2. ASSUME NEW a \in Attempts, NEW o, Google(a, o)
        PROVE  UNCHANGED <<job, op>>
    BY <2>2 DEF Google, GoogleAccepts, GoogleRefuses, GoogleDiffers,
                GoogleDefers, LoseAnswer, GoogleAlone, Answer, jobVars
  <2> QED BY <2>1, <2>2
<1>2. /\ Slot' = Slot
      /\ \A o \in Operations : ReportOf(o)' = ReportOf(o)
  BY <1>1 DEF Slot, ReportOf
<1>3. ASSUME NEW a \in Attempts, NEW S \in SUBSET Operations, Send(a, S)
      PROVE  Contract!Next
  <2>1. /\ pc[a] = "sending" /\ UNCHANGED applied
        /\ \A o \in S : track[a][o] \in {"unsent", "waiting", "rewaiting"}
    BY <1>3 DEF Send, Due, TrackedAs
  <2>2. ASSUME NEW o \in Operations
        PROVE  sentBy'[o] = IF o \in S THEN sentBy[o] \cup {a} ELSE sentBy[o]
    BY <1>3 DEF Send
  <2>3. ASSUME NEW o \in S PROVE ReportOf(o) = "open"
    BY <1>0, <2>1 DEF SendInv, SenderHoldsRows, ReportOf
  <2>4. Slot = "running"
    BY <1>0, <2>1, SenderIsBusy DEF Slot, Waiting
  <2>5. ASSUME NEW o \in Operations
        PROVE  AtGoogle(o)' = IF o \in S /\ AtGoogle(o) = "untouched"
                              THEN "asked" ELSE AtGoogle(o)
    BY <2>1, <2>2 DEF AtGoogle
  <2>6. S \in SUBSET {o \in Operations : ReportOf(o) = "open"} BY <2>3
  <2>7. [o \in Operations |-> AtGoogle(o)]' =
          [o \in Operations |-> IF o \in S /\ AtGoogle(o) = "untouched"
                                THEN "asked" ELSE AtGoogle(o)]
    BY <2>5
  <2> QED BY <1>2, <2>4, <2>6, <2>7 DEF Contract!Next, Contract!Ask
<1>4. ASSUME NEW a \in Attempts, NEW o \in Operations, Google(a, o)
      PROVE  [Contract!Next]_(Contract!vars)
  <2>1. /\ UNCHANGED sentBy
        /\ applied' = applied \/ applied' = applied \cup {o}
        /\ applied' # applied => <<a, o>> \in wire
    BY <1>4 DEF Google, GoogleAccepts, GoogleRefuses, GoogleDiffers, GoogleDefers,
                LoseAnswer, GoogleAlone, Answer
  <2>2. CASE applied' = applied
    <3>1. \A d \in Operations : AtGoogle(d)' = AtGoogle(d)
      BY <2>1, <2>2 DEF AtGoogle
    <3> QED BY <1>2, <3>1 DEF Contract!vars
  <2>3. CASE applied' # applied
    <3>1. o \notin applied /\ applied' = applied \cup {o} /\ sentBy[o] # {}
      BY <2>1, <2>3 DEF ContractInv, AnswerInv, OnlySentArrives
    <3>2. AtGoogle(o) = "asked" BY <3>1 DEF AtGoogle
    <3>3. \A d \in Operations :
            AtGoogle(d)' = IF d = o THEN "done" ELSE AtGoogle(d)
      BY <2>1, <3>1 DEF AtGoogle
    <3>4. [d \in Operations |-> AtGoogle(d)]' =
            [[d \in Operations |-> AtGoogle(d)] EXCEPT ![o] = "done"]
      BY <3>3
    <3> QED BY <1>2, <3>2, <3>4 DEF Contract!Next, Contract!CarryOut
  <2> QED BY <2>2, <2>3
<1> QED BY <1>3, <1>4

LEMMA ContractStep ==
  ASSUME ContractInv, ContractInv', [Next]_vars
  PROVE  [Contract!Next]_(Contract!vars)
<1>1. SendInv BY DEF ContractInv
<1>2. \A a \in Attempts, t \in Issued, b \in Batches :
        Claim(a, t, b) => UNCHANGED googleVars
  BY DEF Claim, googleVars
<1>3. ASSUME NEW a \in Attempts, Settlement(a) PROVE UNCHANGED googleVars
  BY <1>3 DEF Settlement, SettleWrite, googleVars
<1>4. CalmStepTaken => UNCHANGED googleVars BY DEF CalmStepTaken, googleVars
<1> QED BY <1>1, <1>2, <1>3, <1>4, StepKinds, JobContract, GoogleContract

LEMMA ContractInit ==
  ASSUME Init
  PROVE  Contract!Init
<1>1. Slot = "waiting" BY DEF Init, Slot, Waiting
<1>2. \A o \in Operations : ReportOf(o) = "open" /\ AtGoogle(o) = "untouched"
  BY DEF Init, ReportOf, AtGoogle
<1> QED BY <1>1, <1>2 DEF Contract!Init

\* The leases, executions, requests and read-backs implement the safety of the
\* contract: no write without the slot, no report that is not true or does not
\* stay, and the slot goes with the last open operation.  A job has operations.
THEOREM ContractSafetyCorrect ==
  ASSUME Operations # {}
  PROVE  Spec => ContractSafety
<1>1. Spec => []ContractInv
  BY SendsCorrect, AnswersCorrect, EndsCorrect, SucceededWasAppliedCorrect, PTL
     DEF ContractInv
<1>2. ASSUME ContractInv, ContractInv', [Next]_vars
      PROVE  [Contract!Next]_(Contract!vars)
  BY <1>2, ContractStep
<1>3. Init => Contract!Init BY ContractInit
<1> QED BY <1>1, <1>2, <1>3, PTL DEF Spec, ContractSafety

-----------------------------------------------------------------------------
(* A claim stays, and Google is asked only under one.                      *)

\* No step of the tick, of a request or of time takes the claim mark back.
LEMMA ClaimStays ==
  ASSUME TypeOK, [Next]_vars, job.claimed
  PROVE  job'.claimed
<1>0. job \in Headers BY DEF TypeOK
<1>1. ASSUME NEW rows, Close(rows) PROVE job'.claimed
  BY <1>0, <1>1 DEF Close, Headers
<1>2. ASSUME Abandon PROVE job'.claimed BY <1>0, <1>2 DEF Abandon, Headers
<1>3. CASE Tick
  <2>1. CASE Recover
    BY <1>0, <1>1, <1>2, <2>1 DEF Recover, Finalize, Headers
  <2>2. CASE RequestCancel
    BY <1>0, <2>2 DEF RequestCancel, Marked, Headers
  <2>3. CASE Relabel \/ Admit \/ \E t \in Issued : RefuseStart(t)
    BY <1>0, <1>2, <2>3 DEF Relabel, Admit, RefuseStart, Headers
  <2> QED BY <1>3, <2>1, <2>2, <2>3 DEF Tick
<1>4. CASE Time
  BY <1>0, <1>4 DEF Time, StartWindowEnds, HeartbeatAges, LeaseLapses,
                    GraceEnds, VerifyDelayEnds, VerifyLeaseLapses, Headers
<1>5. ASSUME NEW a \in Attempts, BatchRequest(a) PROVE job'.claimed
  <2>1. Alive.claimed /\ Alive \in Headers
    BY <1>0, AliveType DEF Alive, Headers
  <2>2. ASSUME NEW t \in Issued, ClaimSuperseded(a, t) \/ ClaimStopped(a, t)
        PROVE  job'.claimed
    BY <2>1, <2>2 DEF ClaimSuperseded, ClaimStopped, jobVars, Headers
  <2>3. ASSUME NEW t \in Issued, NEW b \in Batches,
               ClaimDone(a, t, b) \/ Claim(a, t, b)
        PROVE  job'.claimed
    BY <2>1, <2>3 DEF ClaimDone, Claim
  <2>4. ASSUME NEW S, NEW fails, NEW stop, NEW next,
               SettleWrite(a, S, fails, stop, next)
        PROVE  job'.claimed
    BY <1>0, <2>4 DEF SettleWrite, Headers
  <2>5. CASE SettleRound(a) \/ SettleLeftovers(a)
    BY <2>4, <2>5 DEF SettleRound, SettleLeftovers
  <2>6. CASE Renew(a) \/ EndSending(a) \/ ReleaseBatch(a)
    BY <1>0, <2>6 DEF Renew, EndSending, ReleaseBatch, jobVars, Headers
  <2>7. ASSUME NEW S \in SUBSET Operations, Send(a, S)
        PROVE  UNCHANGED job
    BY <2>7 DEF Send, jobVars
  <2> QED BY <1>5, <2>2, <2>3, <2>5, <2>6, <2>7 DEF BatchRequest
<1>6. ASSUME NEW f \in Finishers, FinishJob(f) PROVE job'.claimed
  BY <1>1, <1>6 DEF FinishJob
<1>7. ASSUME NEW v \in Verifiers, SettleReadBack(v) PROVE job'.claimed
  BY <1>0, <1>7 DEF SettleReadBack, Headers
<1> QED BY <1>3, <1>4, <1>5, <1>6, <1>7, HeaderSteps

\* What was sent was sent under a claim.
SentUnderClaim == \A o \in Operations : sentBy[o] # {} => job.claimed

LEMMA SentUnderClaimStep ==
  ASSUME SendInv, SentUnderClaim, [Next]_vars
  PROVE  SentUnderClaim'
<1>1. TypeOK BY DEF SendInv
<1>2. CASE job.claimed
  BY <1>1, <1>2, ClaimStays DEF SentUnderClaim
<1>3. CASE UNCHANGED sentBy /\ ~job.claimed
  BY <1>3 DEF SentUnderClaim
<1>4. UNCHANGED sentBy \/ job.claimed
  <2>1. ASSUME NEW a \in Attempts, NEW S \in SUBSET Operations, Send(a, S)
        PROVE  job.claimed
    BY <2>1, SenderIsBusy DEF Send
  <2>2. ASSUME NEW a \in Attempts, NEW o \in Operations, Google(a, o)
        PROVE  UNCHANGED sentBy
    BY <2>2 DEF Google, GoogleAccepts, GoogleRefuses, GoogleDiffers, GoogleDefers,
                LoseAnswer, GoogleAlone, Answer
  <2>3. ASSUME NEW a \in Attempts, Settlement(a) PROVE UNCHANGED sentBy
    BY <2>3 DEF Settlement, SettleWrite, googleVars
  <2>4. \A a \in Attempts, t \in Issued, b \in Batches :
          Claim(a, t, b) => UNCHANGED sentBy
    BY DEF Claim, googleVars
  <2>5. CalmStepTaken => UNCHANGED sentBy BY DEF CalmStepTaken, googleVars
  <2> QED BY <2>1, <2>2, <2>3, <2>4, <2>5, StepKinds
<1> QED BY <1>2, <1>3, <1>4

\* A job asks Google only after it claimed a batch, and no recovery, cancel or
\* refusal takes the claim back.  WriteJobs relies on it: what is not claimed may
\* be abandoned and cancelled together with the jobs that wait for it.
THEOREM AskedUnderClaimCorrect == Spec => []AskedUnderClaim
<1>1. Init => SentUnderClaim BY DEF Init, SentUnderClaim
<1>2. SendInv /\ SentUnderClaim /\ [Next]_vars => SentUnderClaim'
  BY SentUnderClaimStep
<1>3. Spec => []SentUnderClaim BY <1>1, <1>2, SendsCorrect, PTL DEF Spec
<1>4. SentUnderClaim /\ AnswerInv => AskedUnderClaim
  BY DEF SentUnderClaim, AnswerInv, OnlySentArrives, AskedUnderClaim, AtGoogle
<1> QED BY <1>3, <1>4, AnswersCorrect, PTL

-----------------------------------------------------------------------------
(* The hand-over of a command job to the polls.                            *)

\* A job that waits for its devices is frozen: no claim, settlement, retry,
\* finish, recovery or passage of time changes its header, its counters or the
\* status of a row, and no lease comes back.
LEMMA WaitingIsFrozen ==
  ASSUME EndInv, [Next]_vars, job.status = "awaiting-devices"
  PROVE  /\ UNCHANGED <<job, tally>>
         /\ \A o \in Operations : op'[o].status = op[o].status
         /\ AnyBusy' => AnyBusy
<1> DEFINE Same == \A o \in Operations : op'[o].status = op[o].status
<1>0. TypeOK /\ op \in Rows BY DEF EndInv, TypeOK
<1>1. /\ ~ReadsBack /\ CommandsReadNothing
      /\ job.status \notin Waiting \cup {"running"} /\ \A t : ~RunsUnder(t)
  BY DEF EndInv, HeaderInStep, Waiting, RunsUnder
<1>2. UNCHANGED lease => (AnyBusy' => AnyBusy) BY DEF AnyBusy, Busy
<1>3. CASE UNCHANGED jobVars BY <1>2, <1>3 DEF jobVars
<1>4. ~Tick
  BY <1>1 DEF Tick, Relabel, Admit, RefuseStart, Recover, StartLost, RunnerLost,
              RequestCancel
<1>5. ASSUME NEW a \in Attempts, NEW S, NEW fails, NEW stop, NEW next,
             SettleWrite(a, S, fails, stop, next)
      PROVE  UNCHANGED <<job, tally, lease>> /\ Same
  <2>1. Settles(a, S) = {} BY <1>1 DEF Settles, OwnsLive
  <2>2. UNCHANGED <<job, tally, lease>> BY <1>5, <2>1 DEF SettleWrite
  <2>3. ASSUME NEW o \in Operations PROVE op'[o].status = op[o].status
    BY <1>0, <1>5, <2>1, <2>3, SettledRow
  <2> QED BY <2>2, <2>3
<1>6. ASSUME NEW a \in Attempts, BatchRequest(a)
      PROVE  UNCHANGED <<job, tally, lease>> /\ Same
  <2>1. CASE SettleRound(a) \/ SettleLeftovers(a)
    BY <1>5, <2>1 DEF SettleRound, SettleLeftovers
  <2>2. \A t \in Issued, b \in Batches :
          ~ClaimStopped(a, t) /\ ~ClaimDone(a, t, b) /\ ~Claim(a, t, b)
    BY <1>1 DEF ClaimStopped, ClaimDone, Claim, MayClaim
  <2>3. \A t \in Issued : ~ClaimStopped(a, t)
    BY <1>1 DEF ClaimStopped
  <2>4. ~Renew(a) BY <1>1 DEF Renew, OwnsLive
  <2>5. CASE UNCHANGED <<job, op, tally, lease>> BY <2>5
  <2> QED BY <1>1, <1>6, <2>1, <2>2, <2>3, <2>4, <2>5
          DEF BatchRequest, ClaimSuperseded, Send, EndSending, ReleaseBatch,
              jobVars
<1>7. ASSUME NEW f \in Finishers, FinishRequest(f)
      PROVE  UNCHANGED jobVars
  <2>1. ~ClaimVerification(f)
    BY <1>1 DEF ClaimVerification, CommandsReadNothing, Verifiers
  <2> QED BY <1>1, <1>7, <2>1
          DEF FinishRequest, FinishSuperseded, Prepare, FinishJob
<1>8. \A r \in Reconcilers : ~Reconcile(r) BY <1>1 DEF Reconcile
<1>9. ASSUME NEW v \in Verifiers, AnyRequest(v)
      PROVE  UNCHANGED jobVars
  <2>1. ~SettleReadBack(v)
    BY <1>1 DEF SettleReadBack, HeldBy, CommandsReadNothing
  <2> QED BY <1>9, <2>1 DEF AnyRequest, Quit, ReadDevices
<1>10. ASSUME NEW a \in Attempts, NEW o \in Operations, Google(a, o)
       PROVE  UNCHANGED jobVars
  BY <1>10 DEF Google, GoogleAccepts, GoogleRefuses, GoogleDiffers,
               GoogleDefers, LoseAnswer, GoogleAlone, Answer
<1>11. CASE Time
  <2>1. UNCHANGED <<job, tally>>
    BY <1>1, <1>11 DEF Time, StartWindowEnds, HeartbeatAges, LeaseLapses,
                       GraceEnds, VerifyDelayEnds, VerifyLeaseLapses
  <2>2. \A b \in Batches : Busy(b)' => Busy(b)
    BY <1>0, <1>11
       DEF Time, StartWindowEnds, HeartbeatAges, LeaseLapses, GraceEnds,
           VerifyDelayEnds, VerifyLeaseLapses, Busy, TypeOK
  <2>3. AnyBusy' => AnyBusy BY <2>2 DEF AnyBusy
  <2> QED BY <1>0, <1>11, <2>1, <2>3, TimeStatus
<1>12. CASE UNCHANGED vars BY <1>3, <1>12 DEF vars
<1> QED BY <1>2, <1>3, <1>4, <1>6, <1>7, <1>8, <1>9, <1>10, <1>11, <1>12 DEF Next

\* What a command job leaves to the polls: no operation has the verdict of a
\* device, and a job that waits has issued commands, no open rows and no leases.
LeftToPolls ==
  /\ \A o \in Operations : op[o].status # "expired"
  /\ ~ReadsBack => \A o \in Operations : op[o].status # "succeeded"
  /\ job.status = "awaiting-devices" =>
       /\ OpsWith(op, "issued") # {}
       /\ \A o \in Operations : op[o].status \notin {"pending", "dispatched"}
       /\ ~AnyBusy

LEMMA LeftToPollsStep ==
  ASSUME EndInv, LeftToPolls, [Next]_vars
  PROVE  LeftToPolls'
<1>1. TypeOK /\ CommandsReadNothing /\ RowSteps
  BY NextSteps DEF EndInv
<1>2. \A o \in Operations : op'[o].status # "expired"
  BY <1>1 DEF LeftToPolls, RowSteps
<1>3. ASSUME ~ReadsBack, NEW o \in Operations PROVE op'[o].status # "succeeded"
  BY <1>1, <1>3 DEF LeftToPolls, RowSteps, CommandsReadNothing
<1>4. ASSUME job'.status = "awaiting-devices"
      PROVE  /\ OpsWith(op', "issued") # {}
             /\ \A o \in Operations :
                  op'[o].status \notin {"pending", "dispatched"}
             /\ ~AnyBusy'
  <2>1. CASE job.status = "awaiting-devices"
    <3>1. /\ \A o \in Operations : op'[o].status = op[o].status
          /\ AnyBusy' => AnyBusy
      BY <2>1, WaitingIsFrozen
    <3>2. OpsWith(op', "issued") = OpsWith(op, "issued") BY <3>1 DEF OpsWith
    <3> QED BY <2>1, <3>1, <3>2 DEF LeftToPolls
  <2>2. CASE job.status # "awaiting-devices"
    <3>1. job \in Headers BY <1>1 DEF TypeOK
    <3>2. StartsWaiting
      BY <1>4, <2>2, <3>1, StatusSteps DEF Admit, Waiting, Ended, Headers
    <3> QED BY <3>2 DEF StartsWaiting
  <2> QED BY <2>1, <2>2
<1> QED BY <1>2, <1>3, <1>4 DEF LeftToPolls, ReadsBack

LEMMA LeftToPollsCorrect ==
  ASSUME Operations # {}
  PROVE  Spec => []LeftToPolls
<1>1. Init => LeftToPolls BY DEF Init, LeftToPolls
<1>2. EndInv /\ LeftToPolls /\ [Next]_vars => LeftToPolls'
  BY LeftToPollsStep
<1> QED BY <1>1, <1>2, EndsCorrect, PTL DEF Spec

\* The rows that the polls begin with.
FirstRows ==
  {[status |-> "issued", state |-> "pending-delivery", known |-> FALSE,
    over |-> FALSE, due |-> FALSE, attempt |-> None]}
  \cup [status : Counted \ {"succeeded", "expired"}, state : {"none"},
        known : {FALSE}, over : {FALSE}, due : {FALSE}, attempt : {None}]

LEMMA PollsBegin ==
  ASSUME EndInv, LeftToPolls, CountersAgree, job.status = "awaiting-devices"
  PROVE  Polls!Init
<1>0. op \in Rows /\ ~ReadsBack BY DEF EndInv, TypeOK, HeaderInStep
<1>1. \A o \in Operations :
        PollRows[o] =
          [status |-> op[o].status,
           state |-> IF op[o].status = "issued" THEN "pending-delivery" ELSE "none",
           known |-> FALSE, over |-> FALSE, due |-> FALSE, attempt |-> None]
  BY DEF PollRows, PollRow
<1>2. PollRows \in [Operations -> FirstRows]
  <2>1. ASSUME NEW o \in Operations PROVE PollRows[o] \in FirstRows
    <3>1. op[o] \in Row BY <1>0 DEF Rows
    <3>2. \/ op[o].status = "issued"
          \/ op[o].status \in Counted \ {"succeeded", "expired"}
      BY <1>0, <3>1 DEF Row, OpStatus, Counted, LeftToPolls
    <3>3. CASE op[o].status = "issued"
      BY <1>1, <3>3 DEF FirstRows
    <3>4. CASE op[o].status \in Counted \ {"succeeded", "expired"}
      <4>1. op[o].status # "issued" BY <3>4 DEF Counted
      <4>2. PollRows[o] = [status |-> op[o].status, state |-> "none",
                           known |-> FALSE, over |-> FALSE, due |-> FALSE,
                           attempt |-> None]
        BY <1>1, <4>1
      <4> QED BY <3>4, <4>2 DEF FirstRows
    <3> QED BY <3>2, <3>3, <3>4
  <2>2. PollRows = [o \in Operations |-> PollRows[o]]
    BY DEF PollRows, PollRow
  <2> QED BY <2>1, <2>2
<1>3. \A o \in Operations : PollRows[o].status = op[o].status
  BY DEF PollRows, PollRow
<1>4. Polls!IssuedIn(PollRows) # {}
  BY <1>3 DEF Polls!IssuedIn, LeftToPolls, OpsWith
<1>5. [s \in Counted |-> Cardinality(tally[s])] = Polls!Counts(PollRows)
  <2>1. Counted = Polls!Finals BY DEF Counted, Polls!Finals
  <2>2. ASSUME NEW s \in Counted
        PROVE  tally[s] = {o \in Operations : PollRows[o].status = s}
    BY <1>3 DEF CountersAgree
  <2>3. ASSUME NEW s \in Counted
        PROVE  Cardinality(tally[s])
                 = Cardinality({o \in Operations : PollRows[o].status = s})
    BY <2>2
  <2>4. \A S : Polls!Cardinality(S) = Cardinality(S)
    BY DEF Polls!Cardinality, Cardinality
  <2> QED BY <2>1, <2>3, <2>4 DEF Polls!Counts
<1> QED BY <1>2, <1>4, <1>5
        DEF Polls!Init, Polls!NoPoll, Polls!NoRun, Polls!At, Polls!Unasked,
            Polls!Finals, Polls!NoState, Counted, FirstRows, NoPollRun

\* A command job that lets the write slot go is where CommandPolls begins, for
\* every set of operations, batches, requests and polls.  A job has operations.
THEOREM HandOverCorrect ==
  ASSUME Operations # {}
  PROVE  Spec => []HandOver
<1>1. EndInv /\ LeftToPolls /\ CountersAgree => HandOver
  BY PollsBegin DEF HandOver, LeftToPolls
<1> QED BY <1>1, EndsCorrect, LeftToPollsCorrect, CountersAgreeCorrect, PTL

\* Nothing that is still under way in the worker or at Google, and no tick, writes
\* the header, the counters or the rows of a job that the polls watch: after the
\* hand-over CommandPolls alone says how they move.  A job has operations.
THEOREM HandedOverCorrect ==
  ASSUME Operations # {}
  PROVE  Spec => HandedOver
<1>1. ASSUME EndInv, [Next]_vars, job.status = "awaiting-devices"
      PROVE  UNCHANGED <<job, tally, PollRows>>
  BY <1>1, WaitingIsFrozen DEF PollRows, PollRow
<1> QED BY <1>1, EndsCorrect, PTL DEF HandedOver, Spec

=============================================================================
