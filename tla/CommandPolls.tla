---------------------------- MODULE CommandPolls ----------------------------
(***************************************************************************)
(* The polls of one command job that waits for its devices: the lease of   *)
(* the job and the claims of its operations in PostgreSQL (migration 017), *)
(* the start of a poll flow by the tick of the job service, the flow that  *)
(* Kestra runs, and the poll requests of the worker that read the commands *)
(* at Google and settle each answer (runPoll of worker/src/                *)
(* device-update.ts).                                                      *)
(*                                                                         *)
(* Time is symbolic: a lease lapses, an operation becomes due and a watch  *)
(* ends at any moment.  An operation lease that lapsed is the same as none *)
(* for every function, so it is modelled as no attempt.  A lease id or an  *)
(* attempt id is drawn again once nobody and no row holds it; the code     *)
(* draws a new one each time.  A transaction whose answer is lost is the   *)
(* transaction followed by Throw.                                          *)
(***************************************************************************)
EXTENDS CommandTerms

CONSTANTS
  Operations,   \* the operations of the job
  Leases,       \* the identities of the job's poll lease, one flow each
  Runs,         \* the poll requests in the worker, one attempt id each
  Overlap,      \* a bound: the requests of one flow that run at once
  PollLimit,    \* the operations of one claim; 250 in the code
  LongWatch,    \* TRUE for Wipe and Powerwash, FALSE for Reboot
  Reported,     \* the states of a command that this instance's Google knows
  None          \* no lease, no attempt

ASSUME ConstantsAssumption ==
  /\ IsFiniteSet(Operations)
  /\ PollLimit \in Nat \ {0}
  /\ Overlap \in Nat \ {0}
  /\ LongWatch \in BOOLEAN
  /\ Reported \subseteq GoogleStates
  /\ "PENDING" \in Reported
  /\ None \notin Leases \cup Runs

VARIABLES
  \* PostgreSQL
  status,  \* the status of the job
  op,      \* the operation rows
  tally,   \* the header counters
  poll,    \* the poll lease of the job, and whether it is live
  \* Kestra
  flows,   \* the leases whose flow may still send a request
  \* the worker
  run,     \* the poll requests
  \* Google
  google   \* the state of each command

dbVars == <<status, op, tally, poll>>
vars == <<dbVars, flows, run, google>>

NoPoll == [lease |-> None, live |-> FALSE]
\* An answer of a run: "unasked", "asked", or what the GET read.
Unasked == [o \in Operations |-> "unasked"]
\* A run between two rounds, and none.
At(pc, l) == [pc |-> pc, lease |-> l, got |-> Unasked, answered |-> FALSE,
              stopped |-> FALSE]
NoRun == At("idle", None)

JobEnds == {"completed", "completed-with-errors", "failed", "needs-review",
            "cancelled"}
OperationRow ==
  [status : Finals \cup {"issued"}, state : CommandStates \cup {NoState},
   known : BOOLEAN, over : BOOLEAN, due : BOOLEAN,
   attempt : Runs \cup {None}]
PollRun ==
  [pc : {"idle", "looping", "reading", "releasing"},
   lease : Leases \cup {None},
   got : [Operations -> GoogleStates \cup {"unasked", "asked"}],
   answered : BOOLEAN, stopped : BOOLEAN]

TypeOK ==
  /\ status \in JobEnds \cup {"awaiting-devices"}
  /\ op \in [Operations -> OperationRow]
  /\ tally \in [Finals -> Nat]
  /\ poll \in [lease : Leases \cup {None}, live : BOOLEAN]
  /\ flows \subseteq Leases
  /\ run \in [Runs -> PollRun]
  /\ google \in [Operations -> GoogleStates]

(***************************************************************************)
(* Rows, counters and the end of the job.                                  *)
(***************************************************************************)

IssuedIn(rows) == {o \in Operations : rows[o].status = "issued"}

\* cc.refresh_device_update_counters
Counts(rows) ==
  [s \in Finals |-> Cardinality({o \in Operations : rows[o].status = s})]

\* Mutant: the status counts the rows before the settlement.
CompletesStale(rows) ==
  IF status # "awaiting-devices" \/ IssuedIn(rows) # {} THEN status
  ELSE TerminalOf(tally, Cardinality(Operations))

\* cc.complete_device_command_job, after the refresh.
Completes(rows) ==
  IF status # "awaiting-devices" \/ IssuedIn(rows) # {} THEN status
  ELSE TerminalOf(Counts(rows), Cardinality(Operations))

\* The rows change, the counters are refreshed, the job may end.
RowsBecome(rows) ==
  /\ op' = rows
  /\ tally' = Counts(rows)
  /\ status' = Completes(rows)

\* The row's lease is live, the job still waits, and the run carries it.
Holds(r) ==
  /\ status = "awaiting-devices"
  /\ poll.live
  /\ poll.lease = run[r].lease

RunBecomes(r, pc) == run' = [run EXCEPT ![r].pc = pc]

Init ==
  /\ status = "awaiting-devices"
  /\ op \in [Operations ->
       {[status |-> "issued", state |-> "pending-delivery", known |-> FALSE,
         over |-> FALSE, due |-> FALSE, attempt |-> None]}
       \cup [status : Finals \ {"succeeded", "expired"}, state : {NoState},
             known : {FALSE}, over : {FALSE}, due : {FALSE},
             attempt : {None}]]
  /\ IssuedIn(op) # {}
  /\ tally = Counts(op)
  /\ poll = NoPoll
  /\ flows = {}
  /\ run = [r \in Runs |-> NoRun]
  /\ google = [o \in Operations |-> "PENDING"]

(***************************************************************************)
(* The tick of the job service and the flow.                               *)
(***************************************************************************)

\* Nobody carries the lease id: it is as good as a fresh one.
FreshLease(l) ==
  /\ poll.lease # l
  /\ l \notin flows
  /\ \A r \in Runs : run[r].lease # l

\* cc.due_device_command_polls takes the lease of a due job, and the tick
\* starts the flow, or the start fails.  What the start records afterwards
\* (cc.record_device_command_poll_start) is read by nothing and left out.
Due(l) ==
  /\ FreshLease(l)
  /\ status = "awaiting-devices"
  /\ \E o \in IssuedIn(op) : op[o].due
  /\ ~poll.live
  /\ poll' = [lease |-> l, live |-> TRUE]
  /\ flows' \in {flows \cup {l}, flows}
  /\ UNCHANGED <<status, op, tally, run, google>>

\* The flow sends a request: its first, or a retry, whether the one before
\* has really ended or only its answer was lost.
Start(r, l) ==
  /\ l \in flows
  /\ run[r] = NoRun
  /\ Cardinality({q \in Runs : run[q].lease = l}) < Overlap
  /\ \A o \in Operations : op[o].attempt # r
  /\ run' = [run EXCEPT ![r] = At("looping", l)]
  /\ UNCHANGED <<dbVars, flows, google>>

\* The flow has used its requests.
FlowEnds(l) ==
  /\ l \in flows
  /\ flows' = flows \ {l}
  /\ UNCHANGED <<dbVars, run, google>>

(***************************************************************************)
(* The poll request (runPoll).                                             *)
(***************************************************************************)

\* Mutant: the claim leaves an operation whose watch is over to the answers.
SweepNothing == op

\* cc.claim_device_command_polls, for a run that holds the job's lease: first
\* the operations whose watch is over, which may end the job, then the claim.
\* A missing connection or a key that does not open ends the run after it.
Sweep ==
  [o \in Operations |->
     IF op[o].status = "issued" /\ op[o].over
     THEN [op[o] EXCEPT !.status = "unknown", !.attempt = None] ELSE op[o]]

Claimable(rows) ==
  {o \in IssuedIn(rows) : rows[o].due /\ rows[o].attempt = None}

AClaim(rows, S) ==
  /\ S \subseteq Claimable(rows)
  /\ S # {}
  /\ Cardinality(S) =
       IF Cardinality(Claimable(rows)) < PollLimit
       THEN Cardinality(Claimable(rows)) ELSE PollLimit

\* The run reads the commands of its claim.
Asking(r, S) ==
  [pc |-> "reading", lease |-> run[r].lease,
   got |-> [o \in Operations |-> IF o \in S THEN "asked" ELSE "unasked"],
   answered |-> FALSE, stopped |-> FALSE]

Claim(r) ==
  /\ run[r].pc = "looping"
  /\ Holds(r)
  /\ \/ /\ RowsBecome(Sweep)
        /\ RunBecomes(r, "releasing")
     \/ \E S \in SUBSET Operations :
          /\ AClaim(Sweep, S)
          /\ RowsBecome([o \in Operations |->
               IF o \in S THEN [Sweep[o] EXCEPT !.attempt = r] ELSE Sweep[o]])
          /\ \/ RunBecomes(r, "releasing")
             \/ run' = [run EXCEPT ![r] = Asking(r, S)]
  /\ UNCHANGED <<poll, flows, google>>

\* The claim answers not-held, or the eight minutes of the run are over.
LeaveLoop(r) ==
  /\ run[r].pc = "looping"
  /\ RunBecomes(r, "releasing")
  /\ UNCHANGED <<dbVars, flows, google>>

\* The run goes on with an answer, or with none, for the operation.
Got(r, o, answer, stopped) ==
  [pc |-> run[r].pc, lease |-> run[r].lease,
   got |-> [run[r].got EXCEPT ![o] = answer],
   answered |-> TRUE, stopped |-> stopped]

\* Google answers the GET of an operation.  A failure other than a 404
\* settles nothing, but it is an answer.
Answer(r, o) ==
  /\ run[r].pc = "reading"
  /\ run[r].got[o] = "asked"
  /\ \E answer \in {google[o], "unasked"} :
       run' = [run EXCEPT ![r] = Got(r, o, answer, run[r].stopped)]
  /\ UNCHANGED <<dbVars, flows, google>>

\* Google's expiry sets the end of the watch once: 24 hours after it, and no
\* later than the 30 days of a wipe.
WatchAfter(o, names) ==
  IF ~names \/ op[o].known THEN {op[o].over}
  ELSE IF LongWatch THEN {op[o].over, TRUE} ELSE BOOLEAN

\* Mutant: the row stores Google's own word for the state.
RowAfterVerbatim(o, answer, names, over) ==
  [op[o] EXCEPT !.known = @ \/ names, !.over = over, !.attempt = None,
                !.state = answer, !.due = FALSE]

\* The row of an operation after an answer that names the expiry or not.
RowAfter(o, answer, names, over) ==
  LET pending == Outcome(answer) = "issued" IN
  [status |-> IF pending /\ over THEN "unknown" ELSE Outcome(answer),
   state |-> IF pending THEN CommandState(answer) ELSE op[o].state,
   known |-> op[o].known \/ names,
   over |-> over,
   due |-> op[o].due /\ (over \/ ~pending),
   attempt |-> None]

\* The settlement records the answer: the run holds the job's lease and the
\* operation's.
Settles(r, o) ==
  /\ Holds(r)
  /\ op[o].status = "issued"
  /\ op[o].attempt = r

\* cc.settle_device_command_polls with one answer.  A fenced or an empty
\* settlement, and one that ends the job, stop the run.
Settle(r, o) ==
  /\ run[r].pc = "reading"
  /\ run[r].got[o] \in GoogleStates
  /\ \/ /\ Settles(r, o)
        /\ \E names \in BOOLEAN :
             /\ names => run[r].got[o] # "GONE"
             /\ \E over \in WatchAfter(o, names) :
                  RowsBecome([op EXCEPT ![o] =
                                RowAfter(o, run[r].got[o], names, over)])
        /\ run' = [run EXCEPT ![r] = Got(r, o, "unasked",
                                         run[r].stopped \/ status' # status)]
        /\ UNCHANGED poll
     \/ /\ ~Settles(r, o)
        /\ run' = [run EXCEPT ![r] = Got(r, o, "unasked", TRUE)]
        /\ UNCHANGED dbVars
  /\ UNCHANGED <<flows, google>>

\* The reader returns: all is answered, or the bound of 120 s, the end of the
\* run's time or a stopped run cut it off.  Without an answer the run is over.
EndRound(r) ==
  /\ run[r].pc = "reading"
  /\ \E pc \in {"looping", "releasing"} :
       /\ pc = "looping" => run[r].answered /\ ~run[r].stopped
       /\ run' = [run EXCEPT ![r] = At(pc, run[r].lease)]
  /\ UNCHANGED <<dbVars, flows, google>>

\* Mutant: the release does not ask whose lease it is.
ReleasedAnyones(r) == NoPoll

\* The lease that a release by run r leaves.
Released(r) == IF poll.lease = run[r].lease THEN NoPoll ELSE poll

\* cc.release_device_command_poll; its failure is ignored.  The answer of the
\* request ends the flows, when it arrives.
Release(r) ==
  /\ run[r].pc = "releasing"
  /\ poll' \in {Released(r), poll}
  /\ run' = [run EXCEPT ![r] = NoRun]
  /\ flows' \in {flows \ {run[r].lease}, flows}
  /\ UNCHANGED <<status, op, tally, google>>

\* The request fails and keeps the lease: a database error, an invalid
\* answer, an authorization failure, or a dead worker.
Throw(r) ==
  /\ run[r].pc # "idle"
  /\ run' = [run EXCEPT ![r] = NoRun]
  /\ UNCHANGED <<dbVars, flows, google>>

(***************************************************************************)
(* Time, and Google.                                                       *)
(***************************************************************************)

BecomesDue(o) ==
  /\ op[o].status = "issued"
  /\ ~op[o].due
  /\ op' = [op EXCEPT ![o].due = TRUE]
  /\ UNCHANGED <<status, tally, poll, flows, run, google>>

WatchPasses(o) ==
  /\ op[o].status = "issued"
  /\ ~op[o].over
  /\ op' = [op EXCEPT ![o].over = TRUE]
  /\ UNCHANGED <<status, tally, poll, flows, run, google>>

ClaimLapses(o) ==
  /\ op[o].attempt # None
  /\ op' = [op EXCEPT ![o].attempt = None]
  /\ UNCHANGED <<status, tally, poll, flows, run, google>>

LeaseLapses ==
  /\ poll.live
  /\ poll' = [poll EXCEPT !.live = FALSE]
  /\ UNCHANGED <<status, op, tally, flows, run, google>>

GoogleMoves(o) ==
  /\ op[o].status = "issued"
  /\ \E s \in Reported : /\ Follows(google[o], s)
                         /\ google' = [google EXCEPT ![o] = s]
  /\ UNCHANGED <<dbVars, flows, run>>

RunStep(r) == Claim(r) \/ LeaveLoop(r) \/ EndRound(r) \/ Release(r)

Next ==
  \/ \E l \in Leases : Due(l) \/ FlowEnds(l)
  \/ \E r \in Runs, l \in Leases : Start(r, l)
  \/ \E r \in Runs : RunStep(r) \/ Throw(r)
  \/ \E r \in Runs, o \in Operations : Answer(r, o) \/ Settle(r, o)
  \/ \E o \in Operations :
       BecomesDue(o) \/ WatchPasses(o) \/ ClaimLapses(o) \/ GoogleMoves(o)
  \/ LeaseLapses

Spec == Init /\ [][Next]_vars

\* Time passes, requests end, and the tick, the flow and the claim succeed
\* again and again while they can: a lease of ten minutes does not lapse
\* before its flow's first claim every time.
Fairness ==
  /\ \A o \in Operations : /\ WF_vars(BecomesDue(o))
                           /\ WF_vars(WatchPasses(o))
                           /\ WF_vars(ClaimLapses(o))
  /\ WF_vars(LeaseLapses)
  /\ \A l \in Leases : WF_vars(FlowEnds(l))
  /\ \A r \in Runs : WF_vars(RunStep(r))
  /\ SF_vars(\E l \in Leases : Due(l) /\ flows' # flows)
  /\ SF_vars(\E r \in Runs, l \in Leases :
               Start(r, l) /\ poll.live /\ poll.lease = l)
  /\ SF_vars(\E r \in Runs : Claim(r))

FairSpec == Spec /\ Fairness

(***************************************************************************)
(* Properties.                                                             *)
(***************************************************************************)

\* The job waits for its devices exactly as long as one of its commands is
\* issued, and when it has ended its status is the one its rows give: neither
\* the sweep of the claim nor a settlement leaves a job open or ends it early.
AwaitingHasIssued ==
  /\ (status = "awaiting-devices") <=> IssuedIn(op) # {}
  /\ status # "awaiting-devices" =>
       status = TerminalOf(Counts(op), Cardinality(Operations))

\* The inductive invariant.  A row shows no later state than Google's, and an
\* answer that its run may still settle lies between the two; a claim is of an
\* issued command.
AtMost(s, t) == s = t \/ Follows(s, t)
Shows(o, s) ==
  \E t \in GoogleStates : CommandState(t) = op[o].state /\ AtMost(t, s)

AnswersInStep ==
  \A o \in Operations :
    /\ op[o].status = "issued" => Shows(o, google[o])
    /\ op[o].attempt # None => op[o].status = "issued"
    /\ \A r \in Runs : run[r].got[o] \in GoogleStates =>
         /\ run[r].pc = "reading"
         /\ AtMost(run[r].got[o], google[o])
         /\ op[o].attempt = r => Shows(o, run[r].got[o])

PollInv == TypeOK /\ AwaitingHasIssued /\ AnswersInStep

\* A run whose lease is not the row's changes nothing in the database, by its
\* claim, its settlements or its release, however late they arrive.
SupersededRunIsQuiet ==
  [][\A r \in Runs :
       run[r] # NoRun /\ run[r].lease # poll.lease /\ run'[r] # run[r]
         => UNCHANGED dbVars]_vars

\* The polls implement the watch: what a row shows never goes back or ahead
\* of Google, each command settles once and with a reason, and in the end the
\* job ends.
Watch == INSTANCE CommandWatch WITH
  row <- [o \in Operations |->
            [status |-> op[o].status, state |-> op[o].state]],
  known <- {o \in Operations : op[o].known},
  over <- {o \in Operations : op[o].over},
  Reopens <- ~LongWatch

WatchSafety == Watch!Init /\ [][Watch!Next]_(Watch!vars)
WatchSpec == Watch!Spec

=============================================================================
