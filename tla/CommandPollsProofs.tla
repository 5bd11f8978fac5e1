-------------------------- MODULE CommandPollsProofs --------------------------
(***************************************************************************)
(* The inductive invariant of CommandPolls, that a superseded poll changes *)
(* nothing, and the steps of the polls as steps of CommandWatch, proved    *)
(* for any number of operations, leases and requests, any page size and    *)
(* any states of Google.                                                   *)
(***************************************************************************)
EXTENDS CommandPolls, TLAPS, FiniteSetTheorems

-----------------------------------------------------------------------------
(* The terms of a command                                                  *)

\* An answer gives a status and, while the command is pending, a state.
LEMMA TermTypes ==
  ASSUME NEW a \in GoogleStates
  PROVE  /\ Outcome(a) \in Finals \cup {"issued"}
         /\ CommandState(a) \in CommandStates \cup {NoState}
BY DEF GoogleStates, LastWords, Outcome, CommandState, Finals, CommandStates, NoState

\* An ended job does not wait.
LEMMA TerminalIsEnd ==
  ASSUME NEW count, NEW n
  PROVE  TerminalOf(count, n) \in JobEnds
BY DEF TerminalOf, JobEnds

LEMMA AwaitingIsNoEnd == "awaiting-devices" \notin JobEnds
BY DEF JobEnds

\* Google's order is one.
LEMMA AtMostTransitive ==
  ASSUME NEW a \in GoogleStates, NEW b \in GoogleStates, NEW c \in GoogleStates,
         AtMost(a, b), AtMost(b, c)
  PROVE  AtMost(a, c)
<1>1. Stage(a) \in Nat /\ Stage(b) \in Nat /\ Stage(c) \in Nat
  BY DEF GoogleStates, LastWords, Stage
<1> QED BY <1>1 DEF AtMost, Follows

\* A run between two rounds has no answer.
LEMMA BetweenRounds ==
  ASSUME NEW pc \in {"idle", "looping", "reading", "releasing"},
         NEW l \in Leases \cup {None}
  PROVE  /\ At(pc, l) \in PollRun
         /\ \A o \in Operations : At(pc, l).got[o] = "unasked"
BY DEF At, Unasked, PollRun

LEMMA NoAnswer == "unasked" \notin GoogleStates /\ "asked" \notin GoogleStates
BY DEF GoogleStates, LastWords

LEMMA CountsType == ASSUME NEW rows PROVE Counts(rows) \in [Finals -> Nat]
<1>1. IsFiniteSet(Operations)
  BY ConstantsAssumption
<1>2. \A s \in Finals : Cardinality({o \in Operations : rows[o].status = s}) \in Nat
  BY <1>1, FS_Subset, FS_CardinalityType
<1> QED BY <1>2 DEF Counts

-----------------------------------------------------------------------------
(* The rows                                                                *)

\* Rows of a type-correct table
Rows == [Operations -> OperationRow]

\* A claim sweeps the operations whose watch is over, and gives others to the run.
LEMMA SweepType ==
  ASSUME TypeOK
  PROVE  /\ Sweep \in Rows
         /\ \A o \in Operations :
              IF op[o].status = "issued" /\ op[o].over
              THEN Sweep[o].status = "unknown" /\ Sweep[o].attempt = None
              ELSE Sweep[o] = op[o]
         /\ \A o \in Operations :
              /\ Sweep[o].state = op[o].state
              /\ Sweep[o].known = op[o].known
              /\ Sweep[o].over = op[o].over
BY DEF TypeOK, Rows, Sweep, OperationRow, Finals

Claimed(r, S) ==
  [o \in Operations |-> IF o \in S THEN [Sweep[o] EXCEPT !.attempt = r] ELSE Sweep[o]]

LEMMA ClaimedType ==
  ASSUME TypeOK, NEW r \in Runs, NEW S \in SUBSET Operations
  PROVE  /\ Claimed(r, S) \in Rows
         /\ \A o \in Operations :
              /\ Claimed(r, S)[o].status = Sweep[o].status
              /\ Claimed(r, S)[o].state = op[o].state
              /\ Claimed(r, S)[o].known = op[o].known
              /\ Claimed(r, S)[o].over = op[o].over
              /\ Claimed(r, S)[o].attempt = IF o \in S THEN r ELSE Sweep[o].attempt
BY SweepType DEF Rows, Claimed, OperationRow

\* The row after an answer
LEMMA RowAfterType ==
  ASSUME TypeOK, NEW o \in Operations, NEW a \in GoogleStates,
         NEW names \in BOOLEAN, NEW over \in BOOLEAN
  PROVE  /\ RowAfter(o, a, names, over) \in OperationRow
         /\ RowAfter(o, a, names, over).status =
              IF Outcome(a) = "issued" /\ over THEN "unknown"
              ELSE Outcome(a)
         /\ RowAfter(o, a, names, over).state =
              IF Outcome(a) = "issued" THEN CommandState(a) ELSE op[o].state
         /\ RowAfter(o, a, names, over).known = (op[o].known \/ names)
         /\ RowAfter(o, a, names, over).over = over
         /\ RowAfter(o, a, names, over).attempt = None
<1>1. op[o] \in OperationRow
  BY DEF TypeOK
<1>2. Outcome(a) \in Finals \cup {"issued"} /\ CommandState(a) \in CommandStates \cup {NoState}
  BY TermTypes
<1>3. "unknown" \in Finals
  BY DEF Finals
<1> QED BY <1>1, <1>2, <1>3 DEF RowAfter, OperationRow

LEMMA WatchAfterType ==
  ASSUME TypeOK, NEW o \in Operations, NEW names \in BOOLEAN,
         NEW over \in WatchAfter(o, names)
  PROVE  over \in BOOLEAN
BY DEF TypeOK, OperationRow, WatchAfter

\* The rows change and the job ends with its last issued operation.
LEMMA RowsBecomeType ==
  ASSUME TypeOK, NEW rows \in Rows, status = "awaiting-devices", RowsBecome(rows)
  PROVE  /\ op' = rows
         /\ tally' \in [Finals -> Nat]
         /\ status' \in JobEnds \cup {"awaiting-devices"}
         /\ AwaitingHasIssued'
<1>1. op' = rows /\ tally' = Counts(rows) /\ status' = Completes(rows)
  BY DEF RowsBecome
<1>2. status' = IF IssuedIn(rows) # {} THEN status
                ELSE TerminalOf(Counts(rows), Cardinality(Operations))
  BY <1>1 DEF Completes
<1>3. IssuedIn(op)' = IssuedIn(rows) /\ Counts(op)' = Counts(rows)
  BY <1>1 DEF IssuedIn, Counts
<1> QED BY <1>1, <1>2, <1>3, CountsType, TerminalIsEnd, AwaitingIsNoEnd
        DEF AwaitingHasIssued

-----------------------------------------------------------------------------
(* The inductive invariant                                                 *)

LEMMA InitPoll == Init => PollInv
<1> SUFFICES ASSUME Init PROVE PollInv
  OBVIOUS
<1>1. /\ \A o \in Operations : op[o] \in OperationRow /\ google[o] = "PENDING"
      /\ \A o \in Operations : op[o].status = "issued" => op[o].state = "pending-delivery"
      /\ \A o \in Operations : op[o].attempt = None
      /\ op \in [Operations -> OperationRow]
  <2>1. {"pending-delivery"} \subseteq CommandStates /\ "issued" \notin Finals
    BY DEF CommandStates, Finals
  <2>2. \A o \in Operations :
          \/ op[o] = [status |-> "issued", state |-> "pending-delivery",
                      known |-> FALSE, over |-> FALSE, due |-> FALSE, attempt |-> None]
          \/ op[o] \in [status : Finals \ {"succeeded", "expired"}, state : {NoState},
                        known : {FALSE}, over : {FALSE}, due : {FALSE}, attempt : {None}]
    BY DEF Init
  <2>3. \A o \in Operations :
          op[o] \in OperationRow
            /\ (op[o].status = "issued" => op[o].state = "pending-delivery")
            /\ op[o].attempt = None
    <3> TAKE o \in Operations
    <3>1. CASE op[o] = [status |-> "issued", state |-> "pending-delivery",
                        known |-> FALSE, over |-> FALSE, due |-> FALSE, attempt |-> None]
      BY <2>1, <3>1 DEF OperationRow
    <3>2. CASE op[o] \in [status : Finals \ {"succeeded", "expired"}, state : {NoState},
                          known : {FALSE}, over : {FALSE}, due : {FALSE}, attempt : {None}]
      <4>1. /\ op[o].status \in Finals /\ op[o].state = NoState /\ op[o].attempt = None
            /\ op[o].known = FALSE /\ op[o].over = FALSE /\ op[o].due = FALSE
            /\ op[o] = [status |-> op[o].status, state |-> op[o].state,
                        known |-> op[o].known, over |-> op[o].over,
                        due |-> op[o].due, attempt |-> op[o].attempt]
        BY <3>2
      <4> QED BY <2>1, <4>1 DEF OperationRow
    <3> QED BY <2>2, <3>1, <3>2
  <2>4. DOMAIN op = Operations /\ op = [o \in DOMAIN op |-> op[o]]
    BY DEF Init
  <2> QED BY <2>3, <2>4 DEF Init
<1>2. NoRun \in PollRun /\ \A o \in Operations : NoRun.got[o] = "unasked"
  BY BetweenRounds DEF NoRun
<1>3. TypeOK
  BY <1>1, <1>2, CountsType DEF Init, TypeOK, NoPoll, GoogleStates
<1>4. AwaitingHasIssued
  BY DEF Init, AwaitingHasIssued
<1>5. "PENDING" \in GoogleStates /\ CommandState("PENDING") = "pending-delivery"
  BY DEF GoogleStates, LastWords, CommandState
<1>6. AnswersInStep
  BY <1>1, <1>2, <1>5, NoAnswer DEF Init, AnswersInStep, Shows, AtMost
<1> QED BY <1>3, <1>4, <1>6 DEF PollInv

\* A step that changes no state of a command, takes no answer and gives no
\* claim to a run with answers keeps the answers in step.
LEMMA InStepKept ==
  ASSUME AnswersInStep, google' = google,
         \A o \in Operations : /\ op'[o].state = op[o].state
                               /\ op'[o].status = "issued" => op[o].status = "issued"
                               /\ op'[o].attempt # None => op'[o].status = "issued",
         \A r \in Runs, o \in Operations :
           run'[r].got[o] \in GoogleStates =>
             /\ run'[r].got[o] = run[r].got[o]
             /\ run'[r].pc = run[r].pc
             /\ op'[o].attempt = r => op[o].attempt = r
  PROVE  AnswersInStep'
<1> SUFFICES ASSUME NEW o \in Operations
             PROVE  /\ op'[o].status = "issued" => Shows(o, google[o])'
                    /\ op'[o].attempt # None => op'[o].status = "issued"
                    /\ \A r \in Runs : run'[r].got[o] \in GoogleStates =>
                         /\ run'[r].pc = "reading"
                         /\ AtMost(run'[r].got[o], google'[o])
                         /\ op'[o].attempt = r => Shows(o, run[r].got[o])'
  BY DEF AnswersInStep
<1>1. \A s : Shows(o, s) => \E t \in GoogleStates :
                               CommandState(t) = op'[o].state /\ AtMost(t, s)
  BY DEF Shows
<1>2. op'[o].status = "issued" => Shows(o, google[o])'
  BY <1>1 DEF AnswersInStep, Shows
<1>3. ASSUME NEW r \in Runs, run'[r].got[o] \in GoogleStates
      PROVE  /\ run'[r].pc = "reading"
             /\ AtMost(run'[r].got[o], google'[o])
             /\ op'[o].attempt = r => Shows(o, run[r].got[o])'
  BY <1>1, <1>3 DEF AnswersInStep, Shows
<1> QED BY <1>2, <1>3

\* A run that is not between rounds changes by one of these.
LEMMA RunAfter ==
  ASSUME TypeOK, NEW r \in Runs, NEW x \in PollRun, run' = [run EXCEPT ![r] = x]
  PROVE  /\ run' \in [Runs -> PollRun]
         /\ run'[r] = x
         /\ \A q \in Runs \ {r} : run'[q] = run[q]
BY DEF TypeOK

LEMMA RunBecomesType ==
  ASSUME TypeOK, NEW r \in Runs,
         NEW pc \in {"idle", "looping", "reading", "releasing"}, RunBecomes(r, pc)
  PROVE  /\ run' \in [Runs -> PollRun]
         /\ run'[r].got = run[r].got /\ run'[r].lease = run[r].lease /\ run'[r].pc = pc
         /\ \A q \in Runs \ {r} : run'[q] = run[q]
BY DEF TypeOK, RunBecomes, PollRun

\* The steps of a run that leave the rows alone
LEMMA QuietRun ==
  ASSUME PollInv, NEW r \in Runs,
         \/ \E l \in Leases : Start(r, l)
         \/ LeaveLoop(r) \/ EndRound(r) \/ Release(r) \/ Throw(r)
  PROVE  PollInv'
<1>1. TypeOK /\ run[r].lease \in Leases \cup {None} /\ AnswersInStep
  BY DEF PollInv, TypeOK, PollRun
<1>2. UNCHANGED <<status, op, tally, google>>
  BY DEF Start, LeaveLoop, EndRound, Release, Throw, dbVars
<1>3. AwaitingHasIssued'
  BY <1>2 DEF PollInv, AwaitingHasIssued, IssuedIn, Counts
<1>4. poll' \in [lease : Leases \cup {None}, live : BOOLEAN] /\ flows' \subseteq Leases
  <2>1. NoPoll \in [lease : Leases \cup {None}, live : BOOLEAN]
    BY DEF NoPoll
  <2>2. CASE Release(r)
    BY <1>1, <2>1, <2>2 DEF TypeOK, Release, Released
  <2> QED BY <1>1, <2>2 DEF TypeOK, Start, LeaveLoop, EndRound, Throw, dbVars
<1>10. \A o \in Operations : op[o].attempt # None => op[o].status = "issued"
  BY <1>1 DEF AnswersInStep
<1>5. CASE LeaveLoop(r)
  <2>1. /\ run' \in [Runs -> PollRun]
        /\ run'[r].got = run[r].got
        /\ \A q \in Runs \ {r} : run'[q] = run[q]
    BY <1>1, <1>5, RunBecomesType DEF LeaveLoop
  <2>2. \A o \in Operations : run[r].got[o] \notin GoogleStates
    BY <1>1, <1>5 DEF LeaveLoop, AnswersInStep
  <2>3. AnswersInStep'
    BY <1>1, <1>2, <1>10, <2>1, <2>2, InStepKept
  <2> QED BY <1>1, <1>2, <1>3, <1>4, <2>1, <2>3 DEF PollInv, TypeOK
<1>6. ASSUME NEW pc \in {"idle", "looping", "reading", "releasing"},
             NEW l \in Leases \cup {None}, run' = [run EXCEPT ![r] = At(pc, l)]
      PROVE  PollInv'
  <2>1. /\ run' \in [Runs -> PollRun]
        /\ run'[r] = At(pc, l)
        /\ \A q \in Runs \ {r} : run'[q] = run[q]
    BY <1>1, <1>6, BetweenRounds, RunAfter
  <2>2. AnswersInStep'
    BY <1>1, <1>2, <1>10, <2>1, BetweenRounds, NoAnswer, InStepKept
  <2> QED BY <1>1, <1>2, <1>3, <1>4, <2>1, <2>2 DEF PollInv, TypeOK
<1>7. CASE \E l \in Leases : Start(r, l)
  BY <1>6, <1>7 DEF Start
<1>8. CASE EndRound(r)
  BY <1>1, <1>6, <1>8 DEF EndRound
<1>9. CASE Release(r) \/ Throw(r)
  BY <1>6, <1>9 DEF Release, Throw, NoRun
<1> QED BY <1>5, <1>7, <1>8, <1>9

\* The claim of a run
LEMMA AskingType ==
  ASSUME TypeOK, NEW r \in Runs, NEW S
  PROVE  /\ Asking(r, S) \in PollRun
         /\ \A o \in Operations : Asking(r, S).got[o] \notin GoogleStates
<1>1. run[r].lease \in Leases \cup {None}
  BY DEF TypeOK, PollRun
<1>2. [o \in Operations |-> IF o \in S THEN "asked" ELSE "unasked"]
        \in [Operations -> GoogleStates \cup {"unasked", "asked"}]
  OBVIOUS
<1> QED BY <1>1, <1>2, NoAnswer DEF Asking, PollRun

LEMMA ClaimKeeps == ASSUME PollInv, NEW r \in Runs, Claim(r) PROVE PollInv'
<1>1. TypeOK /\ AnswersInStep /\ status = "awaiting-devices" /\ run[r].pc = "looping"
      /\ UNCHANGED <<poll, flows, google>>
  BY DEF PollInv, Claim, Holds
<1>2. PICK S \in SUBSET Operations :
        \/ RowsBecome(Sweep) /\ RunBecomes(r, "releasing")
        \/ /\ AClaim(Sweep, S)
           /\ RowsBecome(Claimed(r, S))
           /\ RunBecomes(r, "releasing") \/ run' = [run EXCEPT ![r] = Asking(r, S)]
  BY DEF Claim, Claimed
<1>3. PICK rows \in {Sweep, Claimed(r, S)} :
        RowsBecome(rows) /\ (rows = Claimed(r, S) => AClaim(Sweep, S) \/ rows = Sweep)
  BY <1>2
<1>4. /\ rows \in Rows
      /\ \A o \in Operations :
           /\ rows[o].state = op[o].state
           /\ rows[o].status = "issued" => op[o].status = "issued"
           /\ \A q \in Runs \ {r} : rows[o].attempt = q => op[o].attempt = q
           /\ rows[o].attempt # None => rows[o].status = "issued"
  <2>1. \A o \in Operations :
          /\ Sweep[o].status = "issued" => op[o].status = "issued"
          /\ Sweep[o].attempt = op[o].attempt \/ Sweep[o].attempt = None
          /\ Sweep[o].attempt # None => Sweep[o].status = "issued"
    BY <1>1, SweepType DEF AnswersInStep
  <2>2. None \notin Runs
    BY ConstantsAssumption
  <2>3. AClaim(Sweep, S) => \A o \in S : Sweep[o].status = "issued"
    BY DEF AClaim, Claimable, IssuedIn
  <2>4. CASE rows = Sweep
    BY <1>1, <2>1, <2>2, <2>4, SweepType
  <2>5. CASE rows = Claimed(r, S) /\ AClaim(Sweep, S)
    BY <1>1, <2>1, <2>2, <2>3, <2>5, SweepType, ClaimedType
  <2> QED BY <1>3, <2>4, <2>5
<1>5. /\ op' = rows /\ tally' \in [Finals -> Nat] /\ AwaitingHasIssued'
      /\ status' \in JobEnds \cup {"awaiting-devices"}
  BY <1>1, <1>3, <1>4, RowsBecomeType
<1>6. /\ run' \in [Runs -> PollRun]
      /\ \A q \in Runs \ {r} : run'[q] = run[q]
      /\ \A o \in Operations : run'[r].got[o] \notin GoogleStates
  <2>1. CASE RunBecomes(r, "releasing")
    <3>1. \A o \in Operations : run[r].got[o] \notin GoogleStates
      BY <1>1 DEF AnswersInStep
    <3> QED BY <1>1, <2>1, <3>1, RunBecomesType
  <2>2. CASE run' = [run EXCEPT ![r] = Asking(r, S)]
    BY <1>1, <2>2, AskingType, RunAfter
  <2> QED BY <1>2, <2>1, <2>2
<1>7. AnswersInStep'
  BY <1>1, <1>4, <1>5, <1>6, InStepKept
<1> QED BY <1>1, <1>4, <1>5, <1>6, <1>7 DEF PollInv, TypeOK, Rows

\* A run that takes an answer, or has had it settled
LEMMA GotType ==
  ASSUME TypeOK, NEW r \in Runs, NEW o \in Operations,
         NEW a \in GoogleStates \cup {"unasked"}, NEW stopped \in BOOLEAN
  PROVE  /\ Got(r, o, a, stopped) \in PollRun
         /\ Got(r, o, a, stopped).pc = run[r].pc
         /\ Got(r, o, a, stopped).got[o] = a
         /\ \A p \in Operations \ {o} : Got(r, o, a, stopped).got[p] = run[r].got[p]
<1>1. run[r] \in PollRun
  BY DEF TypeOK
<1>2. /\ run[r].got \in [Operations -> GoogleStates \cup {"unasked", "asked"}]
      /\ run[r].lease \in Leases \cup {None}
      /\ run[r].pc \in {"idle", "looping", "reading", "releasing"}
  BY <1>1 DEF PollRun
<1>3. [run[r].got EXCEPT ![o] = a] \in [Operations -> GoogleStates \cup {"unasked", "asked"}]
  BY <1>2
<1> QED BY <1>2, <1>3 DEF Got, PollRun

\* An answer is what Google knows now, and no earlier than what the row shows.
LEMMA AnswerKeeps ==
  ASSUME PollInv, NEW r \in Runs, NEW o \in Operations, Answer(r, o)
  PROVE  PollInv'
<1>1. TypeOK /\ AnswersInStep /\ run[r].pc = "reading" /\ run[r] \in PollRun
      /\ UNCHANGED <<status, op, tally, poll, flows, google>>
  BY DEF PollInv, TypeOK, Answer, dbVars
<1>2. PICK a \in {google[o], "unasked"} :
        run' = [run EXCEPT ![r] = Got(r, o, a, run[r].stopped)]
  BY DEF Answer
<1>3. a \in GoogleStates \cup {"unasked"} /\ run[r].stopped \in BOOLEAN
  BY <1>1 DEF TypeOK, PollRun
<1>4. /\ run' \in [Runs -> PollRun]
      /\ \A q \in Runs \ {r} : run'[q] = run[q]
      /\ run'[r].pc = "reading" /\ run'[r].got[o] = a
      /\ \A p \in Operations \ {o} : run'[r].got[p] = run[r].got[p]
  <2> DEFINE x == Got(r, o, a, run[r].stopped)
  <2>1. /\ x \in PollRun /\ x.pc = run[r].pc /\ x.got[o] = a
        /\ \A p \in Operations \ {o} : x.got[p] = run[r].got[p]
    BY <1>1, <1>3, GotType
  <2> HIDE DEF x
  <2>2. run' = [run EXCEPT ![r] = x]
    BY <1>2 DEF x
  <2> QED BY <1>1, <2>1, <2>2, RunAfter
<1>5. op[o].attempt = r => op[o].status = "issued"
  BY <1>1, ConstantsAssumption DEF AnswersInStep
<1>6. AnswersInStep'
  BY <1>1, <1>4, <1>5, NoAnswer DEF AnswersInStep, Shows, AtMost
<1>7. AwaitingHasIssued'
  BY <1>1 DEF PollInv, AwaitingHasIssued, IssuedIn, Counts
<1> QED BY <1>1, <1>4, <1>6, <1>7 DEF PollInv, TypeOK

\* A settlement moves the row to the answer that its run read.
LEMMA SettleKeeps ==
  ASSUME PollInv, NEW r \in Runs, NEW o \in Operations, Settle(r, o)
  PROVE  PollInv'
<1>1. /\ TypeOK /\ AnswersInStep /\ run[r].pc = "reading" /\ run[r] \in PollRun
      /\ run[r].got[o] \in GoogleStates
      /\ UNCHANGED <<poll, flows, google>>
  BY DEF PollInv, TypeOK, Settle, dbVars
<1>2. PICK stopped \in BOOLEAN : run' = [run EXCEPT ![r] = Got(r, o, "unasked", stopped)]
  <2>1. run[r].stopped \in BOOLEAN
    BY <1>1 DEF PollRun
  <2> QED BY <2>1 DEF Settle
<1>3. /\ run' \in [Runs -> PollRun]
      /\ \A q \in Runs \ {r} : run'[q] = run[q]
      /\ run'[r].pc = run[r].pc /\ run'[r].got[o] = "unasked"
      /\ \A p \in Operations \ {o} : run'[r].got[p] = run[r].got[p]
  <2> DEFINE x == Got(r, o, "unasked", stopped)
  <2>1. /\ x \in PollRun /\ x.pc = run[r].pc /\ x.got[o] = "unasked"
        /\ \A p \in Operations \ {o} : x.got[p] = run[r].got[p]
    BY <1>1, GotType
  <2> HIDE DEF x
  <2>2. run' = [run EXCEPT ![r] = x]
    BY <1>2 DEF x
  <2> QED BY <1>1, <2>1, <2>2, RunAfter
<1>4. CASE ~Settles(r, o)
  <2>1. UNCHANGED dbVars
    BY <1>4 DEF Settle
  <2>2. AwaitingHasIssued'
    BY <2>1 DEF dbVars, PollInv, AwaitingHasIssued, IssuedIn, Counts
  <2>3. AnswersInStep'
    <3>1. op' = op
      BY <2>1 DEF dbVars
    <3>2. \A p \in Operations : op[p].attempt # None => op[p].status = "issued"
      BY <1>1 DEF AnswersInStep
    <3>3. \A q \in Runs, p \in Operations : run'[q].got[p] \in GoogleStates =>
            run'[q].got[p] = run[q].got[p] /\ run'[q].pc = run[q].pc
      BY <1>3, NoAnswer
    <3> QED BY <1>1, <3>1, <3>2, <3>3, InStepKept
  <2> QED BY <1>1, <1>3, <2>1, <2>2, <2>3 DEF PollInv, TypeOK, dbVars
<1>5. CASE Settles(r, o)
  <2> DEFINE a == run[r].got[o]
  <2>10. PICK names \in BOOLEAN :
           \E over \in WatchAfter(o, names) :
             RowsBecome([op EXCEPT ![o] = RowAfter(o, a, names, over)])
    BY <1>5 DEF Settle
  <2>1. PICK over \in WatchAfter(o, names) :
          RowsBecome([op EXCEPT ![o] = RowAfter(o, a, names, over)])
    BY <2>10
  <2>2. over \in BOOLEAN
    BY <1>1, <2>1, WatchAfterType
  <2> DEFINE row == RowAfter(o, a, names, over)
  <2>3. /\ row \in OperationRow /\ row.attempt = None
        /\ row.status = "issued" => Outcome(a) = "issued"
        /\ Outcome(a) = "issued" => row.state = CommandState(a)
    BY <1>1, <2>2, RowAfterType
  <2> HIDE DEF row
  <2>4. /\ [op EXCEPT ![o] = row] \in Rows /\ status = "awaiting-devices"
        /\ RowsBecome([op EXCEPT ![o] = row])
    BY <1>1, <1>5, <2>1, <2>3 DEF TypeOK, Rows, Settles, Holds, row
  <2>5. /\ op' = [op EXCEPT ![o] = row] /\ tally' \in [Finals -> Nat]
        /\ status' \in JobEnds \cup {"awaiting-devices"} /\ AwaitingHasIssued'
    BY <1>1, <2>4, RowsBecomeType
  <2>6. op'[o] = row /\ \A p \in Operations \ {o} : op'[p] = op[p]
    BY <1>1, <2>5 DEF TypeOK
  <2>7. AtMost(a, google[o])
    BY <1>1 DEF AnswersInStep
  <2>8. ASSUME NEW p \in Operations
        PROVE  /\ op'[p].status = "issued" => Shows(p, google[p])'
               /\ op'[p].attempt # None => op'[p].status = "issued"
               /\ \A q \in Runs : run'[q].got[p] \in GoogleStates =>
                    /\ run'[q].pc = "reading"
                    /\ AtMost(run'[q].got[p], google'[p])
                    /\ op'[p].attempt = q => Shows(p, run[q].got[p])'
    <3>1. CASE p # o
      <4>1. \A s : (\E t \in GoogleStates : CommandState(t) = op[p].state /\ AtMost(t, s))
                 => \E t \in GoogleStates : CommandState(t) = op'[p].state /\ AtMost(t, s)
        BY <2>6, <3>1
      <4>2. op'[p] = op[p] /\ google' = google
        BY <1>1, <2>6, <3>1
      <4>3. \A q \in Runs : run'[q].got[p] = run[q].got[p] /\ run'[q].pc = run[q].pc
        BY <1>3, <3>1
      <4> QED BY <1>1, <4>1, <4>2, <4>3 DEF AnswersInStep, Shows
    <3>2. CASE p = o
      <4>1. op'[p].status = "issued" => Shows(p, google[p])'
        BY <1>1, <2>3, <2>6, <2>7, <3>2 DEF Shows
      <4>2. op'[p].attempt = None /\ None \notin Runs
        BY <2>3, <2>6, <3>2, ConstantsAssumption
      <4>3. \A q \in Runs : run'[q].got[p] \in GoogleStates =>
              run'[q].got[p] = run[q].got[p] /\ run'[q].pc = run[q].pc
        BY <1>3, <3>2, NoAnswer
      <4> QED BY <1>1, <4>1, <4>2, <4>3 DEF AnswersInStep
    <3> QED BY <3>1, <3>2
  <2>9. AnswersInStep'
    BY <2>8 DEF AnswersInStep, Shows
  <2> QED BY <1>1, <1>3, <2>4, <2>5, <2>9 DEF PollInv, TypeOK, Rows
<1> QED BY <1>4, <1>5

\* Time, the tick, the flow and Google
LEMMA TimeKeeps ==
  ASSUME PollInv, NEW o \in Operations, BecomesDue(o) \/ WatchPasses(o) \/ ClaimLapses(o)
  PROVE  PollInv'
<1>1. TypeOK /\ AnswersInStep /\ UNCHANGED <<status, tally, poll, flows, run, google>>
      /\ op \in [Operations -> OperationRow]
  BY DEF PollInv, TypeOK, BecomesDue, WatchPasses, ClaimLapses
<1>2. /\ op' \in [Operations -> OperationRow]
      /\ \A p \in Operations :
           /\ op'[p].status = op[p].status /\ op'[p].state = op[p].state
           /\ op'[p].attempt = op[p].attempt \/ op'[p].attempt = None
  <2>1. CASE BecomesDue(o)
    BY <1>1, <2>1 DEF BecomesDue, OperationRow
  <2>2. CASE WatchPasses(o)
    BY <1>1, <2>2 DEF WatchPasses, OperationRow
  <2>3. CASE ClaimLapses(o)
    BY <1>1, <2>3 DEF ClaimLapses, OperationRow
  <2> QED BY <2>1, <2>2, <2>3
<1>3. IssuedIn(op)' = IssuedIn(op) /\ Counts(op)' = Counts(op)
  BY <1>2 DEF IssuedIn, Counts
<1>4. AwaitingHasIssued'
  BY <1>1, <1>3 DEF PollInv, AwaitingHasIssued
<1>5. AnswersInStep'
  <2>1. \A p \in Operations : op[p].attempt # None => op[p].status = "issued"
    BY <1>1 DEF AnswersInStep
  <2>2. None \notin Runs
    BY ConstantsAssumption
  <2> QED BY <1>1, <1>2, <2>1, <2>2, InStepKept
<1> QED BY <1>1, <1>2, <1>4, <1>5 DEF PollInv, TypeOK

LEMMA LeaseKeeps ==
  ASSUME PollInv, (\E l \in Leases : Due(l) \/ FlowEnds(l)) \/ LeaseLapses
  PROVE  PollInv'
<1>1. TypeOK /\ AnswersInStep /\ UNCHANGED <<status, op, tally, run, google>>
  BY DEF PollInv, Due, FlowEnds, LeaseLapses, dbVars
<1>2. poll' \in [lease : Leases \cup {None}, live : BOOLEAN] /\ flows' \subseteq Leases
  <2>1. CASE LeaseLapses
    BY <1>1, <2>1 DEF TypeOK, LeaseLapses
  <2>2. ASSUME NEW l \in Leases, Due(l)
        PROVE  poll' \in [lease : Leases \cup {None}, live : BOOLEAN] /\ flows' \subseteq Leases
    BY <1>1, <2>2 DEF TypeOK, Due
  <2>3. ASSUME NEW l \in Leases, FlowEnds(l)
        PROVE  poll' \in [lease : Leases \cup {None}, live : BOOLEAN] /\ flows' \subseteq Leases
    BY <1>1, <2>3 DEF TypeOK, FlowEnds, dbVars
  <2> QED BY <2>1, <2>2, <2>3
<1>3. AwaitingHasIssued'
  BY <1>1 DEF PollInv, AwaitingHasIssued, IssuedIn, Counts
<1>4. AnswersInStep'
  BY <1>1 DEF AnswersInStep, Shows
<1> QED BY <1>1, <1>2, <1>3, <1>4 DEF PollInv, TypeOK

\* What Google shows later is no earlier than any answer and any row.
LEMMA GoogleKeeps ==
  ASSUME PollInv, NEW o \in Operations, GoogleMoves(o)
  PROVE  PollInv'
<1>1. TypeOK /\ AnswersInStep /\ UNCHANGED <<status, op, tally, poll, flows, run>>
  BY DEF PollInv, GoogleMoves, dbVars
<1>2. PICK s \in GoogleStates :
        Follows(google[o], s) /\ google' = [google EXCEPT ![o] = s]
  BY ConstantsAssumption DEF GoogleMoves
<1>3. /\ google \in [Operations -> GoogleStates]
      /\ google' \in [Operations -> GoogleStates]
      /\ \A p \in Operations : AtMost(google[p], google'[p])
  BY <1>1, <1>2 DEF TypeOK, AtMost
<1>4. \A a \in GoogleStates, p \in Operations :
        AtMost(a, google[p]) => AtMost(a, google'[p])
  BY <1>3, AtMostTransitive
<1>5. AnswersInStep'
  BY <1>1, <1>4 DEF AnswersInStep, Shows
<1>6. AwaitingHasIssued'
  BY <1>1 DEF PollInv, AwaitingHasIssued, IssuedIn, Counts
<1> QED BY <1>1, <1>3, <1>5, <1>6 DEF PollInv, TypeOK

LEMMA StepPoll == PollInv /\ [Next]_vars => PollInv'
<1> SUFFICES ASSUME PollInv, [Next]_vars PROVE PollInv'
  OBVIOUS
<1>1. CASE UNCHANGED vars
  BY <1>1 DEF vars, dbVars, PollInv, TypeOK, AwaitingHasIssued, IssuedIn, Counts,
              AnswersInStep, Shows
<1> QED BY <1>1, QuietRun, ClaimKeeps, AnswerKeeps, SettleKeeps, TimeKeeps,
           LeaseKeeps, GoogleKeeps DEF Next, RunStep

THEOREM PollCorrect == Spec => []PollInv
BY InitPoll, StepPoll, PTL DEF Spec

\* Rows, leases, runs and Google's states have the types of the tables.
THEOREM TypeCorrect == Spec => []TypeOK
<1>1. PollInv => TypeOK
  BY DEF PollInv
<1> QED BY <1>1, PollCorrect, PTL

\* The job waits exactly as long as a command is issued, and ends with the
\* status of its rows.
THEOREM AwaitingCorrect == Spec => []AwaitingHasIssued
<1>1. PollInv => AwaitingHasIssued
  BY DEF PollInv
<1> QED BY <1>1, PollCorrect, PTL

-----------------------------------------------------------------------------
(* A superseded run                                                        *)

\* A claim, a settlement or a release of a run whose lease is not the job's,
\* however late, changes nothing in the database.
THEOREM SupersededCorrect == Spec => SupersededRunIsQuiet
<1> DEFINE A == \A r \in Runs :
                  run[r] # NoRun /\ run[r].lease # poll.lease /\ run'[r] # run[r]
                    => UNCHANGED dbVars
<1>1. PollInv /\ [Next]_vars => [A]_vars
  <2> SUFFICES ASSUME PollInv, Next, NEW r \in Runs, run[r] # NoRun,
                      run[r].lease # poll.lease, run'[r] # run[r]
               PROVE  UNCHANGED dbVars
    OBVIOUS
  <2>1. TypeOK
    BY DEF PollInv
  <2>2. ~UNCHANGED run
    OBVIOUS
  <2>3. ASSUME NEW q \in Runs, NEW x, run' = [run EXCEPT ![q] = x] PROVE q = r
    BY <2>1, <2>3 DEF TypeOK
  <2>4. ASSUME NEW q \in Runs, NEW pc, RunBecomes(q, pc) PROVE q = r
    BY <2>1, <2>4 DEF TypeOK, RunBecomes
  <2>5. ASSUME NEW q \in Runs, Claim(q) PROVE FALSE
    <3>1. q = r
      BY <2>3, <2>4, <2>5 DEF Claim
    <3> QED BY <2>5, <3>1 DEF Claim, Holds
  <2>6. ASSUME NEW q \in Runs, Release(q) PROVE UNCHANGED dbVars
    <3>1. q = r
      BY <2>3, <2>6 DEF Release
    <3> QED BY <2>6, <3>1 DEF Release, Released, dbVars
  <2>7. ASSUME NEW q \in Runs, NEW o \in Operations, Settle(q, o)
        PROVE  UNCHANGED dbVars
    <3>1. q = r
      BY <2>3, <2>7 DEF Settle
    <3> QED BY <2>7, <3>1 DEF Settle, Settles, Holds
  <2>8. ASSUME NEW q \in Runs, \/ LeaveLoop(q) \/ EndRound(q) \/ Throw(q)
                                 \/ \E l \in Leases : Start(q, l)
        PROVE  UNCHANGED dbVars
    BY <2>8 DEF LeaveLoop, EndRound, Throw, Start
  <2>14. ASSUME NEW q \in Runs, NEW o \in Operations, Answer(q, o)
         PROVE  UNCHANGED dbVars
    BY <2>14 DEF Answer
  <2>9. \/ \E q \in Runs : RunStep(q) \/ Throw(q)
        \/ \E q \in Runs, l \in Leases : Start(q, l)
        \/ \E q \in Runs, o \in Operations : Answer(q, o) \/ Settle(q, o)
    BY <2>2 DEF Next, Due, FlowEnds, BecomesDue, WatchPasses, ClaimLapses,
                GoogleMoves, LeaseLapses
  <2>10. ASSUME NEW q \in Runs, RunStep(q) PROVE UNCHANGED dbVars
    <3>1. CASE Claim(q)
      BY <2>5, <3>1
    <3>2. CASE Release(q)
      BY <2>6, <3>2
    <3>3. CASE LeaveLoop(q) \/ EndRound(q)
      BY <2>8, <3>3
    <3> QED BY <2>10, <3>1, <3>2, <3>3 DEF RunStep
  <2>11. CASE \E q \in Runs : RunStep(q) \/ Throw(q)
    BY <2>8, <2>10, <2>11
  <2>12. CASE \E q \in Runs, l \in Leases : Start(q, l)
    BY <2>8, <2>12
  <2>13. CASE \E q \in Runs, o \in Operations : Answer(q, o) \/ Settle(q, o)
    <3>1. PICK q \in Runs, o \in Operations : Answer(q, o) \/ Settle(q, o)
      BY <2>13
    <3>2. CASE Answer(q, o)
      BY <2>14, <3>2
    <3>3. CASE Settle(q, o)
      BY <2>7, <3>3
    <3> QED BY <3>1, <3>2, <3>3
  <2> QED BY <2>9, <2>11, <2>12, <2>13
<1>2. SupersededRunIsQuiet <=> [][A]_vars
  BY DEF SupersededRunIsQuiet
<1> QED BY <1>1, <1>2, PollCorrect, PTL DEF Spec

-----------------------------------------------------------------------------
(* The polls implement the watch                                           *)

\* What the watch sees of the rows
Shown(rows) ==
  [o \in Operations |-> [status |-> rows[o].status, state |-> rows[o].state]]

\* The watch uses the same terms.
LEMMA SameTerms ==
  /\ Watch!Finals = Finals /\ Watch!NoState = NoState
  /\ Watch!GoogleStates = GoogleStates
  /\ \A a : Watch!Outcome(a) = Outcome(a) /\ Watch!CommandState(a) = CommandState(a)
  /\ \A a, b : Watch!Follows(a, b) <=> Follows(a, b)
  /\ \A c, n : Watch!TerminalOf(c, n) = TerminalOf(c, n)
  /\ \A S : Watch!Cardinality(S) = Cardinality(S)
<1>9. \A S : Watch!Cardinality(S) = Cardinality(S)
  BY DEF Watch!Cardinality, Cardinality
<1>1. Watch!Finals = Finals /\ Watch!NoState = NoState
  BY DEF Watch!Finals, Finals, Watch!NoState, NoState
<1>2. Watch!LastWords = LastWords
  BY DEF Watch!LastWords, LastWords
<1>3. Watch!GoogleStates = GoogleStates
  BY <1>2 DEF Watch!GoogleStates, GoogleStates
<1>4. ASSUME NEW a PROVE Watch!Outcome(a) = Outcome(a)
  BY <1>2, <1>3 DEF Watch!Outcome, Outcome
<1>5. ASSUME NEW a PROVE Watch!CommandState(a) = CommandState(a)
  BY <1>1, <1>2 DEF Watch!CommandState, CommandState
<1>6. \A a : Watch!Stage(a) = Stage(a)
  BY <1>2 DEF Watch!Stage, Stage
<1>7. \A a, b : Watch!Follows(a, b) <=> Follows(a, b)
  BY <1>6 DEF Watch!Follows, Follows
<1>8. ASSUME NEW c, NEW n PROVE Watch!TerminalOf(c, n) = TerminalOf(c, n)
  BY DEF Watch!TerminalOf, TerminalOf
<1> QED BY <1>1, <1>3, <1>4, <1>5, <1>7, <1>8, <1>9

LEMMA ShownRows ==
  ASSUME NEW rows
  PROVE  /\ Watch!IssuedIn(Shown(rows)) = IssuedIn(rows)
         /\ Watch!RowCounts(Shown(rows)) = Counts(rows)
<1>1. \A o \in Operations : Shown(rows)[o].status = rows[o].status
  BY DEF Shown
<1>2. Watch!IssuedIn(Shown(rows)) = IssuedIn(rows)
  BY <1>1 DEF Watch!IssuedIn, IssuedIn
<1>3. \A s : {o \in Operations : Shown(rows)[o].status = s}
            = {o \in Operations : rows[o].status = s}
  BY <1>1
<1>4. Watch!RowCounts(Shown(rows)) = Counts(rows)
  <2>1. \A s \in Finals : Cardinality({o \in Operations : Shown(rows)[o].status = s})
                         = Cardinality({o \in Operations : rows[o].status = s})
    BY <1>3
  <2>2. Watch!RowCounts(Shown(rows)) =
          [s \in Finals |-> Cardinality({o \in Operations : Shown(rows)[o].status = s})]
    BY SameTerms DEF Watch!RowCounts
  <2> QED BY <2>1, <2>2 DEF Counts
<1> QED BY <1>2, <1>4

\* The rows and the job change as the watch says.
LEMMA ShownBecome ==
  ASSUME NEW rows, status = "awaiting-devices", RowsBecome(rows)
  PROVE  /\ Shown(op)' = Shown(rows)
         /\ status' = IF Watch!IssuedIn(Shown(rows)) = {}
                      THEN Watch!TerminalOf(Watch!RowCounts(Shown(rows)),
                                            Watch!Cardinality(Operations))
                      ELSE status
<1>1. op' = rows /\ status' = IF IssuedIn(rows) # {} THEN status
                              ELSE TerminalOf(Counts(rows), Cardinality(Operations))
  BY DEF RowsBecome, Completes
<1>2. Shown(op)' = Shown(rows)
  BY <1>1 DEF Shown
<1> QED BY <1>1, <1>2, ShownRows, SameTerms

LEMMA WatchInit == Init => Watch!Init
<1> SUFFICES ASSUME Init PROVE Watch!Init
  OBVIOUS
<1>1. Shown(op) \in [Operations ->
                {[status |-> "issued", state |-> "pending-delivery"]}
                \cup [status : Finals \ {"succeeded", "expired"},
                      state : {NoState}]]
  <2> SUFFICES ASSUME NEW o \in Operations
               PROVE  Shown(op)[o] \in
                {[status |-> "issued", state |-> "pending-delivery"]}
                \cup [status : Finals \ {"succeeded", "expired"},
                      state : {NoState}]
    BY DEF Shown
  <2>1. CASE op[o] = [status |-> "issued", state |-> "pending-delivery",
                      known |-> FALSE, over |-> FALSE, due |-> FALSE, attempt |-> None]
    BY <2>1 DEF Shown
  <2>2. CASE op[o] \in [status : Finals \ {"succeeded", "expired"}, state : {NoState},
                        known : {FALSE}, over : {FALSE}, due : {FALSE}, attempt : {None}]
    BY <2>2 DEF Shown
  <2> QED BY <2>1, <2>2 DEF Init
<1>2. /\ {o \in Operations : op[o].known} = {}
      /\ {o \in Operations : op[o].over} = {}
  <2> SUFFICES ASSUME NEW o \in Operations PROVE op[o].known = FALSE /\ op[o].over = FALSE
    OBVIOUS
  <2>1. CASE op[o] = [status |-> "issued", state |-> "pending-delivery",
                      known |-> FALSE, over |-> FALSE, due |-> FALSE, attempt |-> None]
    BY <2>1
  <2>2. CASE op[o] \in [status : Finals \ {"succeeded", "expired"}, state : {NoState},
                        known : {FALSE}, over : {FALSE}, due : {FALSE}, attempt : {None}]
    BY <2>2
  <2> QED BY <2>1, <2>2 DEF Init
<1>3. Watch!IssuedIn(Shown(op)) # {}
  BY ShownRows DEF Init
<1> QED BY <1>1, <1>2, <1>3, SameTerms DEF Init, Watch!Init, Shown

\* The claim gives up the commands whose watch is over.
LEMMA ClaimWatches ==
  ASSUME PollInv, NEW r \in Runs, Claim(r)
  PROVE  [Watch!Next]_(Watch!vars)
<1>1. TypeOK /\ status = "awaiting-devices" /\ google' = google
      /\ IssuedIn(op) # {}
  BY DEF PollInv, AwaitingHasIssued, Claim, Holds
<1>2. PICK rows : /\ RowsBecome(rows)
                  /\ \A o \in Operations : /\ rows[o].status = Sweep[o].status
                                            /\ rows[o].state = op[o].state
                                            /\ rows[o].known = op[o].known
                                            /\ rows[o].over = op[o].over
  <2>1. PICK S \in SUBSET Operations : RowsBecome(Sweep) \/ RowsBecome(Claimed(r, S))
    BY DEF Claim, Claimed
  <2> QED BY <1>1, <2>1, SweepType, ClaimedType
<1> DEFINE S == {o \in IssuedIn(op) : op[o].over}
<1>3. Shown(rows) = [o \in Operations |->
                       IF o \in S THEN [Shown(op)[o] EXCEPT !.status = "unknown"]
                       ELSE Shown(op)[o]]
  BY <1>1, <1>2, SweepType DEF Shown, IssuedIn
<1>4. /\ Shown(op)' = Shown(rows)
      /\ status' = IF Watch!IssuedIn(Shown(rows)) = {}
                   THEN Watch!TerminalOf(Watch!RowCounts(Shown(rows)),
                                         Watch!Cardinality(Operations))
                   ELSE status
  BY <1>1, <1>2, ShownBecome
<1>5. op' = rows
  BY <1>2 DEF RowsBecome
<1>6. /\ {o \in Operations : op'[o].known} = {o \in Operations : op[o].known}
      /\ {o \in Operations : op'[o].over} = {o \in Operations : op[o].over}
  BY <1>2, <1>5
<1>7. S \in SUBSET ({o \in Operations : op[o].over} \cap Watch!IssuedIn(Shown(op)))
  BY ShownRows DEF IssuedIn
<1>8. CASE S = {}
  <2>1. Shown(rows) = Shown(op)
    BY <1>3, <1>8 DEF Shown
  <2>2. status' = status
    BY <1>1, <1>2, <2>1, ShownRows DEF RowsBecome, Completes
  <2> QED BY <1>1, <1>5, <1>6, <2>1, <2>2 DEF Watch!vars, Shown
<1>9. CASE S # {}
  <2> DEFINE seen == [o \in Operations |->
                        IF o \in S THEN [Shown(op)[o] EXCEPT !.status = "unknown"]
                        ELSE Shown(op)[o]]
  <2>1. /\ Shown(op)' = seen
        /\ status' = IF Watch!IssuedIn(seen) = {}
                     THEN Watch!TerminalOf(Watch!RowCounts(seen),
                                           Watch!Cardinality(Operations))
                     ELSE status
    BY <1>3, <1>4
  <2> HIDE DEF S
  <2>2. Watch!GiveUp
    BY <1>1, <1>6, <1>7, <1>9, <2>1 DEF Watch!GiveUp, Watch!RowsBecome, Shown
  <2> QED BY <2>2 DEF Watch!Next
<1> QED BY <1>8, <1>9

\* A settlement observes an answer of Google.
LEMMA SettleWatches ==
  ASSUME PollInv, NEW r \in Runs, NEW o \in Operations, Settle(r, o)
  PROVE  [Watch!Next]_(Watch!vars)
<1> DEFINE a == run[r].got[o]
<1>1. TypeOK /\ AnswersInStep /\ a \in GoogleStates /\ google' = google
  BY DEF PollInv, Settle
<1>2. CASE ~Settles(r, o)
  <2>1. UNCHANGED dbVars
    BY <1>2 DEF Settle
  <2> QED BY <1>1, <2>1 DEF dbVars, Watch!vars
<1>3. CASE Settles(r, o)
  <2>1. PICK names \in BOOLEAN :
          /\ names => a # "GONE"
          /\ \E over \in WatchAfter(o, names) :
               RowsBecome([op EXCEPT ![o] = RowAfter(o, a, names, over)])
    BY <1>3 DEF Settle
  <2>2. PICK over \in WatchAfter(o, names) :
          RowsBecome([op EXCEPT ![o] = RowAfter(o, a, names, over)])
    BY <2>1
  <2>3. over \in BOOLEAN
    BY <1>1, <2>2, WatchAfterType
  <2> DEFINE row == RowAfter(o, a, names, over)
             rows == [op EXCEPT ![o] = row]
  <2>4. /\ row.status = IF Outcome(a) = "issued" /\ over THEN "unknown" ELSE Outcome(a)
        /\ row.state = IF Outcome(a) = "issued" THEN CommandState(a) ELSE op[o].state
        /\ row.known = (op[o].known \/ names)
        /\ row.over = over
    BY <1>1, <2>3, RowAfterType
  <2> HIDE DEF row
  <2>5. rows[o] = row /\ \A p \in Operations \ {o} : rows[p] = op[p]
    BY <1>1 DEF TypeOK
  <2>6. /\ op[o].status = "issued" /\ op[o].attempt = r
        /\ status = "awaiting-devices" /\ RowsBecome(rows) /\ op' = rows
    BY <1>3, <2>2 DEF Settles, Holds, RowsBecome, row
  <2> HIDE DEF rows
  <2>7. Shown(op)[o] = [status |-> "issued", state |-> op[o].state]
    BY <2>6 DEF Shown
  <2>8. \E t \in GoogleStates : CommandState(t) = Shown(op)[o].state /\ (a = t \/ Follows(t, a))
    <3>1. PICK t \in GoogleStates : CommandState(t) = op[o].state /\ AtMost(t, a)
      BY <1>1, <2>6 DEF AnswersInStep, Shows
    <3> QED BY <2>7, <3>1 DEF AtMost
  <2>9. a = google[o] \/ Follows(a, google[o])
    BY <1>1 DEF AnswersInStep, AtMost
  <2> DEFINE Known(p) == {q \in Operations : p[q].known}
             Over(p) == {q \in Operations : p[q].over}
  <2>10. Known(rows) = IF names THEN Known(op) \cup {o} ELSE Known(op)
    BY <2>4, <2>5
  <2>11. Over(rows) = IF over THEN Over(op) \cup {o} ELSE Over(op) \ {o}
    BY <2>4, <2>5
  <2>12. IF names /\ o \notin Known(op)
         THEN Over(rows) \in {Over(op) \cup {o}, IF ~LongWatch THEN Over(op) \ {o} ELSE Over(op)}
         ELSE Over(rows) = Over(op)
    <3>1. op[o].over \in BOOLEAN /\ op[o].known \in BOOLEAN
      BY <1>1 DEF TypeOK, OperationRow
    <3>2. CASE names /\ o \notin Known(op)
      <4>1. ~op[o].known
        BY <3>2
      <4>2. over = op[o].over \/ over \/ ~LongWatch
        BY <2>2, <3>2, <4>1 DEF WatchAfter
      <4> QED BY <2>3, <2>11, <3>1, <3>2, <4>2
    <3>3. CASE ~names \/ o \in Known(op)
      <4>1. over = op[o].over
        BY <2>2, <3>3 DEF WatchAfter
      <4> QED BY <2>11, <3>1, <3>3, <4>1
    <3> QED BY <3>2, <3>3
  <2>13. o \in Over(rows) <=> over
    BY <2>11
  <2>14. Shown(rows) = [Shown(op) EXCEPT ![o] =
            [status |-> IF Outcome(a) = "issued" /\ o \in Over(rows)
                        THEN "unknown" ELSE Outcome(a),
             state |-> IF Outcome(a) = "issued"
                       THEN CommandState(a) ELSE @.state]]
    BY <2>4, <2>5, <2>7, <2>13 DEF Shown
  <2>15. /\ Shown(op)' = Shown(rows)
         /\ status' = IF Watch!IssuedIn(Shown(rows)) = {}
                      THEN Watch!TerminalOf(Watch!RowCounts(Shown(rows)),
                                            Watch!Cardinality(Operations))
                      ELSE status
    BY <2>6, ShownBecome
  <2> HIDE DEF a, Known, Over
  <2>16. Watch!Observe(o)
    <3>1. a \in Watch!GoogleStates /\ google' = google
      BY <1>1, SameTerms
    <3>2. Shown(op)[o].status = "issued"
      BY <2>7
    <3>3. a = google[o] \/ Watch!Follows(a, google[o])
      BY <2>9, SameTerms
    <3> DEFINE seen == [Shown(op) EXCEPT ![o] =
            [status |-> IF Watch!Outcome(a) = "issued" /\ o \in Over(rows)
                        THEN "unknown" ELSE Watch!Outcome(a),
             state |-> IF Watch!Outcome(a) = "issued"
                       THEN Watch!CommandState(a) ELSE @.state]]
    <3>5. seen = Shown(rows)
      BY <2>14, SameTerms
    <3>6. /\ Shown(op)' = seen
          /\ status' = IF Watch!IssuedIn(seen) = {}
                       THEN Watch!TerminalOf(Watch!RowCounts(seen),
                                             Watch!Cardinality(Operations))
                       ELSE status
      BY <2>15, <3>5
    <3>7. /\ Known(op)' = IF names THEN Known(op) \cup {o} ELSE Known(op)
          /\ Over(op)' = Over(rows)
      BY <2>6, <2>10
    <3>8. IF names /\ o \notin Known(op)
          THEN Over(op)' \in {Over(op) \cup {o}, IF ~LongWatch THEN Over(op) \ {o} ELSE Over(op)}
          ELSE Over(op)' = Over(op)
      BY <2>12, <3>7
    <3>9. seen = [Shown(op) EXCEPT ![o] =
            [status |-> IF Watch!Outcome(a) = "issued" /\ o \in Over(op)'
                        THEN "unknown" ELSE Watch!Outcome(a),
             state |-> IF Watch!Outcome(a) = "issued"
                       THEN Watch!CommandState(a) ELSE @.state]]
      BY <3>7
    <3> HIDE DEF seen
    <3>10. /\ Shown(op)' = [Shown(op) EXCEPT ![o] =
                [status |-> IF Watch!Outcome(a) = "issued" /\ o \in Over(op)'
                            THEN "unknown" ELSE Watch!Outcome(a),
                 state |-> IF Watch!Outcome(a) = "issued"
                           THEN Watch!CommandState(a) ELSE @.state]]
           /\ status' = IF Watch!IssuedIn(Shown(op)') = {}
                        THEN Watch!TerminalOf(Watch!RowCounts(Shown(op)'),
                                              Watch!Cardinality(Operations))
                        ELSE status
      BY <3>6, <3>9
    <3>11. names \in BOOLEAN /\ (names => a # "GONE")
      BY <2>1
    <3>12. /\ a = google[o] \/ Watch!Follows(a, google[o])
           /\ \E t \in Watch!GoogleStates :
                /\ Watch!CommandState(t) = Shown(op)[o].state
                /\ a = t \/ Watch!Follows(t, a)
           /\ names => a # "GONE"
           /\ Known(op)' = IF names THEN Known(op) \cup {o} ELSE Known(op)
           /\ IF names /\ o \notin Known(op)
              THEN Over(op)' \in {Over(op) \cup {o}, IF ~LongWatch THEN Over(op) \ {o} ELSE Over(op)}
              ELSE Over(op)' = Over(op)
      <4>1. Known(op)' = IF names THEN Known(op) \cup {o} ELSE Known(op)
        BY <3>7
      <4>2. \E t \in Watch!GoogleStates :
                /\ Watch!CommandState(t) = Shown(op)[o].state
                /\ a = t \/ Watch!Follows(t, a)
        <5>1. PICK t \in GoogleStates : CommandState(t) = Shown(op)[o].state /\ (a = t \/ Follows(t, a))
          BY <2>8
        <5>2. /\ t \in Watch!GoogleStates
              /\ Watch!CommandState(t) = Shown(op)[o].state
              /\ a = t \/ Watch!Follows(t, a)
          BY <5>1, SameTerms
        <5> QED BY <5>2
      <4>3. a = google[o] \/ Watch!Follows(a, google[o])
        BY <3>3
      <4>4. IF names /\ o \notin Known(op)
              THEN Over(op)' \in {Over(op) \cup {o}, IF ~LongWatch THEN Over(op) \ {o} ELSE Over(op)}
              ELSE Over(op)' = Over(op)
        BY <3>8
      <4>5. names => a # "GONE"
        BY <3>11
      <4> HIDE DEF Shown
      <4> QED BY <4>1, <4>2, <4>3, <4>4, <4>5
    <3> QED BY <3>1, <3>2, <3>10, <3>12
            DEF Watch!Observe, Watch!RowsBecome, Shown, Known, Over
  <2> QED BY <2>16 DEF Watch!Next
<1> QED BY <1>2, <1>3

LEMMA WatchStep == PollInv /\ [Next]_vars => [Watch!Next]_(Watch!vars)
<1> SUFFICES ASSUME PollInv, [Next]_vars PROVE [Watch!Next]_(Watch!vars)
  OBVIOUS
<1>1. TypeOK
  BY DEF PollInv
<1>2. ASSUME UNCHANGED <<status, google>>,
             \A o \in Operations : /\ op'[o].status = op[o].status
                                   /\ op'[o].state = op[o].state
                                   /\ op'[o].known = op[o].known
                                   /\ op'[o].over = op[o].over
      PROVE  UNCHANGED Watch!vars
  BY <1>2 DEF Watch!vars
<1>3. ASSUME NEW o \in Operations, BecomesDue(o) \/ ClaimLapses(o)
      PROVE  UNCHANGED Watch!vars
  <2>1. CASE BecomesDue(o)
    BY <1>1, <1>2, <2>1 DEF BecomesDue, TypeOK, OperationRow
  <2>2. CASE ClaimLapses(o)
    BY <1>1, <1>2, <2>2 DEF ClaimLapses, TypeOK, OperationRow
  <2> QED BY <1>3, <2>1, <2>2
<1>4. ASSUME NEW o \in Operations, WatchPasses(o) PROVE Watch!WatchEnds(o)
  <2>1. /\ op'[o].over = TRUE /\ op'[o].status = op[o].status
        /\ op'[o].state = op[o].state /\ op'[o].known = op[o].known
        /\ \A p \in Operations \ {o} : op'[p] = op[p]
    BY <1>1, <1>4 DEF WatchPasses, TypeOK, OperationRow
  <2>2. Shown(op)' = Shown(op)
    BY <2>1 DEF Shown
  <2>3. {p \in Operations : op'[p].known} = {p \in Operations : op[p].known}
    BY <2>1
  <2>4. {p \in Operations : op'[p].over} = {p \in Operations : op[p].over} \cup {o}
    BY <2>1
  <2>5. o \in Watch!IssuedIn(Shown(op)) /\ ~op[o].over /\ UNCHANGED <<status, google>>
    BY <1>4, ShownRows DEF WatchPasses, IssuedIn
  <2> QED BY <2>2, <2>3, <2>4, <2>5 DEF Watch!WatchEnds, Shown
<1>5. ASSUME NEW o \in Operations, GoogleMoves(o) PROVE Watch!GoogleMoves(o)
  <2>1. PICK s \in GoogleStates :
          Follows(google[o], s) /\ google' = [google EXCEPT ![o] = s]
    BY <1>5, ConstantsAssumption DEF GoogleMoves
  <2>2. UNCHANGED <<status, op>>
    BY <1>5 DEF GoogleMoves, dbVars
  <2> QED BY <2>1, <2>2, SameTerms DEF Watch!GoogleMoves
<1>6. ASSUME UNCHANGED <<status, op, google>> PROVE UNCHANGED Watch!vars
  BY <1>6 DEF Watch!vars
<1>7. ASSUME NEW r \in Runs, RunStep(r) \/ Throw(r) PROVE [Watch!Next]_(Watch!vars)
  BY <1>6, <1>7, ClaimWatches
     DEF RunStep, LeaveLoop, EndRound, Release, Throw, dbVars
<1>8. CASE UNCHANGED vars
  BY <1>6, <1>8 DEF vars, dbVars
<1>9. CASE \E l \in Leases : Due(l) \/ FlowEnds(l)
  BY <1>6, <1>9 DEF Due, FlowEnds, dbVars
<1>10. CASE \E r \in Runs, l \in Leases : Start(r, l)
  BY <1>6, <1>10 DEF Start, dbVars
<1>11. CASE \E r \in Runs, o \in Operations : Answer(r, o)
  BY <1>6, <1>11 DEF Answer, dbVars
<1>12. CASE LeaseLapses
  BY <1>6, <1>12 DEF LeaseLapses
<1> QED BY <1>3, <1>4, <1>5, <1>7, <1>8, <1>9, <1>10, <1>11, <1>12, SettleWatches
        DEF Next, Watch!Next

\* The leases, claims, flows and requests implement the safety of the watch:
\* what a row shows never goes back or ahead of Google, a command settles once
\* and with a reason, and the job ends in the step that settles its last one.
THEOREM WatchSafetyCorrect == Spec => WatchSafety
BY WatchInit, WatchStep, PollCorrect, PTL DEF Spec, WatchSafety

=============================================================================
