--------------------------- MODULE FileJobsProofs ---------------------------
(***************************************************************************)
(* The inductive invariant of FileJobs and its safety properties, proved   *)
(* for any number of requests and any length of a report.                  *)
(***************************************************************************)
EXTENDS FileJobs, FiniteSetTheorems, TLAPS

-----------------------------------------------------------------------------
(* What the requests do                                                    *)

\* Request r moves to a phase, and everything else of the requests stays.
Moves(r, pc) ==
  /\ run'[r].pc = pc /\ run'[r].attempt = run[r].attempt
  /\ \A q \in Requests \ {r} : run'[q] = run[q]

LEMMA BecomesMoves ==
  ASSUME TypeOK, NEW r \in Requests,
         NEW pc \in Working \cup {"none", "finish", "discard", "over"},
         Becomes(r, pc)
  PROVE  /\ run' \in [Requests -> FileRun] /\ Moves(r, pc)
         /\ run'[r].batch = run[r].batch /\ run'[r].file = run[r].file
         /\ run'[r].failing = run[r].failing
BY DEF TypeOK, Becomes, FileRun, Moves

LEMMA ToFinishMoves ==
  ASSUME TypeOK, NEW r \in Requests, NEW file \in BOOLEAN, NEW failing \in BOOLEAN,
         ToFinish(r, file, failing)
  PROVE  /\ run' \in [Requests -> FileRun] /\ Moves(r, "finish")
         /\ run'[r].batch = run[r].batch /\ run'[r].file = file
         /\ run'[r].failing = failing
BY DEF TypeOK, ToFinish, FileRun, Moves

LEMMA ArrivesMoves ==
  ASSUME TypeOK, NEW r \in Requests, NEW attempt \in Attempts,
         NEW pc \in Working \cup {"finish"}, NEW failing \in BOOLEAN,
         Arrives(r, attempt, pc, failing)
  PROVE  /\ run' \in [Requests -> FileRun]
         /\ run'[r] = [pc |-> pc, attempt |-> attempt, batch |-> 0,
                       file |-> FALSE, failing |-> failing]
         /\ \A q \in Requests \ {r} : run'[q] = run[q]
<1>1. 0 \in 0 .. Batches
  BY ConstantsAssumption
<1> QED BY <1>1 DEF TypeOK, Arrives, FileRun, NoRun

-----------------------------------------------------------------------------
(* The inductive invariant                                                 *)

LEMMA FiniteRequests ==
  ASSUME NEW S \in SUBSET Requests
  PROVE  IsFiniteSet(S) /\ Cardinality(S) \in Nat
         /\ Cardinality(S) <= Cardinality(Requests)
BY ConstantsAssumption, FS_Subset, FS_CardinalityType

LEMMA AttemptIsNat == \A a \in Attempts : a \in Nat
BY DEF Attempts

LEMMA AtMostOne ==
  ASSUME NEW S, \A r, s \in S : r = s
  PROVE  Cardinality(S) <= 1
<1>1. CASE S = {}
  BY <1>1, FS_EmptySet
<1>2. ASSUME NEW s \in S PROVE Cardinality(S) = 1
  <2>1. S = {s}
    OBVIOUS
  <2> QED BY <2>1, FS_Singleton
<1> QED BY <1>1, <1>2

LEMMA InitInv == Init => FileInv
<1> SUFFICES ASSUME Init PROVE FileInv
  OBVIOUS
<1>1. Cardinality(Requests) \in Nat
  BY ConstantsAssumption, FS_CardinalityType
<1>2. 0 \in Attempts /\ 0 \in 0 .. Batches
  BY <1>1, ConstantsAssumption DEF Attempts
<1>3. job \in Header /\ NoRun \in FileRun
  BY <1>2 DEF Init, Header, FileRun, Statuses, Leases, NoRun
<1>4. TypeOK
  BY <1>3 DEF Init, TypeOK
<1>5. \A r \in Requests : run[r] = NoRun
  BY DEF Init
<1>6. {r \in Requests : run[r].pc # "none"} = {}
  BY <1>5 DEF NoRun
<1>7. AttemptsUsed
  <2>1. Cardinality({r \in Requests : run[r].pc # "none"}) = 0
    BY <1>6, FS_EmptySet
  <2>2. job.attempt = 0 /\ job.lease = "none"
    BY DEF Init
  <2> QED BY <1>5, <2>1, <2>2 DEF AttemptsUsed, NoRun
<1>8. StampIsPermission
  BY <1>5 DEF Init, StampIsPermission, NoRun
<1>9. ReportOfOneAttempt
  <2>1. Cardinality({}) <= 1 /\ Cardinality({None}) <= 1
    BY FS_EmptySet, FS_Singleton
  <2> QED BY <2>1 DEF Init, ReportOfOneAttempt
<1>10. FileKept /\ FileBehindFinish
  BY <1>5 DEF Init, FileKept, FileBehindFinish, NoRun
<1>11. ReportInStep
  BY <1>5 DEF Init, ReportInStep, NoRun
<1>12. OneSheet
  BY AtMostOne DEF Init, OneSheet
<1> QED BY <1>4, <1>7, <1>8, <1>9, <1>10, <1>11, <1>12 DEF FileInv

\* No step of a run but a claim moves the attempt.
LEMMA UsedKept ==
  ASSUME AttemptsUsed, TypeOK, job'.attempt = job.attempt,
         job'.lease = "live" => job'.claimed,
         \A r \in Requests : /\ run[r].pc # "none" => run'[r].pc # "none"
                             /\ run'[r].attempt <= job.attempt
  PROVE  AttemptsUsed'
<1> DEFINE U == {r \in Requests : run[r].pc # "none"}
           V == {r \in Requests : run'[r].pc # "none"}
<1>1. U \subseteq V /\ V \subseteq Requests /\ U \subseteq Requests
  OBVIOUS
<1>2. IsFiniteSet(V) /\ Cardinality(V) \in Nat /\ Cardinality(U) \in Nat
  BY <1>1, FiniteRequests
<1>3. Cardinality(U) <= Cardinality(V)
  BY <1>1, <1>2, FS_Subset
<1>4. job.attempt \in Nat /\ job.attempt <= Cardinality(U)
  BY AttemptIsNat DEF AttemptsUsed, TypeOK, Header
<1>5. job.attempt <= Cardinality(V)
  BY <1>2, <1>3, <1>4
<1> QED BY <1>5 DEF AttemptsUsed

\* The database stays as it is, or the job ends without a result.
DbRests ==
  UNCHANGED dbVars \/ (Running /\ \E s \in {"failed", "cancelled"} : Ends(s))

\* Request r, which has not ended, goes to a phase in which it neither links a
\* source nor creates a Sheet; what it finishes with is there.
RunRests(r) ==
  /\ run' \in [Requests -> FileRun]
  /\ run[r].pc # "over"
  /\ run'[r].pc \notin {"none", "read", "create"}
  /\ run'[r].attempt <= job.attempt
  /\ kind = "import" /\ Running /\ run'[r].attempt = job.attempt
       => {job.attempt} \X (1 .. run'[r].batch) \subseteq lines
  /\ run'[r].pc = "publish" => kind = "csv"
  /\ run'[r].pc = "finish" /\ run'[r].file =>
       /\ kind = "csv" => files'[r] = "published"
       /\ kind = "sheet" => r \in sheets
       /\ kind = "import" => run'[r].batch = Batches
  /\ \A q \in Requests \ {r} : run'[q] = run[q] /\ files'[q] = files[q]

\* The job after the database has rested
LEMMA JobRests ==
  ASSUME FileInv, DbRests
  PROVE  /\ job' \in Header /\ lines' \subseteq lines
         /\ source' = source /\ result' = result
         /\ job'.cancel = job.cancel /\ job'.claimed = job.claimed
         /\ job'.lease = job.lease /\ job'.stamped = job.stamped
         /\ job'.attempt = job.attempt
         /\ \/ job'.status = job.status /\ lines' = lines
            \/ /\ job.status = "running" /\ job'.status \in {"failed", "cancelled"}
               /\ lines' = {}
BY DEF FileInv, TypeOK, DbRests, dbVars, Running, Ends, Header, Statuses

LEMMA RestInv ==
  ASSUME FileInv, DbRests, UNCHANGED <<kind, sheets>>,
         files' \in [Requests -> {"none", "published", "removed"}],
         UNCHANGED <<run, files>> \/ \E r \in Requests : RunRests(r)
  PROVE  FileInv'
<1>1. run' \in [Requests -> FileRun]
  BY DEF RunRests, FileInv, TypeOK
<1>2. TypeOK'
  BY <1>1, JobRests DEF FileInv, TypeOK
<1>3. ASSUME NEW q \in Requests
      PROVE  \/ run'[q] = run[q] /\ files'[q] = files[q]
             \/ RunRests(q)
  BY DEF RunRests
<1>4. AttemptsUsed'
  <2>1. \A q \in Requests : /\ run[q].pc # "none" => run'[q].pc # "none"
                            /\ run'[q].attempt <= job.attempt
    BY <1>3 DEF RunRests, FileInv, AttemptsUsed
  <2> QED BY <2>1, JobRests, UsedKept DEF FileInv, AttemptsUsed
<1>5. StampIsPermission'
  <2>1. \A q \in Requests : run'[q].pc = "create" => run[q].pc = "create"
    BY <1>3 DEF RunRests
  <2> QED BY <2>1, JobRests DEF FileInv, StampIsPermission
<1>6. FileBehindFinish'
  <2>1. ASSUME NEW q \in Requests, run'[q].pc = "finish", run'[q].file
        PROVE  /\ kind = "csv" => files'[q] = "published"
               /\ kind = "sheet" => q \in sheets
               /\ kind = "import" => run'[q].batch = Batches
    BY <1>3, <2>1 DEF RunRests, FileInv, FileBehindFinish
  <2>2. result # None /\ kind # "import" => run'[result].pc = "over"
    BY <1>3 DEF RunRests, FileInv, FileBehindFinish, TypeOK
  <2>3. \A q \in Requests : run'[q].pc = "publish" => kind = "csv"
    BY <1>3 DEF RunRests, FileInv, FileBehindFinish
  <2> QED BY <2>1, <2>2, <2>3, JobRests DEF FileBehindFinish
<1>7. FileKept'
  <2>1. result # None /\ kind = "csv" => files'[result] = "published"
    BY <1>3 DEF RunRests, FileInv, FileBehindFinish, FileKept, TypeOK
  <2>2. result # None /\ kind = "csv" => run'[result].pc = "over"
    BY <1>6, JobRests DEF FileBehindFinish
  <2>3. result # None <=> job'.status = "completed"
    BY JobRests DEF FileInv, FileKept
  <2> QED BY <2>1, <2>2, <2>3, JobRests DEF FileInv, FileKept
<1>8. ReportOfOneAttempt'
  BY JobRests DEF FileInv, ReportOfOneAttempt
<1>9. ReportInStep'
  <2>1. ASSUME NEW q \in Requests, kind = "import", Running',
               run'[q].attempt = job.attempt
        PROVE  {job.attempt} \X (1 .. run'[q].batch) \subseteq lines'
    <3>1. Running /\ lines' = lines
      BY <2>1, JobRests DEF Running
    <3> QED BY <1>3, <2>1, <3>1 DEF RunRests, FileInv, ReportInStep
  <2>2. \A q \in Requests : run'[q].pc = "read" => run'[q] = run[q]
    BY <1>3 DEF RunRests
  <2>3. \A q, s \in Requests :
          /\ run'[q].pc = "read" /\ run'[s].pc = "read"
          /\ run'[q].attempt = run'[s].attempt
          => q = s
    BY <2>2 DEF FileInv, ReportInStep
  <2>4. \A q \in Requests : run'[q].pc = "read" =>
          kind = "import" /\ (run'[q].attempt = job.attempt => source = {})
    BY <2>2 DEF FileInv, ReportInStep
  <2>5. ~job.claimed => lines' = {}
    BY JobRests DEF FileInv, ReportInStep
  <2> QED BY <2>1, <2>3, <2>4, <2>5, JobRests DEF ReportInStep
<1>10. OneSheet'
  BY JobRests DEF FileInv, OneSheet
<1> QED BY <1>2, <1>4, <1>5, <1>6, <1>7, <1>8, <1>9, <1>10 DEF FileInv

-----------------------------------------------------------------------------
(* The steps, one by one                                                   *)

\* A run that only changes its phase
LEMMA PhaseInv ==
  ASSUME FileInv, NEW r \in Requests, DbRests, UNCHANGED <<kind, sheets>>,
         files' \in [Requests -> {"none", "published", "removed"}],
         \A q \in Requests \ {r} : files'[q] = files[q],
         run[r].pc # "over",
         run' \in [Requests -> FileRun],
         NEW pc \in {"work", "staged", "publish", "finish", "discard", "over"},
         Moves(r, pc), run'[r].batch = run[r].batch,
         pc = "publish" => kind = "csv",
         pc = "finish" /\ run'[r].file =>
           /\ kind = "csv" => files'[r] = "published"
           /\ kind = "sheet" => r \in sheets
           /\ kind = "import" => run'[r].batch = Batches
  PROVE  FileInv'
<1>1. RunRests(r)
  BY DEF RunRests, Moves, FileInv, AttemptsUsed, ReportInStep
<1> QED BY <1>1, RestInv

LEMMA DbUnchanged == UNCHANGED dbVars => DbRests
BY DEF DbRests

\* The steps of a run that leave the database alone
LEMMA QuietInv ==
  ASSUME FileInv, NEW r \in Requests,
         \/ SeesDone(r) \/ WorkFails(r) \/ Quit(r) \/ Stage(r) \/ Prepare(r)
         \/ Publish(r) \/ FillSheet(r) \/ Report(r) \/ FinishFails(r) \/ Discard(r)
  PROVE  FileInv'
<1>1. TypeOK
  BY DEF FileInv
<1>2. run[r].pc # "over" /\ UNCHANGED <<kind, dbVars, sheets>> /\ DbRests
  BY DbUnchanged DEF SeesDone, WorkFails, Quit, Stage, Prepare, Publish, FillSheet, Report,
         FinishFails, Discard, Working
<1>3. /\ files' \in [Requests -> {"none", "published", "removed"}]
      /\ \A q \in Requests \ {r} : files'[q] = files[q]
  BY <1>1 DEF TypeOK, SeesDone, WorkFails, Quit, Stage, Prepare, Publish, FillSheet,
              Report, FinishFails, Discard
<1>4. CASE SeesDone(r) \/ WorkFails(r)
  <2>1. \E f \in BOOLEAN : ToFinish(r, FALSE, f)
    BY <1>4 DEF SeesDone, WorkFails
  <2> QED BY <1>1, <1>2, <1>3, <2>1, ToFinishMoves, PhaseInv
<1>5. CASE Quit(r) \/ Stage(r) \/ Prepare(r) \/ Discard(r)
  <2>1. \E pc \in {"over", "staged", "publish"} :
          Becomes(r, pc) /\ (pc = "publish" => kind = "csv")
    BY <1>5 DEF Quit, Stage, Prepare, Discard
  <2> QED BY <1>1, <1>2, <1>3, <2>1, BecomesMoves, PhaseInv DEF Working
<1>6. CASE Publish(r)
  <2>1. run[r].pc = "publish" /\ files'[r] = "published" /\ ToFinish(r, TRUE, FALSE)
    BY <1>1, <1>6 DEF Publish, TypeOK
  <2>2. kind = "csv"
    BY <2>1 DEF FileInv, FileBehindFinish
  <2> QED BY <1>1, <1>2, <1>3, <2>1, <2>2, ToFinishMoves, PhaseInv
<1>7. CASE FillSheet(r)
  <2>1. r \in sheets /\ ToFinish(r, TRUE, FALSE)
    BY <1>7 DEF FillSheet
  <2>2. kind = "sheet"
    BY <2>1 DEF FileInv, StampIsPermission
  <2> QED BY <1>1, <1>2, <1>3, <2>1, <2>2, ToFinishMoves, PhaseInv
<1>8. CASE Report(r)
  <2>1. kind = "import" /\ run[r].batch = Batches /\ ToFinish(r, TRUE, FALSE)
    BY <1>8 DEF Report
  <2> QED BY <1>1, <1>2, <1>3, <2>1, ToFinishMoves, PhaseInv
<1>9. CASE FinishFails(r)
  <2>1. Becomes(r, "over") \/ ToFinish(r, FALSE, TRUE)
    BY <1>9 DEF FinishFails, AfterLost
  <2> QED BY <1>1, <1>2, <1>3, <2>1, BecomesMoves, ToFinishMoves, PhaseInv
<1> QED BY <1>4, <1>5, <1>6, <1>7, <1>8, <1>9

\* A request arrives at an ended or cancelled job, or at a stamped one.
LEMMA ArriveInv ==
  ASSUME FileInv, NEW r \in Requests, NEW failing \in BOOLEAN,
         ClaimDone(r, failing) \/ ClaimStamped(r, failing)
  PROVE  FileInv'
<1>1. TypeOK /\ job.attempt \in Attempts /\ job.attempt \in Nat
  BY AttemptIsNat DEF FileInv, TypeOK, Header
<1>2. /\ run[r].pc = "none" /\ Arrives(r, job.attempt, "finish", failing)
      /\ UNCHANGED <<kind, files, sheets>>
  BY DEF ClaimDone, ClaimStamped, MayArrive
<1>3. DbRests
  BY DEF ClaimDone, ClaimStamped, DbRests, Open
<1>4. /\ run' \in [Requests -> FileRun]
      /\ run'[r] = [pc |-> "finish", attempt |-> job.attempt, batch |-> 0,
                    file |-> FALSE, failing |-> failing]
      /\ \A q \in Requests \ {r} : run'[q] = run[q]
  BY <1>1, <1>2, ArrivesMoves
<1>5. {job.attempt} \X (1 .. 0) \subseteq lines
  OBVIOUS
<1>6. RunRests(r)
  BY <1>1, <1>2, <1>4, <1>5 DEF RunRests
<1> QED BY <1>1, <1>2, <1>3, <1>6, RestInv DEF TypeOK

\* A new request has a new attempt left.
LEMMA AttemptLeft ==
  ASSUME FileInv, NEW r \in Requests, run[r].pc = "none"
  PROVE  /\ job.attempt + 1 \in Attempts
         /\ Cardinality({q \in Requests : run[q].pc # "none"} \cup {r})
              >= job.attempt + 1
<1> DEFINE U == {q \in Requests : run[q].pc # "none"}
<1>1. IsFiniteSet(U) /\ Cardinality(U) \in Nat
  BY FiniteRequests
<1>2. Cardinality(U \cup {r}) = Cardinality(U) + 1
  BY <1>1, FS_AddElement
<1>3. Cardinality(U \cup {r}) <= Cardinality(Requests)
  BY FiniteRequests
<1>4. job.attempt \in Nat /\ job.attempt <= Cardinality(U)
  BY AttemptIsNat DEF FileInv, AttemptsUsed, TypeOK, Header
<1>5. Cardinality(Requests) \in Nat
  BY ConstantsAssumption, FS_CardinalityType
<1> HIDE DEF U
<1>6. job.attempt + 1 \in Attempts /\ Cardinality(U \cup {r}) >= job.attempt + 1
  BY <1>1, <1>2, <1>3, <1>4, <1>5 DEF Attempts
<1> QED BY <1>6 DEF U

LEMMA ClaimInv ==
  ASSUME FileInv, NEW r \in Requests, NEW failing \in BOOLEAN, Claim(r, failing)
  PROVE  FileInv'
<1> DEFINE attempt == IF kind = "import" THEN job.attempt + 1 ELSE job.attempt
           pc == FirstPhase(failing)
<1>1. /\ TypeOK /\ job.attempt \in Attempts /\ job.attempt \in Nat
      /\ run[r].pc = "none" /\ Running /\ ~job.stamped /\ ~job.cancel
  BY AttemptIsNat
     DEF FileInv, TypeOK, Header, Claim, MayArrive, Open, Running, Stamped
<1>2. attempt \in Attempts /\ attempt \in Nat /\ attempt >= job.attempt
  <2>1. job.attempt + 1 \in Attempts
    BY <1>1, AttemptLeft
  <2> QED BY <1>1, <2>1
<1>3. /\ pc \in {"finish", "read", "work"}
      /\ pc = "read" => kind = "import" /\ source = {}
  BY DEF FirstPhase
<1>4. /\ job' = [job EXCEPT !.lease = "live", !.claimed = TRUE, !.attempt = attempt]
      /\ lines' = {} /\ Arrives(r, attempt, pc, failing)
      /\ UNCHANGED <<kind, source, result, files, sheets>>
  BY DEF Claim
<1> HIDE DEF attempt, pc
<1>5. /\ job' \in Header /\ job'.attempt = attempt /\ job'.claimed
      /\ job'.status = job.status /\ job'.stamped = job.stamped
      /\ job'.cancel = job.cancel
  BY <1>1, <1>2, <1>4 DEF TypeOK, Header, Leases
<1>6. /\ run' \in [Requests -> FileRun]
      /\ run'[r] = [pc |-> pc, attempt |-> attempt, batch |-> 0,
                    file |-> FALSE, failing |-> failing]
      /\ \A q \in Requests \ {r} : run'[q] = run[q]
  BY <1>1, <1>2, <1>3, <1>4, ArrivesMoves DEF Working
<1>7. TypeOK'
  BY <1>1, <1>4, <1>5, <1>6 DEF TypeOK
<1>8. \A q \in Requests \ {r} : run[q].attempt \in Nat /\ run[q].attempt <= job.attempt
  BY <1>1, AttemptIsNat DEF FileInv, AttemptsUsed, TypeOK, FileRun
<1>9. kind = "import" => attempt = job.attempt + 1
  BY DEF attempt
<1>10. AttemptsUsed'
  <2>1. \A q \in Requests : run'[q].attempt <= attempt
    BY <1>1, <1>2, <1>6, <1>8
  <2>2. {q \in Requests : run'[q].pc # "none"}
          = {q \in Requests : run[q].pc # "none"} \cup {r}
    BY <1>3, <1>6
  <2>3. attempt <= Cardinality({q \in Requests : run[q].pc # "none"} \cup {r})
    <3>1. Cardinality({q \in Requests : run[q].pc # "none"} \cup {r}) \in Nat
      BY FiniteRequests
    <3>2. Cardinality({q \in Requests : run[q].pc # "none"} \cup {r})
            >= job.attempt + 1
      BY <1>1, AttemptLeft
    <3> QED BY <1>1, <3>1, <3>2 DEF attempt
  <2>4. job'.attempt <= Cardinality({q \in Requests : run'[q].pc # "none"})
    BY <1>5, <2>2, <2>3
  <2> QED BY <1>5, <2>1, <2>4 DEF AttemptsUsed
<1>11. StampIsPermission'
  BY <1>1, <1>3, <1>4, <1>5, <1>6 DEF FileInv, StampIsPermission
<1>12. OneSheet'
  BY <1>4, <1>5 DEF FileInv, OneSheet
<1>13. FileBehindFinish'
  <2>1. result = None
    BY <1>1 DEF FileInv, FileKept, Running
  <2> QED BY <1>3, <1>4, <1>6, <2>1 DEF FileInv, FileBehindFinish
<1>14. FileKept'
  <2>1. result = None /\ job'.status # "completed"
    BY <1>1, <1>5 DEF FileInv, FileKept, Running
  <2> QED BY <1>4, <2>1 DEF FileKept
<1>15. ReportOfOneAttempt'
  BY <1>1, <1>4, <1>5 DEF FileInv, ReportOfOneAttempt, Running
<1>16. ReportInStep'
  <2>1. ASSUME NEW q \in Requests, kind = "import", run'[q].attempt = attempt
        PROVE  q = r
    BY <1>1, <1>6, <1>8, <1>9, <2>1
  <2>2. {attempt} \X (1 .. 0) = {}
    OBVIOUS
  <2>3. ASSUME NEW q \in Requests, kind = "import", run'[q].attempt = attempt
        PROVE  {attempt} \X (1 .. run'[q].batch) \subseteq {}
    BY <1>6, <2>1, <2>2, <2>3
  <2>4. ASSUME NEW q \in Requests, NEW s \in Requests,
               run'[q].pc = "read", run'[s].pc = "read",
               run'[q].attempt = run'[s].attempt
        PROVE  q = s
    <3>1. kind = "import"
      BY <1>3, <1>6, <2>4 DEF FileInv, ReportInStep
    <3>2. CASE run'[q].attempt = attempt
      BY <2>1, <2>4, <3>1, <3>2
    <3>3. CASE run'[q].attempt # attempt
      <4>1. q # r /\ s # r
        BY <1>6, <2>4, <3>3
      <4> QED BY <1>6, <2>4, <4>1 DEF FileInv, ReportInStep
    <3> QED BY <3>2, <3>3
  <2>5. ASSUME NEW q \in Requests, run'[q].pc = "read"
        PROVE  kind = "import" /\ (run'[q].attempt = attempt => source = {})
    BY <1>3, <1>6, <2>1, <2>5 DEF FileInv, ReportInStep
  <2> QED BY <1>4, <1>5, <2>3, <2>4, <2>5 DEF ReportInStep
<1> QED BY <1>7, <1>10, <1>11, <1>12, <1>13, <1>14, <1>15, <1>16 DEF FileInv

\* The permission to create the Sheet
LEMMA StampInv ==
  ASSUME FileInv, NEW r \in Requests, Stamp(r)
  PROVE  FileInv'
<1>1. /\ TypeOK /\ kind = "sheet" /\ run[r].pc = "staged" /\ Running
      /\ ~job.stamped /\ ~job.cancel /\ Becomes(r, "create")
      /\ UNCHANGED <<kind, source, lines, result, files, sheets>>
  BY DEF FileInv, Stamp, Stamped
<1>2. /\ job' \in Header /\ job'.stamped
      /\ job'.status = job.status /\ job'.cancel = job.cancel
      /\ job'.attempt = job.attempt /\ job'.lease = job.lease
      /\ job'.claimed = job.claimed
  BY <1>1 DEF Stamp, TypeOK, Header
<1>3. /\ run' \in [Requests -> FileRun] /\ Moves(r, "create")
      /\ run'[r].batch = run[r].batch
  BY <1>1, BecomesMoves DEF Working
<1>4. TypeOK'
  BY <1>1, <1>2, <1>3 DEF TypeOK
<1>5. AttemptsUsed'
  <2>1. \A q \in Requests : /\ run[q].pc # "none" => run'[q].pc # "none"
                            /\ run'[q].attempt <= job.attempt
    BY <1>1, <1>3 DEF Moves, FileInv, AttemptsUsed
  <2> QED BY <1>1, <1>2, <2>1, UsedKept DEF FileInv, AttemptsUsed
<1>6. StampIsPermission'
  <2>1. \A q \in Requests : run[q].pc # "create" /\ q \notin sheets
    BY <1>1 DEF FileInv, StampIsPermission
  <2>2. \A q \in Requests : run'[q].pc = "create" \/ q \in sheets' => q = r
    BY <1>1, <1>3, <2>1 DEF Moves
  <2> QED BY <1>1, <1>2, <2>2 DEF StampIsPermission
<1>7. result = None
  BY <1>1 DEF FileInv, FileKept, Running
<1>8. FileBehindFinish'
  BY <1>1, <1>3, <1>7 DEF Moves, FileInv, FileBehindFinish
<1>9. OneSheet' /\ FileKept' /\ ReportOfOneAttempt'
  BY <1>1, <1>2, <1>7 DEF FileInv, OneSheet, FileKept, ReportOfOneAttempt
<1>10. ReportInStep'
  BY <1>1, <1>2, <1>3 DEF Moves, FileInv, ReportInStep
<1> QED BY <1>4, <1>5, <1>6, <1>8, <1>9, <1>10 DEF FileInv

LEMMA StampCancelledInv ==
  ASSUME FileInv, NEW r \in Requests, StampCancelled(r)
  PROVE  FileInv'
<1>1. /\ TypeOK /\ run[r].pc = "staged" /\ ToFinish(r, FALSE, FALSE)
      /\ UNCHANGED <<kind, files, sheets>>
  BY DEF FileInv, StampCancelled
<1>2. DbRests
  BY DEF StampCancelled, DbRests
<1> QED BY <1>1, <1>2, ToFinishMoves, PhaseInv DEF TypeOK

LEMMA CreateSheetInv ==
  ASSUME FileInv, NEW r \in Requests, CreateSheet(r)
  PROVE  FileInv'
<1>1. /\ TypeOK /\ run[r].pc = "create" /\ sheets' = sheets \cup {r}
      /\ UNCHANGED <<kind, job, source, lines, result, run, files>>
  BY DEF FileInv, CreateSheet, dbVars
<1>2. TypeOK'
  BY <1>1 DEF TypeOK
<1>3. StampIsPermission'
  BY <1>1 DEF FileInv, StampIsPermission
<1>4. OneSheet'
  <2>1. \A p, q \in sheets' : p = q
    BY <1>1 DEF FileInv, StampIsPermission, TypeOK
  <2>2. ~job.cancel
    BY <1>1 DEF FileInv, StampIsPermission
  <2> QED BY <1>1, <2>1, <2>2, AtMostOne DEF OneSheet
<1>5. FileKept' /\ FileBehindFinish' /\ ReportOfOneAttempt' /\ AttemptsUsed'
      /\ ReportInStep'
  BY <1>1 DEF FileInv, FileKept, FileBehindFinish, ReportOfOneAttempt, AttemptsUsed,
              ReportInStep, Running
<1> QED BY <1>2, <1>3, <1>4, <1>5 DEF FileInv

\* The source of an import is linked once.
LEMMA LinkSourceInv ==
  ASSUME FileInv, NEW r \in Requests, LinkSource(r)
  PROVE  FileInv'
<1>1. /\ TypeOK /\ run[r].pc = "read" /\ Running /\ ~job.cancel
      /\ source' = source \cup {r}
      /\ Becomes(r, "work") \/ ToFinish(r, FALSE, TRUE)
      /\ UNCHANGED <<kind, job, lines, result, files, sheets>>
  BY DEF FileInv, LinkSource, Open
<1>2. kind = "import" /\ run[r].attempt = job.attempt /\ source = {}
  BY DEF LinkSource, Owns, FileInv, ReportInStep
<1>3. /\ run' \in [Requests -> FileRun]
      /\ run'[r].batch = run[r].batch /\ run'[r].attempt = run[r].attempt
      /\ run'[r].pc \in {"work", "finish"}
      /\ run'[r].pc = "finish" => ~run'[r].file
      /\ \A q \in Requests \ {r} : run'[q] = run[q]
  <2>1. CASE Becomes(r, "work")
    BY <1>1, <2>1, BecomesMoves DEF Moves, Working
  <2>2. CASE ToFinish(r, FALSE, TRUE)
    BY <1>1, <2>2, ToFinishMoves DEF Moves
  <2> QED BY <1>1, <2>1, <2>2
<1>4. TypeOK'
  BY <1>1, <1>3 DEF TypeOK
<1>5. AttemptsUsed'
  <2>1. \A q \in Requests : /\ run[q].pc # "none" => run'[q].pc # "none"
                            /\ run'[q].attempt <= job.attempt
    BY <1>1, <1>3 DEF FileInv, AttemptsUsed
  <2> QED BY <1>1, <2>1, UsedKept DEF FileInv, AttemptsUsed
<1>6. StampIsPermission' /\ OneSheet'
  BY <1>1, <1>3 DEF FileInv, StampIsPermission, OneSheet
<1>7. FileBehindFinish' /\ FileKept'
  BY <1>1, <1>2, <1>3 DEF FileInv, FileBehindFinish, FileKept
<1>8. ReportOfOneAttempt'
  <2>1. Cardinality(source') <= 1
    BY <1>1, <1>2, AtMostOne
  <2> QED BY <1>1, <2>1 DEF FileInv, ReportOfOneAttempt
<1>9. ReportInStep'
  <2>1. ASSUME NEW q \in Requests, run'[q].pc = "read"
        PROVE  q # r /\ run'[q] = run[q] /\ run[q].attempt # job.attempt
    BY <1>1, <1>2, <1>3, <2>1 DEF FileInv, ReportInStep
  <2>2. \A q \in Requests : run'[q].batch = run[q].batch /\ run'[q].attempt = run[q].attempt
    BY <1>3
  <2> QED BY <1>1, <2>1, <2>2 DEF FileInv, ReportInStep, Running
<1> QED BY <1>4, <1>5, <1>6, <1>7, <1>8, <1>9 DEF FileInv

\* A batch of the report
LEMMA StoreLinesInv ==
  ASSUME FileInv, NEW r \in Requests, StoreLines(r)
  PROVE  FileInv'
<1> DEFINE batch == run[r].batch + 1
<1>1. /\ TypeOK /\ kind = "import" /\ run[r].pc = "work"
      /\ Running /\ ~job.cancel /\ job.lease = "live"
      /\ run[r].attempt = job.attempt /\ batch \in 1 .. Batches
      /\ lines' = lines \cup {<<job.attempt, batch>>}
      /\ \/ run' = [run EXCEPT ![r].batch = batch]
         \/ ToFinish(r, FALSE, TRUE)
      /\ UNCHANGED <<kind, job, source, result, files, sheets>>
  BY DEF FileInv, StoreLines, Open, Owns
<1>2. run[r].batch \in 0 .. Batches
  BY <1>1 DEF TypeOK, FileRun
<1> HIDE DEF batch
<1>3. /\ run' \in [Requests -> FileRun]
      /\ run'[r].batch \in {run[r].batch, batch}
      /\ run'[r].attempt = run[r].attempt
      /\ run'[r].pc \in {"work", "finish"}
      /\ run'[r].pc = "finish" => ~run'[r].file
      /\ \A q \in Requests \ {r} : run'[q] = run[q]
  <2>1. CASE ToFinish(r, FALSE, TRUE)
    BY <1>1, <2>1, ToFinishMoves DEF Moves
  <2>2. CASE run' = [run EXCEPT ![r].batch = batch]
    <3>1. batch \in 0 .. Batches
      BY <1>1
    <3> QED BY <1>1, <2>2, <3>1 DEF TypeOK, FileRun
  <2> QED BY <1>1, <2>1, <2>2
<1>4. TypeOK'
  BY <1>1, <1>3 DEF TypeOK, Header
<1>5. AttemptsUsed'
  <2>1. \A q \in Requests : /\ run[q].pc # "none" => run'[q].pc # "none"
                            /\ run'[q].attempt <= job.attempt
    BY <1>1, <1>3 DEF FileInv, AttemptsUsed
  <2> QED BY <1>1, <2>1, UsedKept DEF FileInv, AttemptsUsed
<1>6. StampIsPermission' /\ OneSheet'
  BY <1>1, <1>3 DEF FileInv, StampIsPermission, OneSheet
<1>7. FileBehindFinish' /\ FileKept'
  BY <1>1, <1>3 DEF FileInv, FileBehindFinish, FileKept
<1>8. ReportOfOneAttempt'
  <2>1. \A l \in lines' : l[1] = job.attempt
    BY <1>1 DEF FileInv, ReportOfOneAttempt
  <2> QED BY <1>1, <2>1 DEF FileInv, ReportOfOneAttempt, Running
<1>9. ReportInStep'
  <2>1. {job.attempt} \X (1 .. run[r].batch) \subseteq lines
    BY <1>1 DEF FileInv, ReportInStep
  <2>2. \A i \in 1 .. batch : i \in 1 .. run[r].batch \/ i = batch
    BY <1>2 DEF batch
  <2>3. {job.attempt} \X (1 .. batch) \subseteq lines'
    BY <1>1, <2>1, <2>2
  <2>4. {job.attempt} \X (1 .. run'[r].batch) \subseteq lines'
    BY <1>1, <1>3, <2>1, <2>3
  <2>5. ASSUME NEW q \in Requests, run'[q].attempt = job.attempt
        PROVE  {job.attempt} \X (1 .. run'[q].batch) \subseteq lines'
    <3>1. CASE q = r
      BY <2>4, <3>1
    <3>2. CASE q # r
      BY <1>1, <1>3, <2>5, <3>2 DEF FileInv, ReportInStep
    <3> QED BY <3>1, <3>2
  <2>6. \A q \in Requests : run'[q].pc = "read" => run'[q] = run[q]
    BY <1>3
  <2>7. job.claimed
    BY <1>1 DEF FileInv, AttemptsUsed
  <2> QED BY <1>1, <2>5, <2>6, <2>7 DEF FileInv, ReportInStep
<1> QED BY <1>4, <1>5, <1>6, <1>7, <1>8, <1>9 DEF FileInv

\* The finish of a request, whatever it is answered.
LEMMA FinishInv ==
  ASSUME FileInv, NEW r \in Requests, Finish(r)
  PROVE  FileInv'
<1>1. /\ TypeOK /\ run[r].pc = "finish" /\ Finishes(r)
      /\ UNCHANGED <<kind, files, sheets>>
      /\ \/ \E pc \in {"over", "discard"} : Becomes(r, pc)
         \/ kind = "import" /\ ToFinish(r, FALSE, TRUE)
  BY DEF FileInv, Finish, AfterAnswer, AfterLost
<1>2. CASE DbRests
  <2>1. ASSUME NEW pc \in {"over", "discard"}, Becomes(r, pc) PROVE FileInv'
    BY <1>1, <1>2, <2>1, BecomesMoves, PhaseInv DEF TypeOK
  <2>2. CASE ToFinish(r, FALSE, TRUE)
    BY <1>1, <1>2, <2>2, ToFinishMoves, PhaseInv DEF TypeOK
  <2> QED BY <1>1, <2>1, <2>2
<1>3. CASE ~DbRests
  <2>1. /\ Running /\ Owns(r) /\ ~job.cancel /\ ~run[r].failing /\ run[r].file
        /\ job' = [job EXCEPT !.status = "completed"] /\ result' = r
        /\ UNCHANGED <<source, lines>>
    BY <1>1, <1>3 DEF Finishes, DbRests, WithoutResult
  <2>2. /\ job' \in Header /\ job'.status = "completed"
        /\ job'.stamped = job.stamped /\ job'.cancel = job.cancel
        /\ job'.attempt = job.attempt /\ job'.lease = job.lease
        /\ job'.claimed = job.claimed
    BY <1>1, <2>1 DEF TypeOK, Header, Statuses
  <2>3. kind # "import" => Becomes(r, "over")
    BY <1>1, <2>1 DEF Finish, AfterAnswer, AfterLost, Answered
  <2>4. /\ run' \in [Requests -> FileRun]
        /\ run'[r].batch = run[r].batch /\ run'[r].attempt = run[r].attempt
        /\ run'[r].pc \in {"over", "discard", "finish"}
        /\ run'[r].pc = "finish" => ~run'[r].file
        /\ \A q \in Requests \ {r} : run'[q] = run[q]
    <3>1. ASSUME NEW pc \in {"over", "discard"}, Becomes(r, pc)
          PROVE  /\ run' \in [Requests -> FileRun]
                 /\ Moves(r, pc) /\ run'[r].batch = run[r].batch
      BY <1>1, <3>1, BecomesMoves
    <3>2. CASE ToFinish(r, FALSE, TRUE)
      BY <1>1, <3>2, ToFinishMoves DEF Moves
    <3> QED BY <1>1, <3>1, <3>2 DEF Moves
  <2>5. kind # "import" => run'[r].pc = "over"
    BY <1>1, <2>3, BecomesMoves DEF Moves
  <2>6. TypeOK'
    BY <1>1, <2>1, <2>2, <2>4 DEF TypeOK
  <2>7. AttemptsUsed'
    <3>1. \A q \in Requests : /\ run[q].pc # "none" => run'[q].pc # "none"
                              /\ run'[q].attempt <= job.attempt
      BY <2>4 DEF FileInv, AttemptsUsed
    <3> QED BY <1>1, <2>2, <3>1, UsedKept DEF FileInv, AttemptsUsed
  <2>8. StampIsPermission' /\ OneSheet'
    BY <1>1, <2>2, <2>4 DEF FileInv, StampIsPermission, OneSheet
  <2>9. FileBehindFinish'
    BY <1>1, <2>1, <2>4, <2>5 DEF FileInv, FileBehindFinish
  <2>10. FileKept'
    <3>1. r # None
      BY ConstantsAssumption
    <3>2. kind = "csv" => files[r] = "published"
      BY <1>1, <2>1 DEF FileInv, FileBehindFinish
    <3>3. kind = "sheet" => r \in sheets
      BY <1>1, <2>1 DEF FileInv, FileBehindFinish
    <3> QED BY <1>1, <2>1, <2>2, <2>5, <3>1, <3>2, <3>3 DEF FileKept
  <2>11. ReportOfOneAttempt'
    <3>1. ASSUME kind = "import" PROVE lines = {job.attempt} \X (1 .. Batches)
      <4>1. run[r].attempt = job.attempt /\ run[r].batch = Batches
        BY <1>1, <2>1, <3>1 DEF Owns, FileInv, FileBehindFinish
      <4>2. {job.attempt} \X (1 .. Batches) \subseteq lines
        BY <2>1, <3>1, <4>1 DEF FileInv, ReportInStep
      <4>3. lines \subseteq {job.attempt} \X (1 .. Batches)
        BY <1>1 DEF TypeOK, FileInv, ReportOfOneAttempt
      <4> QED BY <4>2, <4>3
    <3> QED BY <1>1, <2>1, <2>2, <3>1 DEF FileInv, ReportOfOneAttempt
  <2>12. ReportInStep'
    <3>1. ~Running'
      BY <2>2 DEF Running
    <3>2. \A q \in Requests : run'[q].pc = "read" => run'[q] = run[q]
      BY <2>4
    <3> QED BY <1>1, <2>1, <2>2, <3>1, <3>2 DEF FileInv, ReportInStep
  <2> QED BY <2>6, <2>7, <2>8, <2>9, <2>10, <2>11, <2>12 DEF FileInv
<1> QED BY <1>2, <1>3

\* A cancel, the clock and the recovery
LEMMA OutsideInv ==
  ASSUME FileInv, Cancel \/ Lapse \/ Recover
  PROVE  FileInv'
<1>1. TypeOK /\ UNCHANGED <<kind, source, result, run, files, sheets>>
  BY DEF FileInv, Cancel, Lapse, Recover, Ends
<1>2. CASE Recover
  <2>1. DbRests
    BY <1>2 DEF Recover, DbRests, WithoutResult
  <2> QED BY <1>1, <1>2, <2>1, RestInv DEF TypeOK
<1>3. CASE Cancel \/ Lapse
  <2>1. /\ job' \in Header /\ lines' = lines
        /\ job'.stamped = job.stamped /\ job'.attempt = job.attempt
        /\ job'.claimed = job.claimed
        /\ job'.lease = "live" => job.lease = "live"
        /\ \/ job'.status = job.status /\ job'.cancel = job.cancel
           \/ Running /\ ~job.stamped
              /\ (job'.status = "running" \/ (job'.status = "cancelled" /\ ~job.claimed))
    <3>1. CASE Cancel
      BY <1>1, <3>1 DEF Cancel, TypeOK, Header, Statuses, Open, Stoppable, Running
    <3>2. CASE Lapse
      BY <1>1, <3>2 DEF Lapse, TypeOK, Header, Leases
    <3> QED BY <1>3, <3>1, <3>2
  <2>2. TypeOK'
    BY <1>1, <2>1 DEF TypeOK
  <2>3. AttemptsUsed'
    BY <1>1, <2>1 DEF FileInv, AttemptsUsed
  <2>4. StampIsPermission'
    BY <1>1, <2>1 DEF FileInv, StampIsPermission
  <2>5. OneSheet'
    <3>1. \A r \in sheets : r \in Requests /\ job.stamped
      BY <1>1 DEF TypeOK, FileInv, StampIsPermission
    <3> QED BY <1>1, <2>1, <3>1 DEF FileInv, OneSheet
  <2>6. FileBehindFinish'
    BY <1>1, <2>1 DEF FileInv, FileBehindFinish
  <2>7. FileKept'
    BY <1>1, <2>1 DEF FileInv, FileKept, Running
  <2>8. ReportOfOneAttempt'
    BY <1>1, <2>1 DEF FileInv, ReportOfOneAttempt, ReportInStep, Running
  <2>9. ReportInStep'
    <3>1. Running' => Running
      BY <2>1 DEF Running
    <3> QED BY <1>1, <2>1, <3>1 DEF FileInv, ReportInStep
  <2> QED BY <2>2, <2>3, <2>4, <2>5, <2>6, <2>7, <2>8, <2>9 DEF FileInv
<1> QED BY <1>2, <1>3

LEMMA StepInv == FileInv /\ [Next]_vars => FileInv'
<1> SUFFICES ASSUME FileInv, [Next]_vars PROVE FileInv'
  OBVIOUS
<1>1. CASE UNCHANGED vars
  <2>1. DbRests /\ UNCHANGED <<kind, sheets, run, files>>
    BY <1>1, DbUnchanged DEF vars
  <2> QED BY <2>1, RestInv DEF FileInv, TypeOK
<1>2. ASSUME NEW r \in Requests, NEW failing \in BOOLEAN,
             ClaimDone(r, failing) \/ ClaimStamped(r, failing) \/ Claim(r, failing)
      PROVE  FileInv'
  BY <1>2, ArriveInv, ClaimInv
<1>3. ASSUME NEW r \in Requests, Step(r) PROVE FileInv'
  BY <1>3, QuietInv, StampInv, StampCancelledInv, CreateSheetInv, LinkSourceInv,
     StoreLinesInv, FinishInv DEF Step
<1> QED BY <1>1, <1>2, <1>3, OutsideInv DEF Next

-----------------------------------------------------------------------------
(* The theorems                                                            *)

\* The inductive invariant: the stamp, the finished files and the lines of the
\* report are in step with what the requests believe.
THEOREM FileJobCorrect == Spec => []FileInv
BY InitInv, StepInv, PTL DEF Spec

\* The job, its requests and what they leave behind stay well typed; the attempts
\* never outnumber the requests.
THEOREM TypeCorrect == Spec => []TypeOK
<1>1. FileInv => TypeOK
  BY DEF FileInv
<1> QED BY <1>1, FileJobCorrect, PTL

\* However many requests of one lease overlap, a job creates at most one Sheet,
\* and none after an accepted cancel.
THEOREM OneSheetCorrect == Spec => []OneSheet
<1>1. FileInv => OneSheet
  BY DEF FileInv
<1> QED BY <1>1, FileJobCorrect, PTL

\* A completed export keeps its file, also when the answer of its finish was
\* lost.
THEOREM FileKeptCorrect == Spec => []FileKept
<1>1. FileInv => FileKept
  BY DEF FileInv
<1> QED BY <1>1, FileJobCorrect, PTL

\* A completed import shows the whole report of one attempt and nothing of
\* another.
THEOREM ReportOfOneAttemptCorrect == Spec => []ReportOfOneAttempt
<1>1. FileInv => ReportOfOneAttempt
  BY DEF FileInv
<1> QED BY <1>1, FileJobCorrect, PTL

\* No late run and no repeated request changes an ended job.
THEOREM EndIsFinalCorrect == Spec => EndIsFinal
<1> DEFINE Final == ~Running => job'.status = job.status
                                /\ UNCHANGED <<source, lines, result>>
<1>1. [Next]_vars => [Final]_vars
  <2> SUFFICES ASSUME Next, ~Running PROVE Final
    OBVIOUS
  <2>1. ASSUME NEW r \in Requests, NEW failing \in BOOLEAN,
               ClaimDone(r, failing) \/ ClaimStamped(r, failing) \/ Claim(r, failing)
        PROVE  Final
    BY <2>1 DEF ClaimDone, ClaimStamped, Claim, Open, dbVars
  <2>2. ASSUME NEW r \in Requests, Step(r) PROVE Final
    BY <2>2 DEF Step, SeesDone, WorkFails, Quit, Stage, Prepare, Publish, Stamp,
                StampCancelled, CreateSheet, FillSheet, LinkSource, StoreLines,
                Report, Finish, Finishes, FinishFails, Discard, Open, dbVars
  <2>3. CASE Cancel \/ Recover
    BY <2>3 DEF Cancel, Recover, Open
  <2>4. CASE Lapse
    BY <2>4 DEF Lapse
  <2> QED BY <2>1, <2>2, <2>3, <2>4 DEF Next
<1>2. EndIsFinal <=> [][Final]_vars
  BY DEF EndIsFinal
<1> QED BY <1>1, <1>2, PTL DEF Spec

=============================================================================
