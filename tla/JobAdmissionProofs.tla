------------------------- MODULE JobAdmissionProofs -------------------------
(***************************************************************************)
(* The inductive invariant of JobAdmission and its safety properties,      *)
(* proved for any jobs, any imports, any order of admission, any number of *)
(* calls and any number of failures.                                       *)
(***************************************************************************)
EXTENDS WriteJobs, SequenceTheorems, WellFoundedInduction, TLAPS

-----------------------------------------------------------------------------
(* The moves of one call                                                   *)

\* The other calls are where they were.
OthersStay(c) ==
  \A d \in Callers \ {c} :
    pc'[d] = pc[d] /\ target'[d] = target[d] /\ heldRead'[d] = heldRead[d]

\* A call that goes on is well-formed, and at the first step of a part.
LEMMA GoOnType ==
  ASSUME TypeOK, NEW c \in Callers, NEW rest \in Seq(Parts), GoOn(c, rest)
  PROVE  /\ pc' \in [Callers -> Steps]
         /\ agenda' \in [Callers -> Seq(Parts)]
         /\ target' \in [Callers -> Jobs \cup {None}]
         /\ heldRead' \in [Callers -> BOOLEAN]
         /\ todo' \in [Callers -> SUBSET Jobs]
         /\ pc'[c] \in Parts \cup {"idle"}
         /\ OthersStay(c)
<1> DEFINE next == IF rest # <<>> /\ Head(rest) = "retry" THEN Tail(rest)
                   ELSE rest
<1>1. next \in Seq(Parts)
  BY HeadTailProperties
<1>2. next # <<>> => Head(next) \in Parts /\ Tail(next) \in Seq(Parts)
  <2> HIDE DEF next
  <2> QED BY <1>1, HeadTailProperties
<1>3. /\ pc' = [pc EXCEPT ![c] = IF next = <<>> THEN "idle" ELSE Head(next)]
      /\ agenda' = [agenda EXCEPT ![c] = IF next = <<>> THEN <<>>
                                         ELSE Tail(next)]
      /\ target' = [target EXCEPT ![c] = None]
      /\ heldRead' = [heldRead EXCEPT ![c] = FALSE]
      /\ todo' = [todo EXCEPT ![c] = {}]
  BY DEF GoOn
<1>4. <<>> \in Seq(Parts)
  BY EmptySeq
<1> HIDE DEF next
<1>5. /\ pc' \in [Callers -> Steps] /\ pc'[c] \in Parts \cup {"idle"}
      /\ agenda' \in [Callers -> Seq(Parts)]
  BY <1>2, <1>3, <1>4 DEF TypeOK, Steps
<1>6. /\ target' \in [Callers -> Jobs \cup {None}]
      /\ heldRead' \in [Callers -> BOOLEAN]
      /\ todo' \in [Callers -> SUBSET Jobs]
  BY <1>3 DEF TypeOK
<1>7. OthersStay(c)
  BY <1>3 DEF TypeOK, OthersStay
<1> QED BY <1>5, <1>6, <1>7

\* A step within a part touches the step and the job in hand.
LEMMA StepType ==
  ASSUME TypeOK, NEW c \in Callers, NEW s \in Steps,
         NEW j \in Jobs \cup {None}, Step(c, s, j)
  PROVE  /\ pc' \in [Callers -> Steps]
         /\ target' \in [Callers -> Jobs \cup {None}]
         /\ pc'[c] = s /\ target'[c] = j
         /\ \A d \in Callers \ {c} : pc'[d] = pc[d] /\ target'[d] = target[d]
BY DEF TypeOK, Step

\* A part of a call, put before the rest of it
LEMMA PlanType ==
  ASSUME TypeOK, NEW c \in Callers
  PROVE  /\ agenda[c] \in Seq(Parts)
         /\ <<"cleanup", "read">> \o agenda[c] \in Seq(Parts)
         /\ <<"read", "retry">> \o agenda[c] \in Seq(Parts)
         /\ agenda[c] # <<>> => <<"cleanup", "read">> \o Tail(agenda[c])
                                  \in Seq(Parts)
         /\ \A n \in 0 .. Len(agenda[c]) :
              SubSeq(agenda[c], n + 1, Len(agenda[c])) \in Seq(Parts)
<1>1. agenda[c] \in Seq(Parts)
  BY DEF TypeOK
<1>2. <<"cleanup", "read">> \in Seq(Parts) /\ <<"read", "retry">> \in Seq(Parts)
  BY DEF Parts
<1>3. agenda[c] # <<>> => Tail(agenda[c]) \in Seq(Parts)
  BY <1>1, HeadTailProperties
<1>4. ASSUME NEW n \in 0 .. Len(agenda[c])
      PROVE  SubSeq(agenda[c], n + 1, Len(agenda[c])) \in Seq(Parts)
  <2>1. Len(agenda[c]) \in Nat
    BY <1>1, LenProperties
  <2>2. \A i \in n + 1 .. Len(agenda[c]) : agenda[c][i] \in Parts
    <3>1. TAKE i \in n + 1 .. Len(agenda[c])
    <3>2. i \in 1 .. Len(agenda[c])
      BY <2>1
    <3> QED BY <1>1, <3>2, ElementOfSeq
  <2> QED BY <2>1, <2>2, SubSeqProperties
<1> QED BY <1>1, <1>2, <1>3, <1>4, ConcatProperties

\* The plans that a call begins with
LEMMA BeginPlans ==
  /\ <<"accept", "recover", "cleanup", "read", "retry">> \in Seq(Parts)
  /\ <<"cleanup", "read">> \in Seq(Parts)
  /\ <<"read">> \in Seq(Parts)
BY DEF Parts

-----------------------------------------------------------------------------
(* Type correctness                                                        *)

LEMMA InitType == Init => TypeOK
<1> SUFFICES ASSUME Init PROVE TypeOK
  OBVIOUS
<1>1. <<>> \in Seq(Parts)
  BY EmptySeq
<1>2. faults \in 0 .. MaxFaults
  BY AdmissionAssumption DEF Init
<1> QED BY <1>1, <1>2 DEF Init, TypeOK, Status, Steps

\* The first job of a non-empty set of candidates is one of them.
LEMMA FirstIsIn ==
  ASSUME NEW S \in SUBSET Jobs, S # {} PROVE First(S) \in S
<1> DEFINE T == {Rank[j] : j \in S}
<1>1. T \subseteq Nat /\ T # {}
  BY AdmissionAssumption
<1>2. PICK x \in T : \A y \in T : ~ (<<y, x>> \in OpToRel(<, Nat))
  <2> HIDE DEF T
  <2> QED BY <1>1, NatLessThanWellFounded, WFMin, Zenon
<1>3. \A y \in T : x <= y
  <2> SUFFICES ASSUME NEW y \in T PROVE x <= y
    OBVIOUS
  <2>1. x \in Nat /\ y \in Nat
    BY <1>1
  <2>2. ~ (y < x)
    BY <1>2, <2>1 DEF OpToRel
  <2> QED BY <2>1, <2>2
<1>4. PICK j \in S : Rank[j] = x
  BY <1>2
<1>5. \A i \in S : Rank[j] <= Rank[i]
  BY <1>3, <1>4
<1> QED BY <1>4, <1>5 DEF First

\* The part of the type invariant that is about the calls
CallTypeOK ==
  /\ pc \in [Callers -> Steps]
  /\ agenda \in [Callers -> Seq(Parts)]
  /\ target \in [Callers -> Jobs \cup {None}]
  /\ heldRead \in [Callers -> BOOLEAN]
  /\ todo \in [Callers -> SUBSET Jobs]


LEMMA GoOnKeepsType ==
  ASSUME TypeOK, NEW c \in Callers, NEW rest \in Seq(Parts), GoOn(c, rest)
  PROVE  CallTypeOK'
BY GoOnType DEF CallTypeOK

\* The cleanup between two of its jobs
LEMMA NextCleanupType ==
  ASSUME TypeOK, NEW c \in Callers, NEW rest \in SUBSET Jobs,
         NextCleanup(c, rest)
  PROVE  CallTypeOK'
<1>1. CASE rest = {}
  <2>1. GoOn(c, agenda[c]) /\ agenda[c] \in Seq(Parts)
    BY <1>1 DEF NextCleanup, TypeOK
  <2> QED BY <2>1, GoOnKeepsType
<1>2. CASE rest # {}
  <2>1. /\ Step(c, "release", None)
        /\ todo' = [todo EXCEPT ![c] = rest]
        /\ UNCHANGED <<agenda, heldRead>>
    BY <1>2 DEF NextCleanup
  <2>2. "release" \in Steps
    BY DEF Steps
  <2>3. pc' \in [Callers -> Steps] /\ target' \in [Callers -> Jobs \cup {None}]
    BY <2>1, <2>2, StepType
  <2> QED BY <2>1, <2>3 DEF TypeOK, CallTypeOK
<1> QED BY <1>1, <1>2

\* People, workers and time leave the calls alone.
LEMMA JobType ==
  ASSUME TypeOK, NEW j \in Jobs, Job(j) PROVE TypeOK'
<1>1. CallTypeOK'
  BY DEF TypeOK, CallTypeOK, Job, Confirm, JobClaims, ReportBackoff,
         ReportLapses, RunEnds, DevicesAnswer, Cancel, callVars
<1>2. faults' \in 0 .. MaxFaults /\ key' \in Jobs \cup {None}
      /\ written' \subseteq Jobs /\ cleaned' \subseteq Jobs
  BY DEF TypeOK, Job, Confirm, JobClaims, ReportBackoff,
         ReportLapses, RunEnds, DevicesAnswer, Cancel
<1>3. status' \in [Jobs -> Status] /\ claimed' \subseteq Jobs
      /\ requested' \subseteq Jobs /\ report' \subseteq Jobs
  <2>1. CASE Confirm(j)
    BY <2>1 DEF TypeOK, Confirm, Status, Waiting
  <2>2. CASE JobClaims(j) \/ ReportBackoff(j) \/ ReportLapses(j)
    BY <2>2 DEF TypeOK, JobClaims, ReportBackoff, ReportLapses
  <2>3. CASE RunEnds(j)
    BY <2>3 DEF TypeOK, RunEnds, Status, Released
  <2>4. CASE DevicesAnswer(j)
    BY <2>4 DEF TypeOK, DevicesAnswer, Status, Released
  <2>5. CASE Cancel(j)
    BY <2>5 DEF TypeOK, Cancel, Status, Released, Cascade, WaitingOn
  <2> QED BY <2>1, <2>2, <2>3, <2>4, <2>5 DEF Job
<1> QED BY <1>1, <1>2, <1>3 DEF TypeOK, CallTypeOK

LEMMA CallType ==
  ASSUME TypeOK, NEW c \in Callers, Call(c) PROVE TypeOK'
<1>0. /\ agenda[c] \in Seq(Parts)
      /\ <<"cleanup", "read">> \o agenda[c] \in Seq(Parts)
      /\ <<"read", "retry">> \o agenda[c] \in Seq(Parts)
  BY PlanType
<1>1. CASE AcceptHold(c)
  <2> DEFINE held == {j \in report : status[j] = "running"}
  <2>1. CASE held = {}
    <3>1. GoOn(c, agenda[c]) /\ UNCHANGED <<dbVars, key, faults>>
      BY <1>1, <2>1 DEF AcceptHold
    <3> QED BY <3>1, <1>0, GoOnKeepsType DEF TypeOK, CallTypeOK, dbVars
  <2>2. CASE held # {}
    <3>1. PICK j \in held :
            /\ report' = report \ {j}
            /\ written' = written \cup {j}
            /\ Step(c, "write", j)
            /\ UNCHANGED <<status, claimed, requested, cleaned, agenda,
                           heldRead, todo, key, faults>>
      BY <1>1, <2>2 DEF AcceptHold, Registered
    <3>2. j \in Jobs /\ "write" \in Steps
      BY DEF TypeOK, Steps
    <3>3. pc' \in [Callers -> Steps] /\ target' \in [Callers -> Jobs \cup {None}]
      BY <3>1, <3>2, StepType
    <3> QED BY <3>1, <3>2, <3>3 DEF TypeOK
  <2> QED BY <2>1, <2>2
<1>2. CASE WriteHold(c)
  <2>1. /\ GoOn(c, <<"read", "retry">> \o agenda[c])
        /\ UNCHANGED <<dbVars, faults>> /\ key' \in {key, target[c]}
    BY <1>2 DEF WriteHold
  <2>2. target[c] \in Jobs \cup {None}
    BY DEF TypeOK
  <2> QED BY <2>1, <2>2, <1>0, GoOnKeepsType DEF TypeOK, CallTypeOK, dbVars
<1>3. CASE ReadHold(c)
  BY <1>3 DEF ReadHold, TypeOK, Steps, dbVars
<1>4. CASE AdmitJob(c)
  <2>1. CASE SomebodyRuns \/ heldRead[c] \/ Eligible = {}
    <3>1. /\ GoOn(c, agenda[c])
          /\ status' = [j \in Jobs |->
               IF j \in Eligible THEN IF heldRead[c] THEN "held" ELSE "queued"
               ELSE IF j \in Candidates THEN "queued"
               ELSE status[j]]
          /\ UNCHANGED <<claimed, requested, report, written, cleaned, key,
                         faults>>
      BY <1>4, <2>1 DEF AdmitJob
    <3>2. status' \in [Jobs -> Status]
      BY <3>1 DEF TypeOK, Status, Waiting
    <3> QED BY <3>1, <3>2, <1>0, GoOnKeepsType DEF TypeOK, CallTypeOK
  <2>2. CASE ~(SomebodyRuns \/ heldRead[c] \/ Eligible = {})
    <3>1. /\ Step(c, "start", First(Eligible))
          /\ status' = [j \in Jobs |->
               IF j = First(Eligible) THEN "running"
               ELSE IF j \in Candidates THEN "queued"
               ELSE status[j]]
          /\ heldRead' = [heldRead EXCEPT ![c] = FALSE]
          /\ UNCHANGED <<claimed, requested, report, written, cleaned, key,
                         faults, agenda, todo>>
      BY <1>4, <2>2 DEF AdmitJob
    <3>2. First(Eligible) \in Jobs
      BY <2>2, FirstIsIn DEF Eligible, Candidates
    <3>3. status' \in [Jobs -> Status] /\ "start" \in Steps
      BY <3>1 DEF TypeOK, Status, Waiting, Steps
    <3>4. pc' \in [Callers -> Steps] /\ target' \in [Callers -> Jobs \cup {None}]
      BY <3>1, <3>2, <3>3, StepType
    <3> QED BY <3>1, <3>3, <3>4 DEF TypeOK
  <2> QED BY <2>1, <2>2
<1>5. CASE StartJob(c)
  <2>1. CASE GoOn(c, agenda[c]) /\ UNCHANGED <<dbVars, key, faults>>
    BY <2>1, <1>0, GoOnKeepsType DEF TypeOK, CallTypeOK, dbVars
  <2>2. CASE /\ Step(c, "abandon", target[c])
             /\ UNCHANGED <<agenda, heldRead, todo, dbVars, key, faults>>
    <3>1. target[c] \in Jobs \cup {None} /\ "abandon" \in Steps
      BY DEF TypeOK, Steps
    <3>2. pc' \in [Callers -> Steps] /\ target' \in [Callers -> Jobs \cup {None}]
      BY <2>2, <3>1, StepType
    <3> QED BY <2>2, <3>2 DEF TypeOK, dbVars
  <2> QED BY <1>5, <2>1, <2>2 DEF StartJob
<1>6. CASE AbandonStart(c)
  <2> DEFINE rest == IF agenda[c] # <<>> /\ Head(agenda[c]) = "retry"
                     THEN <<"cleanup", "read">> \o Tail(agenda[c])
                     ELSE agenda[c]
  <2>1. rest \in Seq(Parts)
    BY <1>0, PlanType
  <2>2. /\ GoOn(c, rest)
        /\ UNCHANGED <<claimed, requested, report, written, cleaned, key, faults>>
    BY <1>6 DEF AbandonStart
  <2>3. status' \in [Jobs -> Status]
    BY <1>6 DEF AbandonStart, Abandoned, TypeOK, Status, Released
  <2> HIDE DEF rest
  <2> QED BY <2>1, <2>2, <2>3, GoOnKeepsType DEF TypeOK, CallTypeOK
<1>7. CASE RecoverJobs(c)
  <2>0. UNCHANGED <<dbVars, key, faults>>
    BY <1>7 DEF RecoverJobs
  <2>1. CASE GoOn(c, agenda[c]) \/ GoOn(c, <<"cleanup", "read">> \o agenda[c])
    <3>1. CallTypeOK'
      BY <2>1, <1>0, GoOnKeepsType
    <3> QED BY <3>1, <2>0 DEF TypeOK, CallTypeOK, dbVars
  <2>2. CASE \E j \in Jobs :
          /\ status[j] = "running"
          /\ Step(c, "start", j)
          /\ agenda' = [agenda EXCEPT ![c] = <<"cleanup", "read">> \o @]
          /\ UNCHANGED <<heldRead, todo>>
    <3>1. PICK j \in Jobs :
          /\ Step(c, "start", j)
          /\ agenda' = [agenda EXCEPT ![c] = <<"cleanup", "read">> \o agenda[c]]
          /\ UNCHANGED <<heldRead, todo>>
      BY <2>2
    <3>2. "start" \in Steps
      BY DEF Steps
    <3>3. pc' \in [Callers -> Steps] /\ target' \in [Callers -> Jobs \cup {None}]
      BY <3>1, <3>2, StepType
    <3>4. agenda' \in [Callers -> Seq(Parts)]
      BY <3>1, <1>0 DEF TypeOK
    <3> QED BY <3>1, <3>3, <3>4, <2>0 DEF TypeOK, dbVars
  <2> QED BY <1>7, <2>1, <2>2 DEF RecoverJobs
<1>8. CASE Cleanup(c)
  <2>0. UNCHANGED <<dbVars, key, faults>>
    BY <1>8 DEF Cleanup
  <2>1. CASE GoOn(c, agenda[c])
    BY <2>0, <2>1, <1>0, GoOnKeepsType DEF TypeOK, CallTypeOK, dbVars
  <2>2. CASE /\ pc' = [pc EXCEPT ![c] = "release"]
             /\ todo' = [todo EXCEPT ![c] = Uncleaned]
             /\ UNCHANGED <<agenda, target, heldRead>>
    BY <2>0, <2>2 DEF TypeOK, dbVars, Steps, Uncleaned
  <2> QED BY <1>8, <2>1, <2>2 DEF Cleanup
<1>9. CASE ReleaseHold(c)
  <2>1. PICK j \in todo[c] :
          /\ key' = IF key = j THEN None ELSE key
          /\ Step(c, "clean", j)
          /\ todo' = [todo EXCEPT ![c] = todo[c] \ {j}]
          /\ UNCHANGED <<dbVars, agenda, heldRead, faults>>
    BY <1>9 DEF ReleaseHold
  <2>2. j \in Jobs /\ "clean" \in Steps
    BY DEF TypeOK, Steps
  <2>3. pc' \in [Callers -> Steps] /\ target' \in [Callers -> Jobs \cup {None}]
    BY <2>1, <2>2, StepType
  <2> QED BY <2>1, <2>3 DEF TypeOK, dbVars
<1>10. CASE CleanHold(c)
  <2>1. NextCleanup(c, todo[c]) /\ todo[c] \in SUBSET Jobs
    BY <1>10 DEF CleanHold, TypeOK
  <2>2. CallTypeOK'
    BY <2>1, NextCleanupType
  <2>3. target[c] \in written => target[c] \in Jobs
    BY DEF TypeOK
  <2> QED BY <1>10, <2>2, <2>3
      DEF CleanHold, TypeOK, CallTypeOK
<1> QED BY <1>1, <1>2, <1>3, <1>4, <1>5, <1>6, <1>7, <1>8, <1>9, <1>10 DEF Call

LEMMA BeginType ==
  ASSUME TypeOK, NEW c \in Callers,
         Tick(c) \/ Changed(c) \/ AdmitAfterConfirm(c)
  PROVE  /\ TypeOK'
         /\ \E plan \in Seq(Parts) : Begin(c, plan)
<1>1. PICK plan \in Seq(Parts) : Begin(c, plan)
  BY BeginPlans DEF Tick, Changed, AdmitAfterConfirm
<1>2. CallTypeOK'
  BY <1>1, GoOnKeepsType DEF Begin
<1> QED BY <1>1, <1>2 DEF Begin, TypeOK, CallTypeOK, dbVars

LEMMA FailType ==
  ASSUME TypeOK, NEW c \in Callers, Fail(c) PROVE TypeOK'
<1>1. faults' \in 0 .. MaxFaults
  BY AdmissionAssumption
     DEF TypeOK, Fail, PartFails, ReadHoldFails, ReleaseHoldFails, Fault
<1>2. CASE PartFails(c)
  <2>1. PICK n \in 0 .. Len(agenda[c]) :
          GoOn(c, SubSeq(agenda[c], n + 1, Len(agenda[c])))
    BY <1>2 DEF PartFails
  <2>2. CallTypeOK'
    BY <2>1, PlanType, GoOnKeepsType
  <2> QED BY <1>1, <1>2, <2>2 DEF PartFails, TypeOK, CallTypeOK, dbVars
<1>3. CASE ReadHoldFails(c)
  BY <1>1, <1>3 DEF ReadHoldFails, TypeOK, Steps, dbVars
<1>4. CASE ReleaseHoldFails(c)
  <2>1. todo[c] \in SUBSET Jobs
    BY DEF TypeOK
  <2>2. PICK j \in todo[c] :
          /\ key' \in {key, IF key = j THEN None ELSE key}
          /\ NextCleanup(c, todo[c] \ {j})
          /\ UNCHANGED cleaned
    BY <1>4 DEF ReleaseHoldFails, KeepEntry
  <2>3. CallTypeOK'
    BY <2>1, <2>2, NextCleanupType
  <2>4. key' \in Jobs \cup {None}
    BY <2>2 DEF TypeOK
  <2> QED BY <1>1, <1>4, <2>2, <2>3, <2>4
          DEF ReleaseHoldFails, TypeOK, CallTypeOK
<1> QED BY <1>2, <1>3, <1>4 DEF Fail

LEMMA TypeStep == TypeOK /\ [Next]_vars => TypeOK'
<1> SUFFICES ASSUME TypeOK, [Next]_vars PROVE TypeOK'
  OBVIOUS
<1>1. CASE UNCHANGED vars
  BY <1>1 DEF vars, dbVars, callVars, TypeOK
<1>2. CASE KeyExpires
  BY <1>2 DEF KeyExpires, dbVars, callVars, TypeOK
<1> QED BY <1>1, <1>2, JobType, CallType, BeginType, FailType DEF Next

\* The type invariant of JobAdmission: every step of every call leaves its
\* plan, its job in hand and the registry well-formed.
THEOREM TypeCorrect == Spec => []TypeOK
BY InitType, TypeStep, PTL DEF Spec

-----------------------------------------------------------------------------
(* The jobs: the queue, the write slot, the waits and the cancel           *)

JobsInv ==
  PlanTogether /\ NeverAhead /\ OneWriter /\ WaitRespected
    /\ CancelReachesWaiting

\* A wait is one level deep, and an update job awaits no device.
LEMMA WaitShape ==
  ASSUME NEW j \in Jobs, WaitFor[j] # None
  PROVE  /\ WaitFor[j] \in Jobs /\ WaitFor[WaitFor[j]] = None
         /\ WaitFor[j] \notin Commands /\ WaitFor[j] # j
BY AdmissionAssumption

LEMMA ConfirmJobs ==
  ASSUME TypeOK, JobsInv, NEW j \in Jobs, Confirm(j) PROVE JobsInv'
<1>1. /\ \A i \in Jobs : status'[i] = IF i = j \/ WaitFor[i] = j
                                      THEN "accepted" ELSE status[i]
      /\ status[j] = "absent" /\ WaitFor[j] = None
      /\ claimed' = claimed /\ requested' = requested
  BY DEF Confirm, WaitingOn
<1>0. j # None
  BY AdmissionAssumption
<1>2. \A i \in Jobs : WaitFor[i] = j => status[i] = "absent"
  BY <1>0, <1>1 DEF JobsInv, PlanTogether
<1>3. \A i \in Jobs : i = j \/ WaitFor[i] = j =>
        i \notin claimed /\ i \notin requested
  BY <1>1, <1>2 DEF JobsInv, PlanTogether
<1>4. PlanTogether'
  <2> SUFFICES ASSUME NEW i \in Jobs
      PROVE  /\ WaitFor[i] # None =>
                  (status'[i] = "absent" <=> status'[WaitFor[i]] = "absent")
             /\ status'[i] \in Waiting \cup {"absent"} => i \notin claimed'
             /\ status'[i] = "absent" => i \notin requested'
    BY DEF PlanTogether
  <2>1. CASE i = j \/ WaitFor[i] = j
    BY <1>0, <1>1, <1>3, <2>1 DEF Waiting
  <2>2. CASE i # j /\ WaitFor[i] # j
    <3>1. status'[i] = status[i]
      BY <1>1, <2>2
    <3>2. WaitFor[i] # None => status'[WaitFor[i]] = status[WaitFor[i]]
      BY <1>0, <1>1, <2>2, WaitShape
    <3> QED BY <1>1, <3>1, <3>2 DEF JobsInv, PlanTogether
  <2> QED BY <2>1, <2>2
<1>5. NeverAhead'
  BY <1>1, <1>2, <1>3, WaitShape DEF JobsInv, NeverAhead
<1>6. OneWriter'
  BY <1>1, <1>2 DEF JobsInv, OneWriter
<1>7. WaitRespected'
  BY <1>1, <1>2, <1>3, WaitShape DEF JobsInv, WaitRespected
<1>8. CancelReachesWaiting'
  BY <1>1, <1>2, <1>3, WaitShape DEF JobsInv, CancelReachesWaiting
<1> QED BY <1>4, <1>5, <1>6, <1>7, <1>8 DEF JobsInv

LEMMA ClaimJobs ==
  ASSUME TypeOK, JobsInv, NEW j \in Jobs, JobClaims(j) PROVE JobsInv'
<1>1. /\ status' = status /\ requested' = requested
      /\ claimed' = claimed \cup {j} /\ status[j] = "running"
  BY DEF JobClaims
<1>2. PlanTogether'
  BY <1>1, WaitShape DEF JobsInv, PlanTogether, Waiting
<1>3. NeverAhead'
  BY <1>1, WaitShape DEF JobsInv, NeverAhead, WaitRespected
<1>4. CancelReachesWaiting'
  BY <1>1 DEF JobsInv, CancelReachesWaiting
<1> QED BY <1>1, <1>2, <1>3, <1>4 DEF JobsInv, OneWriter, WaitRespected

\* A running job that stops, or a command job that ends
LEMMA EndJobs ==
  ASSUME TypeOK, JobsInv, NEW j \in Jobs,
         status[j] \in {"running", "awaiting-devices"},
         \A i \in Jobs \ {j} : status'[i] = status[i],
         status'[j] = "ended" \/ (j \in Commands /\ status'[j] = "awaiting-devices"),
         claimed' = claimed, requested' = requested
  PROVE  JobsInv'
<1>1. /\ \A i \in Jobs \ {j} : status'[i] = status[i]
      /\ status'[j] = "ended" \/ (j \in Commands /\ status'[j] = "awaiting-devices")
  OBVIOUS
<1>2. PlanTogether'
  BY <1>1, WaitShape DEF JobsInv, PlanTogether, Waiting
<1>3. NeverAhead'
  BY <1>1, WaitShape DEF JobsInv, NeverAhead
<1>4. OneWriter'
  BY <1>1 DEF JobsInv, OneWriter
<1>5. WaitRespected'
  BY <1>1, WaitShape DEF JobsInv, WaitRespected
<1>6. CancelReachesWaiting'
  BY <1>1 DEF JobsInv, CancelReachesWaiting
<1> QED BY <1>2, <1>3, <1>4, <1>5, <1>6 DEF JobsInv

LEMMA CancelJobs ==
  ASSUME TypeOK, JobsInv, NEW j \in Jobs, Cancel(j) PROVE JobsInv'
<1> DEFINE stopped == {i \in {j} \cup Cascade(j) :
                    IF i = j THEN status[j] # "running" \/ j \notin claimed
                    ELSE i \notin claimed}
<1>1. /\ status[j] \in Waiting \cup {"running"}
      /\ \A i \in Jobs : status'[i] = IF i \in stopped THEN "ended" ELSE status[i]
      /\ requested' = requested \cup {j} \cup Cascade(j)
      /\ claimed' = claimed
  BY DEF Cancel
<1>2. \A i \in Cascade(j) : i \in Jobs /\ WaitFor[i] = j /\ status[i] # "ended"
  BY DEF Cascade, WaitingOn
<1>0. j # None
  BY AdmissionAssumption
<1>3. \A i \in Jobs : WaitFor[i] = j =>
        i \notin claimed /\ (i \in Cascade(j) \/ status[i] = "ended")
  BY <1>0, <1>1 DEF JobsInv, NeverAhead, Waiting, Cascade, WaitingOn
<1>4. \A i \in Jobs : WaitFor[i] = j => status'[i] = "ended"
  BY <1>1, <1>3, WaitShape
<1>5. \A i \in stopped : i = j \/ WaitFor[i] = j
  BY <1>2
<1>6. status[j] # "absent" /\ \A i \in Jobs : WaitFor[i] = j => status[i] # "absent"
  BY <1>0, <1>1 DEF JobsInv, PlanTogether, Waiting
<1> HIDE DEF stopped
<1>7. PlanTogether'
  BY <1>1, <1>2, <1>5, <1>6, WaitShape DEF JobsInv, PlanTogether, Waiting
<1>8. NeverAhead'
  BY <1>1, WaitShape DEF JobsInv, NeverAhead
<1>9. OneWriter'
  BY <1>1 DEF JobsInv, OneWriter
<1>10. WaitRespected'
  BY <1>1, <1>4, WaitShape DEF JobsInv, WaitRespected
<1>11. CancelReachesWaiting'
  BY <1>0, <1>1, <1>2, <1>3, <1>4, WaitShape DEF JobsInv, CancelReachesWaiting
<1> QED BY <1>7, <1>8, <1>9, <1>10, <1>11 DEF JobsInv

\* The admission starts the first job that waits for nothing, or it relabels.
LEMMA AdmitJobs ==
  ASSUME TypeOK, JobsInv, NEW c \in Callers, AdmitJob(c) PROVE JobsInv'
<1>0. claimed' = claimed /\ requested' = requested
  BY DEF AdmitJob
<1>1. CASE SomebodyRuns \/ heldRead[c] \/ Eligible = {}
  <2>1. \A i \in Jobs :
          \/ i \in Candidates /\ status'[i] \in {"held", "queued"}
          \/ i \notin Candidates /\ status'[i] = status[i]
    BY <1>1 DEF AdmitJob, Eligible
  <2>2. \A i \in Candidates : status[i] \in Waiting
    BY DEF Candidates
  <2>3. {"held", "queued"} \subseteq Waiting
    BY DEF Waiting
  <2> QED BY <1>0, <2>1, <2>2, <2>3, WaitShape
          DEF JobsInv, PlanTogether, NeverAhead, OneWriter, WaitRespected,
              CancelReachesWaiting, Waiting
<1>2. CASE ~(SomebodyRuns \/ heldRead[c] \/ Eligible = {})
  <2> DEFINE k == First(Eligible)
  <2>1. k \in Jobs /\ status[k] \in Waiting
        /\ (WaitFor[k] # None => status[WaitFor[k]] = "ended")
    BY <1>2, FirstIsIn DEF Eligible, Candidates, Awaits
  <2>2. /\ status'[k] = "running"
        /\ \A i \in Jobs \ {k} :
             \/ status[i] \in Waiting /\ status'[i] = "queued"
             \/ status[i] \notin Waiting /\ status'[i] = status[i]
    BY <1>2, <2>1 DEF AdmitJob, Candidates
  <2>3. \A i \in Jobs : status[i] # "running"
    BY <1>2 DEF SomebodyRuns
  <2> HIDE DEF k
  <2>4. PlanTogether'
    BY <1>0, <2>1, <2>2, WaitShape DEF JobsInv, PlanTogether, Waiting
  <2>5. NeverAhead'
    BY <1>0, <2>1, <2>2, WaitShape DEF JobsInv, NeverAhead, Waiting
  <2>6. OneWriter'
    BY <2>2, <2>3 DEF OneWriter
  <2>7. WaitRespected'
    BY <2>1, <2>2, WaitShape DEF JobsInv, WaitRespected, Waiting
  <2>8. CancelReachesWaiting'
    BY <1>0, <2>1, <2>2, WaitShape DEF JobsInv, CancelReachesWaiting, Waiting
  <2> QED BY <2>4, <2>5, <2>6, <2>7, <2>8 DEF JobsInv
<1> QED BY <1>1, <1>2

LEMMA AbandonJobs ==
  ASSUME TypeOK, JobsInv, JobInHand, NEW c \in Callers, AbandonStart(c)
  PROVE  JobsInv'
<1>1. target[c] \in Jobs /\ claimed' = claimed /\ requested' = requested
  BY DEF AbandonStart, JobInHand
<1>2. CASE status' = status
  BY <1>1, <1>2 DEF JobsInv, PlanTogether, NeverAhead, OneWriter,
                    WaitRespected, CancelReachesWaiting
<1>3. CASE /\ status[target[c]] = "running"
           /\ status' = [status EXCEPT ![target[c]] = "ended"]
  <2>1. PICK j \in Jobs : j = target[c]
    BY <1>1
  <2>2. /\ status[j] = "running" /\ status'[j] = "ended"
        /\ \A i \in Jobs \ {j} : status'[i] = status[i]
    BY <1>3, <2>1 DEF TypeOK
  <2> QED BY <1>1, <2>2, EndJobs
<1> QED BY <1>2, <1>3 DEF AbandonStart, Abandoned

\* The other steps leave the jobs alone.
LEMMA JobsStep == TypeOK /\ JobInHand /\ JobsInv /\ [Next]_vars => JobsInv'
<1> SUFFICES ASSUME TypeOK, JobInHand, JobsInv, [Next]_vars PROVE JobsInv'
  OBVIOUS
<1>1. ASSUME NEW j \in Jobs, Job(j) PROVE JobsInv'
  <2>1. CASE RunEnds(j)
    <3>1. /\ status[j] = "running"
          /\ \A i \in Jobs \ {j} : status'[i] = status[i]
          /\ \/ status'[j] = "ended"
             \/ j \in Commands /\ status'[j] = "awaiting-devices"
          /\ claimed' = claimed /\ requested' = requested
      BY <2>1 DEF RunEnds, TypeOK
    <3> QED BY <3>1, EndJobs
  <2>2. CASE DevicesAnswer(j)
    <3>1. /\ status[j] = "awaiting-devices"
          /\ status'[j] = "ended"
          /\ \A i \in Jobs \ {j} : status'[i] = status[i]
          /\ claimed' = claimed /\ requested' = requested
      BY <2>2 DEF DevicesAnswer, TypeOK
    <3> QED BY <3>1, EndJobs
  <2>3. CASE ReportBackoff(j) \/ ReportLapses(j)
    BY <2>3 DEF ReportBackoff, ReportLapses, JobsInv, PlanTogether, NeverAhead,
                OneWriter, WaitRespected, CancelReachesWaiting
  <2> QED BY <1>1, <2>1, <2>2, <2>3, ConfirmJobs, ClaimJobs, CancelJobs DEF Job
<1>2. CASE UNCHANGED <<status, claimed, requested>>
  BY <1>2 DEF JobsInv, PlanTogether, NeverAhead, OneWriter, WaitRespected,
              CancelReachesWaiting
<1>3. ASSUME NEW c \in Callers,
             Tick(c) \/ Changed(c) \/ AdmitAfterConfirm(c) \/ Fail(c)
      PROVE  UNCHANGED <<status, claimed, requested>>
  BY <1>3 DEF Tick, Changed, AdmitAfterConfirm, Begin, Fail, PartFails,
              ReadHoldFails, ReleaseHoldFails, dbVars
<1>4. ASSUME NEW c \in Callers, Call(c), ~AdmitJob(c), ~AbandonStart(c)
      PROVE  UNCHANGED <<status, claimed, requested>>
  BY <1>4 DEF Call, AcceptHold, WriteHold, ReadHold, StartJob, RecoverJobs,
              Cleanup, ReleaseHold, CleanHold, dbVars
<1>5. KeyExpires \/ UNCHANGED vars => UNCHANGED <<status, claimed, requested>>
  BY DEF KeyExpires, vars, dbVars
<1> QED BY <1>1, <1>2, <1>3, <1>4, <1>5, AdmitJobs, AbandonJobs DEF Next

-----------------------------------------------------------------------------
(* The hold: the registry, the key and the step of the one call under way  *)

CallsInStep == OneHolder /\ JobInHand /\ RegistryInStep /\ FlagIsCurrent

HoldInv == HoldIsRegistered /\ CleanIsReleased /\ CallsInStep

\* No job takes the write slot back.
LEMMA ReleasedStays ==
  ASSUME TypeOK, JobsInv, [Next]_vars, NEW i \in Jobs, status[i] \in Released
  PROVE  status'[i] \in Released
<1>1. CASE status' = status
  BY <1>1
<1>2. ASSUME NEW j \in Jobs, Job(j) PROVE status'[i] \in Released
  <2>1. CASE Confirm(j)
    <3>1. i \notin {j} \cup WaitingOn(j)
      BY <2>1, AdmissionAssumption
         DEF Confirm, WaitingOn, JobsInv, PlanTogether, Released
    <3> QED BY <2>1, <3>1 DEF Confirm
  <2>2. CASE RunEnds(j) \/ DevicesAnswer(j) \/ Cancel(j)
    BY <2>2 DEF RunEnds, DevicesAnswer, Cancel, Released, TypeOK
  <2> QED BY <1>1, <1>2, <2>1, <2>2
          DEF Job, JobClaims, ReportBackoff, ReportLapses
<1>3. ASSUME NEW c \in Callers, AdmitJob(c) PROVE status'[i] \in Released
  <2>1. i \notin Candidates
    BY DEF Candidates, Released, Waiting
  <2>2. CASE SomebodyRuns \/ heldRead[c] \/ Eligible = {}
    BY <1>3, <2>1, <2>2 DEF AdmitJob, Eligible
  <2>3. CASE ~(SomebodyRuns \/ heldRead[c] \/ Eligible = {})
    <3>1. i # First(Eligible)
      BY <2>1, <2>3, FirstIsIn DEF Eligible, Candidates
    <3> QED BY <1>3, <2>1, <2>3, <3>1 DEF AdmitJob
  <2> QED BY <2>2, <2>3
<1>4. ASSUME NEW c \in Callers, AbandonStart(c) PROVE status'[i] \in Released
  BY <1>4 DEF AbandonStart, Abandoned, Released, TypeOK
<1>5. ASSUME NEW c \in Callers,
             Tick(c) \/ Changed(c) \/ AdmitAfterConfirm(c) \/ Fail(c)
      PROVE  status' = status
  BY <1>5 DEF Tick, Changed, AdmitAfterConfirm, Begin, Fail, PartFails,
              ReadHoldFails, ReleaseHoldFails, dbVars
<1>6. ASSUME NEW c \in Callers, Call(c), ~AdmitJob(c), ~AbandonStart(c)
      PROVE  status' = status
  BY <1>6 DEF Call, AcceptHold, WriteHold, ReadHold, StartJob, RecoverJobs,
              Cleanup, ReleaseHold, CleanHold, dbVars
<1>7. KeyExpires \/ UNCHANGED vars => status' = status
  BY DEF KeyExpires, vars, dbVars
<1> QED BY <1>1, <1>2, <1>3, <1>4, <1>5, <1>6, <1>7 DEF Next

\* A running job never goes back to the queue.
LEMMA RunningStays ==
  ASSUME TypeOK, JobsInv, [Next]_vars, NEW i \in Jobs, status[i] = "running"
  PROVE  status'[i] \in Released \cup {"running"}
<1>1. CASE status' = status
  BY <1>1
<1>2. ASSUME NEW j \in Jobs, Job(j)
      PROVE  status'[i] \in Released \cup {"running"}
  <2>1. CASE Confirm(j)
    <3>1. i \notin {j} \cup WaitingOn(j)
      BY <2>1, AdmissionAssumption
         DEF Confirm, WaitingOn, JobsInv, PlanTogether
    <3> QED BY <2>1, <3>1 DEF Confirm
  <2>2. CASE RunEnds(j) \/ DevicesAnswer(j) \/ Cancel(j)
    BY <2>2 DEF RunEnds, DevicesAnswer, Cancel, Released, TypeOK
  <2> QED BY <1>1, <1>2, <2>1, <2>2
          DEF Job, JobClaims, ReportBackoff, ReportLapses
<1>3. ASSUME NEW c \in Callers, AdmitJob(c) PROVE status'[i] = "running"
  <2>1. i \notin Candidates /\ SomebodyRuns
    BY DEF Candidates, Waiting, SomebodyRuns
  <2> QED BY <1>3, <2>1 DEF AdmitJob, Eligible
<1>4. ASSUME NEW c \in Callers, AbandonStart(c)
      PROVE  status'[i] \in Released \cup {"running"}
  BY <1>4 DEF AbandonStart, Abandoned, Released, TypeOK
<1>5. ASSUME NEW c \in Callers,
             Tick(c) \/ Changed(c) \/ AdmitAfterConfirm(c) \/ Fail(c)
      PROVE  status' = status
  BY <1>5 DEF Tick, Changed, AdmitAfterConfirm, Begin, Fail, PartFails,
              ReadHoldFails, ReleaseHoldFails, dbVars
<1>6. ASSUME NEW c \in Callers, Call(c), ~AdmitJob(c), ~AbandonStart(c)
      PROVE  status' = status
  BY <1>6 DEF Call, AcceptHold, WriteHold, ReadHold, StartJob, RecoverJobs,
              Cleanup, ReleaseHold, CleanHold, dbVars
<1>7. KeyExpires \/ UNCHANGED vars => status' = status
  BY DEF KeyExpires, vars, dbVars
<1> QED BY <1>1, <1>2, <1>3, <1>4, <1>5, <1>6, <1>7 DEF Next

\* The lock: while the call c moves, every other call is idle.
LEMMA OthersIdle ==
  ASSUME OneHolder, NEW c \in Callers, pc[c] # "idle" \/ LockFree,
         \A d \in Callers \ {c} : pc'[d] = pc[d]
  PROVE  \A d \in Callers \ {c} : pc'[d] = "idle"
BY DEF OneHolder, LockFree

\* What holds of the calls when the one that moved is at a step of its own
LEMMA InStep ==
  ASSUME NEW c \in Callers, \A d \in Callers \ {c} : pc'[d] = "idle",
         pc'[c] \in {"write", "clean", "start", "abandon"} => target'[c] \in Jobs,
         pc'[c] = "write" => target'[c] \in written' \ cleaned',
         pc'[c] = "clean" => key' # target'[c],
         pc'[c] = "admit" /\ ~heldRead'[c] => key' = None
  PROVE  CallsInStep'
BY DEF CallsInStep, OneHolder, JobInHand, RegistryInStep, FlagIsCurrent

\* A call that goes on has nothing in hand.
LEMMA GoOnInStep ==
  ASSUME TypeOK, OneHolder, NEW c \in Callers, pc[c] # "idle" \/ LockFree,
         NEW rest \in Seq(Parts), GoOn(c, rest)
  PROVE  CallsInStep'
<1>1. pc'[c] \in Parts \cup {"idle"} /\ \A d \in Callers \ {c} : pc'[d] = pc[d]
  BY GoOnType DEF OthersStay
<1>2. pc'[c] \notin {"write", "clean", "start", "abandon", "admit"}
  BY <1>1 DEF Parts
<1> QED BY <1>1, <1>2, OthersIdle, InStep

\* The cleanup between two of its jobs
LEMMA NextCleanupInStep ==
  ASSUME TypeOK, OneHolder, NEW c \in Callers, pc[c] # "idle",
         NEW rest \in SUBSET Jobs, NextCleanup(c, rest)
  PROVE  CallsInStep'
<1>1. CASE rest = {}
  <2>1. GoOn(c, agenda[c]) /\ agenda[c] \in Seq(Parts)
    BY <1>1 DEF NextCleanup, TypeOK
  <2> QED BY <2>1, GoOnInStep
<1>2. CASE rest # {}
  <2>1. Step(c, "release", None) /\ "release" \in Steps
    BY <1>2 DEF NextCleanup, Steps
  <2>2. pc'[c] = "release" /\ \A d \in Callers \ {c} : pc'[d] = pc[d]
    BY <2>1, StepType
  <2> QED BY <2>2, OthersIdle, InStep
<1> QED BY <1>1, <1>2

\* The first conjuncts of HoldInv, when the key moves to none or stays and the
\* registry keeps its entries.
LEMMA RegistryKept ==
  ASSUME HoldIsRegistered, CleanIsReleased, cleaned \subseteq Jobs,
         \A i \in Jobs : status[i] \in Released => status'[i] \in Released,
         key' \in {key, None}, written \subseteq written', cleaned' = cleaned
  PROVE  HoldIsRegistered' /\ CleanIsReleased'
BY DEF HoldIsRegistered, CleanIsReleased

LEMMA CallHold ==
  ASSUME TypeOK, JobsInv, HoldInv, NEW c \in Callers, Call(c),
         \A i \in Jobs : status[i] \in Released => status'[i] \in Released
  PROVE  HoldInv'
<1> USE DEF HoldInv
<1>0. /\ OneHolder /\ pc[c] # "idle" /\ agenda[c] \in Seq(Parts)
      /\ cleaned \subseteq Jobs /\ written \subseteq Jobs
  BY DEF CallsInStep, TypeOK, Call, AcceptHold, WriteHold, ReadHold, AdmitJob,
         StartJob, AbandonStart, RecoverJobs, Cleanup, ReleaseHold, CleanHold
<1>1. CASE AcceptHold(c)
  <2> DEFINE held == {j \in report : status[j] = "running"}
  <2>1. CASE held = {}
    <3>1. GoOn(c, agenda[c]) /\ UNCHANGED <<dbVars, key>>
      BY <1>1, <2>1 DEF AcceptHold
    <3>2. CallsInStep'
      BY <1>0, <3>1, GoOnInStep
    <3> QED BY <1>0, <3>1, <3>2, RegistryKept DEF dbVars
  <2>2. CASE held # {}
    <3>1. PICK j \in held :
            /\ written' = written \cup {j}
            /\ Step(c, "write", j)
            /\ UNCHANGED <<cleaned, key>>
      BY <1>1, <2>2 DEF AcceptHold, Registered
    <3>2. j \in Jobs /\ "write" \in Steps /\ j \notin cleaned
      BY DEF TypeOK, Steps, CleanIsReleased, Released
    <3>3. /\ pc'[c] = "write" /\ target'[c] = j
          /\ \A d \in Callers \ {c} : pc'[d] = pc[d]
      BY <3>1, <3>2, StepType
    <3>4. CallsInStep'
      BY <1>0, <3>1, <3>2, <3>3, OthersIdle, InStep
    <3>5. written \subseteq written'
      BY <3>1
    <3> QED BY <1>0, <3>1, <3>4, <3>5, RegistryKept
  <2> QED BY <2>1, <2>2
<1>2. CASE WriteHold(c)
  <2>1. /\ GoOn(c, <<"read", "retry">> \o agenda[c])
        /\ UNCHANGED dbVars /\ key' \in {key, target[c]}
        /\ target[c] \in written \ cleaned
    BY <1>2 DEF WriteHold, CallsInStep, RegistryInStep
  <2>2. CallsInStep'
    BY <1>0, <2>1, PlanType, GoOnInStep
  <2> QED BY <2>1, <2>2 DEF HoldIsRegistered, CleanIsReleased, dbVars
<1>3. CASE ReadHold(c)
  <2>1. /\ pc'[c] = "admit" /\ heldRead'[c] = (key # None)
        /\ \A d \in Callers \ {c} : pc'[d] = pc[d]
        /\ UNCHANGED <<dbVars, key>>
    BY <1>3 DEF ReadHold, TypeOK
  <2>2. CallsInStep'
    BY <1>0, <2>1, OthersIdle, InStep
  <2> QED BY <1>0, <2>1, <2>2, RegistryKept DEF dbVars
<1>4. CASE AdmitJob(c)
  <2>1. CASE SomebodyRuns \/ heldRead[c] \/ Eligible = {}
    <3>1. GoOn(c, agenda[c])
      BY <1>4, <2>1 DEF AdmitJob
    <3> QED BY <1>0, <1>4, <3>1, GoOnInStep, RegistryKept DEF AdmitJob
  <2>2. CASE ~(SomebodyRuns \/ heldRead[c] \/ Eligible = {})
    <3>1. /\ Step(c, "start", First(Eligible)) /\ "start" \in Steps
          /\ First(Eligible) \in Jobs
      BY <1>4, <2>2, FirstIsIn DEF AdmitJob, Eligible, Candidates, Steps
    <3>2. /\ pc'[c] = "start" /\ target'[c] \in Jobs
          /\ \A d \in Callers \ {c} : pc'[d] = pc[d]
      BY <3>1, StepType
    <3>3. CallsInStep'
      BY <1>0, <3>2, OthersIdle, InStep
    <3> QED BY <1>0, <1>4, <3>3, RegistryKept DEF AdmitJob
  <2> QED BY <2>1, <2>2
<1>5. CASE StartJob(c)
  <2>1. UNCHANGED <<dbVars, key>>
    BY <1>5 DEF StartJob
  <2>2. CASE GoOn(c, agenda[c])
    BY <1>0, <2>1, <2>2, GoOnInStep, RegistryKept DEF dbVars
  <2>3. CASE Step(c, "abandon", target[c])
    <3>1. target[c] \in Jobs /\ "abandon" \in Steps
      BY <1>5 DEF StartJob, CallsInStep, JobInHand, Steps
    <3>2. /\ pc'[c] = "abandon" /\ target'[c] = target[c]
          /\ \A d \in Callers \ {c} : pc'[d] = pc[d]
      BY <2>3, <3>1, StepType
    <3>3. CallsInStep'
      BY <1>0, <3>1, <3>2, OthersIdle, InStep
    <3> QED BY <1>0, <2>1, <3>3, RegistryKept DEF dbVars
  <2> QED BY <1>5, <2>2, <2>3 DEF StartJob
<1>6. CASE AbandonStart(c)
  <2> DEFINE rest == IF agenda[c] # <<>> /\ Head(agenda[c]) = "retry"
                     THEN <<"cleanup", "read">> \o Tail(agenda[c])
                     ELSE agenda[c]
  <2>1. rest \in Seq(Parts)
    BY <1>0, PlanType
  <2>2. GoOn(c, rest) /\ UNCHANGED <<written, cleaned, key>>
    BY <1>6 DEF AbandonStart
  <2> HIDE DEF rest
  <2> QED BY <1>0, <2>1, <2>2, GoOnInStep, RegistryKept
<1>7. CASE RecoverJobs(c)
  <2>1. UNCHANGED <<dbVars, key>>
    BY <1>7 DEF RecoverJobs
  <2>2. CASE GoOn(c, agenda[c]) \/ GoOn(c, <<"cleanup", "read">> \o agenda[c])
    <3>1. CallsInStep'
      BY <1>0, <2>2, PlanType, GoOnInStep
    <3> QED BY <1>0, <2>1, <3>1, RegistryKept DEF dbVars
  <2>3. CASE \E j \in Jobs : Step(c, "start", j)
    <3>1. PICK j \in Jobs : Step(c, "start", j)
      BY <2>3
    <3>2. "start" \in Steps
      BY DEF Steps
    <3>3. /\ pc'[c] = "start" /\ target'[c] \in Jobs
          /\ \A d \in Callers \ {c} : pc'[d] = pc[d]
      BY <3>1, <3>2, StepType
    <3>4. CallsInStep'
      BY <1>0, <3>3, OthersIdle, InStep
    <3> QED BY <1>0, <2>1, <3>4, RegistryKept DEF dbVars
  <2> QED BY <1>7, <2>2, <2>3 DEF RecoverJobs
<1>8. CASE Cleanup(c)
  <2>1. UNCHANGED <<dbVars, key>>
    BY <1>8 DEF Cleanup
  <2>2. CASE GoOn(c, agenda[c])
    BY <1>0, <2>1, <2>2, GoOnInStep, RegistryKept DEF dbVars
  <2>3. CASE pc' = [pc EXCEPT ![c] = "release"]
    <3>1. pc'[c] = "release" /\ \A d \in Callers \ {c} : pc'[d] = pc[d]
      BY <2>3 DEF TypeOK
    <3>2. CallsInStep'
      BY <1>0, <3>1, OthersIdle, InStep
    <3> QED BY <1>0, <2>1, <3>2, RegistryKept DEF dbVars
  <2> QED BY <1>8, <2>2, <2>3 DEF Cleanup
<1>9. CASE ReleaseHold(c)
  <2>1. PICK j \in todo[c] :
          /\ key' = IF key = j THEN None ELSE key
          /\ Step(c, "clean", j)
          /\ UNCHANGED dbVars
    BY <1>9 DEF ReleaseHold
  <2>2. j \in Jobs /\ "clean" \in Steps
    BY DEF TypeOK, Steps
  <2>3. /\ pc'[c] = "clean" /\ target'[c] = j
        /\ \A d \in Callers \ {c} : pc'[d] = pc[d]
    BY <2>1, <2>2, StepType
  <2>4. key' # j
    BY <2>1, <2>2, AdmissionAssumption
  <2>5. CallsInStep'
    BY <1>0, <2>2, <2>3, <2>4, OthersIdle, InStep
  <2> QED BY <1>0, <2>1, <2>5, RegistryKept DEF dbVars
<1>10. CASE CleanHold(c)
  <2>1. /\ NextCleanup(c, todo[c]) /\ todo[c] \in SUBSET Jobs
        /\ UNCHANGED <<status, written, key>>
        /\ key # target[c]
        /\ \/ cleaned' = cleaned
           \/ cleaned' = cleaned \cup {target[c]} /\ status[target[c]] \in Released
    BY <1>10 DEF CleanHold, TypeOK, CallsInStep, RegistryInStep
  <2>2. CallsInStep'
    BY <1>0, <2>1, NextCleanupInStep
  <2> QED BY <2>1, <2>2 DEF HoldIsRegistered, CleanIsReleased
<1> QED BY <1>1, <1>2, <1>3, <1>4, <1>5, <1>6, <1>7, <1>8, <1>9, <1>10 DEF Call

LEMMA HoldStep == TypeOK /\ JobsInv /\ HoldInv /\ [Next]_vars => HoldInv'
<1> SUFFICES ASSUME TypeOK, JobsInv, HoldInv, [Next]_vars PROVE HoldInv'
  OBVIOUS
<1> USE DEF HoldInv
<1>0. /\ OneHolder /\ cleaned \subseteq Jobs
      /\ \A i \in Jobs : status[i] \in Released => status'[i] \in Released
  BY ReleasedStays DEF CallsInStep, TypeOK
<1>1. CASE UNCHANGED <<written, cleaned, callVars>> /\ key' \in {key, None}
  <2>1. CallsInStep'
    BY <1>1, AdmissionAssumption
       DEF CallsInStep, OneHolder, JobInHand, RegistryInStep, FlagIsCurrent,
           callVars
  <2> QED BY <1>0, <1>1, <2>1, RegistryKept
<1>2. ASSUME NEW j \in Jobs, Job(j)
      PROVE  UNCHANGED <<written, cleaned, callVars, key>>
  BY <1>2 DEF Job, Confirm, JobClaims, ReportBackoff, ReportLapses, RunEnds,
              DevicesAnswer, Cancel
<1>3. KeyExpires \/ UNCHANGED vars =>
        UNCHANGED <<written, cleaned, callVars>> /\ key' \in {key, None}
  BY DEF KeyExpires, vars, dbVars
<1>4. ASSUME NEW c \in Callers, Tick(c) \/ Changed(c) \/ AdmitAfterConfirm(c)
      PROVE  HoldInv'
  <2>1. PICK plan \in Seq(Parts) : Begin(c, plan)
    BY <1>4, BeginType
  <2>2. LockFree /\ GoOn(c, plan) /\ UNCHANGED <<dbVars, key>>
    BY <2>1 DEF Begin
  <2> QED BY <1>0, <2>2, GoOnInStep, RegistryKept DEF dbVars
<1>5. ASSUME NEW c \in Callers, PartFails(c) PROVE HoldInv'
  <2>1. PICK n \in 0 .. Len(agenda[c]) :
          GoOn(c, SubSeq(agenda[c], n + 1, Len(agenda[c])))
    BY <1>5 DEF PartFails
  <2>2. CallsInStep'
    BY <1>0, <1>5, <2>1, PlanType, GoOnInStep DEF PartFails
  <2> QED BY <1>0, <1>5, <2>2, RegistryKept DEF PartFails, dbVars
<1>6. ASSUME NEW c \in Callers, ReadHoldFails(c) PROVE HoldInv'
  <2>1. /\ pc'[c] = "admit" /\ heldRead'[c] = TRUE /\ pc[c] # "idle"
        /\ \A d \in Callers \ {c} : pc'[d] = pc[d]
        /\ UNCHANGED <<dbVars, key>>
    BY <1>6 DEF ReadHoldFails, TypeOK
  <2>2. CallsInStep'
    BY <1>0, <2>1, OthersIdle, InStep
  <2> QED BY <1>0, <2>1, <2>2, RegistryKept DEF dbVars
<1>7. ASSUME NEW c \in Callers, ReleaseHoldFails(c) PROVE HoldInv'
  <2>1. PICK j \in todo[c] :
          /\ key' \in {key, IF key = j THEN None ELSE key}
          /\ NextCleanup(c, todo[c] \ {j})
          /\ UNCHANGED cleaned
    BY <1>7 DEF ReleaseHoldFails, KeepEntry
  <2>2. pc[c] # "idle" /\ todo[c] \ {j} \in SUBSET Jobs /\ UNCHANGED written
    BY <1>7 DEF ReleaseHoldFails, TypeOK
  <2>3. CallsInStep'
    BY <1>0, <2>1, <2>2, NextCleanupInStep
  <2> QED BY <1>0, <2>1, <2>2, <2>3, RegistryKept
<1> QED BY <1>0, <1>1, <1>2, <1>3, <1>4, <1>5, <1>6, <1>7, CallHold
        DEF Next, Fail

-----------------------------------------------------------------------------
(* The theorems                                                            *)

LEMMA InvSplit == AdmissionInv <=> TypeOK /\ JobsInv /\ HoldInv
BY DEF AdmissionInv, JobsInv, HoldInv, CallsInStep

LEMMA InvInit == Init => AdmissionInv
<1> SUFFICES ASSUME Init PROVE AdmissionInv
  OBVIOUS
<1>1. JobsInv
  BY WaitShape DEF Init, JobsInv, PlanTogether, NeverAhead, OneWriter,
                   WaitRespected, CancelReachesWaiting
<1>2. HoldInv
  BY DEF Init, HoldInv, CallsInStep, OneHolder, JobInHand, RegistryInStep,
         FlagIsCurrent, HoldIsRegistered, CleanIsReleased
<1> QED BY <1>1, <1>2, InitType, InvSplit

LEMMA InvStep == AdmissionInv /\ [Next]_vars => AdmissionInv'
<1> SUFFICES ASSUME AdmissionInv, [Next]_vars PROVE AdmissionInv'
  OBVIOUS
<1>1. TypeOK /\ JobsInv /\ HoldInv /\ JobInHand
  BY DEF AdmissionInv, JobsInv, HoldInv, CallsInStep
<1>2. TypeOK' /\ JobsInv' /\ HoldInv'
  BY <1>1, TypeStep, JobsStep, HoldStep
<1> QED BY <1>2 DEF AdmissionInv, JobsInv, HoldInv, CallsInStep

\* The inductive invariant of the admission holds in every reachable state.
THEOREM AdmissionCorrect == Spec => []AdmissionInv
BY InvInit, InvStep, PTL DEF Spec

\* A customer has at most one running write job, whichever calls of the job
\* service overlap or fail.
THEOREM OneWriterCorrect == Spec => []OneWriter
<1>1. AdmissionInv => OneWriter
  BY DEF AdmissionInv
<1> QED BY <1>1, AdmissionCorrect, PTL

\* A status job of an import never reaches a device before the update job of
\* the import has finished.
THEOREM WaitRespectedCorrect == Spec => []WaitRespected
<1>1. AdmissionInv => WaitRespected
  BY DEF AdmissionInv
<1> QED BY <1>1, AdmissionCorrect, PTL

\* A cancelled update job takes the status jobs of its import with it.
THEOREM CancelReachesWaitingCorrect == Spec => []CancelReachesWaiting
<1>1. AdmissionInv => CancelReachesWaiting
  BY DEF AdmissionInv
<1> QED BY <1>1, AdmissionCorrect, PTL

\* Every hold in Redis has a registry entry that the cleanup will visit,
\* wherever the process, PostgreSQL or Redis failed.
THEOREM HoldIsRegisteredCorrect == Spec => []HoldIsRegistered
<1>1. AdmissionInv => HoldIsRegistered
  BY DEF AdmissionInv
<1> QED BY <1>1, AdmissionCorrect, PTL

\* A job starts only in a step of an admission that read no hold.
LEMMA StartStep ==
  ASSUME TypeOK, [Next]_vars, NEW j \in Jobs,
         status[j] \in Waiting, status'[j] = "running"
  PROVE  \E c \in Callers : pc[c] = "admit" /\ ~heldRead[c]
<1>0. status[j] # "running"
  BY DEF Waiting
<1>1. ASSUME NEW i \in Jobs, Job(i) PROVE FALSE
  <2>1. status' # status
    BY <1>0
  <2>2. CASE Confirm(i)
    BY <1>0, <2>2 DEF Confirm
  <2>3. CASE RunEnds(i) \/ DevicesAnswer(i)
    BY <1>0, <2>3 DEF RunEnds, DevicesAnswer, TypeOK
  <2>4. CASE Cancel(i)
    BY <1>0, <2>4 DEF Cancel
  <2> QED BY <1>1, <2>1, <2>2, <2>3, <2>4
          DEF Job, JobClaims, ReportBackoff, ReportLapses
<1>2. ASSUME NEW c \in Callers,
             Tick(c) \/ Changed(c) \/ AdmitAfterConfirm(c) \/ Fail(c)
      PROVE  FALSE
  BY <1>0, <1>2 DEF Tick, Changed, AdmitAfterConfirm, Begin, Fail, PartFails,
                    ReadHoldFails, ReleaseHoldFails, dbVars
<1>3. ASSUME NEW c \in Callers, AbandonStart(c) PROVE FALSE
  BY <1>0, <1>3 DEF AbandonStart, Abandoned, TypeOK
<1>4. ASSUME NEW c \in Callers, Call(c), ~AdmitJob(c), ~AbandonStart(c)
      PROVE  FALSE
  BY <1>0, <1>4 DEF Call, AcceptHold, WriteHold, ReadHold, StartJob,
                    RecoverJobs, Cleanup, ReleaseHold, CleanHold, dbVars
<1>5. ASSUME NEW c \in Callers, AdmitJob(c)
      PROVE  pc[c] = "admit" /\ ~heldRead[c]
  <2>1. pc[c] = "admit"
    BY <1>5 DEF AdmitJob
  <2>2. CASE SomebodyRuns \/ heldRead[c] \/ Eligible = {}
    BY <1>0, <1>5, <2>2 DEF AdmitJob
  <2>3. CASE ~(SomebodyRuns \/ heldRead[c] \/ Eligible = {})
    BY <2>1, <2>3
  <2> QED BY <2>2, <2>3
<1>6. ~KeyExpires /\ ~UNCHANGED vars
  BY <1>0 DEF KeyExpires, vars, dbVars
<1> QED BY <1>1, <1>2, <1>3, <1>4, <1>5, <1>6 DEF Next

\* No write job starts while a hold is in Redis: the flag that the admission
\* read is still right in its transaction.
THEOREM NoStartUnderHoldCorrect == Spec => NoStartUnderHold
<1>1. AdmissionInv /\ [Next]_vars =>
        [\A j \in Jobs : status[j] \in Waiting /\ status'[j] = "running"
           => key = None]_vars
  <2> SUFFICES ASSUME AdmissionInv, [Next]_vars, NEW j \in Jobs,
                      status[j] \in Waiting, status'[j] = "running"
               PROVE  key = None
    OBVIOUS
  <2> QED BY StartStep DEF AdmissionInv, FlagIsCurrent
<1> QED BY <1>1, AdmissionCorrect, PTL DEF Spec, NoStartUnderHold

\* The places of a job, from its status
LEMMA PlaceByStatus ==
  ASSUME TypeOK, NEW j \in Jobs
  PROVE  /\ Place(j) \in {"waiting", "running", "released"}
         /\ Place(j) = "running" <=> status[j] = "running"
         /\ Place(j) = "released" <=> status[j] \in Released
BY DEF TypeOK, Place, Status, Waiting, Released

LEMMA PlaceStep ==
  ASSUME TypeOK, JobsInv, [Next]_vars, NEW j \in Jobs, Place(j)' # Place(j)
  PROVE  <<Place(j), Place(j)'>> \in
           {<<"waiting", "running">>, <<"running", "released">>,
            <<"waiting", "released">>}
<1>1. TypeOK'
  BY TypeStep
<1>2. /\ Place(j)' \in {"waiting", "running", "released"}
      /\ Place(j)' = "running" <=> status'[j] = "running"
      /\ Place(j)' = "released" <=> status'[j] \in Released
  BY <1>1 DEF TypeOK, Place, Status, Waiting, Released
<1>3. Place(j) = "released" => Place(j)' = "released"
  BY <1>2, PlaceByStatus, ReleasedStays
<1>4. Place(j) = "running" => Place(j)' \in {"running", "released"}
  BY <1>2, PlaceByStatus, RunningStays
<1> QED BY <1>2, <1>3, <1>4, PlaceByStatus

\* A job takes the write slot at most once and never gets it back: whatever the
\* job service does of a job is a step of its contract.
THEOREM PassesSlotOnceCorrect == Spec => PassesSlotOnce
<1>1. AdmissionInv /\ [Next]_vars =>
        [\A j \in Jobs :
           Place(j)' # Place(j) =>
             <<Place(j), Place(j)'>> \in
                {<<"waiting", "running">>, <<"running", "released">>,
                 <<"waiting", "released">>}]_vars
  BY PlaceStep, InvSplit
<1> QED BY <1>1, AdmissionCorrect, PTL DEF Spec, PassesSlotOnce

-----------------------------------------------------------------------------
(* The jobs and their contracts                                            *)

LEMMA JobsStepIsStep == [JobsNext]_jobsVars => [Next]_vars
BY DEF JobsNext, jobsVars, ServiceStep, JobWorks

\* The queue of WriteJobs is the queue of JobAdmission.
THEOREM JobsKeepQueue == JobsSpec => Spec
<1>1. JobsInit => Init
  BY DEF JobsInit
<1> QED BY <1>1, JobsStepIsStep, PTL DEF JobsSpec, Spec

\* What the contract of a job makes of its reports
LEMMA ContractStep ==
  ASSUME NEW j \in Jobs, Contract(j)!Next, known'[j] \in [Operations -> Known]
  PROVE  /\ Place(j) = "released" /\ ~Undecided(j) => ~Undecided(j)'
         /\ Place(j) # "released" /\ Place(j)' = "released" => ~Undecided(j)'
<1>1. CASE Contract(j)!Start
  BY <1>1 DEF Contract!Start
<1>2. CASE Contract(j)!Ask
  BY <1>2 DEF Contract!Ask
<1>3. CASE \E o \in Operations : Contract(j)!CarryOut(o)
  BY <1>3 DEF Contract!CarryOut, Undecided
<1>4. CASE Contract(j)!Report
  <2>1. /\ Place(j)' = Place(j)
        /\ \A o \in Operations : known'[j][o] \in Contract(j)!MayReport(o)
    BY <1>4 DEF Contract!Report, Contract!Reports
  <2>2. \A o \in Operations : known[j][o] # "open" => known'[j][o] # "open"
    BY <2>1 DEF Contract!MayReport
  <2> QED BY <2>1, <2>2 DEF Undecided
<1>5. CASE Contract(j)!LetGo
  BY <1>5 DEF Contract!LetGo, Contract!Release, Undecided
<1>6. CASE Contract(j)!GiveUp
  BY <1>6 DEF Contract!GiveUp, Undecided
<1> QED BY <1>1, <1>2, <1>3, <1>4, <1>5, <1>6 DEF Contract!Next

LEMMA JobsTypeStep ==
  ASSUME JobsTypeOK, [JobsNext]_jobsVars PROVE JobsTypeOK'
<1>1. TypeOK'
  BY JobsStepIsStep, TypeStep DEF JobsTypeOK
<1>2. CASE ServiceStep
  BY <1>1, <1>2 DEF JobsTypeOK, ServiceStep, KnownNext
<1>3. ASSUME NEW j \in Jobs, JobWorks(j) PROVE JobsTypeOK'
  BY <1>1, <1>3 DEF JobsTypeOK, JobWorks
<1>4. CASE UNCHANGED jobsVars
  BY <1>1, <1>4 DEF JobsTypeOK, jobsVars
<1> QED BY <1>2, <1>3, <1>4 DEF JobsNext

LEMMA ReleasedStep ==
  ASSUME JobsTogetherInv, [JobsNext]_jobsVars, NEW j \in Jobs,
         Place(j)' = "released"
  PROVE  ~Undecided(j)'
<1>1. JobsTypeOK /\ JobsTypeOK' /\ (Place(j) = "released" => ~Undecided(j))
  BY JobsTypeStep DEF JobsTogetherInv, ReleasedIsDecided
<1>2. known'[j] \in [Operations -> Known]
  BY <1>1 DEF JobsTypeOK
<1>3. ASSUME Place(j)' = Place(j), known'[j] = known[j] PROVE ~Undecided(j)'
  BY <1>1, <1>3 DEF Undecided
<1>4. ASSUME Contract(j)!Next PROVE ~Undecided(j)'
  BY <1>1, <1>2, <1>4, ContractStep
<1>5. CASE ServiceStep
  BY <1>3, <1>4, <1>5 DEF ServiceStep
<1>6. ASSUME NEW i \in Jobs, JobWorks(i) PROVE ~Undecided(j)'
  <2>1. CASE i = j
    BY <1>4, <1>6, <2>1 DEF JobWorks
  <2>2. CASE i # j
    <3>1. Place(j)' = Place(j)
      BY <1>6 DEF JobWorks, vars, dbVars, Place
    <3>2. known'[j] = known[j]
      BY <1>1, <1>6, <2>2 DEF JobWorks, JobsTypeOK
    <3> QED BY <1>3, <3>1, <3>2
  <2> QED BY <2>1, <2>2
<1>7. CASE UNCHANGED jobsVars
  BY <1>3, <1>7 DEF jobsVars, vars, dbVars, Place
<1> QED BY <1>5, <1>6, <1>7 DEF JobsNext

\* A claim is never taken back.
LEMMA ClaimsStay == [Next]_vars => claimed \subseteq claimed'
<1> SUFFICES ASSUME [Next]_vars PROVE claimed \subseteq claimed'
  OBVIOUS
<1>1. ASSUME NEW j \in Jobs, Job(j) PROVE claimed \subseteq claimed'
  BY <1>1 DEF Job, Confirm, JobClaims, ReportBackoff, ReportLapses, RunEnds,
              DevicesAnswer, Cancel
<1>2. ASSUME NEW c \in Callers,
             Tick(c) \/ Changed(c) \/ AdmitAfterConfirm(c) \/ Fail(c)
      PROVE  claimed' = claimed
  BY <1>2 DEF Tick, Changed, AdmitAfterConfirm, Begin, Fail, PartFails,
              ReadHoldFails, ReleaseHoldFails, dbVars
<1>3. ASSUME NEW c \in Callers, Call(c) PROVE claimed' = claimed
  BY <1>3 DEF Call, AcceptHold, WriteHold, ReadHold, AdmitJob, StartJob,
              AbandonStart, RecoverJobs, Cleanup, ReleaseHold, CleanHold, dbVars
<1>4. KeyExpires \/ UNCHANGED vars => claimed' = claimed
  BY DEF KeyExpires, vars, dbVars
<1> QED BY <1>1, <1>2, <1>3, <1>4 DEF Next

LEMMA TouchedStep ==
  ASSUME JobsTogetherInv, [JobsNext]_jobsVars, NEW j \in Jobs, Touched(j)'
  PROVE  j \in claimed'
<1>1. claimed \subseteq claimed' /\ (Touched(j) => j \in claimed)
  BY JobsStepIsStep, ClaimsStay DEF JobsTogetherInv, TouchedIsClaimed
<1>2. ASSUME world'[j] = world[j] PROVE j \in claimed'
  BY <1>1, <1>2 DEF Touched
<1>3. CASE ServiceStep \/ UNCHANGED jobsVars
  BY <1>2, <1>3 DEF ServiceStep, jobsVars
<1>4. ASSUME NEW i \in Jobs, JobWorks(i) PROVE j \in claimed'
  <2>1. CASE i = j
    BY <1>1, <1>4, <2>1 DEF JobWorks
  <2>2. CASE i # j
    BY <1>2, <1>4, <2>2 DEF JobWorks, JobsTogetherInv, JobsTypeOK
  <2> QED BY <2>1, <2>2
<1> QED BY <1>3, <1>4 DEF JobsNext

LEMMA TogetherInit == JobsInit => JobsTogetherInv
<1> SUFFICES ASSUME JobsInit PROVE JobsTogetherInv
  OBVIOUS
<1>1. AdmissionInv /\ TypeOK
  BY InvInit, InitType DEF JobsInit
<1>2. JobsTypeOK
  BY <1>1 DEF JobsInit, JobsTypeOK, Known, World
<1>3. ReleasedIsDecided
  BY DEF JobsInit, Init, ReleasedIsDecided, Place
<1>4. TouchedIsClaimed
  BY DEF JobsInit, TouchedIsClaimed, Touched
<1> QED BY <1>1, <1>2, <1>3, <1>4 DEF JobsTogetherInv

LEMMA TogetherStep ==
  JobsTogetherInv /\ [JobsNext]_jobsVars => JobsTogetherInv'
<1> SUFFICES ASSUME JobsTogetherInv, [JobsNext]_jobsVars PROVE JobsTogetherInv'
  OBVIOUS
<1>1. AdmissionInv'
  BY JobsStepIsStep, InvStep DEF JobsTogetherInv
<1>2. JobsTypeOK'
  BY JobsTypeStep DEF JobsTogetherInv
<1>3. ReleasedIsDecided'
  BY ReleasedStep DEF ReleasedIsDecided
<1>4. TouchedIsClaimed'
  BY TouchedStep DEF TouchedIsClaimed
<1> QED BY <1>1, <1>2, <1>3, <1>4 DEF JobsTogetherInv

\* The inductive invariant of the jobs and their contracts holds in every
\* reachable state.
THEOREM TogetherCorrect == JobsSpec => []JobsTogetherInv
BY TogetherInit, TogetherStep, PTL DEF JobsSpec

\* Each job keeps the safety of its contract while the job service moves all of
\* them.
THEOREM JobsKeepContract ==
  ASSUME NEW j \in Jobs
  PROVE  JobsSpec => Contract(j)!Init /\ [][Contract(j)!Next]_(Contract(j)!vars)
<1>1. JobsInit => Contract(j)!Init
  BY DEF JobsInit, Init, Contract!Init, Place
<1>2. JobsTogetherInv /\ [JobsNext]_jobsVars =>
        [Contract(j)!Next]_(Contract(j)!vars)
  <2> SUFFICES ASSUME JobsTogetherInv, [JobsNext]_jobsVars
               PROVE  [Contract(j)!Next]_(Contract(j)!vars)
    OBVIOUS
  <2>1. ASSUME Place(j)' = Place(j), known'[j] = known[j], world'[j] = world[j]
        PROVE  UNCHANGED Contract(j)!vars
    BY <2>1 DEF Contract!vars
  <2>2. CASE ServiceStep
    BY <2>1, <2>2 DEF ServiceStep
  <2>3. ASSUME NEW i \in Jobs, JobWorks(i)
        PROVE  [Contract(j)!Next]_(Contract(j)!vars)
    <3>1. CASE i = j
      BY <2>3, <3>1 DEF JobWorks
    <3>2. CASE i # j
      <4>1. Place(j)' = Place(j)
        BY <2>3 DEF JobWorks, vars, dbVars, Place
      <4>2. known'[j] = known[j] /\ world'[j] = world[j]
        BY <2>3, <3>2 DEF JobWorks, JobsTogetherInv, JobsTypeOK
      <4> QED BY <2>1, <4>1, <4>2
    <3> QED BY <3>1, <3>2
  <2>4. CASE UNCHANGED jobsVars
    BY <2>1, <2>4 DEF jobsVars, vars, dbVars, Place
  <2> QED BY <2>2, <2>3, <2>4 DEF JobsNext
<1> QED BY <1>1, <1>2, TogetherCorrect, PTL DEF JobsSpec

\* What a step of the job service may leave the jobs reporting: what it cancels
\* before the start is dropped, what is open when the slot goes is unknown.
LastReports ==
  [j \in Jobs |-> [o \in Operations |->
     CASE Place(j) = "waiting" /\ Place(j)' = "released" -> "dropped"
       [] /\ Place(j) = "running" /\ Place(j)' = "released"
          /\ known[j][o] = "open" -> "unknown"
       [] OTHER -> known[j][o]]]

LEMMA LastReportsType ==
  ASSUME JobsTypeOK
  PROVE  LastReports \in [Jobs -> [Operations -> Known]]
<1>1. ASSUME NEW j \in Jobs, NEW o \in Operations
      PROVE  LastReports[j][o] \in Known
  BY <1>1 DEF LastReports, JobsTypeOK, Known
<1> QED BY <1>1 DEF LastReports

\* The contracts leave out no step of the job service: whatever it does, the jobs
\* that it moves have reports with which they keep their contracts.
THEOREM ServiceUnhindered ==
  ASSUME JobsTogetherInv, Next, UNCHANGED world, known' = LastReports
  PROVE  ServiceStep
<1>1. JobsTypeOK /\ TypeOK /\ JobsInv /\ [Next]_vars
  BY InvSplit DEF JobsTogetherInv, JobsTypeOK
<1>2. known' \in [Jobs -> [Operations -> Known]]
  BY <1>1, LastReportsType
<1>3. ASSUME NEW j \in Jobs, Place(j)' = Place(j) PROVE known'[j] = known[j]
  <2>1. known[j] \in [Operations -> Known] /\ known'[j] \in [Operations -> Known]
    BY <1>1, <1>2 DEF JobsTypeOK
  <2>2. \A o \in Operations : known'[j][o] = known[j][o]
    BY <1>3 DEF LastReports
  <2> QED BY <2>1, <2>2
<1>4. known' \in KnownNext
  <2>1. CASE \A j \in Jobs : Place(j)' = Place(j)
    <3>1. known \in [Jobs -> [Operations -> Known]]
      BY <1>1 DEF JobsTypeOK
    <3>2. known' = known
      BY <1>2, <1>3, <2>1, <3>1
    <3> QED BY <2>1, <3>2 DEF KnownNext
  <2>2. CASE ~\A j \in Jobs : Place(j)' = Place(j)
    BY <1>2, <2>2 DEF KnownNext
  <2> QED BY <2>1, <2>2
<1>5. ASSUME NEW j \in Jobs, Place(j)' # Place(j) PROVE Contract(j)!Next
  <2>1. CASE Place(j) = "waiting" /\ Place(j)' = "running"
    <3>1. known'[j] = known[j]
      <4>1. known[j] \in [Operations -> Known]
            /\ known'[j] \in [Operations -> Known]
        BY <1>1, <1>2 DEF JobsTypeOK
      <4>2. \A o \in Operations : known'[j][o] = known[j][o]
        BY <2>1 DEF LastReports
      <4> QED BY <4>1, <4>2
    <3> QED BY <2>1, <3>1 DEF Contract!Next, Contract!Start
  <2>2. CASE Place(j) = "waiting" /\ Place(j)' = "released"
    <3>1. known'[j] = [o \in Operations |-> "dropped"]
      BY <2>2 DEF LastReports
    <3> QED BY <2>2, <3>1 DEF Contract!Next, Contract!GiveUp
  <2>3. CASE Place(j) = "running" /\ Place(j)' = "released"
    <3>1. \A o \in Operations :
            known'[j][o] = IF known[j][o] = "open" THEN "unknown"
                           ELSE known[j][o]
      BY <2>3 DEF LastReports
    <3>2. \A o \in Operations : known'[j][o] \in Contract(j)!MayReport(o)
      BY <3>1 DEF Contract!MayReport
    <3>3. known'[j] \in [Operations -> Contract(j)!Known]
      BY <1>2 DEF Contract!Known, Known
    <3> QED BY <2>3, <3>1, <3>2, <3>3
            DEF Contract!Next, Contract!LetGo, Contract!Release, Contract!Reports
  <2> QED BY <1>1, <1>5, <2>1, <2>2, <2>3, PlaceStep
<1> QED BY <1>3, <1>4, <1>5 DEF ServiceStep

\* A job that has asked Google and still has an open operation is running.
LEMMA UnsettledRuns ==
  ASSUME JobsTogetherInv, NEW j \in Jobs, Touched(j), Undecided(j)
  PROVE  status[j] = "running"
<1>1. TypeOK /\ j \in claimed /\ Place(j) # "released"
  BY DEF JobsTogetherInv, JobsTypeOK, ReleasedIsDecided, TouchedIsClaimed
<1>2. status[j] \notin Waiting \cup {"absent"}
  BY <1>1 DEF JobsTogetherInv, AdmissionInv, PlanTogether
<1> QED BY <1>1, <1>2 DEF Place

\* No two jobs of a customer ever have writes under way together: a job asks
\* Google first when every job that asked before it has decided everything.
THEOREM OneUnsettledCorrect == JobsSpec => []OneUnsettled
<1>1. JobsTogetherInv => OneUnsettled
  BY UnsettledRuns DEF JobsTogetherInv, AdmissionInv, OneWriter, OneUnsettled
<1> QED BY <1>1, TogetherCorrect, PTL

\* The status job of an import reaches no device before each operation of the
\* update job has its result.
THEOREM ImportInOrderCorrect == JobsSpec => []ImportInOrder
<1>1. JobsTogetherInv => ImportInOrder
  <2> SUFFICES ASSUME JobsTogetherInv, NEW j \in Jobs, WaitFor[j] # None,
                      Touched(j)
               PROVE  ~Undecided(WaitFor[j])
    BY DEF ImportInOrder
  <2>1. WaitFor[j] \in Jobs /\ j \in claimed
    BY WaitShape DEF JobsTogetherInv, TouchedIsClaimed
  <2>2. status[WaitFor[j]] = "ended"
    BY <2>1 DEF JobsTogetherInv, AdmissionInv, NeverAhead
  <2>3. Place(WaitFor[j]) = "released"
    BY <2>2 DEF Place, Waiting
  <2> QED BY <2>1, <2>3 DEF JobsTogetherInv, ReleasedIsDecided
<1> QED BY <1>1, TogetherCorrect, PTL

\* After the cancel of the update job of an import, its status jobs never reach
\* a device.
THEOREM CancelledImportIsQuietCorrect == JobsSpec => []CancelledImportIsQuiet
<1>1. JobsTogetherInv => CancelledImportIsQuiet
  BY DEF JobsTogetherInv, AdmissionInv, CancelReachesWaiting, TouchedIsClaimed,
         CancelledImportIsQuiet
<1> QED BY <1>1, TogetherCorrect, PTL

=============================================================================
