---------------------------- MODULE JobNewsProofs ----------------------------
(***************************************************************************)
(* A page that follows a job misses nothing, and what it shows never goes  *)
(* back: the inductive invariant of JobNews, and its steps as steps of     *)
(* JobFollow, proved for any couriers and any number of revisions.         *)
(***************************************************************************)
EXTENDS JobNews, TLAPS

-----------------------------------------------------------------------------
(* Type correctness                                                        *)

LEMMA InitType == Init => TypeOK
BY ConstantsAssumption
   DEF Init, TypeOK, Hand, Reader, ReadUnderWay, Empty, NoRead, Idle

\* What a courier does touches the rows, its hand and the wire.
LEMMA CourierType ==
  ASSUME TypeOK, NEW c \in Couriers, Reads(c) \/ Tell(c) \/ Complete(c) \/ Drop(c)
  PROVE  TypeOK'
<1>1. rev \in 1 .. MaxRevision /\ rev \in Nat /\ rows \subseteq 1 .. rev
      /\ hand \in [Couriers -> Hand] /\ hand[c] \in Hand
  BY ConstantsAssumption DEF TypeOK
<1>2. Empty \in Hand
  BY <1>1 DEF Empty, Hand
<1>3. rev' = rev /\ Hand' = Hand /\ Reader' = Reader /\ ReadUnderWay' = ReadUnderWay
  BY DEF Reads, Take, Tell, Complete, Drop, Hand, Reader, ReadUnderWay
<1>4. hand' \in [Couriers -> Hand] /\ rows' \subseteq 1 .. rev /\ wire' \subseteq 0 .. rev
  <2>1. CASE Reads(c)
    <3>1. PICK ids \in SUBSET (1 .. MaxRevision) : Take(c, ids)
      BY <2>1 DEF Reads
    <3>2. ids \in SUBSET (1 .. rev)
      BY <1>1, <3>1 DEF Take
    <3>3. [ids |-> ids, rev |-> rev, told |-> FALSE] \in Hand
      BY <1>1, <3>2 DEF Hand
    <3> QED BY <1>1, <3>1, <3>3 DEF Take, RevisionRead, streamVars, TypeOK
  <2>2. CASE Tell(c)
    <3>1. [ids |-> hand[c].ids, rev |-> 0, told |-> TRUE] \in Hand
      BY <1>1 DEF Hand
    <3>2. hand' \in [Couriers -> Hand]
      BY <1>1, <2>2, <3>1 DEF Tell
    <3>3. hand[c].rev \in 0 .. rev
      BY <1>1 DEF Hand
    <3> QED BY <1>1, <2>2, <3>2, <3>3 DEF Tell, TypeOK
  <2>3. CASE Complete(c) \/ Drop(c)
    BY <1>1, <1>2, <2>3 DEF Complete, Completed, Drop, streamVars, TypeOK
  <2> QED BY <2>1, <2>2, <2>3
<1>5. UNCHANGED <<server, link, pageVars>>
  BY DEF Reads, Take, Tell, Complete, Drop, streamVars
<1> QED BY <1>3, <1>4, <1>5 DEF TypeOK, pageVars

\* The ranges grow with the revision of the job.
LEMMA CommitType == ASSUME TypeOK, Commit PROVE TypeOK'
<1>1. /\ rev \in 1 .. MaxRevision /\ rev \in Nat /\ rev' = rev + 1
      /\ rev' \in 1 .. MaxRevision
  BY ConstantsAssumption DEF TypeOK, Commit
<1>2. 1 .. rev \subseteq 1 .. rev' /\ 0 .. rev \subseteq 0 .. rev' /\ rev' \in 1 .. rev'
      /\ rev' \in 0 .. rev'
  BY <1>1
<1>3. Hand \subseteq Hand' /\ Reader \subseteq Reader' /\ ReadUnderWay \subseteq ReadUnderWay'
  BY <1>2 DEF Hand, Reader, ReadUnderWay
<1>4. hand \in [Couriers -> Hand'] /\ rows' \subseteq 1 .. rev'
  BY <1>1, <1>2, <1>3 DEF TypeOK, Commit
<1>5. [ids |-> {rev'}, rev |-> rev', told |-> FALSE] \in Hand'
  BY <1>2 DEF Hand
<1>6. hand' \in [Couriers -> Hand']
  BY <1>4, <1>5 DEF Commit
<1> QED BY <1>1, <1>2, <1>3, <1>4, <1>6 DEF TypeOK, Commit, streamVars, pageVars

\* What the page, its reader and its stream do leaves the job and its couriers
\* alone.
PageStep ==
  \/ TimerFires \/ Refresh \/ Answer \/ Arrives \/ Fails
  \/ Enter \/ Leave
  \/ Connect \/ Opens \/ Breaks \/ Notices
  \/ \E e \in 1 .. MaxRevision : Deliver(e)

\* The reader takes a type-correct state and perhaps asks.
LEMMA RunType ==
  ASSUME rev \in Nat, NEW r \in Reader
  PROVE  /\ Run(r) => reader' \in Reader /\ read' \in ReadUnderWay
         /\ RunOrQueue(r) /\ read \in ReadUnderWay
              => reader' \in Reader /\ read' \in ReadUnderWay
         /\ Follow(r) => reader' \in Reader /\ read' \in ReadUnderWay
         /\ Invalidated(r) \in Reader
<1>1. Still(r) \in Reader /\ Asked \in ReadUnderWay /\ NoRead \in ReadUnderWay
  BY DEF Still, Asked, NoRead, Reader, ReadUnderWay
<1>2. Invalidated(r) \in Reader /\ [r EXCEPT !.queued = TRUE] \in Reader
  BY DEF Invalidated, Reader
<1> QED BY <1>1, <1>2 DEF Run, RunOrQueue, Follow

LEMMA PageType == ASSUME TypeOK, PageStep PROVE TypeOK'
<1>1. /\ rev \in Nat /\ reader \in Reader /\ read \in ReadUnderWay
      /\ shown \in 0 .. rev /\ wire \subseteq 0 .. rev
  BY ConstantsAssumption DEF TypeOK
<1>2. UNCHANGED jobVars
  BY DEF PageStep, TimerFires, Refresh, Answer, Arrives, Fails, Enter, Leave,
         Connect, Opens, Breaks, Notices, Deliver
<1>3. Hand' = Hand /\ Reader' = Reader /\ ReadUnderWay' = ReadUnderWay
  BY <1>2 DEF jobVars, Hand, Reader, ReadUnderWay
<1>4. CASE TimerFires
  <2>1. [reader EXCEPT !.timer = FALSE] \in Reader
    BY <1>1 DEF Reader
  <2> QED BY <1>1, <1>2, <1>3, <1>4, <2>1, RunType
          DEF TimerFires, jobVars, streamVars, TypeOK
<1>5. CASE Refresh
  BY <1>1, <1>2, <1>3, <1>5, RunType DEF Refresh, jobVars, streamVars, TypeOK
<1>6. CASE Answer
  <2>1. [pc |-> "read", rev |-> rev, current |-> read.current] \in ReadUnderWay
    BY <1>1 DEF ReadUnderWay
  <2> QED BY <1>1, <1>2, <1>3, <1>6, <2>1 DEF Answer, jobVars, streamVars, TypeOK
<1>7. CASE Arrives
  <2>1. read.rev \in 0 .. rev /\ reader.held \in 0 .. rev
    BY <1>1 DEF Reader, ReadUnderWay
  <2>2. [reader EXCEPT !.held = IF read.rev > @ THEN read.rev ELSE @] \in Reader
    BY <1>1, <2>1 DEF Reader
  <2>3. reader' \in Reader /\ read' \in ReadUnderWay
    BY <1>1, <1>7, <2>2, RunType DEF Arrives
  <2> QED BY <1>1, <1>2, <1>3, <1>7, <2>1, <2>3
          DEF Arrives, jobVars, streamVars, TypeOK
<1>8. CASE Fails
  <2>1. reader' \in Reader /\ read' \in ReadUnderWay
    BY <1>1, <1>8, RunType DEF Fails
  <2> QED BY <1>1, <1>2, <1>3, <1>8, <2>1 DEF Fails, jobVars, streamVars, TypeOK
<1>9. CASE Enter
  BY <1>1, <1>2, <1>3, <1>9, RunType DEF Enter, jobVars, streamVars, TypeOK
<1>10. CASE Leave
  <2>1. Still(reader) \in Reader
        /\ [read EXCEPT !.current = read.pc = "none"] \in ReadUnderWay
    BY <1>1 DEF Still, Reader, ReadUnderWay
  <2> QED BY <1>1, <1>2, <1>3, <1>10, <2>1 DEF Leave, Closed, jobVars, TypeOK
<1>11. CASE Connect \/ Breaks \/ Notices
  BY <1>1, <1>2, <1>3, <1>11
     DEF Connect, Breaks, Notices, Closed, jobVars, pageVars, TypeOK
<1>12. CASE Opens
  BY <1>1, <1>2, <1>3, <1>12, RunType DEF Opens, ReaderOpened, jobVars, TypeOK
<1>13. ASSUME NEW e \in 1 .. MaxRevision, Deliver(e) PROVE TypeOK'
  BY <1>1, <1>2, <1>3, <1>13, RunType DEF Deliver, Hears, jobVars, TypeOK
<1> QED BY <1>4, <1>5, <1>6, <1>7, <1>8, <1>9, <1>10, <1>11, <1>12, <1>13
        DEF PageStep

LEMMA Types == TypeOK /\ [Next]_vars => TypeOK'
<1> SUFFICES ASSUME TypeOK, [Next]_vars PROVE TypeOK'
  OBVIOUS
<1>1. CASE Commit
  BY <1>1, CommitType
<1>2. ASSUME NEW c \in Couriers, Reads(c) \/ Tell(c) \/ Complete(c) \/ Drop(c)
      PROVE  TypeOK'
  BY <1>2, CourierType
<1>3. CASE PageStep
  BY <1>3, PageType
<1>4. CASE UNCHANGED vars
  BY <1>4 DEF vars, jobVars, streamVars, pageVars, TypeOK, Hand, Reader,
              ReadUnderWay
<1> QED BY <1>1, <1>2, <1>3, <1>4 DEF Next, PageStep

\* Every state has the types of TypeOK: the revisions that rows, couriers,
\* events, the page and the reader name exist.
THEOREM TypeCorrect == Spec => []TypeOK
BY InitType, Types, PTL DEF Spec

-----------------------------------------------------------------------------
(* The inductive invariant                                                 *)

LEMMA InitNews == Init => NewsInv
BY InitType, ConstantsAssumption
   DEF Init, NewsInv, NewsOnTheWay, ToldIsComing, Coming, Empty, NoRead

\* A step that leaves the job alone keeps the news on its way, when it keeps
\* what is coming or has nobody look.
LEMMA ComingKept ==
  ASSUME NewsInv, UNCHANGED jobVars,
         \A n \in 1 .. rev :
           \/ page' # "shown"
           \/ Coming(n)'
           \/ page = "shown" /\ ~Coming(n)
  PROVE  NewsOnTheWay' /\ ToldIsComing'
<1>1. rev' = rev /\ rows' = rows /\ hand' = hand
  BY DEF jobVars
<1>2. NewsOnTheWay'
  BY <1>1 DEF NewsInv, NewsOnTheWay
<1>3. ToldIsComing'
  BY <1>1 DEF NewsInv, ToldIsComing
<1> QED BY <1>2, <1>3

\* A reader that asks, now or later, will hold what there is.
LEMMA AskingComes ==
  ASSUME NEW n \in Nat, NEW r \in Reader, TypeOK
  PROVE  /\ Run(r) => Coming(n)'
         /\ reader' = Invalidated(r) => Coming(n)'
         /\ RunOrQueue(r) => Coming(n)'
<1>1. Run(r) => Coming(n)'
  BY DEF Run, Asked, Coming
<1>2. reader' = Invalidated(r) => Coming(n)'
  BY DEF Invalidated, Reader, Coming
<1>3. reader' = [r EXCEPT !.queued = TRUE] => Coming(n)'
  BY DEF Reader, Coming
<1> QED BY <1>1, <1>2, <1>3 DEF RunOrQueue

\* What the page, its reader and its stream do keeps the news on its way.
LEMMA PageNews == ASSUME NewsInv, PageStep PROVE NewsOnTheWay' /\ ToldIsComing'
<1>1. /\ TypeOK /\ rev \in Nat /\ reader \in Reader /\ read \in ReadUnderWay
      /\ wire \subseteq 0 .. rev
  BY ConstantsAssumption DEF NewsInv, TypeOK
<1>2. UNCHANGED jobVars
  BY DEF PageStep, TimerFires, Refresh, Answer, Arrives, Fails, Enter, Leave,
         Connect, Opens, Breaks, Notices, Deliver
<1> SUFFICES ASSUME NEW n \in 1 .. rev, page' = "shown"
             PROVE  Coming(n)' \/ (page = "shown" /\ ~Coming(n))
  BY <1>2, ComingKept
<1>3. n \in Nat
  BY <1>1
<1>4. CASE TimerFires
  <2>1. [reader EXCEPT !.timer = FALSE] \in Reader
    BY <1>1 DEF Reader
  <2> QED BY <1>1, <1>3, <1>4, <2>1, AskingComes DEF TimerFires
<1>5. CASE Refresh \/ Enter
  BY <1>1, <1>3, <1>5, AskingComes DEF Refresh, Enter
<1>6. CASE Answer
  <2>1. read'.pc = "read" /\ read'.rev = rev /\ read'.current = read.current
    BY <1>1, <1>6 DEF Answer
  <2> QED BY <1>1, <1>6, <2>1 DEF Answer, streamVars, Coming
<1>7. CASE Arrives
  <2> DEFINE r == IF ~read.current THEN reader
                  ELSE [reader EXCEPT !.held = IF read.rev > @ THEN read.rev ELSE @]
  <2>1. read.rev \in 0 .. rev /\ reader.held \in 0 .. rev
    BY <1>1 DEF Reader, ReadUnderWay
  <2>2. /\ r \in Reader /\ r.timer = reader.timer /\ r.queued = reader.queued
        /\ r.held >= reader.held
        /\ read.current => r.held >= read.rev
    BY <1>1, <2>1 DEF Reader
  <2>3. Follow(r) /\ page' = page /\ UNCHANGED streamVars /\ read.pc = "read"
    BY <1>7 DEF Arrives
  <2> HIDE DEF r
  <2>4. CASE r.queued
    BY <1>1, <1>3, <2>2, <2>3, <2>4, AskingComes DEF Follow
  <2>5. CASE ~r.queued
    <3>1. reader' = r
      BY <2>3, <2>5 DEF Follow
    <3>2. r.held \in 0 .. rev
      BY <2>2 DEF Reader
    <3> QED BY <1>1, <2>1, <2>2, <2>3, <2>5, <3>1, <3>2 DEF streamVars, Coming
  <2> QED BY <2>4, <2>5
<1>8. CASE Fails
  <2> DEFINE r == IF ~read.current THEN reader ELSE Invalidated(reader)
  <2>1. /\ r \in Reader /\ r.held = reader.held /\ r.queued = reader.queued
        /\ reader.timer \/ read.current => r.timer
    BY <1>1 DEF Reader, ReadUnderWay, Invalidated
  <2>2. Follow(r) /\ page' = page /\ UNCHANGED streamVars
    BY <1>8 DEF Fails
  <2> HIDE DEF r
  <2>3. CASE r.queued
    BY <1>1, <1>3, <2>1, <2>2, <2>3, AskingComes DEF Follow
  <2>4. CASE ~r.queued
    <3>1. reader' = r
      BY <2>2, <2>4 DEF Follow
    <3> QED BY <1>1, <2>1, <2>2, <2>4, <3>1 DEF streamVars, Coming
  <2> QED BY <2>3, <2>4
<1>9. CASE Leave
  BY <1>9 DEF Leave
<1>10. CASE Connect
  BY <1>10 DEF Connect, Coming
<1>11. CASE Notices
  BY <1>11 DEF Notices, Closed, Coming
<1>12. CASE Breaks
  BY <1>12 DEF Breaks, Coming
<1>13. CASE Opens
  BY <1>1, <1>3, <1>13, AskingComes DEF Opens, ReaderOpened
<1>14. ASSUME NEW e \in 1 .. MaxRevision, Deliver(e)
       PROVE  Coming(n)' \/ (page = "shown" /\ ~Coming(n))
  <2>1. CASE e <= reader.held
    <3>1. reader' = reader /\ reader.held \in Nat
      BY <1>1, <1>14, <2>1 DEF Deliver, Hears, Reader
    <3> QED BY <1>1, <1>14, <2>1, <3>1 DEF Deliver, Coming
  <2>2. CASE ~(e <= reader.held)
    BY <1>1, <1>3, <1>14, <2>2, AskingComes DEF Deliver, Hears
  <2> QED BY <2>1, <2>2
<1> QED BY <1>4, <1>5, <1>6, <1>7, <1>8, <1>9, <1>10, <1>11, <1>12, <1>13, <1>14
        DEF PageStep

\* A commit inserts the row of the revision that it adds.
LEMMA CommitNews == ASSUME NewsInv, Commit PROVE NewsOnTheWay' /\ ToldIsComing'
<1>1. rev \in Nat /\ rev' = rev + 1 /\ rows' = rows \cup {rev'}
      /\ hand \in [Couriers -> Hand]
  BY ConstantsAssumption DEF NewsInv, TypeOK, Commit
<1>2. \A n \in Nat : Coming(n)' <=> Coming(n)
  BY DEF Commit, streamVars, pageVars, Coming
<1>3. page' = page
  BY DEF Commit, pageVars
<1>4. \A n \in 1 .. rev' : n = rev' \/ n \in 1 .. rev
  BY <1>1
<1>5. NewsOnTheWay'
  BY <1>1, <1>2, <1>3, <1>4 DEF NewsInv, NewsOnTheWay
<1>6. ToldIsComing'
  <2> SUFFICES ASSUME NEW c \in Couriers, NEW n \in 1 .. rev', n \in hand'[c].ids
               PROVE  IF hand'[c].told THEN page' = "shown" => Coming(n)'
                      ELSE n <= hand'[c].rev
    BY DEF ToldIsComing
  <2>1. CASE hand'[c] = hand[c]
    <3>1. n \in 1 .. rev
      BY <1>1, <2>1 DEF Hand
    <3> QED BY <1>1, <1>2, <1>3, <2>1, <3>1 DEF NewsInv, ToldIsComing
  <2>2. CASE hand'[c] = [ids |-> {rev'}, rev |-> rev', told |-> FALSE]
    BY <1>1, <2>2
  <2> QED BY <1>1, <2>1, <2>2 DEF Commit
<1> QED BY <1>5, <1>6

\* An event that is told reaches the page, or the page reads when its stream
\* opens; a row is completed when its event was told.
LEMMA CourierNews ==
  ASSUME NewsInv, NEW c \in Couriers, Reads(c) \/ Tell(c) \/ Complete(c) \/ Drop(c)
  PROVE  NewsOnTheWay' /\ ToldIsComing'
<1>1. rev \in Nat /\ rev' = rev /\ hand \in [Couriers -> Hand] /\ page' = page
      /\ hand[c] \in Hand /\ wire \subseteq 0 .. rev /\ rows \subseteq 1 .. rev
  BY ConstantsAssumption
     DEF NewsInv, TypeOK, Reads, Take, Tell, Complete, Drop, pageVars
<1>2. \A n \in 1 .. rev : Coming(n) => Coming(n)'
  BY DEF Reads, Take, Tell, Complete, Drop, streamVars, pageVars, Coming
<1>3. \A d \in Couriers \ {c} : hand'[d] = hand[d]
  BY <1>1 DEF Reads, Take, Tell, Complete, Drop
<1>4. ASSUME NEW n \in 1 .. rev, n \in hand'[c].ids
      PROVE  IF hand'[c].told THEN page' = "shown" => Coming(n)'
             ELSE n <= hand'[c].rev
  <2>1. CASE Reads(c)
    <3>1. hand'[c].told = FALSE /\ hand'[c].rev = rev
      BY <1>1, <2>1 DEF Reads, Take, RevisionRead
    <3> QED BY <1>1, <3>1
  <2>2. CASE Tell(c)
    <3>1. hand'[c].told /\ n \in hand[c].ids /\ ~hand[c].told
      BY <1>1, <1>4, <2>2 DEF Tell
    <3>2. n <= hand[c].rev
      BY <3>1 DEF NewsInv, ToldIsComing
    <3>3. server = "streaming" => hand[c].rev \in wire'
      BY <2>2 DEF Tell
    <3>4. server' = server /\ link' = link
      BY <2>2 DEF Tell
    <3>5. server \in {"none", "streaming", "ended"} /\ (server = "none" => link = "closed")
      BY DEF NewsInv, TypeOK
    <3>6. hand[c].rev \in Nat
      BY <1>1 DEF Hand
    <3> QED BY <3>1, <3>2, <3>3, <3>4, <3>5, <3>6 DEF Coming
  <2>3. CASE Complete(c) \/ Drop(c)
    BY <1>1, <1>4, <2>3 DEF Complete, Drop, Empty
  <2> QED BY <2>1, <2>2, <2>3
<1>5. ToldIsComing'
  BY <1>1, <1>2, <1>3, <1>4 DEF NewsInv, ToldIsComing
<1>6. \A n \in rows : n \in rows' \/ (page = "shown" => Coming(n))
  <2>1. CASE Complete(c)
    BY <1>1, <2>1 DEF Complete, Completed, NewsInv, ToldIsComing
  <2> QED BY <2>1 DEF Reads, Take, Tell, Drop
<1>7. NewsOnTheWay'
  BY <1>1, <1>2, <1>6 DEF NewsInv, NewsOnTheWay
<1> QED BY <1>5, <1>7

\* The stream that the browser holds has an end at the API, and a read that
\* has its answer has at least what the page shows.
LEMMA EndsInStep ==
  ASSUME NewsInv, Next
  PROVE  /\ server' = "none" => link' = "closed"
         /\ read'.pc = "read" => shown' <= read'.rev
<1>1. /\ server = "none" => link = "closed"
      /\ read.pc = "read" => shown <= read.rev
      /\ shown \in 0 .. rev /\ rev \in Nat /\ read \in ReadUnderWay
  BY ConstantsAssumption DEF NewsInv, TypeOK
<1>2. server' = "none" => link' = "closed"
  BY <1>1 DEF Next, Commit, Reads, Take, Tell, Complete, Drop, TimerFires, Refresh,
              Answer, Arrives, Fails, Enter, Leave, Connect, Opens, Breaks,
              Notices, Deliver, Closed, jobVars, streamVars, pageVars
<1>3. Asked.pc = "asked" /\ NoRead.pc = "none"
  BY DEF Asked, NoRead
<1>4. CASE Answer
  BY <1>1, <1>2, <1>4 DEF Answer
<1>5. CASE Arrives \/ Fails
  BY <1>2, <1>3, <1>5 DEF Arrives, Fails, Follow, Run
<1>6. CASE TimerFires \/ Refresh \/ Enter
  BY <1>1, <1>2, <1>3, <1>6 DEF TimerFires, Refresh, Enter, RunOrQueue, Run
<1>7. CASE Leave
  BY <1>1, <1>2, <1>7 DEF Leave, ReadUnderWay
<1>8. CASE UNCHANGED <<read, shown>>
  BY <1>1, <1>2, <1>8
<1>9. Answer \/ Arrives \/ Fails \/ TimerFires \/ Refresh \/ Enter \/ Leave
      \/ UNCHANGED <<read, shown>>
  BY DEF Next, Commit, Reads, Take, Tell, Complete, Drop, Connect, Opens, Breaks,
         Notices, Deliver, pageVars
<1> QED BY <1>2, <1>4, <1>5, <1>6, <1>7, <1>8, <1>9

LEMMA StepNews == NewsInv /\ [Next]_vars => NewsInv'
<1> SUFFICES ASSUME NewsInv, [Next]_vars PROVE NewsInv'
  OBVIOUS
<1>1. TypeOK'
  BY Types DEF NewsInv
<1>2. CASE Next
  <2>1. NewsOnTheWay' /\ ToldIsComing'
    BY <1>2, CommitNews, CourierNews, PageNews DEF Next, PageStep
  <2> QED BY <1>1, <1>2, <2>1, EndsInStep DEF NewsInv
<1>3. CASE UNCHANGED vars
  BY <1>1, <1>3 DEF vars, jobVars, streamVars, pageVars, NewsInv, NewsOnTheWay,
                    ToldIsComing, Coming
<1> QED BY <1>2, <1>3

\* The inductive invariant: what a courier told is coming, and every other
\* revision has its row.
THEOREM NewsCorrect == Spec => []NewsInv
BY InitNews, StepNews, PTL DEF Spec

\* A page that somebody looks at misses no revision: it holds it, or has a
\* row in PostgreSQL, an event, a read or a new stream that brings it.
THEOREM NewsOnTheWayCorrect == Spec => []NewsOnTheWay
<1>1. NewsInv => NewsOnTheWay
  BY DEF NewsInv
<1> QED BY <1>1, NewsCorrect, PTL

-----------------------------------------------------------------------------
(* The page follows the job                                                *)

\* Every step is one of JobFollow's or leaves what the page shows alone.
LEMMA FollowStep ==
  ASSUME NewsInv, [Next]_vars
  PROVE  [Follows!Next]_(Follows!vars)
<1>1. page \in {"shown", "left"} /\ page' \in {"shown", "left"}
  BY Types DEF NewsInv, TypeOK
<1>2. CASE Commit
  BY <1>2 DEF Commit, pageVars, Follows!Next, Follows!Commit
<1>3. CASE Arrives
  <2>1. read.rev \in shown .. rev
    BY <1>3, ConstantsAssumption DEF Arrives, NewsInv, TypeOK, ReadUnderWay
  <2> QED BY <1>3, <2>1 DEF Arrives, jobVars, Follows!Next, Follows!Show
<1>4. CASE Enter \/ Leave
  BY <1>4 DEF Enter, Leave, jobVars, Follows!Next, Follows!Turn
<1>5. CASE UNCHANGED <<rev, shown, page>>
  BY <1>5 DEF Follows!vars
<1>6. Commit \/ Arrives \/ Enter \/ Leave \/ UNCHANGED <<rev, shown, page>>
  BY DEF Next, Reads, Take, Tell, Complete, Drop, TimerFires, Refresh, Answer,
         Fails, Connect, Opens, Breaks, Notices, Deliver, jobVars, pageVars, vars
<1> QED BY <1>2, <1>3, <1>4, <1>5, <1>6

\* The rows, the couriers, the stream and the reader implement the safety of
\* a page that follows the job: what it shows never goes back and is never
\* ahead of the job.
THEOREM FollowSafetyCorrect == Spec => FollowSafety
<1>1. Init => Follows!Init
  BY DEF Init, Follows!Init
<1>2. NewsInv /\ [Next]_vars => [Follows!Next]_(Follows!vars)
  BY FollowStep
<1> QED BY <1>1, <1>2, NewsCorrect, PTL DEF Spec, FollowSafety

=============================================================================
