------------------------------- MODULE JobNews -------------------------------
(***************************************************************************)
(* How the news of a changed job reaches a page: the publication rows that *)
(* every change of a job inserts (migration 017), the three couriers that  *)
(* publish and complete them (the relay and the service of api/src/app/    *)
(* jobs/job-service.ts, and the worker), Redis Pub/Sub, the event stream   *)
(* of the API (api/src/app/devices/device-events.ts), and in the browser   *)
(* the stream of the tab (job-stream.ts, live-feeds.ts) and the reader of  *)
(* the page (job-reader.ts).  One job, one tab, one page.                  *)
(*                                                                         *)
(* The rows of a job are numbered in the order of its revisions, so a row  *)
(* is named by the revision that it was inserted with.  A debounce, a      *)
(* backoff and an interval end at any moment.  The events of a stream are  *)
(* a set: the reader compares each with what it holds and nothing else.    *)
(* The flag dirty of the reader is left out: while it is set, a timer runs *)
(* or a read is queued, and each of them brings the read that dirty asks   *)
(* for.                                                                    *)
(***************************************************************************)
EXTENDS Naturals, FiniteSets

CONSTANTS
  Callers,     \* calls of the service and requests of the worker that publish
               \* the rows of their own changes
  Relay,       \* the relay of the service
  MaxRevision  \* a bound: the last revision of the job

ASSUME ConstantsAssumption ==
  /\ MaxRevision \in Nat \ {0}
  /\ Relay \notin Callers

VARIABLES
  \* PostgreSQL
  rev,     \* cc.jobs.revision
  rows,    \* the publication rows of the job
  \* the couriers of the rows
  hand,    \* what each courier has read: row ids, a revision, and whether it
           \* has published them
  \* the stream of the tab
  server,  \* the API's end: "none", "streaming", "ended"
  wire,    \* the events on their way to the browser
  link,    \* the browser's end: "closed", "opening", "open"
  \* the page
  page,    \* "shown", "left"
  shown,   \* the revision in its answer
  reader,  \* the flags of JobReader
  read     \* the read under way

jobVars == <<rev, rows, hand>>
streamVars == <<server, wire, link>>
pageVars == <<page, shown, reader, read>>
vars == <<jobVars, streamVars, pageVars>>

Couriers == {Relay} \cup Callers
Empty == [ids |-> {}, rev |-> 0, told |-> FALSE]

\* Nothing is under way.
NoRead == [pc |-> "none", rev |-> 0, current |-> TRUE]
Idle == [held |-> 0, timer |-> FALSE, queued |-> FALSE]

Hand == [ids : SUBSET (1 .. rev), rev : 0 .. rev, told : BOOLEAN]
Reader == [held : 0 .. rev, timer : BOOLEAN, queued : BOOLEAN]
ReadUnderWay ==
  [pc : {"none", "asked", "read"}, rev : 0 .. rev, current : BOOLEAN]

TypeOK ==
  /\ rev \in 1 .. MaxRevision
  /\ rows \subseteq 1 .. rev
  /\ hand \in [Couriers -> Hand]
  /\ server \in {"none", "streaming", "ended"}
  /\ wire \subseteq 0 .. rev
  /\ link \in {"closed", "opening", "open"}
  /\ page \in {"shown", "left"}
  /\ shown \in 0 .. rev
  /\ reader \in Reader
  /\ read \in ReadUnderWay

Init ==
  /\ rev = 1
  /\ rows = {1}
  /\ hand = [c \in Couriers |-> Empty]
  /\ server = "none"
  /\ wire = {}
  /\ link = "closed"
  /\ page = "left"
  /\ shown = 0
  /\ reader = Idle
  /\ read = NoRead

(***************************************************************************)
(* The rows and their couriers.                                            *)
(***************************************************************************)

\* cc.record_job_change in the transaction of the change.  A request of the
\* worker gets the element of its own change.
Commit ==
  /\ rev < MaxRevision
  /\ rev' = rev + 1
  /\ rows' = rows \cup {rev'}
  /\ \/ UNCHANGED hand
     \/ \E c \in Callers :
          /\ hand[c] = Empty
          /\ hand' = [hand EXCEPT ![c] =
                        [ids |-> {rev'}, rev |-> rev', told |-> FALSE]]
  /\ UNCHANGED <<streamVars, pageVars>>

\* The element of a row carries the revision of the header as it is now.
RevisionRead == rev

Take(c, ids) ==
  /\ hand[c] = Empty
  /\ ids \in SUBSET rows \ {{}}
  /\ hand' = [hand EXCEPT ![c] =
                [ids |-> ids, rev |-> RevisionRead, told |-> FALSE]]
  /\ UNCHANGED <<rev, rows, streamVars, pageVars>>

\* cc.read_job_publications, of rows of progress and of rows that are five
\* seconds old, or publishRows of the service, of rows that its call inserted.
Reads(c) == \E ids \in SUBSET (1 .. MaxRevision) : Take(c, ids)

\* The event reaches every open stream, and nobody else.
Tell(c) ==
  /\ hand[c] # Empty
  /\ ~hand[c].told
  /\ hand' = [hand EXCEPT ![c] = [ids |-> @.ids, rev |-> 0, told |-> TRUE]]
  /\ wire' = IF server = "streaming" THEN wire \cup {hand[c].rev} ELSE wire
  /\ UNCHANGED <<rev, rows, server, link, pageVars>>

\* Mutant: the rows that exist are completed, also those inserted meanwhile.
CompletedAll(c) == rows

\* cc.complete_job_publications
Completed(c) == hand[c].ids

Complete(c) ==
  /\ hand[c].told
  /\ rows' = rows \ Completed(c)
  /\ hand' = [hand EXCEPT ![c] = Empty]
  /\ UNCHANGED <<rev, streamVars, pageVars>>

\* Redis or PostgreSQL fails, or the process dies: the rows stay.
Drop(c) ==
  /\ hand[c] # Empty
  /\ hand' = [hand EXCEPT ![c] = Empty]
  /\ UNCHANGED <<rev, rows, streamVars, pageVars>>

(***************************************************************************)
(* The reader of the page (JobReader).                                     *)
(***************************************************************************)

\* Neither a timer nor a queued read.
Still(r) == [held |-> r.held, timer |-> FALSE, queued |-> FALSE]

\* run, when no read is under way.
Asked == [pc |-> "asked", rev |-> 0, current |-> TRUE]
Run(r) ==
  /\ reader' = Still(r)
  /\ read' = Asked

\* run or request: a read under way finishes first.
RunOrQueue(r) ==
  IF read.pc = "none" THEN Run(r)
  ELSE reader' = [r EXCEPT !.queued = TRUE] /\ UNCHANGED read

\* invalidate and opened: the read follows after the debounce.
Invalidated(r) == [r EXCEPT !.timer = TRUE]

\* changed: an event at or below the held revision leaves the reader clean.
Hears(e) == IF e <= reader.held THEN reader ELSE Invalidated(reader)

TimerFires ==
  /\ reader.timer
  /\ RunOrQueue([reader EXCEPT !.timer = FALSE])
  /\ UNCHANGED <<jobVars, streamVars, page, shown>>

\* The person refreshes the page.
Refresh ==
  /\ page = "shown"
  /\ RunOrQueue(reader)
  /\ UNCHANGED <<jobVars, streamVars, page, shown>>

\* The API reads the job.
Answer ==
  /\ read.pc = "asked"
  /\ read' = [pc |-> "read", rev |-> rev, current |-> read.current]
  /\ UNCHANGED <<jobVars, streamVars, page, shown, reader>>

\* The read ends: a queued read follows at once, another after its delay.
Follow(r) ==
  IF r.queued THEN Run(r) ELSE reader' = r /\ read' = NoRead

\* The answer arrives.  The page shows it; a reader that stopped meanwhile
\* does not count it.
Arrives ==
  /\ read.pc = "read"
  /\ shown' = read.rev
  /\ Follow(IF ~read.current THEN reader
            ELSE [reader EXCEPT !.held = IF read.rev > @ THEN read.rev ELSE @])
  /\ UNCHANGED <<jobVars, streamVars, page>>

\* The read fails; whether the API has read the job by then makes no
\* difference.  It is repeated after five seconds.
Fails ==
  /\ read.pc = "asked"
  /\ Follow(IF ~read.current THEN reader
            ELSE Invalidated(reader))
  /\ UNCHANGED <<jobVars, streamVars, page, shown>>

(***************************************************************************)
(* The page and the tab.                                                   *)
(***************************************************************************)

Closed == server' = "none" /\ wire' = {} /\ link' = "closed"

\* The page opens and reads.
Enter ==
  /\ page = "left"
  /\ page' = "shown"
  /\ RunOrQueue(reader)
  /\ UNCHANGED <<jobVars, streamVars, shown>>

\* The stream closes, and stop: a read under way ends without effect on the
\* reader.
Leave ==
  /\ page = "shown"
  /\ page' = "left"
  /\ reader' = Still(reader)
  /\ read' = [read EXCEPT !.current = read.pc = "none"]
  /\ Closed
  /\ UNCHANGED <<jobVars, shown>>

(***************************************************************************)
(* The stream.                                                             *)
(***************************************************************************)

\* The request arrives, and the API answers it when it is subscribed.
Connect ==
  /\ page = "shown"
  /\ link = "closed"
  /\ link' = "opening"
  /\ server' = "streaming"
  /\ wire' = {}
  /\ UNCHANGED <<jobVars, pageVars>>

\* Mutant: only a first connection is worth a read.
ReaderOpenedOnce == IF reader.held = 0 THEN Invalidated(reader) ELSE reader

\* Every open resynchronizes the reader.
ReaderOpened == Invalidated(reader)

Opens ==
  /\ link = "opening"
  /\ link' = "open"
  /\ reader' = ReaderOpened
  /\ UNCHANGED <<jobVars, server, wire, page, shown, read>>

Deliver(e) ==
  /\ link = "open"
  /\ e \in wire
  /\ wire' = wire \ {e}
  /\ reader' = Hears(e)
  /\ UNCHANGED <<jobVars, server, link, page, shown, read>>

\* The API ends the stream: its Redis connection is lost, a check of the
\* session fails, the buffer is full, or the network loses the connection.
Breaks ==
  /\ server = "streaming"
  /\ server' = "ended"
  /\ UNCHANGED <<jobVars, wire, link, pageVars>>

\* The browser sees the end, or no event for 60 s.  A tab that is hidden ends
\* the stream itself.
Notices ==
  /\ link # "closed"
  /\ Closed
  /\ UNCHANGED <<jobVars, pageVars>>

Next ==
  \/ Commit
  \/ \E c \in Couriers : Reads(c) \/ Tell(c) \/ Complete(c) \/ Drop(c)
  \/ TimerFires \/ Refresh \/ Answer \/ Arrives \/ Fails
  \/ Enter \/ Leave
  \/ Connect \/ Opens \/ Breaks \/ Notices
  \/ \E e \in 1 .. MaxRevision : Deliver(e)

Spec == Init /\ [][Next]_vars

\* Intervals and debounces end, and what is tried again and again, by the
\* relay, the stream and the reader, succeeds again and again.
Fairness ==
  /\ SF_vars(Take(Relay, rows)) /\ SF_vars(Tell(Relay))
  /\ WF_vars(Drop(Relay) \/ Complete(Relay))
  /\ WF_vars(Connect \/ (server = "ended" /\ Notices)) /\ SF_vars(Opens)
  /\ WF_vars(\E e \in 1 .. MaxRevision : Deliver(e))
  /\ WF_vars(TimerFires) /\ SF_vars(Answer) /\ WF_vars(Arrives)

FairSpec == Spec /\ Fairness

(***************************************************************************)
(* Properties.                                                             *)
(***************************************************************************)

\* The page will read a revision that is n or later without any further
\* event: a read or the stream's next open brings it, or an event on its way.
Coming(n) ==
  \/ reader.held >= n
  \/ link # "open" \/ server = "ended"
  \/ \E e \in wire : e >= n
  \/ reader.timer \/ reader.queued
  \/ read.current /\ (read.pc = "asked" \/ (read.pc = "read" /\ read.rev >= n))

\* A page that somebody looks at misses nothing: each revision that it does
\* not hold still has its row in PostgreSQL, or is coming.  The couriers may
\* complete rows, die and repeat, the stream may break and reopen, and an
\* event may meet a read that started before it.
NewsOnTheWay ==
  page = "shown" => \A n \in 1 .. rev : n \in rows \/ Coming(n)

\* An element shows no earlier revision than the rows it was made for, and what a
\* courier has told is coming.
ToldIsComing ==
  \A c \in Couriers, n \in 1 .. rev : n \in hand[c].ids =>
    IF hand[c].told THEN page = "shown" => Coming(n) ELSE n <= hand[c].rev

\* The inductive invariant.  Only an end that the API holds is open, and a read
\* brings nothing older than the page shows.
NewsInv ==
  /\ TypeOK
  /\ NewsOnTheWay
  /\ ToldIsComing
  /\ server = "none" => link = "closed"
  /\ read.pc = "read" => shown <= read.rev

\* The rows, the couriers, the stream and the reader implement a page that
\* follows the job.
Follows == INSTANCE JobFollow WITH here <- page = "shown"
FollowSpec == Follows!Spec
FollowSafety == Follows!Init /\ [][Follows!Next]_(Follows!vars)

=============================================================================
