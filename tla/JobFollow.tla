------------------------------ MODULE JobFollow ------------------------------
(***************************************************************************)
(* What a page that shows a job promises, without rows, events or streams: *)
(* what it shows never goes back and is never ahead of the job, and while  *)
(* somebody looks at it, it comes to show every revision of the job or a   *)
(* later one.                                                              *)
(***************************************************************************)
EXTENDS Naturals

CONSTANT MaxRevision  \* a bound: the last revision of the job

VARIABLES
  rev,    \* the revision of the job
  shown,  \* the revision that the page shows; 0 before the first read
  here    \* somebody looks at the page

vars == <<rev, shown, here>>

Init ==
  /\ rev = 1
  /\ shown = 0
  /\ here \in BOOLEAN

Commit ==
  /\ rev < MaxRevision
  /\ rev' = rev + 1
  /\ UNCHANGED <<shown, here>>

Show ==
  /\ shown' \in shown .. rev
  /\ UNCHANGED <<rev, here>>

Turn ==
  /\ here' = ~here
  /\ UNCHANGED <<rev, shown>>

Next == Commit \/ Show \/ Turn

\* Somebody looks, and the page gets closer to the job.
CatchUp == here /\ Show /\ shown < shown'

Spec ==
  /\ Init
  /\ [][Next]_vars
  /\ WF_vars(CatchUp)

=============================================================================
