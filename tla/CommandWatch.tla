---------------------------- MODULE CommandWatch ----------------------------
(***************************************************************************)
(* What the polls of a command job promise, without a lease, a flow or a   *)
(* request: the state shown for an issued command follows Google's, never  *)
(* backwards and never ahead of it; a command settles once, by Google's    *)
(* last word on it or by the end of its watch; and the job ends in the     *)
(* step that settles its last command, with the status its rows give.      *)
(***************************************************************************)
EXTENDS CommandTerms

CONSTANTS
  Operations,  \* the operations of the job, issued and others
  Reopens      \* TRUE for Reboot: Google's expiry may move the end of the
               \* watch in both directions, once

VARIABLES
  status,  \* of the job
  row,     \* what each operation shows: its status, and the last state seen
           \* of its command
  google,  \* where each command is at Google
  known,   \* the commands whose expiry Google has named
  over     \* the commands whose watch has ended

vars == <<status, row, google, known, over>>

IssuedIn(r) == {o \in Operations : r[o].status = "issued"}

RowCounts(r) ==
  [s \in Finals |-> Cardinality({o \in Operations : r[o].status = s})]

\* The rows change to r, and the job ends with the last issued one.
RowsBecome(r) ==
  /\ row' = r
  /\ status' = IF IssuedIn(r) = {}
               THEN TerminalOf(RowCounts(r), Cardinality(Operations))
               ELSE status

Init ==
  /\ status = "awaiting-devices"
  /\ row \in [Operations ->
                {[status |-> "issued", state |-> "pending-delivery"]}
                \cup [status : Finals \ {"succeeded", "expired"},
                      state : {NoState}]]
  /\ IssuedIn(row) # {}
  /\ google = [o \in Operations |-> "PENDING"]
  /\ known = {}
  /\ over = {}

\* Google carries the command on.
GoogleMoves(o) ==
  /\ \E s \in GoogleStates : /\ Follows(google[o], s)
                             /\ google' = [google EXCEPT ![o] = s]
  /\ UNCHANGED <<status, row, known, over>>

\* The row takes an answer of Google that is no older than what the row shows
\* and no newer than what Google knows.  The first answer that names the
\* expiry sets the end of the watch.
Observe(o) ==
  /\ row[o].status = "issued"
  /\ \E s \in GoogleStates, names \in BOOLEAN :
       /\ s = google[o] \/ Follows(s, google[o])
       /\ \E t \in GoogleStates :
            /\ CommandState(t) = row[o].state
            /\ s = t \/ Follows(t, s)
       /\ names => s # "GONE"
       /\ known' = IF names THEN known \cup {o} ELSE known
       /\ IF names /\ o \notin known
          THEN over' \in {over \cup {o}, IF Reopens THEN over \ {o} ELSE over}
          ELSE over' = over
       /\ RowsBecome([row EXCEPT ![o] =
            [status |-> IF Outcome(s) = "issued" /\ o \in over'
                        THEN "unknown" ELSE Outcome(s),
             state |-> IF Outcome(s) = "issued"
                       THEN CommandState(s) ELSE @.state]])
  /\ UNCHANGED google

\* Commands whose watch is over end without an answer.
GiveUp ==
  /\ \E S \in SUBSET (over \cap IssuedIn(row)) :
       /\ S # {}
       /\ RowsBecome([o \in Operations |->
            IF o \in S THEN [row[o] EXCEPT !.status = "unknown"] ELSE row[o]])
  /\ UNCHANGED <<google, known, over>>

WatchEnds(o) ==
  /\ o \in IssuedIn(row) \ over
  /\ over' = over \cup {o}
  /\ UNCHANGED <<status, row, google, known>>

Next ==
  \/ GiveUp
  \/ \E o \in Operations : GoogleMoves(o) \/ Observe(o) \/ WatchEnds(o)

\* Time passes, and a command does not stay issued beyond its watch.
Spec ==
  /\ Init
  /\ [][Next]_vars
  /\ \A o \in Operations : WF_vars(WatchEnds(o))
  /\ WF_vars(GiveUp)

=============================================================================
