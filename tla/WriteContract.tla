--------------------------- MODULE WriteContract ---------------------------
(***************************************************************************)
(* What a device write job promises to the people and to the other jobs of *)
(* the customer, without a lease, a request, an execution or a read-back   *)
(* hold: it asks Google only while it has the write slot, and only for     *)
(* operations that are still open; what it reports of an operation is      *)
(* true when it reports it and final, except that a read-back may decide   *)
(* an unknown one, and that an update fails when an answer names other     *)
(* values, whatever an earlier request has done or still does; it lets the *)
(* slot go in the step that decides its last open operation, and it does   *)
(* let it go.                                                              *)
(***************************************************************************)

CONSTANTS
  Operations,  \* the frozen targets of the job, one operation each
  ReadsBack,   \* FALSE for commands, whose effect nobody can read back
  NamesValues  \* TRUE for updates: an answer names the values of the device

VARIABLES
  slot,   \* where the job is with the write slot of the customer
  known,  \* what the job reports of each operation
  world   \* what became of each operation at Google

vars == <<slot, known, world>>

Known == {"open", "done", "failed", "unknown", "dropped"}

Init ==
  /\ slot = "waiting"
  /\ known = [o \in Operations |-> "open"]
  /\ world = [o \in Operations |-> "untouched"]

\* The job takes the slot.
Start ==
  /\ slot = "waiting" /\ slot' = "running"
  /\ UNCHANGED <<known, world>>

\* The job asks Google for some of its open operations.
Ask ==
  /\ slot = "running"
  /\ \E S \in SUBSET {o \in Operations : known[o] = "open"} :
       world' = [o \in Operations |->
                   IF o \in S /\ world[o] = "untouched" THEN "asked"
                   ELSE world[o]]
  /\ UNCHANGED <<slot, known>>

\* Google carries out what it was asked for, however late.
CarryOut(o) ==
  /\ world[o] = "asked"
  /\ world' = [world EXCEPT ![o] = "done"]
  /\ UNCHANGED <<slot, known>>

\* What the job may report of o next.  An answer that names other values fails an
\* operation, although a repeated request may meet what an earlier one has done.
MayReport(o) ==
  {known[o]} \cup
  CASE known[o] = "open" ->
         {"unknown"} \cup (CASE world[o] = "untouched" -> {"dropped"}
                             [] world[o] = "asked" -> {"failed"}
                             [] OTHER -> {"done"} \cup
                                  (IF NamesValues THEN {"failed"} ELSE {}))
    [] known[o] = "unknown" /\ ReadsBack ->
         {"failed"} \cup (IF world[o] = "done" THEN {"done"} ELSE {})
    [] OTHER -> {}

Reports ==
  /\ known' \in [Operations -> Known]
  /\ \A o \in Operations : known'[o] \in MayReport(o)
  /\ UNCHANGED world

\* A settlement, a fence, or a read-back, also of a job that has ended.
Report == slot # "waiting" /\ Reports /\ UNCHANGED slot

Release == slot = "running" /\ slot' = "released"

\* The job decides what is left, and the next job may take the slot.
LetGo ==
  /\ Release /\ Reports
  /\ \A o \in Operations : known'[o] # "open"

\* A job that is cancelled before its start does nothing at all.
GiveUp ==
  /\ slot = "waiting" /\ slot' = "released"
  /\ known' = [o \in Operations |-> "dropped"]
  /\ UNCHANGED world

Next ==
  \/ Start \/ Ask \/ Report \/ LetGo \/ GiveUp
  \/ \E o \in Operations : CarryOut(o)

\* A job that has the slot lets it go; what is open it may always report unknown.
Spec == Init /\ [][Next]_vars /\ WF_slot(Release)

=============================================================================
