--------------------------- MODULE CommandHandOver ---------------------------
(***************************************************************************)
(* A command job between its two lives: DeviceWriteJob issues its commands *)
(* and lets the write slot go, CommandPolls watches them.  What the finish *)
(* or the recovery leaves behind is where the polls begin, and nothing     *)
(* that is still under way in the worker disturbs them.                    *)
(***************************************************************************)
EXTENDS DeviceWriteJob

CONSTANTS
  PollLeases,  \* the poll leases of the job
  PollRuns,    \* the poll requests
  PollLimit,   \* the operations of one claim of the polls
  Overlap,     \* the requests of one poll flow that run at once
  LongWatch,   \* TRUE for Wipe and Powerwash, FALSE for Reboot
  Reported     \* the states that Google reports

\* The part of a row that the polls go by: an issued command has its first state,
\* and no poll has touched any row.
PollRow(o) ==
  [status |-> op[o].status,
   state |-> IF op[o].status = "issued" THEN "pending-delivery" ELSE "none",
   known |-> FALSE, over |-> FALSE, due |-> FALSE, attempt |-> None]

PollRows == [o \in Operations |-> PollRow(o)]

NoPollRun ==
  [pc |-> "idle", lease |-> None, got |-> [o \in Operations |-> "unasked"],
   answered |-> FALSE, stopped |-> FALSE]

Polls == INSTANCE CommandPolls WITH
  Leases <- PollLeases,
  Runs <- PollRuns,
  status <- job.status,
  op <- PollRows,
  tally <- [s \in Counted |-> Cardinality(tally[s])],
  poll <- [lease |-> None, live |-> FALSE],
  flows <- {},
  run <- [r \in PollRuns |-> NoPollRun],
  google <- [o \in Operations |-> "PENDING"]

\* A job that waits for its devices is in an initial state of CommandPolls: some
\* command is issued, every other operation is decided, none by a device, and the
\* counters are those of the rows.  No batch of it has a lease any more.
HandOver == job.status = "awaiting-devices" => Polls!Init /\ ~AnyBusy

\* From then on the rows, the counters and the header are the polls' alone: late
\* answers, settlements, retries, finishes and a recovery change none of them.
HandedOver ==
  [][job.status = "awaiting-devices" =>
       UNCHANGED <<job, tally, PollRows>>]_vars

=============================================================================
