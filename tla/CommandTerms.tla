---------------------------- MODULE CommandTerms ----------------------------
(***************************************************************************)
(* The terms of a Google device command: the states that Google reports,   *)
(* what the worker makes of each (classifyCommandPoll of                   *)
(* worker/src/device-update.ts), and the status a job with given operation *)
(* statuses ends with (cc.device_update_terminal_status of migration 017). *)
(***************************************************************************)
EXTENDS Naturals, FiniteSets

\* What a GET of the command answers.  EXECUTED has no result yet, SUCCESS
\* and FAILURE are executed commands with one, OTHER is a state that the
\* program does not know and GONE a 404.
LastWords == {"SUCCESS", "FAILURE", "EXPIRED", "CANCELLED", "OTHER", "GONE"}
GoogleStates == {"PENDING", "SENT_TO_CLIENT", "ACKED_BY_CLIENT", "EXECUTED"}
                  \cup LastWords

NoState == "none"
CommandStates == {"pending-delivery", "sent", "acknowledged"}

Finals == {"succeeded", "failed", "unknown", "skipped", "expired",
           "cancelled"}

\* The status that an answer gives, and the state of a pending command.
\* DEVICE-02: an executed command without a result is no success.
Outcome(answer) ==
  CASE answer \in GoogleStates \ LastWords -> "issued"
    [] answer = "SUCCESS" -> "succeeded"
    [] answer \in {"FAILURE", "CANCELLED"} -> "failed"
    [] answer = "EXPIRED" -> "expired"
    [] answer \in {"OTHER", "GONE"} -> "unknown"

CommandState(answer) ==
  CASE answer = "PENDING" -> "pending-delivery"
    [] answer = "SENT_TO_CLIENT" -> "sent"
    [] answer \in {"ACKED_BY_CLIENT", "EXECUTED"} -> "acknowledged"
    [] answer \in LastWords -> NoState

\* Google's progress: a later state of the same command; a last word stays.
Stage(answer) == CASE answer = "PENDING" -> 0
                   [] answer = "SENT_TO_CLIENT" -> 1
                   [] answer = "ACKED_BY_CLIENT" -> 2
                   [] answer = "EXECUTED" -> 3
                   [] answer \in LastWords -> 4
Follows(earlier, later) == Stage(earlier) < Stage(later)

\* cc.device_update_terminal_status reads only counters.
TerminalOf(count, targets) ==
  IF count["cancelled"] > 0 THEN "cancelled"
  ELSE IF count["unknown"] > 0 THEN "needs-review"
  ELSE IF count["succeeded"] = targets THEN "completed"
  ELSE IF /\ count["succeeded"] > 0
          /\ count["failed"] + count["expired"] + count["skipped"] > 0
  THEN "completed-with-errors"
  ELSE "failed"

=============================================================================
