---------------------------- MODULE GoogleAccess ----------------------------
(***************************************************************************)
(* The Google connection of the customer: its credential with the          *)
(* candidates that may become it (migrations 007 and 011), and the one     *)
(* access token that the API and the workers share (migration 008,         *)
(* google-connection/coordinator.ts).                                      *)
(*                                                                         *)
(* A credential is named by its candidate.  Replacing it, sealing it with  *)
(* another key and disconnecting it each start a new generation, and every *)
(* request carries the generation that its caller saw.  What a request     *)
(* learns from Google reaches the database much later, when another token, *)
(* another credential or no connection may be there.                       *)
(***************************************************************************)
EXTENDS Naturals, FiniteSets

CONSTANTS
  Candidates,     \* the credentials that administrators import
  Readers,        \* reads of Google with the shared token, and their leases
  Checkers,       \* health checks, which mint a token of their own
  Editors,        \* administrators who change the connection
  MaxGeneration,  \* bound on the generations
  None            \* no candidate, reader or checker

ASSUME ConstantsAssumption ==
  /\ MaxGeneration \in Nat \ {0}
  /\ None \notin Candidates \cup Readers \cup Checkers

VARIABLES
  conn,     \* cc.google_connection; generation 0: not connected yet
  cand,     \* cc.google_credential_candidates
  row,      \* cc.google_access_tokens
  check,    \* cc.google_health_checks
  reader,   \* each read
  checker,  \* each health check
  editor    \* what each administrator is about to send, and for which generation

connVars == <<conn, cand, row, check>>
vars == <<connVars, reader, checker, editor>>

Generations == 0 .. MaxGeneration
Known == Candidates \cup {None}

NoRow == [kind |-> "empty", by |-> None, live |-> FALSE, final |-> FALSE,
          generation |-> 0, credential |-> None]
NoCheck == [by |-> None, live |-> FALSE]
NoCall == [pc |-> "none", generation |-> 0, credential |-> None]
NoRead == [pc |-> "none", generation |-> 0, credential |-> None, token |-> None]

\* The rows of the database and what a call has in hand.
Connection == [generation : Generations, active : BOOLEAN, credential : Known,
               observed : Known]
Candidate ==
  [status : {"none", "verifying", "ready", "failed", "expired", "consumed"},
   expected : Generations]
AccessRow == [kind : {"empty", "lease", "token", "failure"},
              by : Readers \cup {None}, live : BOOLEAN, final : BOOLEAN,
              generation : Generations, credential : Known]
Reading == [pc : {"none", "ask", "renew", "observe", "over"},
            generation : Generations, credential : Known,
            token : Readers \cup {None}]
Checking == [pc : {"none", "claim", "check", "over"},
             generation : Generations, credential : Known]
Editing == [pc : {"none", "confirm", "replace", "rotate", "disconnect"},
            generation : Generations, credential : Known]

TypeOK ==
  /\ conn \in Connection
  /\ cand \in [Candidates -> Candidate]
  /\ row \in AccessRow
  /\ check \in [by : Checkers \cup {None}, live : BOOLEAN]
  /\ reader \in [Readers -> Reading]
  /\ checker \in [Checkers -> Checking]
  /\ editor \in [Editors -> Editing]

Init ==
  /\ conn = [generation |-> 0, active |-> FALSE, credential |-> None, observed |-> None]
  /\ cand = [c \in Candidates |-> [status |-> "none", expected |-> 0]]
  /\ row = NoRow
  /\ check = NoCheck
  /\ reader = [r \in Readers |-> NoRead]
  /\ checker = [h \in Checkers |-> NoCall]
  /\ editor = [e \in Editors |-> NoCall]

\* Mutant: the generation of the request is not compared.
BoundToAny(generation) == conn.generation > 0

\* cc.google_bound_generation
Bound(generation) == conn.generation > 0 /\ generation = conn.generation

\* cc.google_current_generation
Current(generation) == Bound(generation) /\ conn.active

\* The next call of a request.
Goes(f, i, pc) == [f EXCEPT ![i].pc = pc]

ReadOver(r) == reader' = [reader EXCEPT ![r] = [NoRead EXCEPT !.pc = "over"]]
CheckOver(h) == checker' = [checker EXCEPT ![h] = [NoCall EXCEPT !.pc = "over"]]

(***************************************************************************)
(* Candidates.                                                             *)
(***************************************************************************)

\* Mutant: the review of a replacement names the generation that it would start.
ReviewsNext == IF conn.generation = 0 THEN 0 ELSE conn.generation + 1

\* The generation that a review is about.
Reviews == conn.generation

\* cc.stage_google_credential_bound: the first credential, or a replacement.
Stage(c) ==
  /\ cand[c].status = "none"
  /\ cand' = [cand EXCEPT ![c] = [status |-> "verifying", expected |-> Reviews]]
  /\ UNCHANGED <<conn, row, check, reader, checker, editor>>

\* Google verified the credential, or refused it: cc.finish_google_candidate.
Verify(c, status) ==
  /\ cand[c].status = "verifying"
  /\ cand[c].expected > 0 => Bound(cand[c].expected)
  /\ cand' = [cand EXCEPT ![c].status = status]
  /\ UNCHANGED <<conn, row, check, reader, checker, editor>>

\* cc.expire_google_candidates, ten minutes after the stage
Expire(c) ==
  /\ cand[c].status \in {"verifying", "ready"}
  /\ cand' = [cand EXCEPT ![c].status = "expired"]
  /\ UNCHANGED <<conn, row, check, reader, checker, editor>>

(***************************************************************************)
(* The administrators.  The API reads the connection, seals the credential *)
(* for the next generation and calls the database.                         *)
(***************************************************************************)

Plans(e, pc, generation, credential) ==
  /\ editor[e].pc = "none"
  /\ editor' = [editor EXCEPT ![e] = [pc |-> pc, generation |-> generation,
                                      credential |-> credential]]
  /\ UNCHANGED <<connVars, reader, checker>>

Plan(e) ==
  \/ \E c \in Candidates :
       cand[c].status = "ready" /\ Plans(e, "confirm", 0, c)
  \/ \E c \in Candidates :
       /\ cand[c].status = "ready"
       /\ Bound(cand[c].expected)
       /\ Plans(e, "replace", conn.generation, c)
  \/ conn.active /\ Plans(e, "rotate", conn.generation, conn.credential)
  \/ conn.active /\ Plans(e, "disconnect", conn.generation, conn.credential)

Sent(e) == editor' = [editor EXCEPT ![e] = NoCall]

\* cc.confirm_google_customer: the first credential; the other candidates stay.
Confirm(e) ==
  LET c == editor[e].credential IN
    /\ editor[e].pc = "confirm"
    /\ cand[c].status = "ready" /\ cand[c].expected = 0
    /\ conn.generation = 0
    /\ conn' = [generation |-> 1, active |-> TRUE, credential |-> c, observed |-> c]
    /\ cand' = [cand EXCEPT ![c].status = "consumed"]
    /\ Sent(e)
    /\ UNCHANGED <<row, check, reader, checker>>

\* Mutant: the other reviews stay open.
StaysOpen(c) == cand[c].status

\* An open review expires with the generation that it was about.
Closed(c) ==
  IF cand[c].status \in {"verifying", "ready"} THEN "expired" ELSE cand[c].status

\* cc.advance_google_credential: the token and the check of the old generation go.
Advance(credential, observed, active, consumed, token) ==
  /\ conn.generation < MaxGeneration
  /\ conn' = [generation |-> conn.generation + 1, active |-> active,
              credential |-> credential, observed |-> observed]
  /\ cand' = [c \in Candidates |->
                [cand[c] EXCEPT !.status = IF c \in consumed THEN "consumed" ELSE Closed(c)]]
  /\ row' = token
  /\ check' = NoCheck

\* cc.activate_google_replacement
Replace(e) ==
  LET c == editor[e].credential IN
    /\ editor[e].pc = "replace"
    /\ cand[c].status = "ready"
    /\ Bound(editor[e].generation)
    /\ cand[c].expected = editor[e].generation
    /\ Advance(c, c, TRUE, {c}, NoRow)
    /\ Sent(e)
    /\ UNCHANGED <<reader, checker>>

\* Mutant: a new key starts with a clean row.
NothingCarried == NoRow

\* The failure that a new key does not repair.
Carried ==
  IF row.kind = "failure"
  THEN [row EXCEPT !.generation = conn.generation + 1] ELSE NoRow

\* cc.rotate_google_credential_key
Rotate(e) ==
  /\ editor[e].pc = "rotate"
  /\ Current(editor[e].generation)
  /\ Advance(editor[e].credential, conn.observed, TRUE, {}, Carried)
  /\ Sent(e)
  /\ UNCHANGED <<reader, checker>>

\* cc.disconnect_google_credential
Disconnect(e) ==
  /\ editor[e].pc = "disconnect"
  /\ Current(editor[e].generation)
  /\ Advance(conn.credential, conn.observed, FALSE, {}, NoRow)
  /\ Sent(e)
  /\ UNCHANGED <<reader, checker>>

\* The call is refused or fails: nothing changes.
Refused(e) ==
  /\ editor[e].pc # "none"
  /\ Sent(e)
  /\ UNCHANGED <<connVars, reader, checker>>

(***************************************************************************)
(* Reads with the shared token.  What Google answers a request is chosen   *)
(* when the answer reaches the database.                                   *)
(***************************************************************************)

\* A read of the generation that its caller saw.
Ask(r) ==
  /\ reader[r].pc = "none"
  /\ conn.active
  /\ reader' = [reader EXCEPT ![r].pc = "ask", ![r].generation = conn.generation]
  /\ UNCHANGED <<connVars, checker, editor>>

\* The read ends: refused, fenced, out of time, or its process died.  A lease
\* that it holds stays.
GiveUp(r) ==
  /\ reader[r].pc \notin {"none", "over"}
  /\ ReadOver(r)
  /\ UNCHANGED <<connVars, checker, editor>>

Uses(r, pc, credential, token) ==
  reader' = [reader EXCEPT ![r] = [pc |-> pc, generation |-> @.generation,
                                   credential |-> credential, token |-> token]]

\* cc.acquire_google_access: the shared token.
Cached(r) ==
  /\ reader[r].pc = "ask"
  /\ Current(reader[r].generation)
  /\ row.kind = "token" /\ row.live
  /\ Uses(r, "observe", row.credential, row.by)
  /\ UNCHANGED <<connVars, checker, editor>>

\* A row of this kind that is still in its time: a failure and a lease hold off.
RowOf(r, kind, final) ==
  [kind |-> kind, by |-> r, live |-> TRUE, final |-> final,
   generation |-> conn.generation, credential |-> conn.credential]

\* cc.acquire_google_access: the lease of 30 seconds to renew the token.
Acquire(r) ==
  /\ reader[r].pc = "ask"
  /\ Current(reader[r].generation)
  /\ ~row.live
  /\ row' = RowOf(r, "lease", FALSE)
  /\ Uses(r, "renew", conn.credential, r)
  /\ UNCHANGED <<conn, cand, check, checker, editor>>

\* cc.finish_google_access: the lease is the reader's and still alive.
Holds(r) ==
  /\ Current(reader[r].generation)
  /\ row.kind = "lease" /\ row.by = r /\ row.live

\* Google minted a token.
StoreToken(r) ==
  /\ reader[r].pc = "renew"
  /\ Holds(r)
  /\ row' = [RowOf(r, "token", FALSE) EXCEPT !.credential = reader[r].credential]
  /\ reader' = Goes(reader, r, "observe")
  /\ UNCHANGED <<conn, cand, check, checker, editor>>

\* Google minted none: a network failure and the like hold off for 30 seconds,
\* the rest for good.
StoreFailure(r, final) ==
  /\ reader[r].pc = "renew"
  /\ Holds(r)
  /\ row' = [RowOf(r, "failure", final) EXCEPT !.credential = reader[r].credential]
  /\ ReadOver(r)
  /\ UNCHANGED <<conn, cand, check, checker, editor>>

\* Mutant: a rejection hits whatever token is there.
RejectsAny(r) == row.kind = "token"

\* The rejected token is still the shared one.
Rejects(r) == row.kind = "token" /\ row.by = reader[r].token

\* The read with the token failed: cc.reject_google_access.
Reject(r, final) ==
  /\ reader[r].pc = "observe"
  /\ Current(reader[r].generation)
  /\ row' = IF Rejects(r)
            THEN [row EXCEPT !.kind = "failure", !.live = TRUE, !.final = final] ELSE row
  /\ ReadOver(r)
  /\ UNCHANGED <<conn, cand, check, checker, editor>>

\* The read succeeded: cc.record_google_observation.
Record(r) ==
  /\ reader[r].pc = "observe"
  /\ Current(reader[r].generation)
  /\ conn' = [conn EXCEPT !.observed = reader[r].credential]
  /\ ReadOver(r)
  /\ UNCHANGED <<cand, row, check, checker, editor>>

(***************************************************************************)
(* Health checks, retries and time.                                        *)
(***************************************************************************)

Asked(h) ==
  /\ checker[h].pc = "none"
  /\ conn.active
  /\ checker' = [checker EXCEPT ![h].pc = "claim", ![h].generation = conn.generation]
  /\ UNCHANGED <<connVars, reader, editor>>

\* cc.claim_google_health: one check at a time.
ClaimCheck(h) ==
  /\ checker[h].pc = "claim"
  /\ Current(checker[h].generation)
  /\ ~check.live
  /\ check' = [by |-> h, live |-> TRUE]
  /\ checker' = [checker EXCEPT ![h].pc = "check", ![h].credential = conn.credential]
  /\ UNCHANGED <<conn, cand, row, reader, editor>>

\* The failure of the row is gone: cc.reset_google_access.
Forgiven == IF row.kind = "failure" THEN NoRow ELSE row

\* cc.finish_google_health: a good observation also allows a retry.
FinishCheck(h, good) ==
  /\ checker[h].pc = "check"
  /\ Current(checker[h].generation)
  /\ check.by = h /\ check.live
  /\ IF good THEN conn' = [conn EXCEPT !.observed = checker[h].credential] /\ row' = Forgiven
     ELSE UNCHANGED <<conn, row>>
  /\ check' = [check EXCEPT !.live = FALSE]
  /\ CheckOver(h)
  /\ UNCHANGED <<cand, reader, editor>>

\* The check is refused, out of time, or its process died.
EndCheck(h) ==
  /\ checker[h].pc \in {"claim", "check"}
  /\ CheckOver(h)
  /\ UNCHANGED <<connVars, reader, editor>>

\* A person allows a retry.
Retry ==
  /\ conn.active
  /\ row.kind = "failure"
  /\ row' = Forgiven
  /\ UNCHANGED <<conn, cand, check, reader, checker, editor>>

\* The lease ends, the token grows old, the failure may be retried.
RowAges ==
  /\ row.live /\ ~row.final
  /\ row' = [row EXCEPT !.live = FALSE]
  /\ UNCHANGED <<conn, cand, check, reader, checker, editor>>

CheckEnds ==
  /\ check.live
  /\ check' = [check EXCEPT !.live = FALSE]
  /\ UNCHANGED <<conn, cand, row, reader, checker, editor>>

Next ==
  \/ \E c \in Candidates :
       Stage(c) \/ Expire(c) \/ \E status \in {"ready", "failed"} : Verify(c, status)
  \/ \E e \in Editors :
       Plan(e) \/ Confirm(e) \/ Replace(e) \/ Rotate(e) \/ Disconnect(e) \/ Refused(e)
  \/ \E r \in Readers :
       \/ Ask(r) \/ GiveUp(r) \/ Cached(r) \/ Acquire(r) \/ StoreToken(r) \/ Record(r)
       \/ \E final \in BOOLEAN : StoreFailure(r, final) \/ Reject(r, final)
  \/ \E h \in Checkers :
       Asked(h) \/ ClaimCheck(h) \/ EndCheck(h) \/ \E good \in BOOLEAN : FinishCheck(h, good)
  \/ Retry \/ RowAges \/ CheckEnds

Spec == Init /\ [][Next]_vars

(***************************************************************************)
(* Properties.                                                             *)
(***************************************************************************)

\* The observation that the connection shows was made with its credential,
\* which a person reviewed and confirmed.
ObservedWithCredential ==
  conn.generation > 0 =>
    /\ conn.observed = conn.credential
    /\ cand[conn.credential].status = "consumed"

\* The shared token, and a failure that keeps every reader off, come from the
\* credential of an active connection and from no earlier one.
RowOfCredential ==
  row.kind # "empty" =>
    /\ conn.active
    /\ row.generation = conn.generation
    /\ row.credential = conn.credential

\* An open review of a replacement is about the current generation, so of two
\* reviews at most one is carried out.
ReviewIsCurrent ==
  \A c \in Candidates :
    cand[c].status \in {"verifying", "ready"} /\ cand[c].expected > 0 =>
      cand[c].expected = conn.generation

\* However late reads, checks and administrators reach the database, nothing of
\* a credential that was replaced or disconnected comes back.
CredentialInStep == ObservedWithCredential /\ RowOfCredential /\ ReviewIsCurrent

\* What a call took along is no newer than the connection, and from the
\* connection's credential when the generation is still the same.
Carries(call) ==
  /\ call.generation <= conn.generation
  /\ call.generation = conn.generation => call.credential = conn.credential

CallsInStep ==
  /\ \A r \in Readers : reader[r].pc \in {"renew", "observe"} => Carries(reader[r])
  /\ \A h \in Checkers : checker[h].pc = "check" => Carries(checker[h])
  /\ \A e \in Editors :
       /\ editor[e].pc = "rotate" => Carries(editor[e])
       /\ editor[e].pc \in {"confirm", "replace"} => editor[e].credential \in Candidates

\* The inductive invariant.  An active connection has a generation, every
\* generation a credential, and a failure for good never becomes due.
AccessInv ==
  /\ TypeOK
  /\ CredentialInStep
  /\ CallsInStep
  /\ conn.active => conn.generation > 0
  /\ conn.generation > 0 => conn.credential \in Candidates
  /\ row.final => row.live

\* A good token turns into a failure only when a read that used this very token was
\* refused (that it ages, or that another token takes its place, is not constrained),
\* and a failure for good goes only when a person retries, a check succeeds, or the
\* credential is replaced or disconnected: a new key does not hide it.
RowKept ==
  [][/\ row.kind = "token" /\ row'.kind = "failure" =>
          \E r \in Readers : reader[r].token = row.by /\ reader'[r].pc = "over"
     /\ row.kind = "failure" /\ row.final /\ row' # row =>
          \/ conn'.generation = conn.generation /\ row' = NoRow
          \/ ~conn'.active
          \/ conn'.credential # conn.credential
          \/ row' = [row EXCEPT !.generation = conn'.generation]]_vars

=============================================================================
