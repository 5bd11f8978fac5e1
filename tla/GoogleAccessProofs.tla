------------------------- MODULE GoogleAccessProofs -------------------------
(***************************************************************************)
(* The inductive invariant of GoogleAccess and its two properties, proved  *)
(* for any number of credentials, reads, health checks, administrators and *)
(* generations.                                                            *)
(***************************************************************************)
EXTENDS GoogleAccess, TLAPS

-----------------------------------------------------------------------------
(* Type correctness                                                        *)

LEMMA ZeroIsGeneration == 0 \in Generations
BY ConstantsAssumption DEF Generations

LEMMA InitType == Init => TypeOK
BY ZeroIsGeneration
   DEF Init, TypeOK, Connection, Candidate, AccessRow, Reading, Checking,
       Editing, NoRow, NoCheck, NoRead, NoCall, Known

\* A step of a candidate keeps the types.
LEMMA CandidateType ==
  ASSUME TypeOK, NEW c \in Candidates,
         Stage(c) \/ Expire(c) \/ \E s \in {"ready", "failed"} : Verify(c, s)
  PROVE  TypeOK'
<1>1. Reviews \in Generations
  BY DEF TypeOK, Connection, Reviews
<1>2. CASE Stage(c)
  BY <1>1, <1>2 DEF TypeOK, Candidate, Stage
<1>3. CASE Expire(c)
  BY <1>3 DEF TypeOK, Candidate, Expire
<1>4. ASSUME NEW s \in {"ready", "failed"}, Verify(c, s) PROVE TypeOK'
  BY <1>4 DEF TypeOK, Candidate, Verify
<1> QED BY <1>2, <1>3, <1>4

\* A row takes another generation and keeps its type.
LEMMA RowGenerationType ==
  ASSUME NEW r \in AccessRow, NEW g \in Generations
  PROVE  [r EXCEPT !.generation = g] \in AccessRow
BY DEF AccessRow

LEMMA EmptyRowType == NoRow \in AccessRow
BY ZeroIsGeneration DEF NoRow, AccessRow, Known

\* The rows and the candidates that an advance leaves.
LEMMA AdvanceType ==
  ASSUME TypeOK, NEW credential \in Known, NEW observed \in Known,
         NEW active \in BOOLEAN, NEW consumed, NEW token,
         token = NoRow \/ token = Carried,
         Advance(credential, observed, active, consumed, token)
  PROVE  /\ conn' \in Connection
         /\ cand' \in [Candidates -> Candidate]
         /\ row' \in AccessRow
         /\ check' \in [by : Checkers \cup {None}, live : BOOLEAN]
<1>1. conn.generation + 1 \in Generations
  BY ConstantsAssumption DEF Advance, TypeOK, Connection, Generations
<1>2. conn' \in Connection
  BY <1>1 DEF Advance, Connection
<1>3. cand' \in [Candidates -> Candidate]
  BY DEF Advance, TypeOK, Closed, Candidate
<1>4. NoRow \in AccessRow
  BY EmptyRowType
<1>5. row' = token /\ row \in AccessRow
  BY DEF Advance, TypeOK
<1>6. Carried \in AccessRow
  BY <1>1, <1>4, <1>5, RowGenerationType DEF Carried
<1>7. check' \in [by : Checkers \cup {None}, live : BOOLEAN]
  BY DEF Advance, NoCheck
<1> QED BY <1>2, <1>3, <1>4, <1>5, <1>6, <1>7

\* The administrators keep the types.
LEMMA EditorType ==
  ASSUME TypeOK, NEW e \in Editors,
         \/ Plan(e) \/ Confirm(e) \/ Replace(e) \/ Rotate(e) \/ Disconnect(e)
         \/ Refused(e)
  PROVE  TypeOK'
<1>1. editor[e] \in Editing /\ conn \in Connection
  BY DEF TypeOK
<1>2. conn.generation \in Generations /\ conn.credential \in Known
      /\ conn.observed \in Known /\ editor[e].credential \in Known
  BY <1>1 DEF Connection, Editing
<1>3. NoCall \in Editing
  BY ZeroIsGeneration DEF NoCall, Editing, Known
<1>4. Sent(e) => editor' \in [Editors -> Editing]
  BY <1>3 DEF Sent, TypeOK
<1>5. ASSUME NEW pc \in {"confirm", "replace", "rotate", "disconnect"},
             NEW g \in Generations, NEW k \in Known, Plans(e, pc, g, k)
      PROVE  TypeOK'
  BY <1>5 DEF Plans, TypeOK, Editing, connVars
<1>6. CASE Plan(e)
  <2>1. \A c \in Candidates : c \in Known
    BY DEF Known
  <2> QED BY <1>2, <1>5, <1>6, <2>1, ZeroIsGeneration DEF Plan
<1>7. CASE Confirm(e)
  <2>1. 1 \in Generations
    BY ConstantsAssumption DEF Generations
  <2>2. conn' \in Connection
    BY <1>2, <1>7, <2>1 DEF Confirm, Connection
  <2>3. cand' \in [Candidates -> Candidate]
    BY <1>7 DEF Confirm, TypeOK, Candidate
  <2> QED BY <1>4, <1>7, <2>2, <2>3 DEF Confirm, TypeOK
<1>8. CASE Replace(e)
  BY <1>2, <1>4, <1>8, AdvanceType DEF Replace, TypeOK
<1>9. CASE Rotate(e)
  BY <1>2, <1>4, <1>9, AdvanceType DEF Rotate, TypeOK
<1>10. CASE Disconnect(e)
  BY <1>2, <1>4, <1>10, AdvanceType DEF Disconnect, TypeOK
<1>11. CASE Refused(e)
  BY <1>4, <1>11 DEF Refused, connVars, TypeOK
<1> QED BY <1>6, <1>7, <1>8, <1>9, <1>10, <1>11

\* A read that goes on with a token or a lease
LEMMA UsesType ==
  ASSUME TypeOK, NEW r \in Readers, NEW pc \in {"renew", "observe"},
         NEW k \in Known, NEW t \in Readers \cup {None}, Uses(r, pc, k, t)
  PROVE  /\ reader' \in [Readers -> Reading]
         /\ \A q \in Readers \ {r} : reader'[q] = reader[q]
         /\ reader'[r].pc = pc /\ reader'[r].credential = k
         /\ reader'[r].token = t
         /\ reader'[r].generation = reader[r].generation
BY DEF TypeOK, Uses, Reading

\* The reads keep the types.
LEMMA ReaderType ==
  ASSUME TypeOK, NEW r \in Readers,
         \/ Ask(r) \/ GiveUp(r) \/ Cached(r) \/ Acquire(r) \/ StoreToken(r)
         \/ Record(r)
         \/ \E final \in BOOLEAN : StoreFailure(r, final) \/ Reject(r, final)
  PROVE  TypeOK'
<1>1. reader[r] \in Reading /\ conn \in Connection /\ row \in AccessRow
  BY DEF TypeOK
<1>2. ReadOver(r) => reader' \in [Readers -> Reading]
  BY ZeroIsGeneration DEF ReadOver, NoRead, TypeOK, Reading, Known
<1>3. ASSUME NEW kind \in {"lease", "token", "failure"},
             NEW final \in BOOLEAN, NEW k \in Known
      PROVE  /\ RowOf(r, kind, final) \in AccessRow
             /\ [RowOf(r, kind, final) EXCEPT !.credential = k] \in AccessRow
  BY <1>1, <1>3 DEF RowOf, AccessRow, Connection
<1>4. reader[r].credential \in Known /\ conn.credential \in Known
      /\ row.credential \in Known /\ row.by \in Readers \cup {None}
  BY <1>1 DEF Reading, Connection, AccessRow
<1>5. CASE Ask(r)
  BY <1>1, <1>5 DEF Ask, connVars, TypeOK, Reading, Connection
<1>6. CASE GiveUp(r)
  BY <1>2, <1>6 DEF GiveUp, connVars, TypeOK
<1>7. CASE Cached(r)
  BY <1>4, <1>7, UsesType DEF Cached, connVars, TypeOK
<1>8. CASE Acquire(r)
  <2>1. row' \in AccessRow
    BY <1>3, <1>4, <1>8 DEF Acquire
  <2> QED BY <1>4, <1>8, <2>1, UsesType DEF Acquire, TypeOK
<1>9. CASE StoreToken(r)
  <2>1. row' \in AccessRow
    BY <1>3, <1>4, <1>9 DEF StoreToken
  <2> QED BY <1>9, <2>1 DEF StoreToken, Goes, TypeOK, Reading
<1>10. ASSUME NEW final \in BOOLEAN, StoreFailure(r, final) PROVE TypeOK'
  <2>1. row' \in AccessRow
    BY <1>3, <1>4, <1>10 DEF StoreFailure
  <2> QED BY <1>2, <1>10, <2>1 DEF StoreFailure, TypeOK
<1>11. ASSUME NEW final \in BOOLEAN, Reject(r, final) PROVE TypeOK'
  <2>1. row' \in AccessRow
    BY <1>1, <1>11 DEF Reject, AccessRow
  <2> QED BY <1>2, <1>11, <2>1 DEF Reject, TypeOK
<1>12. CASE Record(r)
  <2>1. conn' \in Connection
    BY <1>1, <1>4, <1>12 DEF Record, Connection
  <2> QED BY <1>2, <1>12, <2>1 DEF Record, TypeOK
<1> QED BY <1>5, <1>6, <1>7, <1>8, <1>9, <1>10, <1>11, <1>12

\* The health checks, a retry and the clocks keep the types.
LEMMA CheckerType ==
  ASSUME TypeOK, NEW h \in Checkers,
         Asked(h) \/ ClaimCheck(h) \/ EndCheck(h)
           \/ \E good \in BOOLEAN : FinishCheck(h, good)
  PROVE  TypeOK'
<1>1. checker[h] \in Checking /\ conn \in Connection /\ row \in AccessRow
  BY DEF TypeOK
<1>2. CheckOver(h) => checker' \in [Checkers -> Checking]
  BY ZeroIsGeneration DEF CheckOver, NoCall, TypeOK, Checking, Known
<1>3. CASE Asked(h)
  BY <1>1, <1>3 DEF Asked, connVars, TypeOK, Checking, Connection
<1>4. CASE ClaimCheck(h)
  BY <1>1, <1>4 DEF ClaimCheck, TypeOK, Checking, Connection
<1>5. CASE EndCheck(h)
  BY <1>2, <1>5 DEF EndCheck, connVars, TypeOK
<1>6. ASSUME NEW good \in BOOLEAN, FinishCheck(h, good) PROVE TypeOK'
  <2>1. row' \in AccessRow
    BY <1>1, <1>6, EmptyRowType DEF FinishCheck, Forgiven
  <2>2. conn' \in Connection
    BY <1>1, <1>6 DEF FinishCheck, Connection, Checking
  <2> QED BY <1>2, <1>6, <2>1, <2>2 DEF FinishCheck, TypeOK
<1> QED BY <1>3, <1>4, <1>5, <1>6

LEMMA TimeType ==
  ASSUME TypeOK, Retry \/ RowAges \/ CheckEnds
  PROVE  TypeOK'
<1>1. row \in AccessRow
  BY DEF TypeOK
<1>2. row' \in AccessRow
  <2>1. CASE Retry
    BY <1>1, <2>1, EmptyRowType DEF Retry, Forgiven
  <2>2. CASE RowAges
    BY <1>1, <2>2 DEF RowAges, AccessRow
  <2> QED BY <1>1, <2>1, <2>2 DEF CheckEnds
<1> QED BY <1>2 DEF Retry, RowAges, CheckEnds, TypeOK

LEMMA TypeStep == TypeOK /\ [Next]_vars => TypeOK'
<1> SUFFICES ASSUME TypeOK, [Next]_vars PROVE TypeOK'
  OBVIOUS
<1>1. CASE UNCHANGED vars
  BY <1>1 DEF vars, connVars, TypeOK
<1> QED BY <1>1, CandidateType, EditorType, ReaderType, CheckerType, TimeType
        DEF Next

\* The connection, its credentials, the shared token and every call stay well
\* typed, for every number of generations.
THEOREM TypeCorrect == Spec => []TypeOK
BY InitType, TypeStep, PTL DEF Spec

-----------------------------------------------------------------------------
(* The inductive invariant                                                 *)

LEMMA InvInit == Init => AccessInv
BY InitType
   DEF Init, AccessInv, CredentialInStep, ObservedWithCredential,
       RowOfCredential, ReviewIsCurrent, CallsInStep, NoRow, NoRead, NoCall

\* The credential of the connection is a consumed candidate.
LEMMA CredentialIsConsumed ==
  ASSUME AccessInv, conn.generation > 0
  PROVE  /\ conn.credential \in Candidates
         /\ cand[conn.credential].status = "consumed"
         /\ conn.observed = conn.credential
BY DEF AccessInv, CredentialInStep, ObservedWithCredential

\* A call that carries nothing newer than the connection still does so when the
\* connection keeps its generation and its credential, or gets a new generation.
LEMMA CarriesOn ==
  ASSUME AccessInv, conn' \in Connection,
         \/ conn'.generation = conn.generation /\ conn'.credential = conn.credential
         \/ conn'.generation = conn.generation + 1,
         NEW call, call.generation \in Generations, Carries(call)
  PROVE  /\ call.generation <= conn'.generation
         /\ call.generation = conn'.generation => call.credential = conn'.credential
BY DEF AccessInv, TypeOK, Connection, Carries, Generations

\* The steps of a candidate keep the invariant.
LEMMA CandidateInv ==
  ASSUME AccessInv, NEW c \in Candidates,
         Stage(c) \/ Expire(c) \/ \E s \in {"ready", "failed"} : Verify(c, s)
  PROVE  AccessInv'
<1>1. TypeOK'
  BY CandidateType DEF AccessInv
<1>2. /\ UNCHANGED <<conn, row, check, reader, checker, editor>>
      /\ cand[c].status # "consumed"
      /\ \A d \in Candidates \ {c} : cand'[d] = cand[d]
  BY DEF Stage, Expire, Verify, AccessInv, TypeOK
<1>3. cand'[c].status \in {"verifying", "ready"} /\ cand'[c].expected > 0 =>
        cand'[c].expected = conn.generation
  BY DEF Stage, Expire, Verify, Reviews, Bound, AccessInv, TypeOK, Candidate
<1>4. CredentialInStep'
  BY <1>2, <1>3 DEF AccessInv, CredentialInStep, ObservedWithCredential,
                    RowOfCredential, ReviewIsCurrent
<1>5. CallsInStep'
  BY <1>2 DEF AccessInv, CallsInStep, Carries
<1> QED BY <1>1, <1>2, <1>4, <1>5 DEF AccessInv

\* The calls under way stay in step when the connection keeps its credential or
\* gets a new generation, and no call takes anything new along.
LEMMA CallsStay ==
  ASSUME AccessInv, TypeOK',
         \/ conn'.generation = conn.generation /\ conn'.credential = conn.credential
         \/ conn'.generation = conn.generation + 1,
         \A r \in Readers : \/ reader'[r] = reader[r]
                            \/ reader'[r].pc \notin {"renew", "observe"},
         \A h \in Checkers : \/ checker'[h] = checker[h]
                             \/ checker'[h].pc # "check",
         \A e \in Editors : \/ editor'[e] = editor[e]
                            \/ editor'[e].pc = "none"
  PROVE  CallsInStep'
<1>1. conn' \in Connection
  BY DEF TypeOK
<1>2. ASSUME NEW r \in Readers, reader'[r].pc \in {"renew", "observe"}
      PROVE  Carries(reader[r])' /\ reader'[r] = reader[r]
  <2>1. reader'[r] = reader[r] /\ Carries(reader[r])
    BY <1>2 DEF AccessInv, CallsInStep
  <2>2. reader[r].generation \in Generations
    BY DEF AccessInv, TypeOK, Reading
  <2> QED BY <1>1, <2>1, <2>2, CarriesOn DEF Carries
<1>3. ASSUME NEW h \in Checkers, checker'[h].pc = "check"
      PROVE  Carries(checker[h])'
  <2>1. checker'[h] = checker[h] /\ Carries(checker[h])
    BY <1>3 DEF AccessInv, CallsInStep
  <2>2. checker[h].generation \in Generations
    BY DEF AccessInv, TypeOK, Checking
  <2> QED BY <1>1, <2>1, <2>2, CarriesOn DEF Carries
<1>4. ASSUME NEW e \in Editors, editor'[e].pc # "none"
      PROVE  /\ editor'[e].pc = "rotate" => Carries(editor[e])'
             /\ editor'[e].pc \in {"confirm", "replace"} =>
                  editor'[e].credential \in Candidates
  <2>1. editor'[e] = editor[e] /\ editor[e].generation \in Generations
    BY <1>4 DEF AccessInv, TypeOK, Editing
  <2>2. editor[e].pc = "rotate" => Carries(editor[e])
    BY DEF AccessInv, CallsInStep
  <2>3. editor[e].pc \in {"confirm", "replace"} => editor[e].credential \in Candidates
    BY DEF AccessInv, CallsInStep
  <2> QED BY <1>1, <2>1, <2>2, <2>3, CarriesOn DEF Carries
<1> QED BY <1>2, <1>3, <1>4 DEF CallsInStep

\* What an advance leaves, whatever the credential and the token are.
LEMMA AdvanceInStep ==
  ASSUME AccessInv, NEW credential, NEW observed, NEW active, NEW consumed, NEW token,
         Advance(credential, observed, active, consumed, token)
  PROVE  /\ conn'.generation = conn.generation + 1 /\ conn'.active = active
         /\ conn'.credential = credential /\ conn'.observed = observed
         /\ row' = token
         /\ ReviewIsCurrent'
         /\ \A c \in Candidates : c \in consumed \/ cand[c].status = "consumed"
              => cand'[c].status = "consumed"
<1>1. \A c \in Candidates : cand'[c].status = IF c \in consumed THEN "consumed" ELSE Closed(c)
  BY DEF Advance, AccessInv, TypeOK, Candidate
<1>2. \A c \in Candidates : cand'[c].status \notin {"verifying", "ready"}
  BY <1>1 DEF Closed
<1>3. ReviewIsCurrent'
  BY <1>2 DEF ReviewIsCurrent
<1>4. \A c \in Candidates : cand[c].status = "consumed" => Closed(c) = "consumed"
  BY DEF Closed
<1> QED BY <1>1, <1>3, <1>4 DEF Advance

\* The administrators keep the invariant.
LEMMA EditorInv ==
  ASSUME AccessInv, NEW e \in Editors,
         \/ Plan(e) \/ Confirm(e) \/ Replace(e) \/ Rotate(e) \/ Disconnect(e)
         \/ Refused(e)
  PROVE  AccessInv'
<1>1. TypeOK' /\ TypeOK /\ conn.generation \in Nat
  BY EditorType DEF AccessInv, TypeOK, Connection, Generations
<1>2. \A d \in Editors \ {e} : editor'[d] = editor[d]
  BY <1>1 DEF Plan, Plans, Confirm, Replace, Rotate, Disconnect, Refused, Sent, TypeOK
<1>3. Sent(e) => editor'[e].pc = "none"
  BY <1>1 DEF Sent, NoCall, TypeOK
<1>4. CASE Plan(e)
  <2>1. UNCHANGED <<connVars, reader, checker>>
    BY <1>4 DEF Plan, Plans
  <2>2. /\ editor'[e].pc = "rotate" => Carries(editor[e])'
        /\ editor'[e].pc \in {"confirm", "replace"} =>
             editor'[e].credential \in Candidates
    <3>1. ASSUME Plans(e, "rotate", conn.generation, conn.credential)
          PROVE  editor'[e].pc = "rotate" /\ Carries(editor[e])'
      BY <1>1, <2>1, <3>1 DEF Plans, TypeOK, Carries, connVars
    <3>2. ASSUME NEW g, NEW c \in Candidates, NEW p \in {"confirm", "replace"},
                 Plans(e, p, g, c)
          PROVE  editor'[e].pc = p /\ editor'[e].credential \in Candidates
      BY <1>1, <3>2 DEF Plans, TypeOK
    <3>3. ASSUME Plans(e, "disconnect", conn.generation, conn.credential)
          PROVE  editor'[e].pc = "disconnect"
      BY <1>1, <3>3 DEF Plans, TypeOK
    <3> QED BY <1>4, <3>1, <3>2, <3>3 DEF Plan
  <2>3. CallsInStep'
    BY <1>2, <2>1, <2>2 DEF AccessInv, CallsInStep, Carries, connVars
  <2> QED BY <1>1, <2>1, <2>3
          DEF AccessInv, CredentialInStep, ObservedWithCredential,
              RowOfCredential, ReviewIsCurrent, connVars
<1>5. CASE Refused(e)
  <2>1. CallsInStep'
    BY <1>1, <1>2, <1>3, <1>5, CallsStay DEF Refused, connVars
  <2> QED BY <1>1, <1>5, <2>1
          DEF Refused, AccessInv, CredentialInStep, ObservedWithCredential,
              RowOfCredential, ReviewIsCurrent, connVars
<1>6. CASE Confirm(e)
  <2> DEFINE c == editor[e].credential
  <2>1. c \in Candidates
    BY <1>6 DEF Confirm, AccessInv, CallsInStep
  <2>2. conn.generation = 0 /\ conn'.generation = 1 /\ conn'.active
        /\ conn'.credential = c /\ conn'.observed = c
    BY <1>6 DEF Confirm
  <2>3. cand'[c].status = "consumed" /\ \A d \in Candidates \ {c} : cand'[d] = cand[d]
    BY <1>1, <1>6, <2>1 DEF Confirm, TypeOK, Candidate
  <2>4. UNCHANGED <<row, reader, checker>> /\ Sent(e)
    BY <1>6 DEF Confirm
  <2>5. row.kind = "empty"
    BY <2>2 DEF AccessInv, CredentialInStep, RowOfCredential
  <2> HIDE DEF c
  <2>6. CredentialInStep'
    <3>1. ReviewIsCurrent'
      BY <1>1, <2>1, <2>2, <2>3 DEF AccessInv, CredentialInStep, ReviewIsCurrent
    <3> QED BY <2>2, <2>3, <2>4, <2>5, <3>1
            DEF CredentialInStep, ObservedWithCredential, RowOfCredential
  <2>7. CallsInStep'
    BY <1>1, <1>2, <1>3, <2>2, <2>4, CallsStay
  <2> QED BY <1>1, <2>1, <2>2, <2>4, <2>6, <2>7 DEF AccessInv
<1>7. CASE Replace(e)
  <2> DEFINE c == editor[e].credential
  <2>1. c \in Candidates
    BY <1>7 DEF Replace, AccessInv, CallsInStep
  <2>2. Advance(c, c, TRUE, {c}, NoRow) /\ Sent(e) /\ UNCHANGED <<reader, checker>>
    BY <1>7 DEF Replace
  <2> HIDE DEF c
  <2>3. /\ conn'.generation = conn.generation + 1 /\ conn'.active
        /\ conn'.credential = c /\ conn'.observed = c /\ row' = NoRow
        /\ ReviewIsCurrent' /\ cand'[c].status = "consumed"
    BY <2>1, <2>2, AdvanceInStep
  <2>4. CallsInStep'
    BY <1>1, <1>2, <1>3, <2>2, <2>3, CallsStay
  <2> QED BY <1>1, <2>1, <2>3, <2>4
          DEF AccessInv, CredentialInStep, ObservedWithCredential,
              RowOfCredential, NoRow
<1>8. CASE Rotate(e)
  <2>1. /\ Advance(editor[e].credential, conn.observed, TRUE, {}, Carried)
        /\ Sent(e) /\ UNCHANGED <<reader, checker>>
    BY <1>8 DEF Rotate
  <2>2. conn.generation > 0 /\ conn.active /\ editor[e].credential = conn.credential
    BY <1>1, <1>8 DEF Rotate, Current, Bound, AccessInv, CallsInStep, Carries
  <2>3. /\ conn'.generation = conn.generation + 1 /\ conn'.active
        /\ conn'.credential = conn.credential /\ conn'.observed = conn.observed
        /\ row' = Carried /\ ReviewIsCurrent'
        /\ \A c \in Candidates : cand[c].status = "consumed"
             => cand'[c].status = "consumed"
    BY <2>1, <2>2, AdvanceInStep
  <2>4. CallsInStep'
    BY <1>1, <1>2, <1>3, <2>1, <2>3, CallsStay
  <2>5. ObservedWithCredential'
    BY <2>2, <2>3, CredentialIsConsumed DEF ObservedWithCredential
  <2>6. RowOfCredential' /\ (row'.final => row'.live)
    <3>1. row \in AccessRow
      BY <1>1 DEF TypeOK
    <3> QED BY <2>2, <2>3, <3>1
            DEF AccessInv, CredentialInStep, RowOfCredential, Carried, NoRow, AccessRow
  <2> QED BY <1>1, <2>2, <2>3, <2>4, <2>5, <2>6, CredentialIsConsumed
          DEF AccessInv, CredentialInStep
<1>9. CASE Disconnect(e)
  <2>1. /\ Advance(conn.credential, conn.observed, FALSE, {}, NoRow)
        /\ Sent(e) /\ UNCHANGED <<reader, checker>>
    BY <1>9 DEF Disconnect
  <2>2. conn.generation > 0
    BY <1>9 DEF Disconnect, Current, Bound
  <2>3. /\ conn'.generation = conn.generation + 1 /\ ~conn'.active
        /\ conn'.credential = conn.credential /\ conn'.observed = conn.observed
        /\ row' = NoRow /\ ReviewIsCurrent'
        /\ \A c \in Candidates : cand[c].status = "consumed"
             => cand'[c].status = "consumed"
    BY <2>1, AdvanceInStep
  <2>4. CallsInStep'
    BY <1>1, <1>2, <1>3, <2>1, <2>3, CallsStay
  <2>5. ObservedWithCredential'
    BY <2>2, <2>3, CredentialIsConsumed DEF ObservedWithCredential
  <2> QED BY <1>1, <2>2, <2>3, <2>4, <2>5, CredentialIsConsumed
          DEF AccessInv, CredentialInStep, RowOfCredential, NoRow
<1> QED BY <1>4, <1>5, <1>6, <1>7, <1>8, <1>9

\* Nothing but the calls and the age of the row changes.
LEMMA ConnectionStays ==
  ASSUME AccessInv, TypeOK', UNCHANGED <<conn, cand>>, CallsInStep',
         \/ row' = row
         \/ row'.kind = "empty"
         \/ /\ conn.active
            /\ row'.generation = conn.generation
            /\ row'.credential = conn.credential,
         row'.final => row'.live
  PROVE  AccessInv'
BY DEF AccessInv, CredentialInStep, ObservedWithCredential, RowOfCredential,
       ReviewIsCurrent

\* The reads keep the invariant.
LEMMA ReaderInv ==
  ASSUME AccessInv, NEW r \in Readers,
         \/ Ask(r) \/ GiveUp(r) \/ Cached(r) \/ Acquire(r) \/ StoreToken(r)
         \/ Record(r)
         \/ \E final \in BOOLEAN : StoreFailure(r, final) \/ Reject(r, final)
  PROVE  AccessInv'
<1>1. TypeOK' /\ TypeOK /\ conn \in Connection /\ row \in AccessRow
  BY ReaderType DEF AccessInv, TypeOK
<1>2. ReadOver(r) => reader'[r].pc = "over" /\ \A q \in Readers \ {r} : reader'[q] = reader[q]
  BY <1>1 DEF ReadOver, NoRead, TypeOK
<1>3. Carries(reader[r]) /\ Current(reader[r].generation)
        => reader[r].credential = conn.credential
  BY DEF Carries, Current, Bound
<1>4. reader[r].pc \in {"renew", "observe"} => Carries(reader[r])
  BY DEF AccessInv, CallsInStep
<1>5. ASSUME ReadOver(r), UNCHANGED <<checker, editor>>,
             conn'.generation = conn.generation, conn'.credential = conn.credential
      PROVE  CallsInStep'
  BY <1>1, <1>2, <1>5, CallsStay
<1>6. CASE Ask(r)
  <2>1. /\ UNCHANGED <<connVars, checker, editor>> /\ reader'[r].pc = "ask"
        /\ \A q \in Readers \ {r} : reader'[q] = reader[q]
    BY <1>1, <1>6 DEF Ask, TypeOK, Reading
  <2>2. CallsInStep'
    BY <1>1, <2>1, CallsStay DEF connVars
  <2> QED BY <1>1, <2>1, <2>2, ConnectionStays DEF connVars, AccessInv
<1>7. CASE GiveUp(r)
  <2>1. CallsInStep'
    BY <1>5, <1>7 DEF GiveUp, connVars
  <2> QED BY <1>1, <1>7, <2>1, ConnectionStays DEF GiveUp, connVars, AccessInv
<1>8. CASE Cached(r)
  <2>1. row.credential = conn.credential /\ reader[r].generation = conn.generation
    BY <1>8 DEF Cached, Current, Bound, AccessInv, CredentialInStep, RowOfCredential
  <2>2. UNCHANGED <<connVars, checker, editor>>
    BY <1>8 DEF Cached
  <2>3. Carries(reader[r])' /\ \A q \in Readers \ {r} : reader'[q] = reader[q]
    BY <1>1, <1>8, <2>1, <2>2, UsesType
       DEF Cached, Carries, Connection, AccessRow, Generations, connVars
  <2>4. CallsInStep'
    BY <2>2, <2>3 DEF AccessInv, CallsInStep, Carries, connVars
  <2> QED BY <1>1, <2>2, <2>4, ConnectionStays DEF connVars, AccessInv
<1>9. CASE Acquire(r)
  <2>1. reader[r].generation = conn.generation /\ conn.active
    BY <1>9 DEF Acquire, Current, Bound
  <2>2. UNCHANGED <<conn, cand, checker, editor>> /\ row' = RowOf(r, "lease", FALSE)
    BY <1>9 DEF Acquire
  <2>3. Carries(reader[r])' /\ \A q \in Readers \ {r} : reader'[q] = reader[q]
    BY <1>1, <1>9, <2>1, <2>2, UsesType DEF Acquire, Carries, Connection, Generations
  <2>4. CallsInStep'
    BY <2>2, <2>3 DEF AccessInv, CallsInStep, Carries
  <2> QED BY <1>1, <2>1, <2>2, <2>4, ConnectionStays DEF RowOf
<1>10. CASE StoreToken(r)
  <2>1. conn.active /\ reader[r].credential = conn.credential
    BY <1>3, <1>4, <1>10 DEF StoreToken, Holds, Current
  <2>2. /\ UNCHANGED <<conn, cand, checker, editor>>
        /\ row'.credential = conn.credential /\ row'.generation = conn.generation
        /\ ~row'.final
    BY <1>10, <2>1 DEF StoreToken, RowOf
  <2>3. /\ reader'[r].generation = reader[r].generation
        /\ reader'[r].credential = reader[r].credential
        /\ \A q \in Readers \ {r} : reader'[q] = reader[q]
    BY <1>1, <1>10 DEF StoreToken, Goes, TypeOK, Reading
  <2>4. Carries(reader[r])'
    BY <1>4, <1>10, <2>2, <2>3 DEF StoreToken, Carries
  <2>5. CallsInStep'
    BY <2>2, <2>3, <2>4 DEF AccessInv, CallsInStep, Carries
  <2> QED BY <1>1, <2>1, <2>2, <2>5, ConnectionStays
<1>11. ASSUME NEW final \in BOOLEAN, StoreFailure(r, final) PROVE AccessInv'
  <2>1. conn.active /\ reader[r].credential = conn.credential
    BY <1>3, <1>4, <1>11 DEF StoreFailure, Holds, Current
  <2>2. /\ UNCHANGED <<conn, cand, checker, editor>> /\ ReadOver(r)
        /\ row'.credential = conn.credential /\ row'.generation = conn.generation
        /\ row'.live
    BY <1>11, <2>1 DEF StoreFailure, RowOf
  <2> QED BY <1>1, <1>5, <2>1, <2>2, ConnectionStays
<1>12. ASSUME NEW final \in BOOLEAN, Reject(r, final) PROVE AccessInv'
  <2>1. UNCHANGED <<conn, cand, checker, editor>> /\ ReadOver(r)
    BY <1>12 DEF Reject
  <2>2. row' # row => /\ row.kind = "token" /\ row'.live
                      /\ row'.generation = row.generation
                      /\ row'.credential = row.credential
    BY <1>1, <1>12 DEF Reject, Rejects, AccessRow
  <2>3. row.kind = "token" => /\ conn.active
                              /\ row.generation = conn.generation
                              /\ row.credential = conn.credential
    BY DEF AccessInv, CredentialInStep, RowOfCredential
  <2> QED BY <1>1, <1>5, <2>1, <2>2, <2>3, ConnectionStays DEF AccessInv
<1>13. CASE Record(r)
  <2>1. /\ UNCHANGED <<cand, row, check, checker, editor>> /\ ReadOver(r)
        /\ conn'.generation = conn.generation /\ conn'.active = conn.active
        /\ conn'.credential = conn.credential
        /\ conn'.observed = conn.credential
    BY <1>1, <1>3, <1>4, <1>13 DEF Record, Connection
  <2>2. CallsInStep'
    BY <1>5, <2>1
  <2> QED BY <1>1, <2>1, <2>2
          DEF AccessInv, CredentialInStep, ObservedWithCredential,
              RowOfCredential, ReviewIsCurrent
<1> QED BY <1>6, <1>7, <1>8, <1>9, <1>10, <1>11, <1>12, <1>13

\* The health checks keep the invariant.
LEMMA CheckerInv ==
  ASSUME AccessInv, NEW h \in Checkers,
         Asked(h) \/ ClaimCheck(h) \/ EndCheck(h)
           \/ \E good \in BOOLEAN : FinishCheck(h, good)
  PROVE  AccessInv'
<1>1. TypeOK' /\ TypeOK /\ conn \in Connection /\ row \in AccessRow
  BY CheckerType DEF AccessInv, TypeOK
<1>2. CheckOver(h) => /\ checker'[h].pc = "over"
                      /\ \A g \in Checkers \ {h} : checker'[g] = checker[g]
  BY <1>1 DEF CheckOver, NoCall, TypeOK
<1>3. CASE Asked(h)
  <2>1. /\ UNCHANGED <<connVars, reader, editor>> /\ checker'[h].pc = "claim"
        /\ \A g \in Checkers \ {h} : checker'[g] = checker[g]
    BY <1>1, <1>3 DEF Asked, TypeOK, Checking
  <2>2. CallsInStep'
    BY <1>1, <2>1, CallsStay DEF connVars
  <2> QED BY <1>1, <2>1, <2>2, ConnectionStays DEF connVars, AccessInv
<1>4. CASE ClaimCheck(h)
  <2>1. /\ UNCHANGED <<conn, cand, row, reader, editor>>
        /\ checker'[h].generation = conn.generation
        /\ checker'[h].credential = conn.credential
        /\ \A g \in Checkers \ {h} : checker'[g] = checker[g]
    BY <1>1, <1>4 DEF ClaimCheck, Current, Bound, TypeOK, Checking
  <2>2. CallsInStep'
    BY <1>1, <2>1 DEF AccessInv, CallsInStep, Carries, Connection, Generations
  <2> QED BY <1>1, <2>1, <2>2, ConnectionStays DEF AccessInv
<1>5. CASE EndCheck(h)
  <2>1. CallsInStep'
    BY <1>1, <1>2, <1>5, CallsStay DEF EndCheck, connVars
  <2> QED BY <1>1, <1>5, <2>1, ConnectionStays DEF EndCheck, connVars, AccessInv
<1>6. ASSUME NEW good \in BOOLEAN, FinishCheck(h, good) PROVE AccessInv'
  <2>1. checker[h].credential = conn.credential
    BY <1>6 DEF FinishCheck, Current, Bound, AccessInv, CallsInStep, Carries
  <2>2. /\ UNCHANGED <<cand, reader, editor>> /\ CheckOver(h)
        /\ conn'.generation = conn.generation /\ conn'.active = conn.active
        /\ conn'.credential = conn.credential
        /\ conn'.observed \in {conn.observed, conn.credential}
        /\ row' \in {row, NoRow}
    BY <1>1, <1>6, <2>1 DEF FinishCheck, Forgiven, Connection
  <2>3. CallsInStep'
    BY <1>1, <1>2, <2>2, CallsStay
  <2>4. NoRow.kind = "empty" /\ ~NoRow.final
    BY DEF NoRow
  <2> QED BY <1>1, <2>2, <2>3, <2>4
          DEF AccessInv, CredentialInStep, ObservedWithCredential,
              RowOfCredential, ReviewIsCurrent
<1> QED BY <1>3, <1>4, <1>5, <1>6

\* So do a retry and the clocks.
LEMMA TimeInv ==
  ASSUME AccessInv, Retry \/ RowAges \/ CheckEnds
  PROVE  AccessInv'
<1>1. TypeOK' /\ TypeOK /\ row \in AccessRow
  BY TimeType DEF AccessInv, TypeOK
<1>2. UNCHANGED <<conn, cand, reader, checker, editor>>
  BY DEF Retry, RowAges, CheckEnds
<1>3. CallsInStep'
  BY <1>1, <1>2, CallsStay
<1>4. NoRow.kind = "empty" /\ ~NoRow.final
  BY DEF NoRow
<1>5. \/ row' = row
      \/ row' = NoRow
      \/ /\ ~row.final /\ row'.final = row.final /\ row'.kind = row.kind
         /\ row'.generation = row.generation /\ row'.credential = row.credential
  <2>1. CASE Retry
    BY <2>1 DEF Retry, Forgiven
  <2>2. CASE RowAges
    BY <1>1, <2>2 DEF RowAges, AccessRow
  <2> QED BY <2>1, <2>2 DEF CheckEnds
<1> QED BY <1>1, <1>2, <1>3, <1>4, <1>5
        DEF AccessInv, CredentialInStep, ObservedWithCredential, RowOfCredential,
            ReviewIsCurrent

LEMMA InvStep == AccessInv /\ [Next]_vars => AccessInv'
<1> SUFFICES ASSUME AccessInv, [Next]_vars PROVE AccessInv'
  OBVIOUS
<1>1. CASE UNCHANGED vars
  BY <1>1 DEF vars, connVars, AccessInv, TypeOK, CredentialInStep,
              ObservedWithCredential, RowOfCredential, ReviewIsCurrent,
              CallsInStep, Carries
<1> QED BY <1>1, CandidateInv, EditorInv, ReaderInv, CheckerInv, TimeInv DEF Next

\* The inductive invariant: what a call took along is either of an earlier
\* generation, or of the credential that the connection has.
THEOREM AccessCorrect == Spec => []AccessInv
BY InvInit, InvStep, PTL DEF Spec

\* However late a read, a check or an administrator reaches the database, nothing
\* of a replaced or disconnected credential comes back.
THEOREM CredentialInStepCorrect == Spec => []CredentialInStep
<1>1. AccessInv => CredentialInStep
  BY DEF AccessInv
<1> QED BY <1>1, AccessCorrect, PTL

-----------------------------------------------------------------------------
(* The row of the shared token                                             *)

\* A shared token turns into a failure only by a read that was refused with it.
LEMMA TokenIsRejected ==
  ASSUME AccessInv, Next, row.kind = "token", row'.kind = "failure"
  PROVE  \E r \in Readers : reader[r].token = row.by /\ reader'[r].pc = "over"
<1>0. row \in AccessRow /\ NoRow.kind = "empty" /\ row' # row
  BY DEF AccessInv, TypeOK, NoRow
<1>1. ASSUME NEW c \in Candidates,
             Stage(c) \/ Expire(c) \/ \E s \in {"ready", "failed"} : Verify(c, s)
      PROVE  FALSE
  BY <1>0, <1>1 DEF Stage, Expire, Verify
<1>2. ASSUME NEW e \in Editors,
             \/ Plan(e) \/ Confirm(e) \/ Replace(e) \/ Rotate(e) \/ Disconnect(e)
             \/ Refused(e)
      PROVE  FALSE
  <2>1. row' \in {row, NoRow}
    BY <1>2 DEF Plan, Plans, Confirm, Replace, Rotate, Disconnect, Refused, Advance,
                Carried, connVars
  <2> QED BY <1>0, <2>1
<1>3. ASSUME NEW r \in Readers,
             \/ Ask(r) \/ GiveUp(r) \/ Cached(r) \/ Acquire(r) \/ StoreToken(r)
             \/ Record(r)
             \/ \E final \in BOOLEAN : StoreFailure(r, final) \/ Reject(r, final)
      PROVE  reader[r].token = row.by /\ reader'[r].pc = "over"
  <2>1. ~Ask(r) /\ ~GiveUp(r) /\ ~Cached(r) /\ ~Record(r)
    BY <1>0 DEF Ask, GiveUp, Cached, Record, connVars
  <2>2. ~Acquire(r) /\ ~StoreToken(r)
    BY <1>0 DEF Acquire, StoreToken, RowOf
  <2>3. \A final \in BOOLEAN : ~StoreFailure(r, final)
    BY DEF StoreFailure, Holds
  <2>4. PICK final \in BOOLEAN : Reject(r, final)
    BY <1>3, <2>1, <2>2, <2>3
  <2>5. Rejects(r) /\ ReadOver(r)
    BY <1>0, <2>4 DEF Reject
  <2> QED BY <2>5 DEF Rejects, ReadOver, AccessInv, TypeOK
<1>4. ASSUME NEW h \in Checkers,
             Asked(h) \/ ClaimCheck(h) \/ EndCheck(h)
               \/ \E good \in BOOLEAN : FinishCheck(h, good)
      PROVE  FALSE
  BY <1>0, <1>4 DEF Asked, ClaimCheck, EndCheck, FinishCheck, Forgiven, connVars
<1>5. ~Retry /\ ~CheckEnds
  BY <1>0 DEF Retry, CheckEnds
<1>6. ~RowAges
  BY <1>0 DEF RowAges, AccessRow
<1> QED BY <1>1, <1>2, <1>3, <1>4, <1>5, <1>6 DEF Next

\* What may follow a failure for good.
FailureKept ==
  \/ row' = row
  \/ conn'.generation = conn.generation /\ row' = NoRow
  \/ ~conn'.active
  \/ conn'.credential # conn.credential
  \/ row' = [row EXCEPT !.generation = conn'.generation]

LEMMA FailureStays ==
  ASSUME AccessInv, Next, row.kind = "failure", row.final
  PROVE  FailureKept
<1>0. row.live /\ conn.active /\ conn.generation > 0
      /\ conn \in Connection /\ TypeOK
  BY DEF AccessInv, CredentialInStep, RowOfCredential, TypeOK
<1>1. ASSUME NEW c \in Candidates,
             Stage(c) \/ Expire(c) \/ \E s \in {"ready", "failed"} : Verify(c, s)
      PROVE  FailureKept
  BY <1>1 DEF Stage, Expire, Verify, FailureKept
<1>2. ASSUME NEW e \in Editors,
             \/ Plan(e) \/ Confirm(e) \/ Replace(e) \/ Rotate(e) \/ Disconnect(e)
             \/ Refused(e)
      PROVE  FailureKept
  <2>1. CASE Plan(e) \/ Confirm(e) \/ Refused(e)
    BY <2>1 DEF Plan, Plans, Confirm, Refused, connVars, FailureKept
  <2>2. CASE Replace(e)
    <3>1. /\ cand[editor[e].credential].status = "ready"
          /\ Advance(editor[e].credential, editor[e].credential, TRUE,
                     {editor[e].credential}, NoRow)
      BY <2>2 DEF Replace
    <3>2. conn'.credential = editor[e].credential
      BY <3>1 DEF Advance
    <3> QED BY <1>0, <3>1, <3>2, CredentialIsConsumed DEF FailureKept
  <2>3. CASE Rotate(e)
    BY <2>3 DEF Rotate, Advance, Carried, FailureKept
  <2>4. CASE Disconnect(e)
    BY <2>4 DEF Disconnect, Advance, FailureKept
  <2> QED BY <1>2, <2>1, <2>2, <2>3, <2>4
<1>3. ASSUME NEW r \in Readers,
             \/ Ask(r) \/ GiveUp(r) \/ Cached(r) \/ Acquire(r) \/ StoreToken(r)
             \/ Record(r)
             \/ \E final \in BOOLEAN : StoreFailure(r, final) \/ Reject(r, final)
      PROVE  FailureKept
  <2>1. row' = row
    BY <1>0, <1>3 DEF Ask, GiveUp, Cached, Acquire, StoreToken, Record,
                      StoreFailure, Holds, Reject, Rejects, connVars
  <2> QED BY <2>1 DEF FailureKept
<1>4. ASSUME NEW h \in Checkers,
             Asked(h) \/ ClaimCheck(h) \/ EndCheck(h)
               \/ \E good \in BOOLEAN : FinishCheck(h, good)
      PROVE  FailureKept
  <2>1. row' = row \/ (conn'.generation = conn.generation /\ row' = NoRow)
    BY <1>0, <1>4 DEF Asked, ClaimCheck, EndCheck, FinishCheck, Forgiven, connVars,
                      Connection
  <2> QED BY <2>1 DEF FailureKept
<1>5. CASE Retry \/ RowAges \/ CheckEnds
  BY <1>5 DEF Retry, RowAges, CheckEnds, Forgiven, FailureKept
<1> QED BY <1>1, <1>2, <1>3, <1>4, <1>5 DEF Next

\* A good token turns into a failure only when a read that used it was refused, and a
\* failure for good stays until somebody repairs it; a new key does not hide it.
THEOREM RowKeptCorrect == Spec => RowKept
<1> DEFINE
      Kept ==
        /\ row.kind = "token" /\ row'.kind = "failure" =>
             \E r \in Readers : reader[r].token = row.by /\ reader'[r].pc = "over"
        /\ row.kind = "failure" /\ row.final /\ row' # row =>
             \/ conn'.generation = conn.generation /\ row' = NoRow
             \/ ~conn'.active
             \/ conn'.credential # conn.credential
             \/ row' = [row EXCEPT !.generation = conn'.generation]
<1>1. AccessInv /\ [Next]_vars => [Kept]_vars
  <2> SUFFICES ASSUME AccessInv, Next PROVE Kept
    OBVIOUS
  <2> QED BY TokenIsRejected, FailureStays DEF FailureKept
<1>2. RowKept <=> [][Kept]_vars
  BY DEF RowKept
<1> QED BY <1>1, <1>2, AccessCorrect, PTL DEF Spec

=============================================================================
