------------------------- MODULE DeviceInventoryProofs -------------------------
(***************************************************************************)
(* The properties of DeviceInventory, proved for any number of syncs,      *)
(* requests, reads, writes and values of the field.                        *)
(***************************************************************************)
EXTENDS DeviceInventory, TLAPS

-----------------------------------------------------------------------------
(* Type correctness                                                        *)

LEMMA InitType == Init => TypeOK
BY ConstantsAssumption
   DEF Init, TypeOK, Values, Stamps, NoOverlay, NoSync, NoRun, NoCall,
       DeviceRow, OverlayRow, SyncState, SyncRun, ReadCall, WriteCall

\* What has ended, or never began, has a type.
LEMMA EndTypes ==
  ASSUME TypeOK
  PROVE  /\ 0 \in Stamps /\ 0 \in Values
         /\ NoOverlay \in OverlayRow /\ NoSync \in SyncState
         /\ RunOver \in SyncRun /\ Over \in ReadCall /\ Over \in WriteCall
         /\ SoftDeleted \in DeviceRow
<1>1. 0 \in Stamps /\ 0 \in Values
  BY ConstantsAssumption DEF TypeOK, Stamps, Values
<1>2. RunOver = [pc |-> "over", id |-> None, page |-> 0]
  BY DEF RunOver, NoRun
<1>3. Over = [pc |-> "over", value |-> 0, stamp |-> 0]
  BY DEF Over, NoCall
<1> QED
  BY <1>1, <1>2, <1>3
     DEF TypeOK, NoOverlay, NoSync, SoftDeleted, DeviceRow, OverlayRow, SyncState,
         SyncRun, ReadCall, WriteCall

\* Without a stamp the types stay, ...
LEMMA SameTypes ==
  ASSUME clock' = clock
  PROVE  /\ Stamps' = Stamps /\ Values' = Values /\ SyncRun' = SyncRun
         /\ DeviceRow' = DeviceRow /\ OverlayRow' = OverlayRow
         /\ SyncState' = SyncState /\ ReadCall' = ReadCall /\ WriteCall' = WriteCall
BY DEF Stamps, Values, DeviceRow, OverlayRow, SyncState, SyncRun, ReadCall, WriteCall

\* ... and a stamp, which never goes back, widens them.
LEMMA WiderTypes ==
  ASSUME TypeOK, Ticks
  PROVE  /\ clock' \in Nat /\ clock' \in Stamps' /\ Stamps \subseteq Stamps'
         /\ Values' = Values /\ SyncRun' = SyncRun
         /\ DeviceRow \subseteq DeviceRow' /\ OverlayRow \subseteq OverlayRow'
         /\ SyncState \subseteq SyncState' /\ ReadCall \subseteq ReadCall'
         /\ WriteCall \subseteq WriteCall'
<1>1. clock' \in Nat /\ clock' \in Stamps' /\ Stamps \subseteq Stamps' /\ Values' = Values
  BY DEF TypeOK, Ticks, Stamps, Values
<1>2. SyncRun' = SyncRun
  BY <1>1 DEF SyncRun
<1>3. DeviceRow \subseteq DeviceRow'
  BY <1>1 DEF DeviceRow
<1>4. OverlayRow \subseteq OverlayRow'
  BY <1>1 DEF OverlayRow
<1>5. SyncState \subseteq SyncState'
  BY <1>1 DEF SyncState
<1>6. ReadCall \subseteq ReadCall'
  BY <1>1 DEF ReadCall
<1>7. WriteCall \subseteq WriteCall'
  BY <1>1 DEF WriteCall
<1> QED BY <1>1, <1>2, <1>3, <1>4, <1>5, <1>6, <1>7

LEMMA CloseType ==
  ASSUME TypeOK, NEW s, NEW status \in {"completed", "failed", "cancelled"}
  PROVE  Close(s, status) \in
           [Syncs -> {"none", "running", "completed", "failed", "cancelled"}]
BY DEF TypeOK, Close

LEMMA SyncType ==
  ASSUME TypeOK, NEW s \in Syncs,
         Request(s) \/ Abandon(s) \/ Cancel(s) \/ Purge(s)
  PROVE  TypeOK'
<1>1. CASE Request(s)
  <2>1. sync' \in SyncState'
    BY <1>1, WiderTypes DEF Request, SyncState
  <2>2. header' \in [Syncs -> {"none", "running", "completed", "failed", "cancelled"}]
    BY <1>1, CloseType DEF Request, ClosesReplaced, TypeOK
  <2> QED
    BY <1>1, <2>1, <2>2, WiderTypes DEF TypeOK, Request, googleVars, callVars
<1>2. CASE Abandon(s)
  BY <1>2, CloseType, EndTypes, SameTypes DEF TypeOK, Abandon, googleVars, callVars
<1>3. CASE Cancel(s)
  BY <1>3, CloseType, EndTypes, SameTypes DEF TypeOK, Cancel, googleVars, callVars
<1>4. CASE Purge(s)
  BY <1>4, CloseType, SameTypes DEF TypeOK, Purge, googleVars, callVars
<1> QED BY <1>1, <1>2, <1>3, <1>4

\* What a list and a read leave has the types of a row and an overlay.
LEMMA ListedType ==
  ASSUME TypeOK, Ticks, NEW value \in Values, SeenByList(value)
  PROVE  row' \in DeviceRow' /\ overlay' \in OverlayRow'
<1>1. Listed(value) \in Values /\ row.stamp \in Stamps
  BY DEF Listed, TypeOK, DeviceRow
<1>2. row' \in DeviceRow'
  BY <1>1, WiderTypes DEF SeenByList, ListedAt, DeviceRow
<1>3. overlay' \in OverlayRow
  BY EndTypes DEF SeenByList, TypeOK
<1> QED BY <1>2, <1>3, WiderTypes

LEMMA ReadType ==
  ASSUME TypeOK, NEW value \in Values, NEW stamp \in Stamps, SeenByRead(value, stamp)
  PROVE  row' \in DeviceRow /\ overlay' \in OverlayRow
<1>1. row' \in DeviceRow
  BY DEF SeenByRead, TypeOK, DeviceRow
<1>2. overlay' \in OverlayRow
  BY DEF SeenByRead, OverlayAfterRead, TypeOK, OverlayRow
<1> QED BY <1>1, <1>2

LEMMA RunType ==
  ASSUME TypeOK, NEW r \in Runs,
         \/ Claim(r) \/ ReadPage(r) \/ StagePage(r)
         \/ Finish(r) \/ FinishFailed(r) \/ QuitRun(r)
  PROVE  TypeOK'
<1> USE DEF googleVars, syncVars
<1>0. run[r] \in SyncRun
  BY DEF TypeOK
<1>1. CASE Claim(r)
  <2>1. sync' \in SyncState
    BY <1>1 DEF TypeOK, Claim, SyncState
  <2>2. run' \in [Runs -> SyncRun]
    BY <1>1, EndTypes DEF TypeOK, Claim, SyncState, SyncRun
  <2> QED BY <1>1, <2>1, <2>2, SameTypes DEF TypeOK, Claim
<1>2. CASE ReadPage(r)
  <2>1. list \in Values
    BY ConstantsAssumption DEF TypeOK, Values
  <2>2. run' \in [Runs -> SyncRun]
    BY <1>0, <1>2, <2>1 DEF TypeOK, ReadPage, SyncRun
  <2> QED BY <1>2, <2>2, SameTypes DEF TypeOK, ReadPage
<1>3. CASE StagePage(r)
  <2>1. /\ run[r].page \in Values /\ SeenByList(run[r].page) /\ Ticks
        /\ sync.id = run[r].id /\ header[run[r].id] = "running"
    BY <1>0, <1>3 DEF StagePage, Holds, SyncRun
  <2>2. row' \in DeviceRow' /\ overlay' \in OverlayRow'
    BY <2>1, ListedType
  <2>3. run' \in [Runs -> SyncRun]
    BY <1>0, <1>3, EndTypes DEF TypeOK, StagePage, SyncRun
  <2>4. targets' \subseteq Syncs
    BY <1>0, <1>3 DEF TypeOK, StagePage, SyncRun
  <2> QED BY <1>3, <2>1, <2>2, <2>3, <2>4, WiderTypes DEF TypeOK, StagePage
<1>4. CASE Finish(r)
  BY <1>4, CloseType, EndTypes, SameTypes DEF TypeOK, Finish
<1>5. CASE FinishFailed(r)
  BY <1>5, CloseType, EndTypes, SameTypes DEF TypeOK, FinishFailed
<1>6. CASE QuitRun(r)
  BY <1>6, EndTypes, SameTypes DEF TypeOK, QuitRun
<1> QED BY <1>1, <1>2, <1>3, <1>4, <1>5, <1>6

LEMMA ReadsType ==
  ASSUME TypeOK, NEW e \in Reads,
         StampRead(e) \/ Get(e) \/ StoreFound(e) \/ StoreMissing(e) \/ QuitRead(e)
  PROVE  TypeOK'
<1> USE DEF googleVars, syncVars
<1>0. read[e] \in ReadCall
  BY DEF TypeOK
<1>1. CASE StampRead(e)
  <2>1. [pc |-> "stamped", value |-> 0, stamp |-> clock'] \in ReadCall'
    BY <1>1, WiderTypes, EndTypes DEF StampRead, ReadCall
  <2>2. read' \in [Reads -> ReadCall']
    BY <1>1, <2>1, WiderTypes DEF StampRead, TypeOK
  <2> QED BY <1>1, <2>2, WiderTypes DEF TypeOK, StampRead
<1>2. CASE Get(e)
  <2>1. read' \in [Reads -> ReadCall]
    BY <1>0, <1>2 DEF TypeOK, Get, ReadCall
  <2> QED BY <1>2, <2>1, SameTypes DEF TypeOK, Get
<1>3. CASE StoreFound(e)
  <2>1. read[e].value \in Values /\ read[e].stamp \in Stamps
    BY <1>0 DEF ReadCall
  <2>2. row' \in DeviceRow /\ overlay' \in OverlayRow
    BY <1>3, <2>1, ReadType DEF StoreFound
  <2> QED BY <1>3, <2>1, <2>2, EndTypes, SameTypes DEF TypeOK, StoreFound
<1>4. CASE StoreMissing(e)
  BY <1>4, EndTypes, SameTypes DEF TypeOK, StoreMissing
<1>5. CASE QuitRead(e)
  BY <1>5, EndTypes, SameTypes DEF TypeOK, QuitRead
<1> QED BY <1>1, <1>2, <1>3, <1>4, <1>5

LEMMA WriteType ==
  ASSUME TypeOK, NEW w \in Writes,
         \/ Send(w) \/ Answer(w) \/ Lose(w) \/ StampReadBack(w) \/ ReadBack(w)
         \/ Settle(w) \/ SettleMissing(w)
  PROVE  TypeOK'
<1> USE DEF googleVars, syncVars
<1>0. write[w] \in WriteCall
  BY DEF TypeOK
<1>1. CASE Send(w)
  <2>1. google' \in Values /\ list \in 0 .. google'
    BY <1>1, ConstantsAssumption DEF Send, Changes, TypeOK, Values
  <2>2. [pc |-> "sent", value |-> google', stamp |-> 0] \in WriteCall
    BY <2>1, EndTypes DEF WriteCall
  <2> QED BY <1>1, <2>1, <2>2, SameTypes DEF TypeOK, Send
<1>2. CASE Answer(w)
  <2>1. [pc |-> "answered", value |-> write[w].value, stamp |-> clock'] \in WriteCall'
    BY <1>0, <1>2, WiderTypes DEF Answer, WriteCall
  <2>2. write' \in [Writes -> WriteCall']
    BY <1>2, <2>1, WiderTypes DEF TypeOK, Answer
  <2> QED BY <1>2, <2>2, WiderTypes DEF TypeOK, Answer
<1>3. CASE Lose(w)
  <2>1. write' \in [Writes -> WriteCall]
    BY <1>0, <1>3, EndTypes DEF TypeOK, Lose, WriteCall
  <2> QED BY <1>3, <2>1, SameTypes DEF TypeOK, Lose
<1>4. CASE StampReadBack(w)
  <2>1. [pc |-> "asking", value |-> write[w].value, stamp |-> clock'] \in WriteCall'
    BY <1>0, <1>4, WiderTypes DEF StampReadBack, WriteCall
  <2>2. write' \in [Writes -> WriteCall']
    BY <1>4, <2>1, WiderTypes DEF TypeOK, StampReadBack
  <2> QED BY <1>4, <2>2, WiderTypes DEF TypeOK, StampReadBack
<1>5. CASE ReadBack(w)
  <2>1. write' \in [Writes -> WriteCall]
    BY <1>0, <1>5 DEF TypeOK, ReadBack, WriteCall
  <2> QED BY <1>5, <2>1, SameTypes DEF TypeOK, ReadBack
<1>6. CASE Settle(w)
  <2>1. /\ row' \in DeviceRow /\ overlay' \in OverlayRow /\ published' \in Values
    <3>1. write[w].value \in Values /\ write[w].stamp \in Stamps
      BY <1>0 DEF WriteCall
    <3>2. CASE Newest(w)
      <4>1. row.seen \in Stamps /\ row.removed \in BOOLEAN
        BY DEF TypeOK, DeviceRow
      <4>2. row' \in DeviceRow
        BY <1>6, <3>1, <3>2, <4>1 DEF Settle, DeviceRow
      <4>3. /\ overlay' = [live |-> TRUE, value |-> write[w].value,
                           stamp |-> write[w].stamp]
            /\ published' = write[w].value
        BY <1>6, <3>2 DEF Settle
      <4> QED BY <3>1, <4>2, <4>3 DEF OverlayRow
    <3>3. CASE ~Newest(w)
      BY <1>6, <3>3 DEF Settle, TypeOK
    <3> QED BY <3>2, <3>3
  <2> QED BY <1>6, <2>1, EndTypes, SameTypes DEF TypeOK, Settle
<1>7. CASE SettleMissing(w)
  BY <1>7, EndTypes, SameTypes DEF TypeOK, SettleMissing
<1> QED BY <1>1, <1>2, <1>3, <1>4, <1>5, <1>6, <1>7

LEMMA TimeType ==
  ASSUME TypeOK, Lapse \/ External \/ ListMoves \/ Expire
  PROVE  TypeOK'
<1> USE DEF googleVars, syncVars, callVars
<1>1. CASE Lapse
  <2>1. sync' \in SyncState
    BY <1>1 DEF TypeOK, Lapse, SyncState
  <2> QED BY <1>1, <2>1, SameTypes DEF TypeOK, Lapse
<1>2. CASE External
  <2>1. google' \in Values /\ list \in 0 .. google'
    BY <1>2, ConstantsAssumption DEF External, Changes, TypeOK, Values
  <2> QED BY <1>2, <2>1, SameTypes DEF TypeOK, External
<1>3. CASE ListMoves
  <2>1. list' \in 0 .. google
    BY <1>3 DEF ListMoves, TypeOK, Values
  <2> QED BY <1>3, <2>1, SameTypes DEF TypeOK, ListMoves
<1>4. CASE Expire
  BY <1>4, EndTypes, SameTypes DEF TypeOK, Expire
<1> QED BY <1>1, <1>2, <1>3, <1>4

LEMMA StutterType == TypeOK /\ UNCHANGED vars => TypeOK'
BY SameTypes DEF TypeOK, vars, googleVars, syncVars, callVars

LEMMA NextType == TypeOK /\ [Next]_vars => TypeOK'
BY SyncType, RunType, ReadsType, WriteType, TimeType, StutterType DEF Next

\* The inventory keeps its shape, whatever syncs, reads and writes store, in
\* whatever order.
THEOREM TypeCorrect == Spec => []TypeOK
BY InitType, NextType, PTL DEF Spec

-----------------------------------------------------------------------------
(* The syncs                                                               *)

\* What the state of the sync and the row know of it: no sync is open but the
\* one that the state names, a sync that never ran has listed nothing, and the
\* row was seen since the request of the named sync exactly if that sync listed
\* it or a read has found it since.
SyncInv ==
  /\ TypeOK
  /\ OneSync
  /\ \A s \in Syncs : header[s] = "none" => s \notin targets
  /\ sync.id # None =>
       (row.seen >= sync.started <=> sync.id \in targets \/ foundAt >= sync.started)

LEMMA InitSync == Init => SyncInv
BY InitType DEF Init, SyncInv, OneSync, NoSync

LEMMA ClosedHeader ==
  ASSUME TypeOK, NEW s, NEW status
  PROVE  \A z \in Syncs :
           Close(s, status)[z] = IF z = s /\ header[s] = "running"
                                 THEN status ELSE header[z]
BY DEF TypeOK, Close

LEMMA RequestSync ==
  ASSUME SyncInv, NEW s \in Syncs, Request(s), TypeOK'
  PROVE  SyncInv'
<1>1. \A z \in Syncs :
        ClosesReplaced[z] = IF z = sync.id /\ header[z] = "running"
                            THEN "failed" ELSE header[z]
  BY ConstantsAssumption, ClosedHeader DEF ClosesReplaced, SyncInv, TypeOK
<1>2. DOMAIN ClosesReplaced = Syncs
  BY DEF ClosesReplaced, Close, SyncInv, TypeOK
<1>3. \A z \in Syncs :
        header'[z] = IF z = s THEN "running"
                     ELSE IF z = sync.id /\ header[z] = "running"
                     THEN "failed" ELSE header[z]
  BY <1>1, <1>2 DEF Request
<1>4. sync'.id = s /\ sync'.started = clock + 1
  BY DEF Request, Ticks
<1>5. OneSync'
  BY <1>3, <1>4 DEF SyncInv, OneSync
<1>6. \A z \in Syncs : header'[z] = "none" => z \notin targets'
  BY <1>3 DEF SyncInv, Request
<1>7. ~(row'.seen >= sync'.started) /\ ~(foundAt' >= sync'.started)
  <2>1. row.seen \in 0 .. clock /\ foundAt \in 0 .. clock /\ clock \in Nat
    BY DEF SyncInv, TypeOK, DeviceRow, Stamps
  <2> QED BY <2>1, <1>4 DEF Request
<1>8. s \notin targets'
  BY DEF SyncInv, Request
<1> QED BY <1>4, <1>5, <1>6, <1>7, <1>8 DEF SyncInv

\* A sync is closed and the state cleared, or the state names another.
LEMMA CloseSync ==
  ASSUME SyncInv, TypeOK', NEW s \in Syncs,
         NEW status \in {"completed", "failed", "cancelled"},
         header[s] = "running", header' = Close(s, status),
         targets' = targets,
         \/ sync' = NoSync
         \/ sync' = sync /\ row' = row /\ foundAt' = foundAt
  PROVE  SyncInv'
<1>1. \A z \in Syncs : header'[z] = IF z = s THEN status ELSE header[z]
  BY ClosedHeader DEF SyncInv
<1>2. sync.id = s
  BY DEF SyncInv, OneSync
<1>3. OneSync'
  BY <1>1, <1>2 DEF SyncInv, OneSync
<1>4. \A z \in Syncs : header'[z] = "none" => z \notin targets'
  BY <1>1 DEF SyncInv
<1>5. CASE sync' = NoSync
  BY <1>3, <1>4, <1>5 DEF SyncInv, NoSync
<1>6. CASE sync' = sync /\ row' = row /\ foundAt' = foundAt
  BY <1>3, <1>4, <1>6 DEF SyncInv
<1> QED BY <1>5, <1>6

\* A step that neither opens nor closes a sync nor sees the device.
LEMMA KeptSync ==
  ASSUME SyncInv, TypeOK', header' = header, targets' = targets,
         sync'.id = sync.id, sync'.started = sync.started,
         row'.seen = row.seen, foundAt' = foundAt
  PROVE  SyncInv'
BY DEF SyncInv, OneSync

LEMMA StagePageSync ==
  ASSUME SyncInv, TypeOK', NEW r \in Runs, StagePage(r)
  PROVE  SyncInv'
<1>1. /\ sync.id = run[r].id /\ header[sync.id] = "running"
      /\ row'.seen = clock + 1 /\ targets' = targets \cup {sync.id}
      /\ sync' = sync /\ header' = header /\ foundAt' = foundAt
  BY DEF StagePage, Holds, SeenByList, ListedAt, Ticks
<1>2. sync.started \in 0 .. clock /\ clock \in Nat
  BY DEF SyncInv, TypeOK, SyncState, Stamps
<1>3. row'.seen >= sync'.started
  BY <1>1, <1>2
<1> QED BY <1>1, <1>3 DEF SyncInv, OneSync

LEMMA StoreFoundSync ==
  ASSUME SyncInv, TypeOK', NEW e \in Reads, StoreFound(e)
  PROVE  SyncInv'
<1>1. /\ sync' = sync /\ header' = header /\ targets' = targets
      /\ row'.seen = IF read[e].stamp >= row.seen THEN read[e].stamp ELSE row.seen
      /\ foundAt' = IF read[e].stamp > foundAt THEN read[e].stamp ELSE foundAt
  BY DEF StoreFound, SeenByRead, syncVars
<1>2. /\ read[e].stamp \in Nat /\ row.seen \in Nat /\ foundAt \in Nat
      /\ sync.started \in Nat
  BY DEF SyncInv, TypeOK, ReadCall, DeviceRow, SyncState, Stamps
<1>3. row'.seen >= sync.started <=>
        row.seen >= sync.started \/ read[e].stamp >= sync.started
  BY <1>1, <1>2
<1>4. foundAt' >= sync.started <=>
        foundAt >= sync.started \/ read[e].stamp >= sync.started
  BY <1>1, <1>2
<1> QED BY <1>1, <1>3, <1>4 DEF SyncInv, OneSync

LEMMA NextSync == SyncInv /\ [Next]_vars => SyncInv'
<1> SUFFICES ASSUME SyncInv, [Next]_vars PROVE SyncInv'
  OBVIOUS
<1>0. TypeOK /\ TypeOK'
  BY NextType DEF SyncInv
<1> USE DEF syncVars, callVars
<1>1. ASSUME NEW s \in Syncs, Request(s) \/ Abandon(s) \/ Cancel(s) \/ Purge(s)
      PROVE  SyncInv'
  <2>1. CASE Request(s) BY <1>0, <2>1, RequestSync
  <2>2. CASE Abandon(s) BY <1>0, <2>2, CloseSync DEF Abandon
  <2>3. CASE Cancel(s) BY <1>0, <2>3, CloseSync DEF Cancel
  <2>4. CASE Purge(s) BY <1>0, <2>4, CloseSync DEF Purge
  <2> QED BY <1>1, <2>1, <2>2, <2>3, <2>4
<1>2. ASSUME NEW r \in Runs,
             \/ Claim(r) \/ ReadPage(r) \/ StagePage(r)
             \/ Finish(r) \/ FinishFailed(r) \/ QuitRun(r)
      PROVE  SyncInv'
  <2>0. run[r].pc \in {"listing", "page", "listed"} => run[r].id \in Syncs
    BY <1>0 DEF TypeOK, SyncRun
  <2>1. CASE Claim(r)
    <3>1. sync'.id = sync.id /\ sync'.started = sync.started
      BY <1>0, <2>1 DEF Claim, TypeOK, SyncState
    <3> QED BY <1>0, <2>1, <3>1, KeptSync DEF Claim
  <2>2. CASE ReadPage(r) BY <1>0, <2>2, KeptSync DEF ReadPage
  <2>3. CASE StagePage(r) BY <1>0, <2>3, StagePageSync
  <2>4. CASE Finish(r) BY <1>0, <2>0, <2>4, CloseSync DEF Finish, Holds
  <2>5. CASE FinishFailed(r) BY <1>0, <2>0, <2>5, CloseSync DEF FinishFailed, Holds
  <2>6. CASE QuitRun(r) BY <1>0, <2>6, KeptSync DEF QuitRun
  <2> QED BY <1>2, <2>1, <2>2, <2>3, <2>4, <2>5, <2>6
<1>3. SoftDeleted.seen = row.seen
  BY <1>0 DEF SoftDeleted, TypeOK, DeviceRow
<1>4. ASSUME NEW e \in Reads,
             StampRead(e) \/ Get(e) \/ StoreFound(e) \/ StoreMissing(e) \/ QuitRead(e)
      PROVE  SyncInv'
  <2>1. CASE StampRead(e) BY <1>0, <2>1, KeptSync DEF StampRead
  <2>2. CASE Get(e) BY <1>0, <2>2, KeptSync DEF Get
  <2>3. CASE StoreFound(e) BY <1>0, <2>3, StoreFoundSync
  <2>4. CASE StoreMissing(e) BY <1>0, <1>3, <2>4, KeptSync DEF StoreMissing
  <2>5. CASE QuitRead(e) BY <1>0, <2>5, KeptSync DEF QuitRead
  <2> QED BY <1>4, <2>1, <2>2, <2>3, <2>4, <2>5
<1>5. ASSUME NEW w \in Writes,
             \/ Send(w) \/ Answer(w) \/ Lose(w) \/ StampReadBack(w) \/ ReadBack(w)
             \/ Settle(w) \/ SettleMissing(w)
      PROVE  SyncInv'
  <2>1. CASE Send(w) BY <1>0, <2>1, KeptSync DEF Send
  <2>2. CASE Answer(w) BY <1>0, <2>2, KeptSync DEF Answer
  <2>3. CASE Lose(w) BY <1>0, <2>3, KeptSync DEF Lose
  <2>4. CASE StampReadBack(w) BY <1>0, <2>4, KeptSync DEF StampReadBack
  <2>5. CASE ReadBack(w) BY <1>0, <2>5, KeptSync DEF ReadBack
  <2>6. CASE Settle(w)
    <3>1. row'.seen = row.seen BY <2>6 DEF Settle
    <3> QED BY <1>0, <2>6, <3>1, KeptSync DEF Settle
  <2>7. CASE SettleMissing(w) BY <1>0, <1>3, <2>7, KeptSync DEF SettleMissing
  <2> QED BY <1>5, <2>1, <2>2, <2>3, <2>4, <2>5, <2>6, <2>7
<1>6. CASE Lapse
  <2>1. sync'.id = sync.id /\ sync'.started = sync.started
    BY <1>0, <1>6 DEF Lapse, TypeOK, SyncState
  <2> QED BY <1>0, <1>6, <2>1, KeptSync DEF Lapse
<1>7. CASE External BY <1>0, <1>7, KeptSync DEF External
<1>8. CASE ListMoves BY <1>0, <1>8, KeptSync DEF ListMoves
<1>9. CASE Expire BY <1>0, <1>9, KeptSync DEF Expire
<1>10. CASE UNCHANGED vars BY <1>0, <1>10, KeptSync DEF vars
<1> QED BY <1>1, <1>2, <1>4, <1>5, <1>6, <1>7, <1>8, <1>9, <1>10 DEF Next

LEMMA SyncCorrect == Spec => []SyncInv
BY InitSync, NextSync, PTL DEF Spec

\* One full sync of the customer runs at a time, however many are requested,
\* replaced, abandoned, cancelled and purged.
THEOREM OneSyncCorrect == Spec => []OneSync
<1>1. SyncInv => OneSync BY DEF SyncInv
<1> QED BY <1>1, SyncCorrect, PTL

\* Who completes a sync: the run of the sync that the state names.
LEMMA CompletedBy ==
  ASSUME SyncInv, Next, NEW s \in Syncs,
         header[s] = "running", header'[s] = "completed"
  PROVE  \E r \in Runs : Finish(r)
<1>0. \A z, status : Close(z, status)[s] = IF z = s THEN status ELSE header[s]
  BY DEF Close, SyncInv, TypeOK
<1>1. ASSUME NEW z \in Syncs, Request(z) \/ Abandon(z) \/ Cancel(z) \/ Purge(z)
      PROVE  header'[s] # "completed"
  <2>1. DOMAIN ClosesReplaced = Syncs
    BY DEF ClosesReplaced, Close, SyncInv, TypeOK
  <2>2. ClosesReplaced[s] # "completed"
    BY <1>0 DEF ClosesReplaced
  <2> QED BY <1>0, <1>1, <2>1, <2>2 DEF Request, Abandon, Cancel, Purge
<1>2. ASSUME NEW r \in Runs, FinishFailed(r)
      PROVE  header'[s] # "completed"
  BY <1>0, <1>2 DEF FinishFailed
<1>3. ASSUME header' = header PROVE FALSE
  BY <1>3
<1> QED
  BY <1>1, <1>2, <1>3
     DEF Next, Claim, ReadPage, StagePage, QuitRun, StampRead, Get, StoreFound,
         StoreMissing, QuitRead, Send, Answer, Lose, StampReadBack, ReadBack, Settle,
         SettleMissing, Lapse, External, ListMoves, Expire, syncVars

\* A completed sync removes the device exactly if neither it nor a read has seen
\* the device since its request, whatever late pages, reads and settlements of
\* writes were stored meanwhile.
THEOREM RemovedAsSeenCorrect == Spec => RemovedAsSeen
<1>1. ASSUME SyncInv, [Next]_vars
      PROVE  [\A s \in Syncs : header[s] = "running" /\ header'[s] = "completed" =>
                IF s \in targets \/ foundAt >= sync.started
                THEN row'.removed = row.removed ELSE row'.removed]_vars
  <2> SUFFICES ASSUME Next, NEW s \in Syncs,
                      header[s] = "running", header'[s] = "completed"
               PROVE  IF s \in targets \/ foundAt >= sync.started
                      THEN row'.removed = row.removed ELSE row'.removed
    BY <1>1
  <2>1. PICK r \in Runs : Finish(r)
    BY <1>1, CompletedBy
  <2>2. sync.id = s /\ sync.id # None
    BY <1>1, ConstantsAssumption DEF SyncInv, OneSync
  <2>3. row.seen \in Nat /\ sync.started \in Nat /\ foundAt \in Nat
    BY <1>1 DEF SyncInv, TypeOK, DeviceRow, SyncState, Stamps
  <2>4. Stale <=> ~(s \in targets \/ foundAt >= sync.started)
    BY <1>1, <2>2, <2>3 DEF SyncInv, Stale
  <2>5. SoftDeleted.removed
    BY <1>1 DEF SoftDeleted, SyncInv, TypeOK, DeviceRow
  <2> QED BY <2>1, <2>4, <2>5 DEF Finish
<1> QED BY <1>1, SyncCorrect, PTL DEF Spec, RemovedAsSeen

-----------------------------------------------------------------------------
(* The field                                                               *)

\* The run has a page in hand that it may still stage.
Showing(r) ==
  /\ run[r].pc = "page"
  /\ sync.id = run[r].id /\ sync.attempt = r /\ sync.live
  /\ header[run[r].id] = "running"

\* The settlement of the write will have this stamp.
Dated(w) == write[w].pc \in {"answered", "asking", "verified"}

\* Without an overlay the lists are as new as the last published write.
ListsKeep ==
  ~overlay.live =>
    /\ list >= published
    /\ \A r \in Runs : Showing(r) => run[r].page >= published

\* A read that is newer than the row, or than a settlement to come, has found
\* what was published, or will be.
ReadsKeep ==
  \A e \in Reads : read[e].pc = "found" =>
    /\ read[e].stamp > row.stamp => read[e].value >= published
    /\ \A w \in Writes :
         Dated(w) /\ read[e].stamp > write[w].stamp => read[e].value >= write[w].value

\* What is known of the field was so at Google, and pages show what lists show.
FromGoogle ==
  /\ published <= google
  /\ \A w \in Writes : write[w].value <= google
  /\ \A r \in Runs : run[r].pc = "page" => run[r].page <= list

FieldInv ==
  /\ TypeOK
  /\ foundAt <= row.stamp
  /\ OverlayHolds
  /\ WriteKept
  /\ ListsKeep
  /\ ReadsKeep
  /\ FromGoogle

LEMMA FieldTypes ==
  ASSUME TypeOK
  PROVE  /\ google \in Nat /\ list \in Nat /\ list <= google /\ clock \in Nat
         /\ row.value \in Nat /\ row.stamp \in Nat
         /\ overlay.value \in Nat /\ overlay.stamp \in Nat
         /\ published \in Nat /\ foundAt \in Nat
         /\ \A r \in Runs : run[r].page \in Nat
         /\ \A e \in Reads :
              read[e].value \in Nat /\ read[e].stamp \in Nat /\ read[e].stamp <= clock
         /\ \A w \in Writes :
              /\ write[w].value \in Nat /\ write[w].stamp \in Nat
              /\ write[w].stamp <= clock
<1>1. /\ google \in Nat /\ list \in Nat /\ list <= google /\ clock \in Nat
      /\ published \in Nat /\ foundAt \in Nat
  BY ConstantsAssumption DEF TypeOK, Values, Stamps
<1>2. /\ row.value \in Nat /\ row.stamp \in Nat
      /\ overlay.value \in Nat /\ overlay.stamp \in Nat
  BY ConstantsAssumption DEF TypeOK, Values, Stamps, DeviceRow, OverlayRow
<1>3. \A r \in Runs : run[r].page \in Nat
  BY ConstantsAssumption DEF TypeOK, Values, SyncRun
<1>4. \A e \in Reads :
        read[e].value \in Nat /\ read[e].stamp \in Nat /\ read[e].stamp <= clock
  BY ConstantsAssumption DEF TypeOK, Values, Stamps, ReadCall
<1>5. \A w \in Writes :
        /\ write[w].value \in Nat /\ write[w].stamp \in Nat
        /\ write[w].stamp <= clock
  BY ConstantsAssumption DEF TypeOK, Values, Stamps, WriteCall
<1> QED BY <1>1, <1>2, <1>3, <1>4, <1>5

LEMMA InitField == Init => FieldInv
<1> SUFFICES ASSUME Init PROVE FieldInv
  OBVIOUS
<1>1. row.value = 0 /\ row.stamp = 0
  BY DEF Init
<1> QED
  BY <1>1, InitType
     DEF Init, FieldInv, OverlayHolds, WriteKept, ListsKeep, ReadsKeep, FromGoogle,
         NoOverlay, NoRun, NoCall, Showing, Dated

\* A step that neither observes the field nor dates a settlement.
LEMMA KeptField ==
  ASSUME FieldInv, TypeOK',
         google' >= google, list' >= list,
         row'.value = row.value, row'.stamp = row.stamp, overlay' = overlay,
         published' = published, foundAt' = foundAt,
         \A r \in Runs : run'[r].pc = "page" =>
           run[r].pc = "page" /\ run'[r].page = run[r].page,
         \A r \in Runs : Showing(r)' => Showing(r),
         \A e \in Reads : read'[e].pc = "found" => read'[e] = read[e],
         \A w \in Writes :
           /\ write'[w].value <= google'
           /\ Dated(w)' => /\ Dated(w) /\ write'[w].value = write[w].value
                           /\ write'[w].stamp = write[w].stamp
  PROVE  FieldInv'
<1> USE FieldTypes
<1>0. TypeOK
  BY DEF FieldInv
<1>1. list' \in Nat /\ google' \in Nat
  BY ConstantsAssumption DEF TypeOK, Values
<1>2. foundAt' <= row'.stamp /\ OverlayHolds' /\ WriteKept'
  BY DEF FieldInv, OverlayHolds, WriteKept
<1>3. ListsKeep'
  BY <1>0, <1>1 DEF FieldInv, ListsKeep, Showing
<1>4. ReadsKeep'
  BY DEF FieldInv, ReadsKeep
<1>5. FromGoogle'
  BY <1>0, <1>1 DEF FieldInv, FromGoogle
<1> QED BY <1>2, <1>3, <1>4, <1>5 DEF FieldInv

\* A step of a sync, or of a run that reads no page, gives no run something to
\* stage.
LEMMA ShowingSyncs ==
  ASSUME TypeOK, NEW r \in Runs, NEW s \in Syncs,
         Request(s) \/ Abandon(s) \/ Cancel(s) \/ Purge(s), Showing(r)'
  PROVE  Showing(r)
<1> USE DEF Showing, callVars
<1>0. r # None /\ run[r] \in SyncRun
  BY ConstantsAssumption DEF TypeOK
<1>1. CASE Request(s) BY <1>0, <1>1 DEF Request
<1>2. CASE Abandon(s) BY <1>0, <1>2 DEF Abandon, NoSync
<1>3. CASE Cancel(s) BY <1>0, <1>3 DEF Cancel, NoSync
<1>4. CASE Purge(s)
  <2>1. run'[r] = run[r] /\ sync' = sync
    BY <1>4 DEF Purge
  <2>2. run[r].id \in Syncs
    BY <1>0, <2>1 DEF SyncRun
  <2>3. header'[run[r].id] = "running" => header[run[r].id] = "running"
    BY <1>4, <2>2, ClosedHeader DEF Purge
  <2> QED BY <2>1, <2>3
<1> QED BY <1>1, <1>2, <1>3, <1>4

LEMMA ShowingRuns ==
  ASSUME TypeOK, NEW r \in Runs, NEW q \in Runs,
         Claim(q) \/ Finish(q) \/ FinishFailed(q) \/ QuitRun(q)
  PROVE  /\ Showing(r)' => Showing(r)
         /\ run'[r].pc = "page" => run'[r] = run[r]
<1> USE DEF Showing, syncVars
<1>0. r # None
  BY ConstantsAssumption
<1>1. CASE Claim(q)
  <2>1. sync'.attempt = q /\ run'[q].pc = "listing"
    BY <1>1 DEF Claim, TypeOK, SyncState
  <2>2. r # q => run'[r] = run[r]
    BY <1>1 DEF Claim, TypeOK
  <2> QED BY <2>1, <2>2
<1>2. CASE Finish(q) \/ FinishFailed(q)
  <2>1. sync'.attempt = None /\ run'[q].pc = "over"
    BY <1>2 DEF Finish, FinishFailed, NoSync, RunOver, NoRun, TypeOK
  <2>2. r # q => run'[r] = run[r]
    BY <1>2 DEF Finish, FinishFailed, TypeOK
  <2> QED BY <1>0, <2>1, <2>2
<1>3. CASE QuitRun(q)
  <2>1. run'[q].pc = "over" /\ sync' = sync /\ header' = header
    BY <1>3 DEF QuitRun, RunOver, NoRun, TypeOK
  <2>2. r # q => run'[r] = run[r]
    BY <1>3 DEF QuitRun, TypeOK
  <2> QED BY <2>1, <2>2
<1> QED BY <1>1, <1>2, <1>3

LEMMA ReadPageField ==
  ASSUME FieldInv, TypeOK', NEW r \in Runs, ReadPage(r)
  PROVE  FieldInv'
<1>0. TypeOK
  BY DEF FieldInv
<1>1. /\ UNCHANGED <<google, list, clock, row, overlay, sync, header, read, write,
                    published, foundAt>>
      /\ \A q \in Runs : run'[q].pc = "page" =>
           run'[q] = run[q] \/ run'[q].page = list
  <2>1. CASE run' = [run EXCEPT ![r] = [pc |-> "page", id |-> @.id, page |-> list]]
    BY <1>0, <2>1 DEF ReadPage, TypeOK, googleVars, syncVars
  <2>2. CASE run' = [run EXCEPT ![r].pc = "listed"]
    BY <1>0, <2>2 DEF ReadPage, TypeOK, SyncRun, googleVars, syncVars
  <2> QED BY <2>1, <2>2 DEF ReadPage
<1>2. ListsKeep'
  BY <1>0, <1>1, FieldTypes DEF FieldInv, ListsKeep, Showing
<1>3. FromGoogle'
  BY <1>0, <1>1, FieldTypes DEF FieldInv, FromGoogle
<1>4. foundAt' <= row'.stamp /\ OverlayHolds' /\ WriteKept' /\ ReadsKeep'
  BY <1>1 DEF FieldInv, OverlayHolds, WriteKept, ReadsKeep, Dated
<1> QED BY <1>2, <1>3, <1>4 DEF FieldInv

\* A page may end the overlay: then lists show the written value.
LEMMA StagePageField ==
  ASSUME FieldInv, TypeOK', NEW r \in Runs, StagePage(r)
  PROVE  FieldInv'
<1>0. TypeOK
  BY DEF FieldInv
<1> USE FieldTypes
<1>1. /\ UNCHANGED <<google, list, sync, header, read, write, published, foundAt>>
      /\ run[r].pc = "page" /\ Showing(r)
      /\ row'.stamp = row.stamp
      /\ row'.value = IF overlay.live THEN row.value ELSE run[r].page
      /\ \/ overlay' = overlay
         \/ overlay.live /\ overlay.value = run[r].page /\ ~overlay'.live
  <2>1. /\ row' = [value |-> Listed(run[r].page), stamp |-> row.stamp,
                  seen |-> ListedAt, removed |-> FALSE]
        /\ overlay' = IF overlay.live /\ overlay.value = run[r].page
                      THEN NoOverlay ELSE overlay
    BY DEF StagePage, SeenByList
  <2>2. row'.stamp = row.stamp /\ row'.value = Listed(run[r].page)
    BY <2>1
  <2>3. ~NoOverlay.live
    BY DEF NoOverlay
  <2>4. run[r].pc = "page" /\ Showing(r)
    BY DEF StagePage, Holds, Showing
  <2>5. UNCHANGED <<google, list, sync, header, read, write, published, foundAt>>
    BY DEF StagePage, googleVars
  <2>6. row'.value = IF overlay.live THEN row.value ELSE run[r].page
    BY <2>2 DEF Listed
  <2>7. \/ overlay' = overlay
        \/ overlay.live /\ overlay.value = run[r].page /\ ~overlay'.live
    BY <2>1, <2>3
  <2> QED BY <2>2, <2>4, <2>5, <2>6, <2>7
<1>2. \A q \in Runs : run'[q].pc = "page" => run'[q] = run[q] /\ q # r
  BY <1>0 DEF StagePage, TypeOK
<1>3. \A q \in Runs : ~Showing(q)'
  BY <1>1, <1>2 DEF Showing
<1>4. overlay.live /\ overlay.value = run[r].page => list >= published
  BY <1>0, <1>1 DEF FieldInv, OverlayHolds, WriteKept, FromGoogle
<1>5. ListsKeep'
  BY <1>1, <1>3, <1>4 DEF FieldInv, ListsKeep
<1>6. WriteKept'
  BY <1>0, <1>1 DEF FieldInv, ListsKeep, WriteKept
<1>7. foundAt' <= row'.stamp /\ OverlayHolds'
  BY <1>1 DEF FieldInv, OverlayHolds
<1>8. ReadsKeep'
  BY <1>1 DEF FieldInv, ReadsKeep, Dated
<1>9. FromGoogle'
  BY <1>1, <1>2 DEF FieldInv, FromGoogle
<1> QED BY <1>5, <1>6, <1>7, <1>8, <1>9 DEF FieldInv

LEMMA GetField ==
  ASSUME FieldInv, TypeOK', NEW e \in Reads, Get(e)
  PROVE  FieldInv'
<1>0. TypeOK
  BY DEF FieldInv
<1>1. /\ UNCHANGED <<google, list, row, overlay, sync, header, run, write,
                    published, foundAt>>
      /\ \A d \in Reads : read'[d].pc = "found" =>
           read'[d] = read[d] \/ read'[d].value = google
  <2>1. CASE read' = [read EXCEPT ![e] = [pc |-> "found", value |-> google,
                                         stamp |-> @.stamp]]
    BY <1>0, <2>1 DEF Get, TypeOK, googleVars, syncVars
  <2>2. CASE read' = [read EXCEPT ![e].pc = "missing"]
    BY <1>0, <2>2 DEF Get, TypeOK, ReadCall, googleVars, syncVars
  <2> QED BY <2>1, <2>2 DEF Get
<1>2. ReadsKeep'
  BY <1>0, <1>1, FieldTypes DEF FieldInv, ReadsKeep, FromGoogle, Dated
<1>3. /\ foundAt' <= row'.stamp /\ OverlayHolds' /\ WriteKept' /\ ListsKeep'
      /\ FromGoogle'
  BY <1>1 DEF FieldInv, OverlayHolds, WriteKept, ListsKeep, FromGoogle, Showing
<1> QED BY <1>2, <1>3 DEF FieldInv

LEMMA StoreFoundField ==
  ASSUME FieldInv, TypeOK', NEW e \in Reads, StoreFound(e)
  PROVE  FieldInv'
<1>0. TypeOK
  BY DEF FieldInv
<1> USE FieldTypes
<1> DEFINE newer == read[e].stamp > row.stamp
<1>1. /\ UNCHANGED <<google, list, sync, header, run, write, published>>
      /\ read[e].pc = "found"
      /\ row'.value = IF newer THEN read[e].value ELSE row.value
      /\ row'.stamp = IF newer THEN read[e].stamp ELSE row.stamp
      /\ foundAt' = IF read[e].stamp > foundAt THEN read[e].stamp ELSE foundAt
      /\ overlay' = IF overlay.live /\ newer
                    THEN [live |-> TRUE, value |-> read[e].value,
                          stamp |-> read[e].stamp]
                    ELSE overlay
  BY DEF StoreFound, SeenByRead, OverlayAfterRead, googleVars, syncVars
<1>2. \A d \in Reads : read'[d].pc = "found" => read'[d] = read[d]
  BY <1>0 DEF StoreFound, TypeOK, Over, NoCall
<1>3. newer => read[e].value >= published
  BY <1>1 DEF FieldInv, ReadsKeep
<1>4. overlay'.live = overlay.live
  BY <1>0, <1>1 DEF TypeOK, OverlayRow
<1>5. row'.stamp >= row.stamp /\ foundAt' <= row'.stamp
  BY <1>0, <1>1 DEF FieldInv
<1>6. OverlayHolds'
  <2>1. CASE newer
    BY <1>0, <1>1, <1>5, <2>1 DEF FieldInv, OverlayHolds
  <2>2. CASE ~newer
    BY <1>0, <1>1, <1>5, <2>2 DEF FieldInv, OverlayHolds
  <2> QED BY <2>1, <2>2
<1>7. WriteKept' /\ ListsKeep' /\ FromGoogle'
  BY <1>1, <1>3, <1>4 DEF FieldInv, WriteKept, ListsKeep, FromGoogle, Showing
<1>8. ReadsKeep'
  <2>1. row'.stamp \in Nat /\ row.stamp \in Nat
    BY <1>0, <1>1
  <2> HIDE DEF newer
  <2> QED BY <1>0, <1>1, <1>2, <1>5, <2>1 DEF FieldInv, ReadsKeep, Dated
<1> QED BY <1>5, <1>6, <1>7, <1>8 DEF FieldInv

\* The stamp of a settlement to come is newer than those of the reads.
LEMMA DateField ==
  ASSUME FieldInv, TypeOK', NEW w \in Writes, Answer(w) \/ StampReadBack(w)
  PROVE  FieldInv'
<1>0. TypeOK
  BY DEF FieldInv
<1>1. /\ UNCHANGED <<google, list, row, overlay, sync, header, run, read,
                    published, foundAt>>
      /\ clock' = clock + 1
  BY DEF Answer, StampReadBack, Ticks, googleVars, syncVars
<1>2. \A v \in Writes :
        /\ write'[v].value = write[v].value
        /\ v = w => write'[v].stamp = clock + 1
        /\ v # w => write'[v] = write[v]
  BY <1>0 DEF Answer, StampReadBack, Ticks, TypeOK
<1>3. ReadsKeep'
  BY <1>0, <1>1, <1>2, FieldTypes DEF FieldInv, ReadsKeep, Dated
<1>4. /\ foundAt' <= row'.stamp /\ OverlayHolds' /\ WriteKept' /\ ListsKeep'
      /\ FromGoogle'
  BY <1>1, <1>2 DEF FieldInv, OverlayHolds, WriteKept, ListsKeep, FromGoogle, Showing
<1> QED BY <1>3, <1>4 DEF FieldInv

LEMMA SettleField ==
  ASSUME FieldInv, TypeOK', NEW w \in Writes, Settle(w)
  PROVE  FieldInv'
<1>0. TypeOK
  BY DEF FieldInv
<1> USE FieldTypes
<1>1. /\ UNCHANGED <<google, list, sync, header, run, read, foundAt>>
      /\ write[w].pc \in {"answered", "verified"}
  BY DEF Settle, googleVars, syncVars
<1>2. \A v \in Writes : write'[v] = IF v = w THEN Over ELSE write[v]
  BY <1>0 DEF Settle, TypeOK
<1>3. /\ Over.value = 0 /\ Over.pc = "over"
  BY DEF Over, NoCall
<1>4. CASE Newest(w)
  <2>1. /\ row'.value = write[w].value /\ row'.stamp = write[w].stamp
        /\ overlay'.live /\ overlay'.value = write[w].value
        /\ overlay'.stamp = write[w].stamp
        /\ published' = write[w].value
    BY <1>4 DEF Settle
  <2>2. write[w].stamp > row.stamp
    BY <1>4 DEF Newest
  <2>3. foundAt' <= row'.stamp /\ OverlayHolds' /\ WriteKept' /\ ListsKeep'
    BY <1>0, <1>1, <2>1, <2>2 DEF FieldInv, OverlayHolds, WriteKept, ListsKeep
  <2>4. ReadsKeep'
    BY <1>0, <1>1, <1>2, <1>3, <2>1 DEF FieldInv, ReadsKeep, Dated
  <2>5. FromGoogle'
    BY <1>0, <1>1, <1>2, <1>3, <2>1 DEF FieldInv, FromGoogle
  <2> QED BY <2>3, <2>4, <2>5 DEF FieldInv
<1>5. CASE ~Newest(w)
  <2>1. UNCHANGED <<row, overlay, published>>
    BY <1>5 DEF Settle
  <2>2. \A r \in Runs : Showing(r)' => Showing(r)
    BY <1>1 DEF Showing
  <2>3. \A v \in Writes :
          /\ write'[v].value <= google'
          /\ Dated(v)' => /\ Dated(v) /\ write'[v].value = write[v].value
                          /\ write'[v].stamp = write[v].stamp
    BY <1>0, <1>1, <1>2, <1>3 DEF FieldInv, FromGoogle, Dated
  <2> QED BY <1>0, <1>1, <2>1, <2>2, <2>3, KeptField
<1> QED BY <1>4, <1>5

\* When time ends the overlay, lists and pages show the written value.
LEMMA ExpireField ==
  ASSUME FieldInv, TypeOK', Expire
  PROVE  FieldInv'
<1>0. TypeOK
  BY DEF FieldInv
<1> USE FieldTypes
<1>1. /\ UNCHANGED <<google, list, row, sync, header, run, read, write, published,
                    foundAt>>
      /\ overlay.live /\ ~overlay'.live /\ list >= overlay.value
      /\ \A r \in Runs : Showing(r) => run[r].page >= overlay.value
  BY DEF Expire, NoOverlay, Showing, Holds, googleVars, syncVars, callVars
<1>2. overlay.value >= published
  BY <1>1 DEF FieldInv, OverlayHolds, WriteKept
<1>3. ListsKeep'
  BY <1>0, <1>1, <1>2 DEF ListsKeep, Showing
<1>4. /\ foundAt' <= row'.stamp /\ OverlayHolds' /\ WriteKept' /\ ReadsKeep'
      /\ FromGoogle'
  BY <1>1 DEF FieldInv, OverlayHolds, WriteKept, ReadsKeep, FromGoogle, Dated
<1> QED BY <1>3, <1>4 DEF FieldInv

\* The steps of the syncs, of runs and of time that show nothing.
LEMMA CalmSyncs ==
  ASSUME FieldInv, TypeOK', NEW s \in Syncs,
         Request(s) \/ Abandon(s) \/ Cancel(s) \/ Purge(s)
  PROVE  FieldInv'
<1>0. TypeOK
  BY DEF FieldInv
<1>1. UNCHANGED <<google, list, row, overlay, run, read, write, published, foundAt>>
  BY DEF Request, Abandon, Cancel, Purge, googleVars, callVars
<1>2. \A r \in Runs : Showing(r)' => Showing(r)
  BY <1>0, ShowingSyncs
<1>3. google >= google /\ list >= list
  BY <1>0, FieldTypes
<1>4. \A w \in Writes : write[w].value <= google
  BY DEF FieldInv, FromGoogle
<1> QED BY <1>1, <1>2, <1>3, <1>4, KeptField DEF Dated

LEMMA CalmRuns ==
  ASSUME FieldInv, TypeOK', NEW r \in Runs,
         Claim(r) \/ Finish(r) \/ FinishFailed(r) \/ QuitRun(r)
  PROVE  FieldInv'
<1>0. TypeOK
  BY DEF FieldInv
<1>1. UNCHANGED <<google, list, overlay, read, write, published, foundAt>>
  BY DEF Claim, Finish, FinishFailed, QuitRun, googleVars
<1>2. \A q \in Runs :
        /\ Showing(q)' => Showing(q)
        /\ run'[q].pc = "page" => run[q].pc = "page" /\ run'[q].page = run[q].page
  BY <1>0, ShowingRuns
<1>3. google >= google /\ list >= list
  BY <1>0, FieldTypes
<1>4. \A w \in Writes : write[w].value <= google
  BY DEF FieldInv, FromGoogle
<1>5. SoftDeleted.value = row.value /\ SoftDeleted.stamp = row.stamp
  BY <1>0 DEF SoftDeleted, TypeOK, DeviceRow
<1>6. row'.value = row.value /\ row'.stamp = row.stamp
  BY <1>5 DEF Claim, Finish, FinishFailed, QuitRun
<1> QED BY <1>1, <1>2, <1>3, <1>4, <1>6, KeptField DEF Dated

LEMMA CalmReads ==
  ASSUME FieldInv, TypeOK', NEW e \in Reads,
         StampRead(e) \/ StoreMissing(e) \/ QuitRead(e)
  PROVE  FieldInv'
<1>0. TypeOK
  BY DEF FieldInv
<1>1. UNCHANGED <<google, list, overlay, sync, header, run, write, published, foundAt>>
  BY DEF StampRead, StoreMissing, QuitRead, googleVars, syncVars
<1>2. \A d \in Reads : read'[d].pc = "found" => read'[d] = read[d]
  <2>1. read'[e].pc # "found"
    BY <1>0 DEF StampRead, StoreMissing, QuitRead, Over, NoCall, TypeOK
  <2>2. \A d \in Reads : d # e => read'[d] = read[d]
    BY <1>0 DEF StampRead, StoreMissing, QuitRead, TypeOK
  <2> QED BY <2>1, <2>2
<1>3. google >= google /\ list >= list
  BY <1>0, FieldTypes
<1>4. \A w \in Writes : write[w].value <= google
  BY DEF FieldInv, FromGoogle
<1>5. SoftDeleted.value = row.value /\ SoftDeleted.stamp = row.stamp
  BY <1>0 DEF SoftDeleted, TypeOK, DeviceRow
<1>6. row'.value = row.value /\ row'.stamp = row.stamp
  BY <1>5 DEF StampRead, StoreMissing, QuitRead
<1> QED BY <1>1, <1>2, <1>3, <1>4, <1>6, KeptField DEF Dated, Showing

LEMMA CalmWrites ==
  ASSUME FieldInv, TypeOK', NEW w \in Writes,
         Send(w) \/ Lose(w) \/ ReadBack(w) \/ SettleMissing(w)
  PROVE  FieldInv'
<1>0. TypeOK
  BY DEF FieldInv
<1>1. UNCHANGED <<list, overlay, sync, header, run, read, published, foundAt>>
  BY DEF Send, Lose, ReadBack, SettleMissing, googleVars, syncVars
<1>2. google' >= google /\ list >= list
  <2>1. CASE Send(w) BY <1>0, <2>1, FieldTypes DEF Send, Changes
  <2>2. CASE ~Send(w)
    BY <1>0, <2>2, FieldTypes DEF Lose, ReadBack, SettleMissing, googleVars
  <2> QED BY <2>1, <2>2
<1>3. SoftDeleted.value = row.value /\ SoftDeleted.stamp = row.stamp
  BY <1>0 DEF SoftDeleted, TypeOK, DeviceRow
<1>4. row'.value = row.value /\ row'.stamp = row.stamp
  BY <1>3 DEF Send, Lose, ReadBack, SettleMissing
<1>5. \A v \in Writes : v # w => write'[v] = write[v]
  BY <1>0 DEF Send, Lose, ReadBack, SettleMissing, TypeOK
<1>6. /\ write'[w].value \in {0, write[w].value, google'}
      /\ Dated(w)' => /\ Dated(w) /\ write'[w].value = write[w].value
                      /\ write'[w].stamp = write[w].stamp
  <2>0. write[w] \in WriteCall
    BY <1>0 DEF TypeOK
  <2>1. CASE Send(w)
    <3>1. write'[w] = [pc |-> "sent", value |-> google', stamp |-> 0]
      BY <1>0, <2>1 DEF Send, TypeOK
    <3> QED BY <3>1 DEF Dated
  <2>2. CASE Lose(w)
    <3>1. write'[w].value = write[w].value /\ write'[w].pc \in {"unknown", "over"}
      BY <1>0, <2>2 DEF Lose, TypeOK
    <3> QED BY <3>1 DEF Dated
  <2>3. CASE ReadBack(w)
    <3>1. /\ write'[w].value = write[w].value /\ write'[w].stamp = write[w].stamp
          /\ write[w].pc = "asking"
      BY <1>0, <2>0, <2>3 DEF ReadBack, TypeOK, WriteCall
    <3> QED BY <3>1 DEF Dated
  <2>4. CASE SettleMissing(w)
    <3>1. write'[w] = Over
      BY <1>0, <2>4 DEF SettleMissing, TypeOK
    <3> QED BY <3>1 DEF Dated, Over, NoCall
  <2> QED BY <2>1, <2>2, <2>3, <2>4
<1>7. google' \in Nat /\ google \in Nat
  BY <1>0, FieldTypes, ConstantsAssumption DEF TypeOK, Values
<1>8. \A v \in Writes : write'[v].value <= google'
  BY <1>0, <1>2, <1>5, <1>6, <1>7, FieldTypes DEF FieldInv, FromGoogle
<1>9. \A v \in Writes :
        Dated(v)' => /\ Dated(v) /\ write'[v].value = write[v].value
                    /\ write'[v].stamp = write[v].stamp
  BY <1>5, <1>6 DEF Dated
<1>10. \A r \in Runs : Showing(r)' => Showing(r)
  BY <1>1 DEF Showing
<1> QED BY <1>1, <1>2, <1>4, <1>8, <1>9, <1>10, KeptField

LEMMA CalmTime ==
  ASSUME FieldInv, TypeOK', Lapse \/ External \/ ListMoves \/ UNCHANGED vars
  PROVE  FieldInv'
<1> USE DEF googleVars, syncVars, callVars
<1>0. TypeOK
  BY DEF FieldInv
<1>1. UNCHANGED <<row, overlay, header, run, read, write, published, foundAt>>
  BY DEF Lapse, External, ListMoves, vars
<1>2. google' >= google /\ list' >= list
  BY <1>0, FieldTypes DEF Lapse, External, ListMoves, Changes, vars
<1>3. \A r \in Runs : Showing(r)' => Showing(r)
  BY <1>0, <1>1 DEF Lapse, External, ListMoves, vars, Showing, TypeOK, SyncState
<1>4. google' \in Nat
  BY ConstantsAssumption DEF TypeOK, Values
<1>5. \A w \in Writes : write'[w].value <= google'
  BY <1>0, <1>1, <1>2, <1>4, FieldTypes DEF FieldInv, FromGoogle
<1> QED BY <1>1, <1>2, <1>3, <1>5, KeptField DEF Dated

LEMMA NextField == FieldInv /\ [Next]_vars => FieldInv'
<1> SUFFICES ASSUME FieldInv, [Next]_vars PROVE FieldInv'
  OBVIOUS
<1>1. TypeOK'
  BY NextType DEF FieldInv
<1> QED
  BY <1>1, CalmSyncs, CalmRuns, ReadPageField, StagePageField, CalmReads, GetField,
     StoreFoundField, CalmWrites, DateField, SettleField, CalmTime, ExpireField
     DEF Next

LEMMA FieldCorrect == Spec => []FieldInv
BY InitField, NextField, PTL DEF Spec

\* While an overlay lives, the row shows its value, and no stored read is newer.
THEOREM OverlayHoldsCorrect == Spec => []OverlayHolds
<1>1. FieldInv => OverlayHolds BY DEF FieldInv
<1> QED BY <1>1, FieldCorrect, PTL

\* A published write is never undone, by whatever lists, reads and settlements
\* from before it are stored after it, nor by the end of the overlay.
THEOREM WriteKeptCorrect == Spec => []WriteKept
<1>1. FieldInv => WriteKept BY DEF FieldInv
<1> QED BY <1>1, FieldCorrect, PTL

=============================================================================
