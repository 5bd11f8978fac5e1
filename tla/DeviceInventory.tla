---------------------------- MODULE DeviceInventory ----------------------------
(***************************************************************************)
(* The inventory of the devices (migration 016), seen through one device   *)
(* and one of its fields: the full sync with its lease and its job header, *)
(* whose worker stages the pages of Google's device list (worker/src/      *)
(* device-sync.ts), the reads of single devices (entity-sync.ts, and       *)
(* device-fresh-read.ts of the API), the settlements of write jobs         *)
(* (migration 017), and the overlay that keeps a written value from a list *)
(* that lags behind.                                                       *)
(*                                                                         *)
(* The values that the field has at Google are numbered in their order;    *)
(* each is unlike the ones before.  Stamps come from one clock, the one of *)
(* PostgreSQL, and no two of them are equal.  The device has a row.  A     *)
(* device that Google no longer returns is one that a list may leave out   *)
(* and a read may miss, at any time.                                       *)
(***************************************************************************)
EXTENDS Naturals, FiniteSets

CONSTANTS
  Syncs,     \* full syncs, each with its job header
  Runs,      \* requests of the worker that carry out a sync, and their attempts
  Reads,     \* reads of the device
  Writes,    \* operations of write jobs on the field
  MaxValue,  \* bound on the values that the field has at Google
  None       \* no sync, no run

ASSUME ConstantsAssumption ==
  /\ MaxValue \in Nat
  /\ None \notin Syncs \cup Runs

VARIABLES
  \* Google
  google,   \* the value of the field
  list,     \* the value that lists show
  \* PostgreSQL
  clock,    \* the last stamp
  row,      \* the row of the device
  overlay,  \* its overlay
  sync,     \* the sync of cc.device_sync_state and its lease
  header,   \* the job header of each sync
  targets,  \* the syncs that have the device among their job_targets
  \* the worker and the API
  run,      \* each run of a sync
  read,     \* each read
  write,    \* each write
  \* history
  published,  \* the value of the last write that was published
  foundAt     \* the newest stamp of a stored read that found the device

googleVars == <<google, list>>
syncVars == <<sync, header, targets>>
callVars == <<run, read, write>>
vars == <<googleVars, clock, row, overlay, syncVars, callVars, published, foundAt>>

Values == 0 .. MaxValue
Stamps == 0 .. clock

NoOverlay == [live |-> FALSE, value |-> 0, stamp |-> 0]
NoSync == [id |-> None, attempt |-> None, live |-> FALSE, started |-> 0]
NoRun == [pc |-> "none", id |-> None, page |-> 0]
NoCall == [pc |-> "none", value |-> 0, stamp |-> 0]
Over == [NoCall EXCEPT !.pc = "over"]
RunOver == [NoRun EXCEPT !.pc = "over"]

DeviceRow == [value : Values, stamp : Stamps, seen : Stamps, removed : BOOLEAN]
OverlayRow == [live : BOOLEAN, value : Values, stamp : Stamps]
SyncState == [id : Syncs \cup {None}, attempt : Runs \cup {None}, live : BOOLEAN,
              started : Stamps]
SyncRun ==
  [pc : {"none", "over"}, id : {None}, page : {0}]
    \cup [pc : {"listing", "page", "listed"}, id : Syncs, page : Values]
ReadCall == [pc : {"none", "stamped", "found", "missing", "over"},
             value : Values, stamp : Stamps]
WriteCall == [pc : {"none", "sent", "answered", "unknown", "asking", "verified",
                    "missing", "over"},
              value : Values, stamp : Stamps]

TypeOK ==
  /\ google \in Values
  /\ list \in 0 .. google
  /\ clock \in Nat
  /\ row \in DeviceRow
  /\ overlay \in OverlayRow
  /\ sync \in SyncState
  /\ header \in [Syncs -> {"none", "running", "completed", "failed", "cancelled"}]
  /\ targets \subseteq Syncs
  /\ run \in [Runs -> SyncRun]
  /\ read \in [Reads -> ReadCall]
  /\ write \in [Writes -> WriteCall]
  /\ published \in Values
  /\ foundAt \in Stamps

\* The field has been as Google and the list show it; only lists have told.
Init ==
  /\ google = 0 /\ list = 0
  /\ clock = 0
  /\ row \in [value : {0}, stamp : {0}, seen : {0}, removed : BOOLEAN]
  /\ overlay = NoOverlay
  /\ sync = NoSync
  /\ header = [s \in Syncs |-> "none"]
  /\ targets = {}
  /\ run = [r \in Runs |-> NoRun]
  /\ read = [e \in Reads |-> NoCall]
  /\ write = [w \in Writes |-> NoCall]
  /\ published = 0
  /\ foundAt = 0

\* A stamp is newer than all before it.
Ticks == clock' = clock + 1

(***************************************************************************)
(* Observations of the row (cc.upsert_devices, cc.soft_delete_devices).    *)
(***************************************************************************)

\* Mutant: a read moves the row and leaves the overlay where it is.
OverlayStays(value, stamp) == overlay

\* A read moves a live overlay and never creates one.
OverlayAfterRead(value, stamp) ==
  IF overlay.live /\ stamp > row.stamp
  THEN [live |-> TRUE, value |-> value, stamp |-> stamp] ELSE overlay

\* The observation is the newest of the field, or of the row.
SeenByRead(value, stamp) ==
  /\ row' = [value |-> IF stamp > row.stamp THEN value ELSE row.value,
             stamp |-> IF stamp > row.stamp THEN stamp ELSE row.stamp,
             seen |-> IF stamp >= row.seen THEN stamp ELSE row.seen,
             removed |-> row.removed /\ stamp < row.seen]
  /\ overlay' = OverlayAfterRead(value, stamp)

\* Mutant: a list sets the field, whether an overlay protects it or not.
ListedAnyway(value) == value

\* A list knows nothing about the field while an overlay lives.
Listed(value) == IF overlay.live THEN row.value ELSE value

\* Mutant: the worker stamps the list, by a clock that is ahead.
ListedAhead == clock' + 1

\* The list is stamped when it is stored, so it is the newest of the row.
ListedAt == clock'

\* An equal value ends the overlay.
SeenByList(value) ==
  /\ row' = [value |-> Listed(value), stamp |-> row.stamp, seen |-> ListedAt,
             removed |-> FALSE]
  /\ overlay' = IF overlay.live /\ overlay.value = value THEN NoOverlay ELSE overlay

SoftDeleted == [row EXCEPT !.removed = TRUE]

(***************************************************************************)
(* The full sync.                                                          *)
(***************************************************************************)

Close(s, status) ==
  IF header[s] = "running" THEN [header EXCEPT ![s] = status] ELSE header

\* Mutant: a request forgets the sync that it replaces.
ForgetsReplaced == header

\* The sync that a request replaces ends as interrupted.
ClosesReplaced == IF sync.id = None THEN header ELSE Close(sync.id, "failed")

\* cc.request_device_sync: none is running, or its lease has lapsed.
Request(s) ==
  /\ header[s] = "none"
  /\ ~sync.live
  /\ Ticks
  /\ sync' = [id |-> s, attempt |-> None, live |-> TRUE, started |-> clock']
  /\ header' = [ClosesReplaced EXCEPT ![s] = "running"]
  /\ UNCHANGED <<googleVars, row, overlay, targets, callVars, published, foundAt>>

\* cc.abandon_device_sync: Kestra did not take the sync.
Abandon(s) ==
  /\ sync.id = s /\ sync.attempt = None
  /\ header[s] = "running"
  /\ sync' = NoSync
  /\ header' = Close(s, "failed")
  /\ UNCHANGED <<googleVars, clock, row, overlay, targets, callVars, published, foundAt>>

\* cc.claim_device_sync; another attempt is refused.
Claim(r) ==
  /\ run[r].pc = "none"
  /\ sync.id # None /\ sync.live /\ sync.attempt = None
  /\ header[sync.id] = "running"
  /\ sync' = [sync EXCEPT !.attempt = r]
  /\ run' = [run EXCEPT ![r] = [pc |-> "listing", id |-> sync.id, page |-> 0]]
  /\ UNCHANGED <<googleVars, clock, row, overlay, header, targets, read, write,
                 published, foundAt>>

\* The page that would hold the device comes from Google, with it or without.
ReadPage(r) ==
  /\ run[r].pc = "listing"
  /\ run' \in {[run EXCEPT ![r] = [pc |-> "page", id |-> @.id, page |-> list]],
               [run EXCEPT ![r].pc = "listed"]}
  /\ UNCHANGED <<googleVars, clock, row, overlay, syncVars, read, write, published,
                 foundAt>>

\* Mutant: the lease is the one of the customer, not of the attempt.
HoldsAny(r) == sync.live

\* cc.device_sync_lease
Holds(r) ==
  /\ sync.id = run[r].id /\ sync.attempt = r /\ sync.live
  /\ header[run[r].id] = "running"

\* cc.stage_devices
StagePage(r) ==
  /\ run[r].pc = "page"
  /\ Holds(r)
  /\ Ticks
  /\ SeenByList(run[r].page)
  /\ targets' = targets \cup {run[r].id}
  /\ run' = [run EXCEPT ![r] = [pc |-> "listed", id |-> @.id, page |-> 0]]
  /\ UNCHANGED <<googleVars, sync, header, read, write, published, foundAt>>

\* Mutant: the finish removes what was not seen since the last stamp.
StaleAnyway == row.seen < clock

\* A device that nothing has shown since the request of the sync.
Stale == row.seen < sync.started

\* cc.finish_device_sync of a sync that has read every page.
Finish(r) ==
  /\ run[r].pc = "listed"
  /\ Holds(r)
  /\ row' = IF Stale THEN SoftDeleted ELSE row
  /\ header' = Close(run[r].id, "completed")
  /\ sync' = NoSync
  /\ run' = [run EXCEPT ![r] = RunOver]
  /\ UNCHANGED <<googleVars, clock, overlay, targets, read, write, published, foundAt>>

\* cc.finish_device_sync of a sync that failed at Google.
FinishFailed(r) ==
  /\ run[r].pc \in {"listing", "listed"}
  /\ Holds(r)
  /\ header' = Close(run[r].id, "failed")
  /\ sync' = NoSync
  /\ run' = [run EXCEPT ![r] = RunOver]
  /\ UNCHANGED <<googleVars, clock, row, overlay, targets, read, write, published,
                 foundAt>>

\* The run is fenced, stops, or dies.
QuitRun(r) ==
  /\ run[r].pc \in {"listing", "page", "listed"}
  /\ run' = [run EXCEPT ![r] = RunOver]
  /\ UNCHANGED <<googleVars, clock, row, overlay, syncVars, read, write, published,
                 foundAt>>

\* cc.request_job_cancel: the state is cleared whatever it names.
Cancel(s) ==
  /\ header[s] = "running"
  /\ sync' = NoSync
  /\ header' = Close(s, "cancelled")
  /\ UNCHANGED <<googleVars, clock, row, overlay, targets, callVars, published, foundAt>>

\* cc.purge_jobs: a header without a live lease; the state may go on naming it.
Purge(s) ==
  /\ header[s] = "running"
  /\ sync.id # s \/ ~sync.live
  /\ header' = Close(s, "failed")
  /\ UNCHANGED <<googleVars, clock, row, overlay, sync, targets, callVars, published,
                 foundAt>>

Lapse ==
  /\ sync.live
  /\ sync' = [sync EXCEPT !.live = FALSE]
  /\ UNCHANGED <<googleVars, clock, row, overlay, header, targets, callVars, published,
                 foundAt>>

(***************************************************************************)
(* Reads of the device.                                                    *)
(***************************************************************************)

\* The stamp comes before the read.
StampRead(e) ==
  /\ read[e].pc = "none"
  /\ Ticks
  /\ read' = [read EXCEPT ![e] = [pc |-> "stamped", value |-> 0, stamp |-> clock']]
  /\ UNCHANGED <<googleVars, row, overlay, syncVars, run, write, published, foundAt>>

Get(e) ==
  /\ read[e].pc = "stamped"
  /\ read' \in {[read EXCEPT ![e] = [pc |-> "found", value |-> google,
                                       stamp |-> @.stamp]],
                [read EXCEPT ![e].pc = "missing"]}
  /\ UNCHANGED <<googleVars, clock, row, overlay, syncVars, run, write, published,
                 foundAt>>

\* cc.upsert_devices
StoreFound(e) ==
  /\ read[e].pc = "found"
  /\ SeenByRead(read[e].value, read[e].stamp)
  /\ foundAt' = IF read[e].stamp > foundAt THEN read[e].stamp ELSE foundAt
  /\ read' = [read EXCEPT ![e] = Over]
  /\ UNCHANGED <<googleVars, clock, syncVars, run, write, published>>

\* cc.soft_delete_devices
StoreMissing(e) ==
  /\ read[e].pc = "missing"
  /\ row' = SoftDeleted
  /\ read' = [read EXCEPT ![e] = Over]
  /\ UNCHANGED <<googleVars, clock, overlay, syncVars, run, write, published, foundAt>>

\* The refresh is cancelled, fails or dies.
QuitRead(e) ==
  /\ read[e].pc \in {"stamped", "found", "missing"}
  /\ read' = [read EXCEPT ![e] = Over]
  /\ UNCHANGED <<googleVars, clock, row, overlay, syncVars, run, write, published,
                 foundAt>>

(***************************************************************************)
(* Writes.  One write job of the customer runs, so a write is sent when no *)
(* answer to another is still to be settled.                               *)
(***************************************************************************)

Changes == google < MaxValue /\ google' = google + 1

Send(w) ==
  /\ write[w].pc = "none"
  /\ \A v \in Writes : write[v].pc \notin {"sent", "answered"}
  /\ Changes
  /\ write' = [write EXCEPT ![w] = [pc |-> "sent", value |-> google', stamp |-> 0]]
  /\ UNCHANGED <<list, clock, row, overlay, syncVars, run, read, published, foundAt>>

\* The answer is stamped when it is settled.
Answer(w) ==
  /\ write[w].pc = "sent"
  /\ Ticks
  /\ write' = [write EXCEPT ![w] = [pc |-> "answered", value |-> @.value,
                                    stamp |-> clock']]
  /\ UNCHANGED <<googleVars, row, overlay, syncVars, run, read, published, foundAt>>

\* No answer came, or its settlement was lost or fenced.  A lost read-back is
\* not repeated: the next one would be like the first.
Lose(w) ==
  /\ write[w].pc \in {"sent", "answered", "verified", "missing"}
  /\ write' = [write EXCEPT
       ![w] = [pc |-> IF @.pc \in {"sent", "answered"} THEN "unknown" ELSE "over",
               value |-> @.value, stamp |-> 0]]
  /\ UNCHANGED <<googleVars, clock, row, overlay, syncVars, run, read, published,
                 foundAt>>

\* The read-back of an unknown operation takes its stamp before it reads.
StampReadBack(w) ==
  /\ write[w].pc = "unknown"
  /\ Ticks
  /\ write' = [write EXCEPT ![w] = [pc |-> "asking", value |-> @.value,
                                    stamp |-> clock']]
  /\ UNCHANGED <<googleVars, row, overlay, syncVars, run, read, published, foundAt>>

\* Another value is no success and publishes nothing.
ReadBack(w) ==
  /\ write[w].pc = "asking"
  /\ write' \in {[write EXCEPT ![w].pc = IF google = write[w].value
                                         THEN "verified" ELSE "over"],
                 [write EXCEPT ![w].pc = "missing"]}
  /\ UNCHANGED <<googleVars, clock, row, overlay, syncVars, run, read, published,
                 foundAt>>

\* Mutant: a settlement is taken as the newest observation.
NewestAnyway(w) == TRUE

\* A newer observation of the field keeps the settlement from publishing.
Newest(w) == write[w].stamp > row.stamp

\* cc.settle_device_update_operations of a success.
Settle(w) ==
  /\ write[w].pc \in {"answered", "verified"}
  /\ IF Newest(w)
     THEN /\ row' = [value |-> write[w].value, stamp |-> write[w].stamp,
                      seen |-> row.seen, removed |-> row.removed]
          /\ overlay' =
               [live |-> TRUE, value |-> write[w].value, stamp |-> write[w].stamp]
          /\ published' = write[w].value
     ELSE UNCHANGED <<row, overlay, published>>
  /\ write' = [write EXCEPT ![w] = Over]
  /\ UNCHANGED <<googleVars, clock, syncVars, run, read, foundAt>>

\* The same of a device that Google does not know.
SettleMissing(w) ==
  /\ write[w].pc = "missing"
  /\ row' = SoftDeleted
  /\ write' = [write EXCEPT ![w] = Over]
  /\ UNCHANGED <<googleVars, clock, overlay, syncVars, run, read, published, foundAt>>

(***************************************************************************)
(* Google and time.                                                        *)
(***************************************************************************)

\* Somebody changes the device in Google's own console.
External ==
  /\ Changes
  /\ UNCHANGED <<list, clock, row, overlay, syncVars, callVars, published, foundAt>>

\* A list lags behind and never goes back.
ListMoves ==
  /\ list < google
  /\ list' \in list + 1 .. google
  /\ UNCHANGED <<google, clock, row, overlay, syncVars, callVars, published, foundAt>>

\* 36 hours after its stamp.  Lists, and pages that may still be staged, lag
\* less.
Expire ==
  /\ overlay.live
  /\ list >= overlay.value
  /\ \A r \in Runs : run[r].pc = "page" /\ Holds(r) => run[r].page >= overlay.value
  /\ overlay' = NoOverlay
  /\ UNCHANGED <<googleVars, clock, row, syncVars, callVars, published, foundAt>>

Next ==
  \/ \E s \in Syncs : Request(s) \/ Abandon(s) \/ Cancel(s) \/ Purge(s)
  \/ \E r \in Runs :
       \/ Claim(r) \/ ReadPage(r) \/ StagePage(r)
       \/ Finish(r) \/ FinishFailed(r) \/ QuitRun(r)
  \/ \E e \in Reads :
       StampRead(e) \/ Get(e) \/ StoreFound(e) \/ StoreMissing(e) \/ QuitRead(e)
  \/ \E w \in Writes :
       \/ Send(w) \/ Answer(w) \/ Lose(w) \/ StampReadBack(w) \/ ReadBack(w)
       \/ Settle(w) \/ SettleMissing(w)
  \/ Lapse \/ External \/ ListMoves \/ Expire

Spec == Init /\ [][Next]_vars

(***************************************************************************)
(* Properties.                                                             *)
(***************************************************************************)

\* While an overlay lives, the row shows its value, and no read that was stored
\* is newer, whatever reads, lists and settlements are stored in between.
OverlayHolds ==
  overlay.live =>
    /\ row.value = overlay.value /\ row.stamp = overlay.stamp
    /\ foundAt <= overlay.stamp

\* A published write is never undone: not by a list that lags, nor by a read or
\* a page from before the write that is stored after it, nor by the end of the
\* overlay.
WriteKept == row.value >= published

\* A running header is the one that the state names, so one full sync runs at a
\* time, and a cancel clears the state of no other sync.
OneSync == \A s \in Syncs : header[s] = "running" => sync.id = s

\* A completed sync removes the device if it neither listed it nor a read has
\* found it since the request, and keeps it otherwise, whatever runs of replaced
\* syncs and late reads have stored.
RemovedAsSeen ==
  [][\A s \in Syncs : header[s] = "running" /\ header'[s] = "completed" =>
       IF s \in targets \/ foundAt >= sync.started
       THEN row'.removed = row.removed ELSE row'.removed]_vars

=============================================================================
