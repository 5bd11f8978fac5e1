-------------------------- MODULE MCDeviceInventory --------------------------
(***************************************************************************)
(* The instance of DeviceInventory for TLC.  Only the order of stamps      *)
(* matters, and only of those that a step can still compare: the view      *)
(* replaces each stamp by the number of pending stamps below it.  It also  *)
(* leaves out how a sync ended and what a run without its lease has read.  *)
(***************************************************************************)
EXTENDS DeviceInventory, TLC

\* The stamps of the calls under way and of the sync.
Pending ==
  {c.stamp : c \in {read[e] : e \in Reads} \cup {write[w] : w \in Writes}}
    \cup {sync.started}

Rank(stamp) == Cardinality({p \in Pending : p < stamp})

Running(s) == header[s] = "running"

View ==
  [google |-> googleVars,
   row |-> <<row.value, Rank(row.stamp), Rank(row.seen), row.removed>>,
   overlay |-> <<overlay.live, overlay.value, overlay.stamp = row.stamp>>,
   sync |-> [sync EXCEPT !.started = Rank(@)],
   header |-> [s \in Syncs |-> <<header[s] = "none", Running(s)>>],
   targets |-> {s \in targets : Running(s)},
   run |-> [r \in Runs |-> IF run[r].pc = "none" \/ Holds(r) THEN run[r] ELSE RunOver],
   read |-> [e \in Reads |-> [read[e] EXCEPT !.stamp = Rank(@)]],
   write |-> [w \in Writes |-> [write[w] EXCEPT !.stamp = Rank(@)]],
   published |-> published,
   found |-> <<Rank(foundAt), foundAt <= row.stamp>>]

\* The syncs, the requests, the reads and the writes are alike.
Symmetry ==
  Permutations(Syncs) \cup Permutations(Runs) \cup Permutations(Reads)
    \cup Permutations(Writes)

=============================================================================
