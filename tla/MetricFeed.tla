----------------------------- MODULE MetricFeed -----------------------------
(***************************************************************************)
(* What the exporters may rely on about one collector's slot of the        *)
(* MetricStore, whatever the bus does: snapshots are replaced as a whole,  *)
(* a name that was published stays published, a device value is never      *)
(* replaced by an older one nor an error counter by a smaller one, and     *)
(* after the collector has closed its feed the snapshot is frozen.         *)
(***************************************************************************)
EXTENDS Integers

VARIABLES
    snapshot,  \* name -> [src, n]: where the value comes from and how recent it is
    open       \* the collector task has not returned

vars == <<snapshot, open>>

Init == snapshot = [n \in {} |-> 0] /\ open = TRUE

\* new says nothing older than old about any name old has.
Advances(old, new) ==
    /\ DOMAIN old \subseteq DOMAIN new
    /\ \A n \in DOMAIN old : new[n].src = old[n].src /\ new[n].n >= old[n].n

\* The last publication may close the feed in the same step.
Replace ==
    /\ open
    /\ Advances(snapshot, snapshot')
    /\ open' \in BOOLEAN

Close == open /\ open' = FALSE /\ UNCHANGED snapshot

Next == Replace \/ Close

Spec == Init /\ [][Next]_vars
=============================================================================
