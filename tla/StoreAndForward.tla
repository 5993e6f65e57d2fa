--------------------------- MODULE StoreAndForward ---------------------------
(***************************************************************************)
(* What an edge site promises about each event, whatever its buffer, its   *)
(* batches and its connection look like: an event is delivered at most     *)
(* once and for good, a held event is only given up to make room for       *)
(* another one, and an event is lost outright only instead of being held.  *)
(* A redelivered message may bring a lost event back.                      *)
(***************************************************************************)
CONSTANT Event

VARIABLE fate

Fates == {"unseen", "held", "delivered", "lost"}

Init == fate = [e \in Event |-> "unseen"]

\* e is kept locally; an older held event o may have to go.
Hold(e) ==
  /\ fate[e] \in {"unseen", "lost"}
  /\ \/ fate' = [fate EXCEPT ![e] = "held"]
     \/ \E o \in Event \ {e} : /\ fate[o] = "held"
                               /\ fate' = [fate EXCEPT ![e] = "held", ![o] = "lost"]

\* Room for a second copy of an event already held or delivered.
GiveUp(o) == fate[o] = "held" /\ fate' = [fate EXCEPT ![o] = "lost"]

Deliver(e) == fate[e] # "delivered" /\ fate' = [fate EXCEPT ![e] = "delivered"]

Lose(e) == fate[e] = "unseen" /\ fate' = [fate EXCEPT ![e] = "lost"]

\* The insert was committed, but its answer never came: e is delivered, is
\* buffered as well, and takes the place of o.
DeliverAndEvict(e, o) ==
  /\ fate[e] # "delivered" /\ o # e /\ fate[o] = "held"
  /\ fate' = [fate EXCEPT ![e] = "delivered", ![o] = "lost"]

Next ==
  \E e \in Event :
    \/ Hold(e) \/ GiveUp(e) \/ Deliver(e) \/ Lose(e)
    \/ \E o \in Event : DeliverAndEvict(e, o)

Spec == Init /\ [][Next]_fate
=============================================================================
