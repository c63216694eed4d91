----------------------------- MODULE EventQueue -----------------------------
(***************************************************************************)
(* What the event heap of the simulation engine promises to the scheduler: *)
(* an agenda of events.  An event is a record [ts, prio] (timeStamp_ and   *)
(* priority_ of Event_ in event.h); equal events may be pending more than  *)
(* once, so the agenda counts them.  Inserting adds exactly one event or,  *)
(* when it lies past the end of the simulation, leaves the agenda alone;   *)
(* dequeuing removes exactly one event, one with the smallest time stamp,  *)
(* and moves the virtual clock to it.                                      *)
(***************************************************************************)
EXTENDS Naturals

CONSTANT Event          \* the events a module may schedule

VARIABLES pending,      \* how often each event is scheduled and not yet executed
          now           \* the virtual clock

vars == <<pending, now>>

Init == pending = [e \in Event |-> 0] /\ now = 0

Insert(e) == /\ e.ts >= now
             /\ pending' = [pending EXCEPT ![e] = @ + 1]
             /\ UNCHANGED now

Earliest(e) == /\ pending[e] > 0
               /\ \A f \in Event : pending[f] > 0 => e.ts <= f.ts

Dequeue(e) == /\ Earliest(e)
              /\ pending' = [pending EXCEPT ![e] = @ - 1]
              /\ now' = e.ts

Next == \E e \in Event : Insert(e) \/ Dequeue(e)

Spec == Init /\ [][Next]_vars

=============================================================================
