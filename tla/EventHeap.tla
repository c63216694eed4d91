------------------------------ MODULE EventHeap ------------------------------
(***************************************************************************)
(* HeapObject (heap.cc): the binary heap that holds the engine's events,   *)
(* used by scheduler::setEvent and scheduler::deqheap.  eventHeap_[1 ..    *)
(* numEvent_] is the sequence heap; slot 0 of the C array is never used.   *)
(***************************************************************************)
EXTENDS Naturals, Sequences, FiniteSets

CONSTANTS MaxEvent,     \* maxEvent_: slots of the array, slot 0 included
          maxsimtime,   \* simulateTime_; 0 before run() sets it
          MaxTimeStamp, \* largest time stamp a module asks for
          Prio          \* the values of priority_ in use

ASSUME HeapConstants == /\ MaxEvent \in Nat \ {0}
                        /\ maxsimtime \in Nat /\ MaxTimeStamp \in Nat
                        /\ Prio \subseteq Nat

VARIABLES heap, curtime, status
arrayVars == <<heap, curtime, status>>

Event == [ts : 0 .. MaxTimeStamp, prio : Prio]

HeapInit == heap = <<>> /\ curtime = 0 /\ status = "run"

-----------------------------------------------------------------------------
(* Slot i and the slots above it, the root included. *)
Lineage[i \in Nat \ {0}] == IF i = 1 THEN {1} ELSE {i} \cup Lineage[i \div 2]

(* insertEvent's loop stops below the parent p of the hole. *)
StopsBelow(e, p) == \/ e.ts > p.ts
                    \/ e.ts = p.ts /\ e.prio <= p.prio

(* The loop of insertEvent ends with the hole at slot i. *)
Stays(h, e, i) == i = 1 \/ StopsBelow(e, h[i \div 2])

(* The first such slot on the way up from slot n. *)
InsertSlot(h, e, n) ==
  CHOOSE i \in Lineage[n] : /\ Stays(h, e, i)
                            /\ \A k \in Lineage[n] : k > i => ~Stays(h, e, k)

(* The ancestors passed on the way up each move one level down. *)
SiftUp(h, e) ==
  LET n == Len(h) + 1
      s == InsertSlot(h, e, n)
  IN  [k \in 1 .. n |-> CASE k = s                        -> e
                          [] k \in Lineage[n] /\ k > s    -> h[k \div 2]
                          [] OTHER                        -> h[k]]

(* The child of i that dequeueEvent compares with the last event: the      *)
(* right one whenever the left one's time stamp is not smaller.            *)
Child(h, n, i) == LET j == 2 * i
                  IN  IF j < n /\ h[j].ts >= h[j + 1].ts THEN j + 1 ELSE j

(* dequeueEvent's loop stops above the child c. *)
StopsAbove(e, c) == \/ e.ts < c.ts
                    \/ e.ts = c.ts /\ e.prio > c.prio

(* Mutant: the loop condition is j < numEvent_. *)
Settles_StopsEarly(h, n, i) ==
  2 * i >= n \/ StopsAbove(h[n + 1], h[Child(h, n, i)])

(* The loop ends with the hole at slot i, n events remaining; h[n + 1] is  *)
(* the last event.                                                         *)
Settles(h, n, i) == 2 * i > n \/ StopsAbove(h[n + 1], h[Child(h, n, i)])

(* The hole, which starts at the root, gets down to slot i. *)
Sinks(h, n, i) == \A k \in Lineage[i] \ {1} :
                    ~Settles(h, n, k \div 2) /\ k = Child(h, n, k \div 2)

DequeueSlot(h, n) == CHOOSE i \in 1 .. n + 1 : Sinks(h, n, i) /\ Settles(h, n, i)

(* The slots passed on the way down each take the event below them. *)
SiftDown(h) ==
  LET n == Len(h) - 1
      s == DequeueSlot(h, n)
  IN  [k \in 1 .. n |-> CASE k = s                     -> h[n + 1]
                          [] k \in Lineage[s] \ {s}    -> h[Child(h, n, k)]
                          [] OTHER                     -> h[k]]

-----------------------------------------------------------------------------

Full == Len(heap) >= MaxEvent - 1

(* insertEvent: ErrorMesg and exit(0) end the process; an event past the   *)
(* end of the simulation is refused without an error.                      *)
InsertFails(e) == /\ Full \/ e.ts < curtime
                  /\ status' = "exit"
                  /\ UNCHANGED <<heap, curtime>>

InsertPastEnd(e) == /\ ~Full /\ e.ts >= curtime
                    /\ maxsimtime > 0 /\ e.ts > maxsimtime
                    /\ UNCHANGED arrayVars

InsertAccepts(e) == /\ ~Full /\ e.ts >= curtime
                    /\ ~(maxsimtime > 0 /\ e.ts > maxsimtime)
                    /\ heap' = SiftUp(heap, e)
                    /\ UNCHANGED <<curtime, status>>

insertEvent(e) == /\ status = "run"
                  /\ InsertFails(e) \/ InsertPastEnd(e) \/ InsertAccepts(e)

(* dequeueEvent as scheduler::deqheap calls it: the clock moves to the     *)
(* event, or the process exits because the event was missed.               *)
dequeueEvent == /\ status = "run"
                /\ heap # <<>>
                /\ heap' = SiftDown(heap)
                /\ IF heap[1].ts < curtime
                   THEN status' = "exit" /\ UNCHANGED curtime
                   ELSE curtime' = heap[1].ts /\ UNCHANGED status

HeapNext == dequeueEvent \/ \E e \in Event : insertEvent(e)

HeapSpec == HeapInit /\ [][HeapNext]_arrayVars

-----------------------------------------------------------------------------
(* The state has the shape of HeapObject's fields. *)
HeapOK == /\ heap \in Seq(Event) /\ Len(heap) < MaxEvent
          /\ curtime \in 0 .. MaxTimeStamp
          /\ status \in {"run", "exit"}

(* Seen from outside, the array counts the pending events: no sift loses,  *)
(* duplicates or invents an event, and the one taken out is an earliest.   *)
Count(e) == Cardinality({i \in DOMAIN heap : heap[i] = e})

Agenda == INSTANCE EventQueue WITH pending <- [e \in Event |-> Count(e)], now <- curtime
IsAgenda == Agenda!Spec

(* heap.cc:129-134: "if the time stamp is equal, we will compare priority  *)
(* of event ... recursive find correct position for every heap element":   *)
(* the event about to be executed has the highest priority of its instant. *)
PriorityOrder ==
  \A i \in DOMAIN heap : heap[i].ts = heap[1].ts => heap[i].prio <= heap[1].prio

=============================================================================
