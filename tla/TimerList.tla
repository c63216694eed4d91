------------------------------ MODULE TimerList ------------------------------
(***************************************************************************)
(* The linked list behind scheduler::schedule_timer, cancel_timer and      *)
(* dequeue_timer: a head pointer and the next_ep field of each timer's     *)
(* event.  next_ep is written exactly where the code writes it; in         *)
(* particular linking at the end relies on T->next_ep being NULL.          *)
(***************************************************************************)
EXTENDS TimerSeq, FiniteSets

CONSTANTS NULL, MaxStamp

ASSUME TimerListConstants ==
  IsFiniteSet(Timer) /\ NULL \notin Timer /\ MaxStamp \in Nat

VARIABLES timerHead_, next_ep, timeStamp_, currentTime_
listVars == <<timerHead_, next_ep, timeStamp_, currentTime_>>

ListInit == /\ timerHead_ = NULL
            /\ next_ep = [t \in Timer |-> NULL]
            /\ timeStamp_ = [t \in Timer |-> 0]
            /\ currentTime_ = 0

(* The events reached from head, at most one more than there are, so that  *)
(* a cycle shows as a repetition.                                          *)
Walks == UNION {[1 .. n -> Timer] : n \in 0 .. Cardinality(Timer) + 1}
Follows(c, i, head, next) == IF i = 0 THEN head ELSE next[c[i]]
ChainFrom(head, next) ==
  CHOOSE c \in Walks :
    /\ \A i \in DOMAIN c : c[i] = Follows(c, i - 1, head, next)
    /\ Len(c) = Cardinality(Timer) + 1 \/ Follows(c, Len(c), head, next) = NULL

Chain == ChainFrom(timerHead_, next_ep)

Linked(t) == \E i \in DOMAIN Chain : Chain[i] = t

-----------------------------------------------------------------------------
(* The loop of schedule_timer: hptr, the first event that expires strictly *)
(* later than s (NULL if none), and tptr, the event before it.             *)
Later_Ties(s) == {i \in DOMAIN Chain : s <= timeStamp_[Chain[i]]}   \* mutant: <= for <

Later(s) == {i \in DOMAIN Chain : s < timeStamp_[Chain[i]]}
hpos(s)  == IF Later(s) = {} THEN Len(Chain) + 1
            ELSE CHOOSE i \in Later(s) : \A j \in Later(s) : i <= j

LinkHead(t) == /\ timerHead_' = t
               /\ next_ep' = [next_ep EXCEPT ![t] = timerHead_]

LinkBefore(t, p) == /\ next_ep' = [next_ep EXCEPT ![t] = Chain[p], ![Chain[p - 1]] = t]
                    /\ UNCHANGED timerHead_

LinkLast(t) == /\ next_ep' = [next_ep EXCEPT ![Chain[Len(Chain)]] = t]
               /\ UNCHANGED timerHead_

LinkOnly(t) == timerHead_' = t /\ UNCHANGED next_ep

(* timerObj sets the time stamp and schedules an event that is not linked  *)
(* (module Scheduler, FlagsMatchList).                                     *)
schedule_timer(t, s) ==
  /\ ~Linked(t)
  /\ timeStamp_' = [timeStamp_ EXCEPT ![t] = s]
  /\ UNCHANGED currentTime_
  /\ \/ s < currentTime_ /\ UNCHANGED <<timerHead_, next_ep>>
     \/ s >= currentTime_ /\ timerHead_ = NULL /\ LinkOnly(t)
     \/ s >= currentTime_ /\ timerHead_ # NULL /\ hpos(s) = 1 /\ LinkHead(t)
     \/ s >= currentTime_ /\ hpos(s) \in 2 .. Len(Chain) /\ LinkBefore(t, hpos(s))
     \/ s >= currentTime_ /\ timerHead_ # NULL /\ hpos(s) > Len(Chain) /\ LinkLast(t)

(* Mutant: the unlinked event keeps its next_ep. *)
Unlink_Dangling(t) == \/ /\ t = timerHead_
                         /\ timerHead_' = next_ep[t]
                         /\ UNCHANGED next_ep
                      \/ \E i \in 2 .. Len(Chain) :
                           /\ Chain[i] = t
                           /\ next_ep' = [next_ep EXCEPT ![Chain[i - 1]] = next_ep[t]]
                           /\ UNCHANGED timerHead_

(* cancel_timer is called for linked and for unlinked events alike. *)
Unlink(t) == \/ /\ t = timerHead_
                /\ timerHead_' = next_ep[t]
                /\ next_ep' = [next_ep EXCEPT ![t] = NULL]
             \/ \E i \in 2 .. Len(Chain) :
                  /\ Chain[i] = t
                  /\ next_ep' = [next_ep EXCEPT ![Chain[i - 1]] = next_ep[t], ![t] = NULL]
                  /\ UNCHANGED timerHead_

cancel_timer(t) == /\ IF Linked(t) THEN Unlink(t) ELSE UNCHANGED <<timerHead_, next_ep>>
                   /\ UNCHANGED <<timeStamp_, currentTime_>>

(* dequeue_timer, and the clock deqtimer sets from its result. *)
dequeue_timer == /\ timerHead_ # NULL
                 /\ timerHead_' = next_ep[timerHead_]
                 /\ next_ep' = [next_ep EXCEPT ![timerHead_] = NULL]
                 /\ currentTime_' = timeStamp_[timerHead_]
                 /\ UNCHANGED timeStamp_

ListNext == \/ dequeue_timer
            \/ \E t \in Timer : cancel_timer(t)
            \/ \E t \in Timer, s \in 0 .. MaxStamp : schedule_timer(t, s)

ListSpec == ListInit /\ [][ListNext]_listVars

-----------------------------------------------------------------------------
(* Pointers refer to events or to nothing. *)
PointersOK == /\ timerHead_ \in Timer \cup {NULL}
              /\ next_ep \in [Timer -> Timer \cup {NULL}]
              /\ timeStamp_ \in [Timer -> 0 .. MaxStamp]
              /\ currentTime_ \in 0 .. MaxStamp

(* An event outside the list carries no pointer into it: what linking at   *)
(* the end of the list relies on (schedule_timer does not clear next_ep).  *)
UnlinkedPointNowhere == \A t \in Timer : ~Linked(t) => next_ep[t] = NULL

(* The pointer surgery implements the ordered queue of timers. *)
Queue == INSTANCE TimerQueue WITH
           list <- Chain, expire <- timeStamp_, now <- currentTime_
IsQueue == Queue!Spec
=============================================================================
