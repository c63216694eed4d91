------------------------------ MODULE TimerSeq ------------------------------
(***************************************************************************)
(* The timer list of the scheduler as a sequence of timers, soonest first. *)
(* x gives each timer's expiry (timeStamp_ of its event).  Module          *)
(* TimerList shows that the linked list of scheduler.cc behaves like this. *)
(***************************************************************************)
EXTENDS Integers, Sequences

CONSTANT Timer     \* timerObj instances

InList(t, l) == \E i \in DOMAIN l : l[i] = t

Injective(l) == \A i, j \in DOMAIN l : l[i] = l[j] => i = j

Sorted(l, x) == \A i, j \in DOMAIN l : i <= j => x[l[i]] <= x[l[j]]

(* schedule_timer links T in front of the first timer that expires         *)
(* strictly later, at the end if there is none.                            *)
FirstLater(l, x, s) ==
  CHOOSE p \in 1 .. Len(l) + 1 : /\ \A i \in 1 .. p - 1 : x[l[i]] <= s
                                 /\ p <= Len(l) => s < x[l[p]]

InsertAt(l, p, t) ==
  [i \in 1 .. Len(l) + 1 |-> IF i < p THEN l[i] ELSE IF i = p THEN t ELSE l[i - 1]]

Scheduled(l, x, t, clock) ==
  IF x[t] < clock THEN l ELSE InsertAt(l, FirstLater(l, x, x[t]), t)

(* cancel_timer unlinks T if it is there. *)
RemoveAt(l, k) == [i \in 1 .. Len(l) - 1 |-> IF i < k THEN l[i] ELSE l[i + 1]]

Canceled(l, t) ==
  IF InList(t, l) THEN RemoveAt(l, CHOOSE k \in DOMAIN l : l[k] = t) ELSE l

=============================================================================
