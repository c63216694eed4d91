----------------------------- MODULE TimerQueue -----------------------------
(***************************************************************************)
(* What the timer list promises: timers leave it in order of expiry, and   *)
(* of scheduling where they expire together.                               *)
(***************************************************************************)
EXTENDS TimerSeq

CONSTANT MaxStamp

VARIABLES list, expire, now
vars == <<list, expire, now>>

Init == list = <<>> /\ expire = [t \in Timer |-> 0] /\ now = 0

Schedule(t, s) == /\ ~InList(t, list)
                  /\ expire' = [expire EXCEPT ![t] = s]
                  /\ list' = Scheduled(list, expire', t, now)
                  /\ UNCHANGED now

Cancel(t) == list' = Canceled(list, t) /\ UNCHANGED <<expire, now>>

Dequeue == /\ list # <<>>
           /\ list' = Tail(list)
           /\ now' = expire[Head(list)]
           /\ UNCHANGED expire

Next == \/ Dequeue
        \/ \E t \in Timer : Cancel(t) \/ \E s \in 0 .. MaxStamp : Schedule(t, s)

Spec == Init /\ [][Next]_vars
=============================================================================
