------------------------------ MODULE JobBoard ------------------------------
(***************************************************************************)
(* What the job service promises those who submit background jobs: jobs    *)
(* begin in the order of their submission, a host simulates one job at a   *)
(* time, and every job is simulated once.                                  *)
(***************************************************************************)
EXTENDS Naturals, Sequences

CONSTANTS Host, Job

VARIABLES waiting,   \* jobs that have not begun, in order
          place      \* "new", "waiting", "over", or the host that runs a job

vars == <<waiting, place>>

Init == waiting = <<>> /\ place = [j \in Job |-> "new"]

Submit(j) == /\ place[j] = "new"
             /\ waiting' = Append(waiting, j)
             /\ place' = [place EXCEPT ![j] = "waiting"]

Begin(h) == /\ waiting # <<>> /\ \A j \in Job : place[j] # h
            /\ place' = [place EXCEPT ![Head(waiting)] = h]
            /\ waiting' = Tail(waiting)

End(j) == /\ place[j] \in Host
          /\ place' = [place EXCEPT ![j] = "over"]
          /\ UNCHANGED waiting

Next == \/ \E j \in Job : Submit(j) \/ End(j)
        \/ \E h \in Host : Begin(h)

Spec == /\ Init /\ [][Next]_vars
        /\ WF_vars(\E h \in Host : Begin(h))
        /\ \A j \in Job : WF_vars(End(j))
=============================================================================
