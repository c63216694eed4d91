------------------------------ MODULE Scheduler ------------------------------
(***************************************************************************)
(* The discrete-event scheduler of the simulation engine (scheduler.cc)    *)
(* and the timers modules use (timer.cc).  Virtual time is counted in      *)
(* ticks.  Pending work sits in two places: the event heap, here a set     *)
(* from which an earliest event is taken (what module EventHeap is shown   *)
(* to provide), and the timer list, kept sorted by expiry.  One iteration  *)
(* of executeEvent drains the kernel's event tunnel (readt0e), executes    *)
(* one event or timer, runs the module code it calls out to, and tests the *)
(* loop condition.                                                         *)
(***************************************************************************)
EXTENDS Integers, Sequences, FiniteSets, TimerSeq

CONSTANTS Ev,             \* Event_ structures for the heap
          SimTime,        \* run()'s argument, in ticks
          IpcInterval,    \* CHECK_IPC_COMMAND_INTERVAL, in ticks
          TicksPerMicro,  \* 1000/TICK
          MaxDelay,       \* bound: largest delay a module or the kernel asks for
          MaxCalls        \* bound: API calls and kernel requests in a behaviour

ASSUME SchedulerConstants ==
  /\ SimTime \in Nat /\ MaxDelay \in Nat /\ MaxCalls \in Nat
  /\ IpcInterval \in Nat \ {0} /\ TicksPerMicro \in Nat \ {0}

VARIABLES
  now,            \* currentTime_[0]
  simulateTime_,  \* uninitialised until run() assigns it
  phase,          \* where the engine is: init, poll, module, kernel, done, exit
  heapq, stamp, flag,                     \* the heap; timeStamp_ and kind of an event
  list, expire, perio, busy, paused, rtime,  \* the timer list and the timerObj fields
  t0e,            \* queue of the event tunnel
  left,           \* history: ticks a started timer still has to run
  calls           \* bound counter

timerVars == <<list, expire, perio, busy, paused, rtime>>
heapVars  == <<heapq, stamp, flag>>
vars == <<now, simulateTime_, phase, heapVars, timerVars, t0e, left, calls>>

Delay  == 0 .. MaxDelay
Flag   == {"call", "ipc", "ktimeout", "chktun", "cmd"}
Phase  == {"init", "poll", "module", "kernel", "done", "exit"}
TunFlag == {"ktimeout", "chktun", "cmd", "pgid"}
TunEvent == [flag : TunFlag, value : Nat]

Init ==
  /\ now = 0 /\ simulateTime_ \in 0 .. MaxDelay /\ phase = "init"
  /\ heapq = {} /\ stamp = [e \in Ev |-> 0] /\ flag = [e \in Ev |-> "call"]
  /\ list = <<>>
  /\ expire = [t \in Timer |-> 0] /\ perio = [t \in Timer |-> 0]
  /\ busy = [t \in Timer |-> FALSE] /\ paused = [t \in Timer |-> FALSE]
  /\ rtime = [t \in Timer |-> 0]
  /\ t0e = <<>> /\ left = [t \in Timer |-> 0] /\ calls = 0

-----------------------------------------------------------------------------
(* The heap: setEvent refuses an event past the end of the simulation.     *)
Accepted(s, end) == ~(end > 0 /\ s > end)

HeapWith(q, e, s) == IF Accepted(s, simulateTime_) THEN q \cup {e} ELSE q

(* e is a free structure and takes stamp s; a stamp in the past ends the   *)
(* process (insertEvent's exit(0)).                                        *)
setEvent(e, s, f) ==
  /\ e \notin heapq
  /\ stamp' = [stamp EXCEPT ![e] = s]
  /\ flag' = [flag EXCEPT ![e] = f]
  /\ heapq' = IF s < now THEN heapq ELSE HeapWith(heapq, e, s)
  /\ phase' = IF s < now THEN "exit" ELSE phase

-----------------------------------------------------------------------------
(* Module code: start-up code before run(), call-outs and served binders   *)
(* during it.  MBinder polling (executeEvent's MBH loop) is module code.   *)
Calling == /\ phase \in {"init", "module"}
           /\ calls < MaxCalls
           /\ calls' = calls + 1
           /\ UNCHANGED <<now, simulateTime_, t0e>>

(* Bound: the structures in use, one of them kept for run(). *)
Spare == Cardinality(heapq) + Len(t0e) + (IF phase = "init" THEN 1 ELSE 0)
           < Cardinality(Ev)

(* SET_FUNC_EVENT / SET_OBJ_EVENT at currentTime_ + d. *)
ScheduleEvent(e, d) == /\ Calling /\ Spare
                       /\ setEvent(e, now + d, "call")
                       /\ UNCHANGED <<timerVars, left>>

(* Mutant: a busy timer is not cancelled first. *)
start_NoCancel(t, d, p) ==
  /\ Calling
  /\ busy' = [busy EXCEPT ![t] = TRUE]
  /\ paused' = [paused EXCEPT ![t] = FALSE]
  /\ rtime' = [rtime EXCEPT ![t] = 0]
  /\ expire' = [expire EXCEPT ![t] = now + d]
  /\ perio' = [perio EXCEPT ![t] = p]
  /\ list' = Scheduled(list, expire', t, now)
  /\ left' = [left EXCEPT ![t] = d]
  /\ UNCHANGED <<phase, heapVars>>

start(t, d, p) ==
  LET l == IF busy[t] THEN Canceled(list, t) ELSE list
  IN  /\ Calling
      /\ busy' = [busy EXCEPT ![t] = TRUE]
      /\ paused' = [paused EXCEPT ![t] = FALSE]
      /\ rtime' = [rtime EXCEPT ![t] = 0]
      /\ expire' = [expire EXCEPT ![t] = now + d]
      /\ perio' = [perio EXCEPT ![t] = p]
      /\ list' = Scheduled(l, expire', t, now)
      /\ left' = [left EXCEPT ![t] = d]
      /\ UNCHANGED <<phase, heapVars>>

cancel(t) == /\ Calling
             /\ busy' = [busy EXCEPT ![t] = FALSE]
             /\ paused' = [paused EXCEPT ![t] = FALSE]
             /\ rtime' = [rtime EXCEPT ![t] = 0]
             /\ list' = Canceled(list, t)
             /\ UNCHANGED <<phase, heapVars, expire, perio, left>>

(* The MACs pause a backoff timer only when busy_ and not paused_, and     *)
(* resume it only when paused_ (CHECK_BACKOFF_TIMER, navHandler).          *)
pause(t) == /\ busy[t] /\ ~paused[t]
            /\ Calling
            /\ paused' = [paused EXCEPT ![t] = TRUE]
            /\ rtime' = [rtime EXCEPT
                           ![t] = IF now > expire[t] THEN 0 ELSE expire[t] - now]
            /\ list' = Canceled(list, t)
            /\ UNCHANGED <<phase, heapVars, expire, perio, busy, left>>

(* Mutant: rtime_ is forgotten. *)
resume_NoRemainder(t, d) ==
  /\ paused[t]
  /\ Calling
  /\ paused' = [paused EXCEPT ![t] = FALSE]
  /\ expire' = [expire EXCEPT ![t] = now + d]
  /\ rtime' = [rtime EXCEPT ![t] = 0]
  /\ list' = Scheduled(list, expire', t, now)
  /\ left' = [left EXCEPT ![t] = left[t] + d]
  /\ UNCHANGED <<phase, heapVars, perio, busy>>

resume(t, d) == /\ paused[t]
                /\ Calling
                /\ paused' = [paused EXCEPT ![t] = FALSE]
                /\ expire' = [expire EXCEPT ![t] = now + d + rtime[t]]
                /\ rtime' = [rtime EXCEPT ![t] = 0]
                /\ list' = Scheduled(list, expire', t, now)
                /\ left' = [left EXCEPT ![t] = left[t] + d]
                /\ UNCHANGED <<phase, heapVars, perio, busy>>

(* The overload without an argument leaves rtime_ as it is. *)
resumeNow(t) == /\ paused[t]
                /\ Calling
                /\ paused' = [paused EXCEPT ![t] = FALSE]
                /\ expire' = [expire EXCEPT ![t] = now + rtime[t]]
                /\ list' = Scheduled(list, expire', t, now)
                /\ UNCHANGED <<phase, heapVars, perio, busy, rtime, left>>

-----------------------------------------------------------------------------
(* run: the end of the simulation is set, the first IPC check scheduled.   *)
run == /\ phase = "init"
       /\ simulateTime_' = SimTime
       /\ phase' = "poll"
       /\ \E e \in Ev \ heapq :
            /\ heapq' = IF Accepted(now + IpcInterval, SimTime)
                        THEN heapq \cup {e} ELSE heapq
            /\ stamp' = [stamp EXCEPT ![e] = now + IpcInterval]
            /\ flag' = [flag EXCEPT ![e] = "ipc"]
       /\ UNCHANGED <<now, timerVars, t0e, left, calls>>

(* External: the kernel asks for a call-out at a microsecond that is not   *)
(* over, for an IPC or tunnel check, or for the end of a child process at  *)
(* a tick to come, while the engine is between two clock advances.         *)
KernelRequest(te) ==
  /\ phase \in {"poll", "module", "kernel"}
  /\ calls < MaxCalls /\ Spare
  /\ te.flag \in {"ktimeout", "cmd"} => te.value >= now \div TicksPerMicro
  /\ te.flag = "pgid" => te.value >= now
  /\ te.flag = "chktun" => te.value = 0
  /\ t0e' = Append(t0e, te)
  /\ calls' = calls + 1
  /\ UNCHANGED <<now, simulateTime_, phase, heapVars, timerVars, left>>

(* Mutant: a microsecond under way is not clamped to the clock. *)
Ticks_NoClamp(te) == CASE te.flag = "ktimeout" -> te.value * TicksPerMicro
                       [] te.flag = "cmd"      -> te.value * TicksPerMicro + 1
                       [] te.flag = "pgid"     -> te.value
                       [] te.flag = "chktun"   -> now

(* The tick readt0e gives the event: microseconds are scaled, never into   *)
(* the past; a process end is taken as ticks as it is.                     *)
Ticks(te) ==
  LET scaled  == te.value * TicksPerMicro
      clamped == IF scaled < now THEN now ELSE scaled
  IN  CASE te.flag = "ktimeout" -> clamped
        [] te.flag = "cmd"      -> clamped + 1
        [] te.flag = "pgid"     -> te.value
        [] te.flag = "chktun"   -> now

TooLate(te) == te.flag # "chktun" /\ now \div TicksPerMicro > te.value

EventFlag(te) == IF te.flag = "pgid" THEN "call" ELSE te.flag

(* readt0e, one entry of the tunnel: its loop drains the tunnel. *)
readt0e == /\ phase = "poll" /\ t0e # <<>>
           /\ t0e' = Tail(t0e)
           /\ IF TooLate(Head(t0e))
              THEN phase' = "exit" /\ UNCHANGED heapVars
              ELSE \E e \in Ev : setEvent(e, Ticks(Head(t0e)), EventFlag(Head(t0e)))
           /\ UNCHANGED <<now, simulateTime_, timerVars, left, calls>>

-----------------------------------------------------------------------------
Selecting == phase = "poll" /\ t0e = <<>>

Earliest(e) == e \in heapq /\ \A f \in heapq : stamp[e] <= stamp[f]

(* Timer events keep priority 0, so at equal stamps the heap goes first.   *)
HeapFirst(e) == list # <<>> => stamp[e] <= expire[Head(list)]
TimerFirst   == \A e \in heapq : expire[Head(list)] < stamp[e]

(* The clock moves to s; timers in the list have run that much longer.     *)
AdvanceTo(s) ==
  /\ now' = s
  /\ left' = [t \in Timer |-> IF InList(t, list) THEN left[t] - (s - now) ELSE left[t]]

(* deqheap and deqtimer give up on an event that lies in the past. *)
missed == /\ phase' = "exit"
          /\ UNCHANGED <<now, simulateTime_, heapVars, timerVars, t0e, left, calls>>

(* What deqheap does with the event: kernel call-outs and tunnel checks    *)
(* run no module code; a tunnel with packets (external, b) is read by an   *)
(* event at this instant; the IPC check schedules the next one.            *)
executeHeap(e, b) ==
  /\ AdvanceTo(stamp[e])
  /\ phase' = IF flag[e] \in {"ktimeout", "chktun"} THEN "kernel" ELSE "module"
  /\ CASE flag[e] = "ipc" ->
            /\ heapq' = HeapWith(heapq \ {e}, e, stamp[e] + IpcInterval)
            /\ stamp' = [stamp EXCEPT ![e] = stamp[e] + IpcInterval]
            /\ UNCHANGED flag
       [] flag[e] = "chktun" /\ b ->
            /\ heapq' = HeapWith(heapq \ {e}, e, stamp[e])
            /\ flag' = [flag EXCEPT ![e] = "call"]
            /\ UNCHANGED stamp
       [] OTHER -> heapq' = heapq \ {e} /\ UNCHANGED <<stamp, flag>>
  /\ UNCHANGED <<simulateTime_, timerVars, t0e, calls>>

deqheap(e, b) == /\ Selecting /\ Earliest(e) /\ HeapFirst(e)
                 /\ IF stamp[e] < now THEN missed ELSE executeHeap(e, b)

(* What deqtimer does with the timer: a periodic one is linked again       *)
(* before its call-out, another one is reset by init().                    *)
executeTimer(t, s) ==
  /\ now' = s
  /\ IF perio[t] > 0
     THEN /\ expire' = [expire EXCEPT ![t] = s + perio[t]]
          /\ list' = Scheduled(Tail(list), expire', t, s)
          /\ UNCHANGED <<busy, paused, rtime>>
     ELSE /\ list' = Tail(list)
          /\ busy' = [busy EXCEPT ![t] = FALSE]
          /\ paused' = [paused EXCEPT ![t] = FALSE]
          /\ rtime' = [rtime EXCEPT ![t] = 0]
          /\ UNCHANGED expire
  /\ left' = [u \in Timer |-> IF u = t THEN perio[t]
                              ELSE IF InList(u, list) THEN left[u] - (s - now)
                              ELSE left[u]]
  /\ phase' = "module"
  /\ UNCHANGED <<simulateTime_, heapVars, perio, t0e, calls>>

deqtimer == /\ Selecting /\ list # <<>> /\ TimerFirst
            /\ IF expire[Head(list)] < now
               THEN missed ELSE executeTimer(Head(list), expire[Head(list)])

(* Mutant: the loop spins when no event is left. *)
drained_Spins == /\ Selecting /\ heapq = {} /\ list = <<>>
                 /\ UNCHANGED vars

(* No event is left: the clock is put past the end. *)
drained == /\ Selecting /\ heapq = {} /\ list = <<>>
           /\ now' = simulateTime_ + 1
           /\ phase' = "done"
           /\ UNCHANGED <<simulateTime_, heapVars, timerVars, t0e, left, calls>>

LoopAgain_Strict  == now < simulateTime_             \* mutant: < for <=

(* The condition of executeEvent's loop. *)
LoopAgain == now <= simulateTime_

endStep == /\ phase \in {"module", "kernel"}
           /\ phase' = IF LoopAgain THEN "poll" ELSE "done"
           /\ UNCHANGED <<now, simulateTime_, heapVars, timerVars, t0e, left, calls>>

-----------------------------------------------------------------------------
ModuleCall == \/ \E e \in Ev, d \in Delay : ScheduleEvent(e, d)
              \/ \E t \in Timer, d \in Delay, p \in Delay : start(t, d, p)
              \/ \E t \in Timer : cancel(t) \/ pause(t) \/ resumeNow(t)
              \/ \E t \in Timer, d \in Delay : resume(t, d)

Kernel == \E f \in TunFlag, v \in 0 .. SimTime + MaxDelay :
            KernelRequest([flag |-> f, value |-> v])

Engine == \/ run \/ readt0e \/ deqtimer \/ drained \/ endStep
          \/ \E e \in Ev, b \in BOOLEAN : deqheap(e, b)

Next == ModuleCall \/ Kernel \/ Engine

Spec == Init /\ [][Next]_vars

(* The engine's loop never blocks; modules and the kernel may stop calling. *)
FairSpec == Spec /\ WF_vars(Engine)

-----------------------------------------------------------------------------
(* Every variable keeps the type of the field it stands for. *)
TypeOK ==
  /\ now \in Nat /\ simulateTime_ \in Nat /\ calls \in Nat /\ phase \in Phase
  /\ heapq \subseteq Ev /\ stamp \in [Ev -> Nat] /\ flag \in [Ev -> Flag]
  /\ list \in Seq(Timer) /\ expire \in [Timer -> Nat] /\ perio \in [Timer -> Nat]
  /\ busy \in [Timer -> BOOLEAN] /\ paused \in [Timer -> BOOLEAN]
  /\ rtime \in [Timer -> Nat] /\ left \in [Timer -> Int]
  /\ t0e \in Seq(TunEvent)

(* A request the tunnel still has time for. *)
InTime(te) == ~TooLate(te) /\ (te.flag = "pgid" => te.value >= now)

(* Nothing pending ever falls behind the clock, whatever modules and       *)
(* kernel schedule between two events: deqheap and deqtimer advance the    *)
(* clock only to the earlier of their two heads.                           *)
NothingBehind == /\ \A e \in heapq : stamp[e] >= now
                 /\ \A i \in DOMAIN list : expire[list[i]] >= now
                 /\ \A i \in DOMAIN t0e : InTime(t0e[i])

(* None of the exit(0) paths is taken: no event is missed by deqheap or    *)
(* deqtimer, inserted in the past, or read too late from the tunnel.       *)
NoExit == phase # "exit"

(* The flags of a timerObj tell where its event is: it is in the list,     *)
(* once, exactly when busy_ and not paused_, so start, pause, cancel and   *)
(* the reset in deqtimer never link an event that is already linked.       *)
FlagsMatchList ==
  /\ \A t \in Timer : InList(t, list) <=> busy[t] /\ ~paused[t]
  /\ \A t \in Timer : paused[t] => busy[t]
  /\ Injective(list)

(* The timer list stays sorted, so its head is the next timer to expire.   *)
ListSorted == Sorted(list, expire)

(* Pausing and resuming conserve the time a timer has to run: it expires   *)
(* after having been in the list for exactly the ticks start and resume    *)
(* gave it, however often it was paused and whatever ran meanwhile.        *)
DelayConserved ==
  \A t \in Timer : /\ InList(t, list) => expire[t] = now + left[t]
                   /\ paused[t] => rtime[t] = left[t]

(* scheduler.cc:227-238: when the loop ends, everything due by the end of  *)
(* the simulation has been executed, all events at simulateTime_ included. *)
AllDueExecuted ==
  phase = "done" => /\ \A e \in heapq : stamp[e] > SimTime
                    /\ \A i \in DOMAIN list : expire[list[i]] > SimTime

(* Once modules and kernel stop asking for more, the simulation ends, in   *)
(* spite of periodic timers and of the IPC check that renews itself.       *)
Terminates == <>(phase = "done")

=============================================================================
