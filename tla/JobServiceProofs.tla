-------------------------- MODULE JobServiceProofs --------------------------
(* Why a background job is started at most once.  A job that was submitted  *)
(* is in one of four places, and moves on through them: the queue, the      *)
(* dispatcher's hands while it prepares a host, the start command under way *)
(* and its engine.  Whatever else is under way, answered wrongly, stopped   *)
(* or dead, no handler puts a job back or writes a second start command.    *)
(* Then types, and why an exchange that begins cleanly succeeds: the host    *)
(* runs nothing that could report, so one line at a time is under way.      *)
(* Then why a host the dispatcher calls FREE is idle, by the order of the   *)
(* lines between it and the dispatcher (its road), and why a job that is    *)
(* FINISHED has ended.                                                      *)
EXTENDS JobService, Integers, SequenceTheorems, WellFoundedInduction, TLAPS

\* The lines a dispatcher writes; a start command names a job.
Order == {l \in Lines : l.kind = "BG_start" => l.job \in Job}

\* The fields of disp.
Whole(d) == d = [pc |-> d.pc, host |-> d.host, run |-> d.run, caller |-> d.caller,
                 clean |-> d.clean]

Typed == /\ queue \in Seq(Job) /\ submitted \in Seq(Job)
         /\ down \in [Host -> Seq(Order)]
         /\ engine = [r \in Run |-> engine[r]]
         /\ Whole(disp) /\ (Dispatching => disp.run \in Job)

Member(s, j) == \E i \in DOMAIN s : s[i] = j
Once(s) == \A i, k \in DOMAIN s : s[i] = s[k] => i = k

\* Line i on the way to h starts j.
Starts(d, h, i, j) == i \in 1 .. Len(d[h]) /\ d[h][i] = LineOf("BG_start", j)
Sole(d) == \A g, h \in Host, j \in Job : \A i, k :
             Starts(d, g, i, j) /\ Starts(d, h, k, j) => g = h /\ i = k
Started(d, j) == \E h \in Host : \E i : Starts(d, h, i, j)

\* The places of jobs, had the queue and the record of submissions these contents.
PlacesWith(q, sub) ==
  /\ Once(sub) /\ Once(q) /\ Sole(down)
  /\ \A j \in Job :
       /\ Member(q, j) \/ Loading(j) \/ Started(down, j) \/ engine[j] # "none"
            => Member(sub, j)
       /\ Member(q, j) => ~Loading(j) /\ ~Started(down, j) /\ engine[j] = "none"
       /\ Loading(j) => ~Started(down, j) /\ engine[j] = "none"
       /\ Started(down, j) => engine[j] = "none"

Places == PlacesWith(queue, submitted)

IInv == Typed /\ Places

-----------------------------------------------------------------------------
(* Lines under way.                                                        *)

\* Every start command of e is one of d, perhaps some lines further from the head.
Older(d, e) == \E s \in [Host -> Nat] : \A h \in Host, j \in Job : \A i :
                 Starts(e, h, i, j) => Starts(d, h, i + s[h], j)

\* A start command is known by its job.
LEMMA LineOfInjective ==
  ASSUME NEW k, NEW j, NEW l, NEW i, LineOf(k, j) = LineOf(l, i)
  PROVE  k = l /\ j = i
<1>1. LineOf(k, j).kind = k /\ LineOf(k, j).job = j BY DEF LineOf
<1>2. LineOf(l, i).kind = l /\ LineOf(l, i).job = i BY DEF LineOf
<1>3. QED BY <1>1, <1>2

\* Nothing is written or taken.
LEMMA OlderSelf == ASSUME NEW d \in [Host -> Seq(Order)] PROVE Older(d, d)
<1> DEFINE s == [h \in Host |-> 0]
<1>1. s \in [Host -> Nat] OBVIOUS
<1>2. \A h \in Host, j \in Job : \A i : Starts(d, h, i, j) => Starts(d, h, i + s[h], j)
  <2> SUFFICES ASSUME NEW h \in Host, NEW j \in Job, NEW i, Starts(d, h, i, j)
               PROVE  Starts(d, h, i + s[h], j)
    OBVIOUS
  <2>1. i \in Int BY DEF Starts
  <2>2. i + s[h] = i BY <2>1
  <2>3. QED BY <2>2
<1>3. QED BY <1>1, <1>2 DEF Older

\* Lines that are no start commands are written.
LEMMA OlderWrite ==
  ASSUME down \in [Host -> Seq(Order)], NEW h, NEW ls \in Seq(Order),
         \A i \in DOMAIN ls : ls[i].kind # "BG_start", Write(h, ls)
  PROVE  down' \in [Host -> Seq(Order)] /\ Older(down, down')
<1>1. CASE down' = down BY <1>1, OlderSelf
<1>2. CASE down' # down
  <2>1. down' = [down EXCEPT ![h] = IF co[h].pc = "dead" THEN @ ELSE @ \o ls] BY DEF Write
  <2>2. h \in Host BY <1>2, <2>1
  <2>3. down[h] \in Seq(Order) BY <2>2
  <2>4. down' = [g \in Host |-> IF g = h THEN down[h] \o ls ELSE down[g]]
    BY <1>2, <2>1, <2>2
  <2>5. down[h] \o ls \in Seq(Order) BY <2>3
  <2>6. down' \in [Host -> Seq(Order)] BY <2>4, <2>5
  <2>7. \A g \in Host, j \in Job : \A i : Starts(down', g, i, j) => Starts(down, g, i, j)
    <3> SUFFICES ASSUME NEW g \in Host, NEW j \in Job, NEW i, Starts(down', g, i, j)
                 PROVE  Starts(down, g, i, j)
      OBVIOUS
    <3>1. CASE g # h BY <2>4, <3>1 DEF Starts
    <3>2. CASE g = h
      <4> DEFINE q == down[h]
      <4>1. i \in 1 .. Len(q \o ls) /\ (q \o ls)[i] = LineOf("BG_start", j)
        BY <2>4, <3>2 DEF Starts
      <4>2. CASE i <= Len(q)
        <5>1. i \in 1 .. Len(q) /\ (q \o ls)[i] = q[i] BY <2>3, <4>1, <4>2
        <5>2. QED BY <3>2, <4>1, <5>1 DEF Starts
      <4>3. CASE ~(i <= Len(q))
        <5>1. i - Len(q) \in DOMAIN ls /\ (q \o ls)[i] = ls[i - Len(q)]
          BY <2>3, <4>1, <4>3
        <5>2. ls[i - Len(q)].kind = "BG_start" BY <4>1, <5>1 DEF LineOf
        <5>3. QED BY <5>1, <5>2
      <4>4. QED BY <4>2, <4>3
    <3>3. QED BY <3>1, <3>2
  <2>8. Older(down, down')
    <3> DEFINE s == [g \in Host |-> 0]
    <3>1. s \in [Host -> Nat] OBVIOUS
    <3>2. \A g \in Host, j \in Job : \A i :
            Starts(down', g, i, j) => Starts(down, g, i + s[g], j)
      <4> SUFFICES ASSUME NEW g \in Host, NEW j \in Job, NEW i, Starts(down', g, i, j)
                   PROVE  Starts(down, g, i + s[g], j)
        OBVIOUS
      <4>1. i \in Int BY DEF Starts
      <4>2. i + s[g] = i BY <4>1
      <4>3. QED BY <2>7, <4>2
    <3>3. QED BY <3>1, <3>2 DEF Older
  <2>9. QED BY <2>6, <2>8
<1>3. QED BY <1>1, <1>2

\* The line at the head is taken, and is gone if it was a start command.
LEMMA OlderTake ==
  ASSUME down \in [Host -> Seq(Order)], NEW h \in Host, down[h] # <<>>, Take(h)
  PROVE  /\ down' \in [Host -> Seq(Order)] /\ Older(down, down')
         /\ Sole(down) => \A j \in Job : Head(down[h]) = LineOf("BG_start", j)
                                            => ~Started(down', j)
<1> DEFINE s == [g \in Host |-> IF g = h THEN 1 ELSE 0]
<1>1. down[h] \in Seq(Order) OBVIOUS
<1>2. Tail(down[h]) \in Seq(Order) BY <1>1
<1>3. down' = [g \in Host |-> IF g = h THEN Tail(down[h]) ELSE down[g]] BY DEF Take
<1>4. down' \in [Host -> Seq(Order)] BY <1>2, <1>3
<1>5. s \in [Host -> Nat] OBVIOUS
<1>6. \A g \in Host, j \in Job : \A i :
        Starts(down', g, i, j) => i >= 1 /\ i \in Int /\ Starts(down, g, i + s[g], j)
  <2> SUFFICES ASSUME NEW g \in Host, NEW j \in Job, NEW i, Starts(down', g, i, j)
               PROVE  i >= 1 /\ i \in Int /\ Starts(down, g, i + s[g], j)
    OBVIOUS
  <2>1. CASE g # h
    <3>1. i \in 1 .. Len(down[g]) /\ down[g][i] = LineOf("BG_start", j) BY <1>3, <2>1 DEF Starts
    <3>2. i + s[g] = i BY <2>1, <3>1
    <3>3. QED BY <3>1, <3>2 DEF Starts
  <2>2. CASE g = h
    <3>1. i \in 1 .. Len(Tail(down[h])) /\ Tail(down[h])[i] = LineOf("BG_start", j)
      BY <1>3, <2>2 DEF Starts
    <3>2. i + 1 \in 1 .. Len(down[h]) /\ down[h][i + 1] = LineOf("BG_start", j)
      BY <1>1, <3>1
    <3>3. i >= 1 /\ i \in Int BY <3>1
    <3>4. s[g] = 1 BY <2>2
    <3>5. QED BY <2>2, <3>2, <3>3, <3>4 DEF Starts
  <2>3. QED BY <2>1, <2>2
<1>7. Older(down, down') BY <1>5, <1>6 DEF Older
<1>8. ASSUME Sole(down), NEW j \in Job, Head(down[h]) = LineOf("BG_start", j)
      PROVE  ~Started(down', j)
  <2> SUFFICES ASSUME NEW g \in Host, NEW i, Starts(down', g, i, j) PROVE FALSE BY DEF Started
  <2>1. i >= 1 /\ i \in Int /\ Starts(down, g, i + s[g], j) BY <1>6
  <2>2. Starts(down, h, 1, j)
    <3>1. 1 \in 1 .. Len(down[h]) /\ down[h][1] = Head(down[h]) BY <1>1
    <3>2. QED BY <1>8, <3>1 DEF Starts
  <2>3. g = h /\ i + s[g] = 1 BY <1>8, <2>1, <2>2 DEF Sole
  <2>4. QED BY <2>1, <2>3
<1>9. QED BY <1>4, <1>7, <1>8

\* What is under way of an older state is under way once.
LEMMA OlderSole ==
  ASSUME NEW d \in [Host -> Seq(Order)], NEW e \in [Host -> Seq(Order)], Older(d, e)
  PROVE  /\ Sole(d) => Sole(e)
         /\ \A j \in Job : Started(e, j) => Started(d, j)
<1>1. PICK s \in [Host -> Nat] : \A h \in Host, j \in Job : \A i :
        Starts(e, h, i, j) => Starts(d, h, i + s[h], j)
  BY DEF Older
<1>2. ASSUME Sole(d), NEW g \in Host, NEW h \in Host, NEW j \in Job, NEW i, NEW k,
             Starts(e, g, i, j), Starts(e, h, k, j)
      PROVE  g = h /\ i = k
  <2>1. i \in Int /\ k \in Int BY <1>2 DEF Starts
  <2>2. Starts(d, g, i + s[g], j) /\ Starts(d, h, k + s[h], j) BY <1>1, <1>2
  <2>3. g = h /\ i + s[g] = k + s[h] BY <1>2, <2>2 DEF Sole
  <2>4. s[g] \in Int BY <1>1
  <2>5. QED BY <2>1, <2>3, <2>4
<1>3. \A j \in Job : Started(e, j) => Started(d, j) BY <1>1 DEF Started
<1>4. QED BY <1>2, <1>3 DEF Sole

-----------------------------------------------------------------------------
(* Handlers that move no job.                                              *)

EngineKept == /\ engine' = [r \in Run |-> engine'[r]]
              /\ \A j \in Job : engine'[j] = "none" <=> engine[j] = "none"
DispKept == Whole(disp') /\ (Dispatching' => Dispatching /\ disp'.run = disp.run)
DownKept == down' \in [Host -> Seq(Order)] /\ Older(down, down')

LEMMA MovesNothing ==
  ASSUME IInv, UNCHANGED <<queue, submitted>>, EngineKept, DispKept, DownKept
  PROVE  IInv'
<1>1. Typed /\ Places BY DEF IInv
<1>2. Typed' BY <1>1 DEF Typed, EngineKept, DispKept, DownKept
<1>3. /\ Sole(down')
      /\ \A j \in Job : Started(down', j) => Started(down, j)
  BY <1>1, OlderSole DEF Typed, Places, PlacesWith, DownKept
<1>4. \A j \in Job : Loading(j)' => Loading(j) BY DEF DispKept, Loading
<1>5. \A j \in Job : engine'[j] = "none" <=> engine[j] = "none" BY DEF EngineKept
<1>6. Places' BY <1>1, <1>3, <1>4, <1>5 DEF Places, PlacesWith
<1>7. QED BY <1>2, <1>6 DEF IInv

\* Engines that run stop running; nothing else about them changes.
LEMMA EngineSame == ASSUME Typed, engine' = engine PROVE EngineKept
BY DEF Typed, EngineKept

LEMMA KilledKept == ASSUME Typed, NEW h, engine' = Killed(h) PROVE EngineKept
<1>1. Job \subseteq Run BY DEF Run
<1>2. \A j \in Job : Killed(h)[j] = IF where[j] = h /\ engine[j] \in Live
                                         /\ co[h].pid \in {j, None}
                                      THEN "dead" ELSE engine[j]
  BY <1>1 DEF Killed
<1>3. Killed(h) = [r \in Run |-> Killed(h)[r]] BY DEF Killed
<1>4. QED BY <1>2, <1>3 DEF EngineKept, Live

LEMMA EndsKept ==
  ASSUME Typed, NEW h, NEW k,
         EndOfJobStop(h) \/ EndOfStop(h) \/ EndOfAbort(h, k)
  PROVE  EngineKept
<1>1. engine' = Killed(h) \/ engine' = engine BY DEF EndOfJobStop, EndOfStop, EndOfAbort
<1>2. QED BY <1>1, KilledKept, EngineSame

LEMMA AsksKept ==
  ASSUME Typed, NEW h, AskJobStop(h) \/ AskStop(h) \/ AskAbort(h)
  PROVE  EngineKept
<1>1. \/ EndOfJobStop(h) \/ EndOfStop(h) \/ EndOfAbort(h, FALSE) \/ engine' = engine
  BY DEF AskJobStop, AskStop, AskAbort
<1>2. QED BY <1>1, EndsKept, EngineSame

\* One engine goes from one state to another, neither of them "none".
LEMMA SignalKept ==
  ASSUME Typed, NEW x, NEW to, to # "none", engine[x] # "none",
         engine' = [engine EXCEPT ![x] = to]
  PROVE  EngineKept
<1>1. engine' = [r \in Run |-> IF r = x THEN to ELSE engine[r]] BY DEF Typed
<1>2. Job \subseteq Run BY DEF Run
<1>3. QED BY <1>1, <1>2 DEF EngineKept

LEMMA PausedKept ==
  ASSUME Typed, NEW h, NEW from, NEW to, from # "none", to # "none",
         engine' = Signal(h, from, to)
  PROVE  EngineKept
<1>1. engine' = [r \in Run |-> IF r = co[h].pid /\ engine[r] = from THEN to ELSE engine[r]]
  BY DEF Signal
<1>2. Job \subseteq Run BY DEF Run
<1>3. QED BY <1>1, <1>2 DEF EngineKept

\* The dispatcher's state and the lines to a coordinator stay.
LEMMA DispSame == ASSUME Typed, disp' = disp PROVE DispKept
BY DEF Typed, DispKept, Dispatching

LEMMA DispIdle == ASSUME disp' = AtSelect PROVE DispKept
BY DEF DispKept, AtSelect, Whole, Dispatching

LEMMA DownSame == ASSUME Typed, down' = down PROVE DownKept
BY OlderSelf DEF Typed, DownKept

LEMMA DownTake == ASSUME Typed, NEW h \in Host, down[h] # <<>>, Take(h) PROVE DownKept
BY OlderTake DEF Typed, DownKept

LEMMA DownSay ==
  ASSUME Typed, NEW h, NEW l \in Order, l.kind # "BG_start", Say(h, l)
  PROVE  DownKept
<1>1. <<l>> \in Seq(Order) /\ \A i \in DOMAIN <<l>> : <<l>>[i].kind # "BG_start" OBVIOUS
<1>2. QED BY <1>1, OlderWrite DEF Typed, DownKept, Say

\* The coordinators, the engines and the clients, but for BGStart.
LEMMA CoordinatorKeeps ==
  ASSUME IInv, NEW h \in Host, Coordinator(h) \/ HostCrash(h), ~BGStart(h)
  PROVE  IInv'
<1>1. Typed BY DEF IInv
<1>2. disp' = disp /\ UNCHANGED <<queue, submitted>>
  BY DEF Coordinator, HostCrash, BGStart, Boot, Registered, SetupEnv, PutFile, GotFile,
         TickAnswer, JobStop, JobAbort, Acknowledged, NoAcknowledgement, SimulationDone,
         EngineClosed, EngineConnects, dispatcher
<1>3. DownKept
  <2>1. \/ down' = down
        \/ down[h] # <<>> /\ Take(h)
    BY DEF Coordinator, HostCrash, BGStart, Boot, Registered, SetupEnv, PutFile, GotFile,
           TickAnswer, JobStop, JobAbort, Acknowledged, NoAcknowledgement, SimulationDone,
           EngineClosed, EngineConnects, Reads
  <2>2. QED BY <1>1, <2>1, DownSame, DownTake
<1>4. EngineKept
  <2>1. CASE \/ Boot(h) \/ Registered(h) \/ SetupEnv(h) \/ PutFile(h) \/ GotFile(h)
             \/ TickAnswer(h) \/ NoAcknowledgement(h) \/ EngineClosed(h) \/ HostCrash(h)
    <3>1. engine' = engine
      BY <2>1 DEF Boot, Registered, SetupEnv, PutFile, GotFile, TickAnswer,
                  NoAcknowledgement, EngineClosed, HostCrash
    <3>2. QED BY <1>1, <3>1, EngineSame
  <2>2. CASE JobStop(h) \/ JobAbort(h)
    <3>1. AskJobStop(h) \/ AskAbort(h) BY <2>2 DEF JobStop, JobAbort
    <3>2. QED BY <1>1, <3>1, AsksKept
  <2>3. CASE Acknowledged(h)
    <3>1. \/ EndOfJobStop(h) \/ EndOfAbort(h, TRUE) \/ EndOfStop(h)
          \/ engine' = Signal(h, "up", "paused") \/ engine' = engine
      BY <2>3 DEF Acknowledged
    <3>2. QED BY <1>1, <3>1, EndsKept, PausedKept, EngineSame
  <2>4. CASE SimulationDone(h)
    <3>1. engine[co[h].sock] = "done" /\ engine' = [engine EXCEPT ![co[h].sock] = "ended"]
      BY <2>4 DEF SimulationDone
    <3>2. QED BY <1>1, <3>1, SignalKept
  <2>5. ASSUME NEW r \in Run, EngineConnects(h, r) PROVE EngineKept
    <3>1. engine[r] = "forked" /\ engine' = [engine EXCEPT ![r] = "up"]
      BY <2>5 DEF EngineConnects
    <3>2. QED BY <1>1, <3>1, SignalKept
  <2>6. QED BY <2>1, <2>2, <2>3, <2>4, <2>5 DEF Coordinator
<1>5. QED BY <1>1, <1>2, <1>3, <1>4, DispSame, MovesNothing

LEMMA EnginesKeep ==
  ASSUME IInv, NEW r \in Run, EngineDone(r) \/ EngineCrash(r)
  PROVE  IInv'
<1>1. Typed BY DEF IInv
<1>2. UNCHANGED <<queue, submitted, disp, down>> BY DEF EngineDone, EngineCrash, dispatcher
<1>3. \E to \in {"done", "dead"} : engine' = [engine EXCEPT ![r] = to] /\ engine[r] # "none"
  BY DEF EngineDone, EngineCrash
<1>4. EngineKept BY <1>1, <1>3, SignalKept
<1>5. QED BY <1>1, <1>2, <1>4, DispSame, DownSame, MovesNothing

LEMMA ClientsKeep ==
  ASSUME IInv, NEW c \in Client,
         \/ InitClient(c) \/ StartSimulation(c) \/ StopSimulation(c) \/ PauseSimulation(c)
         \/ ResumeSimulation(c) \/ AbortSimulation(c) \/ HangUp(c) \/ ClientEnd(c)
  PROVE  IInv'
<1>1. Typed BY DEF IInv
<1>2. UNCHANGED <<queue, submitted, disp, down>>
  BY DEF InitClient, StartSimulation, StopSimulation, PauseSimulation, ResumeSimulation,
         AbortSimulation, HangUp, ClientEnd, dispatcher
<1>3. EngineKept
  <2>1. CASE InitClient(c) \/ PauseSimulation(c) \/ HangUp(c)
    <3>1. engine' = engine BY <2>1 DEF InitClient, PauseSimulation, HangUp
    <3>2. QED BY <1>1, <3>1, EngineSame
  <2>2. CASE StartSimulation(c)
    <3>1. engine' = [engine EXCEPT ![c] = "forked"] BY <2>2 DEF StartSimulation, Start
    <3>2. engine' = [r \in Run |-> IF r = c THEN "forked" ELSE engine[r]]
      BY <1>1, <3>1 DEF Typed
    <3>3. c \notin Job /\ Job \subseteq Run BY JobConstants DEF Run
    <3>4. QED BY <3>2, <3>3 DEF EngineKept
  <2>3. CASE StopSimulation(c) \/ AbortSimulation(c)
    <3>1. AskStop(where[c]) \/ AskAbort(where[c]) BY <2>3 DEF StopSimulation, AbortSimulation
    <3>2. QED BY <1>1, <3>1, AsksKept
  <2>4. CASE ResumeSimulation(c)
    <3>1. engine' = Signal(where[c], "paused", "up") BY <2>4 DEF ResumeSimulation
    <3>2. QED BY <1>1, <3>1, PausedKept
  <2>5. CASE ClientEnd(c)
    <3>1. AskAbort(where[c]) \/ engine' = engine BY <2>5 DEF ClientEnd
    <3>2. QED BY <1>1, <3>1, AsksKept, EngineSame
  <2>6. QED BY <2>1, <2>2, <2>3, <2>4, <2>5
<1>4. QED BY <1>1, <1>2, <1>3, DispSame, DownSame, MovesNothing

\* Lines the dispatcher writes besides start commands.
LEMMA Orders ==
  /\ \A k \in {"setupEnv", "OK", "getTick", "BG_putFile", "file"} :
       Line(k) \in Order /\ Line(k).kind # "BG_start"
  /\ \A k \in {"JOB_STOP", "JOB_ABORT"}, j \in Job :
       LineOf(k, j) \in Order /\ LineOf(k, j).kind # "BG_start"
  /\ \A j \in Job : LineOf("BG_start", j) \in Order
BY DEF Line, LineOf, Order, Lines

\* Lines of coordinators that start nothing.
LEMMA ReadingKeeps ==
  ASSUME IInv, NEW h \in Host, JobFinished(h) \/ IgnoreLine(h) \/ RemoveHost(h)
  PROVE  IInv'
<1>1. Typed BY DEF IInv
<1>2. UNCHANGED <<queue, submitted, disp, down, engine>>
  BY DEF JobFinished, IgnoreLine, RemoveHost, dispatcher
<1>3. QED BY <1>1, <1>2, EngineSame, DispSame, DownSame, MovesNothing

\* Answers within an exchange.
LEMMA AnswerKeeps ==
  ASSUME IInv,
         \/ DispatchAnswer("env", "put", "BG_putFile") \/ DispatchAnswer("put", "get", "file")
         \/ DispatchFailed \/ DispatchBroken \/ TickRead \/ EnvAnswer \/ AnswerBroken
  PROVE  IInv'
<1>1. Typed BY DEF IInv
<1>2. UNCHANGED <<queue, submitted, engine>>
  BY DEF DispatchAnswer, DispatchFailed, DispatchBroken, TickRead, EnvAnswer, AnswerBroken
<1>3. DownKept
  <2>1. \/ down' = down
        \/ \E k \in {"BG_putFile", "file"} : Say(disp.host, Line(k))
    BY DEF DispatchAnswer, DispatchFailed, DispatchBroken, TickRead, EnvAnswer, AnswerBroken
  <2>2. QED BY <1>1, <2>1, Orders, DownSay, DownSame
<1>4. DispKept
  <2>1. CASE DispatchAnswer("env", "put", "BG_putFile") \/ DispatchAnswer("put", "get", "file")
    <3>1. \E k : disp' = [disp EXCEPT !.pc = k] /\ Dispatching
      BY <2>1 DEF DispatchAnswer, Dispatching
    <3>2. QED BY <1>1, <3>1 DEF Typed, Whole, DispKept
  <2>2. CASE disp' = AtSelect BY <2>2, DispIdle
  <2>3. CASE disp' = [AtSelect EXCEPT !.pc = "dead"]
    BY <2>3 DEF DispKept, AtSelect, Whole, Dispatching
  <2>4. QED BY <2>1, <2>2, <2>3
         DEF DispatchFailed, DispatchBroken, TickRead, EnvAnswer, AnswerBroken
<1>5. QED BY <1>1, <1>2, <1>3, <1>4, EngineSame, MovesNothing

\* A command for a job: it runs nowhere, the host is not known any more, or is told.
LEMMA Commanded ==
  ASSUME NEW j, NEW l, NEW st, Command(j, l, st)
  PROVE  \/ /\ jobMap[j] # "RUNNING" /\ UNCHANGED <<down, misled>>
            /\ jobMap' = [jobMap EXCEPT ![j] = st]
         \/ /\ down' = down /\ misled' = (misled \/ l.kind = "JOB_ABORT")
            /\ jobMap' = jobMap \/ jobMap' = [jobMap EXCEPT ![j] = st]
         \/ /\ jobMap[j] = "RUNNING" /\ jobMap' = [jobMap EXCEPT ![j] = st]
            /\ \E h \in Host : /\ Known(h) /\ Say(h, l)
                              /\ misled' = (misled \/ l.kind = "JOB_ABORT" \/ h # coor[j])
<1>0. None \notin Host BY JobConstants
<1>1. CASE jobMap[j] # "RUNNING" BY <1>1 DEF Command
<1>2. CASE jobMap[j] = "RUNNING"
  <2>1. PICK h \in getHost(coor[j]) :
          /\ Tell(h, l)
          /\ misled' = (misled \/ l.kind = "JOB_ABORT" \/ h \notin {coor[j], None})
          /\ jobMap' = [jobMap EXCEPT ![j] = st] \/ (h = None /\ jobMap' = jobMap)
    BY <1>2 DEF Command
  <2>2. h = None \/ (h \in Host /\ Known(h)) BY DEF getHost
  <2>3. QED BY <1>0, <1>2, <2>1, <2>2 DEF Tell
<1>3. QED BY <1>1, <1>2

\* Stopping and aborting write a line to a host, or none.
LEMMA Controlled ==
  ASSUME NEW j \in Job, StopJob(j) \/ AbortJob(j)
  PROVE  /\ UNCHANGED <<queue, coor, entry, status, disp, up, co, engine, where, gui, submitted>>
         /\ disp.pc = "select"
         /\ \/ down' = down
            \/ \E h : \E k \in {"JOB_STOP", "JOB_ABORT"} : Say(h, LineOf(k, j))
         /\ \/ jobMap' = jobMap
            \/ \E st \in {"none", "FINISHED"} : jobMap' = [jobMap EXCEPT ![j] = st]
         /\ misled' = misled \/ \E b : misled' = (misled \/ b)
<1>1. UNCHANGED <<queue, coor, entry, status, disp, up, co, engine, where, gui, submitted>>
  BY DEF StopJob, AbortJob
<1>2. disp.pc = "select" BY DEF StopJob, AbortJob
<1>3. \/ Command(j, LineOf("JOB_STOP", j), "FINISHED")
      \/ Command(j, LineOf("JOB_ABORT", j), "none")
  BY DEF StopJob, AbortJob
<1>4. QED BY <1>1, <1>2, <1>3, Commanded

\* What users do with jobs that are submitted, and clients with hosts.
LEMMA UsersKeep ==
  ASSUME IInv,
         \/ \E j \in Job : StopJob(j) \/ AbortJob(j) \/ DeleteJob(j) \/ GetTick(j)
         \/ \E c \in Client : ServRequest(c)
  PROVE  IInv'
<1>1. Typed BY DEF IInv
<1>2. UNCHANGED <<queue, submitted, engine>>
  BY Controlled DEF DeleteJob, GetTick, ServRequest
<1>3. DownKept
  <2>1. \/ down' = down
        \/ \E h : \E k \in {"getTick", "setupEnv"} : Say(h, Line(k))
        \/ \E h : \E k \in {"JOB_STOP", "JOB_ABORT"}, j \in Job : Say(h, LineOf(k, j))
    BY Controlled DEF DeleteJob, GetTick, ServRequest
  <2>2. QED BY <1>1, <2>1, Orders, DownSay, DownSame
<1>4. DispKept
  <2>1. ASSUME NEW j \in Job, StopJob(j) \/ AbortJob(j) \/ DeleteJob(j) PROVE DispKept
    BY <1>1, <2>1, Controlled, DispSame DEF DeleteJob
  <2>2. ASSUME NEW j \in Job, GetTick(j) PROVE DispKept
    BY <2>2 DEF GetTick, DispKept, AtSelect, Whole, Dispatching
  <2>3. ASSUME NEW c \in Client, ServRequest(c) PROVE DispKept
    BY <2>3 DEF ServRequest, DispKept, AtSelect, Whole, Dispatching
  <2>4. QED BY <2>1, <2>2, <2>3
<1>5. QED BY <1>1, <1>2, <1>3, <1>4, EngineSame, MovesNothing

-----------------------------------------------------------------------------
(* A job moves on.                                                         *)

LEMMA AppendOnce ==
  ASSUME NEW s \in Seq(Job), NEW j \in Job
  PROVE  /\ \A x : Member(Append(s, j), x) <=> Member(s, x) \/ x = j
         /\ Once(s) /\ ~Member(s, j) => Once(Append(s, j))
<1>1. /\ DOMAIN Append(s, j) = 1 .. Len(s) + 1 /\ DOMAIN s = 1 .. Len(s) /\ Len(s) \in Nat
      /\ \A i \in 1 .. Len(s) : Append(s, j)[i] = s[i]
      /\ Append(s, j)[Len(s) + 1] = j
  OBVIOUS
<1>2. \A i : i \in 1 .. Len(s) + 1 <=> i \in 1 .. Len(s) \/ i = Len(s) + 1 BY <1>1
<1> DEFINE t == Append(s, j)
<1>3. /\ \A i : i \in DOMAIN t <=> i \in DOMAIN s \/ i = Len(s) + 1
      /\ \A i \in DOMAIN s : t[i] = s[i] /\ i # Len(s) + 1
      /\ t[Len(s) + 1] = j
  BY <1>1, <1>2
<1> HIDE DEF t
<1>4. \A x : Member(t, x) <=> Member(s, x) \/ x = j BY <1>3 DEF Member
<1>5. Once(s) /\ ~Member(s, j) => Once(t) BY <1>3 DEF Once, Member
<1>6. QED BY <1>4, <1>5 DEF t

LEMMA TailOnce ==
  ASSUME NEW s \in Seq(Job), s # <<>>
  PROVE  /\ Head(s) \in Job /\ Tail(s) \in Seq(Job) /\ Member(s, Head(s))
         /\ \A x : Member(Tail(s), x) => Member(s, x)
         /\ Once(s) => Once(Tail(s)) /\ ~Member(Tail(s), Head(s))
<1>1. /\ Head(s) \in Job /\ Tail(s) \in Seq(Job) /\ Head(s) = s[1]
      /\ Len(s) \in Nat /\ 1 \in DOMAIN s /\ DOMAIN s = 1 .. Len(s)
  OBVIOUS
<1> DEFINE t == Tail(s)
<1>2. \A i \in DOMAIN t : i + 1 \in DOMAIN s /\ t[i] = s[i + 1] /\ i \in Int /\ i + 1 # 1
  OBVIOUS
<1> HIDE DEF t
<1>3. Member(s, Head(s)) BY <1>1 DEF Member
<1>4. \A x : Member(t, x) => Member(s, x) BY <1>2 DEF Member
<1>5. ASSUME Once(s) PROVE Once(t)
  <2> SUFFICES ASSUME NEW i \in DOMAIN t, NEW k \in DOMAIN t, t[i] = t[k] PROVE i = k
    BY DEF Once
  <2>1. i + 1 = k + 1 BY <1>2, <1>5 DEF Once
  <2>2. QED BY <1>2, <2>1
<1>6. ASSUME Once(s) PROVE ~Member(t, Head(s))
  <2> SUFFICES ASSUME NEW i \in DOMAIN t, t[i] = Head(s) PROVE FALSE BY DEF Member
  <2>1. i + 1 = 1 BY <1>1, <1>2, <1>6 DEF Once
  <2>2. QED BY <1>2, <2>1
<1>7. QED BY <1>1, <1>3, <1>4, <1>5, <1>6 DEF t

\* dispatchJob takes the oldest job in its hands, if there is one.
LEMMA DispatchSound ==
  ASSUME Typed, disp.pc = "select", NEW q \in Seq(Job), submitted' \in Seq(Job),
         PlacesWith(q, submitted'), engine' = engine,
         NEW h, NEW caller, NEW st, NEW line, NEW first \in Seq(Order),
         \A i \in DOMAIN first : first[i].kind # "BG_start",
         DispatchJob(h, caller, q, st, line, first)
  PROVE  IInv'
<1>1. EngineKept /\ engine' = [r \in Run |-> engine'[r]] BY EngineSame DEF EngineKept
<1>2. \A j \in Job : ~Loading(j) BY DEF Loading, Dispatching
<1>3. CASE q = <<>>
  <2>1. Write(h, first) /\ queue' = q /\ disp' = AtSelect BY <1>3 DEF DispatchJob
  <2>2. DownKept BY <2>1, OlderWrite DEF Typed, DownKept
  <2>3. Whole(disp') /\ ~Dispatching' BY <2>1 DEF AtSelect, Whole, Dispatching
  <2>4. Typed' BY <1>1, <2>1, <2>2, <2>3 DEF Typed, DownKept
  <2>5. Sole(down') /\ \A j \in Job : Started(down', j) => Started(down, j)
    BY <2>2, OlderSole DEF DownKept, Typed, PlacesWith
  <2>6. \A j \in Job : ~Loading(j)' BY <2>3 DEF Loading
  <2>7. Places'
    <3>1. PlacesWith(q, submitted') BY DEF PlacesWith
    <3>2. /\ Once(submitted') /\ Once(queue')
          /\ \A j \in Job :
               /\ Member(queue', j) \/ Started(down', j) \/ engine'[j] # "none"
                    => Member(submitted', j)
               /\ Member(queue', j) => ~Started(down', j) /\ engine'[j] = "none"
               /\ Started(down', j) => engine'[j] = "none"
      BY <2>1, <2>5, <3>1 DEF PlacesWith
    <3>3. QED BY <2>5, <2>6, <3>2 DEF Places, PlacesWith
  <2>8. QED BY <2>4, <2>7 DEF IInv
<1>4. CASE q # <<>>
  <2> DEFINE ls == first \o <<Line("setupEnv")>>
  <2>1. Write(h, ls) /\ queue' = Tail(q) BY <1>4 DEF DispatchJob, getJob
  <2>2. Whole(disp') /\ Dispatching' /\ disp'.run = Head(q)
    BY <1>4 DEF DispatchJob, getJob, Whole, Dispatching
  <2>3. ls \in Seq(Order) /\ \A i \in DOMAIN ls : ls[i].kind # "BG_start"
    <3> DEFINE l == Line("setupEnv")
    <3>1. l \in Order /\ l.kind # "BG_start" BY Orders
    <3> HIDE DEF l
    <3>2. <<l>> \in Seq(Order) BY <3>1
    <3>3. first \o <<l>> \in Seq(Order) BY <3>2
    <3>4. \A i \in DOMAIN (first \o <<l>>) :
            \/ i \in DOMAIN first /\ (first \o <<l>>)[i] = first[i]
            \/ (first \o <<l>>)[i] = l
      OBVIOUS
    <3>5. QED BY <3>1, <3>3, <3>4 DEF ls, l
  <2> HIDE DEF ls
  <2>4. DownKept BY <2>1, <2>3, OlderWrite DEF Typed, DownKept
  <2>5. Sole(down') /\ \A j \in Job : Started(down', j) => Started(down, j)
    BY <2>4, OlderSole DEF DownKept, Typed, PlacesWith
  <2>6. /\ Head(q) \in Job /\ Tail(q) \in Seq(Job) /\ Member(q, Head(q))
        /\ \A x : Member(Tail(q), x) => Member(q, x)
        /\ Once(Tail(q)) /\ ~Member(Tail(q), Head(q))
    BY <1>4, TailOnce DEF PlacesWith
  <2>7. Typed' BY <1>1, <2>1, <2>2, <2>4, <2>6 DEF Typed, DownKept
  <2>8. \A j \in Job : Loading(j)' <=> j = Head(q) BY <2>2 DEF Loading
  <2>9. Places'
    <3>1. /\ Once(submitted') /\ Once(queue')
          /\ \A j \in Job :
               /\ Member(queue', j) \/ j = Head(q) \/ Started(down', j) \/ engine'[j] # "none"
                    => Member(submitted', j)
               /\ Member(queue', j) => j # Head(q) /\ ~Started(down', j) /\ engine'[j] = "none"
               /\ j = Head(q) => ~Started(down', j) /\ engine'[j] = "none"
               /\ Started(down', j) => engine'[j] = "none"
      BY <2>1, <2>5, <2>6 DEF PlacesWith
    <3>2. QED BY <2>5, <2>8, <3>1 DEF Places, PlacesWith
  <2>10. QED BY <2>7, <2>9 DEF IInv
<1>5. QED BY <1>3, <1>4

\* backGndJob
LEMMA SubmitSound ==
  ASSUME IInv, NEW j \in Job, Submit(j)
  PROVE  IInv'
<1>1. Typed /\ PlacesWith(queue, submitted) BY DEF IInv, Places
<1> DEFINE q == Append(queue, j)
           sub == Append(submitted, j)
<1>2. /\ disp.pc = "select" /\ ~Member(submitted, j) /\ submitted' = sub /\ engine' = engine
  BY DEF Submit, Member
<1>3. q \in Seq(Job) /\ sub \in Seq(Job) BY <1>1 DEF Typed
<1>4. PlacesWith(q, sub)
  <2>1. ~Member(queue, j) BY <1>1, <1>2 DEF PlacesWith
  <2>2. ~Loading(j) /\ ~Started(down, j) /\ engine[j] = "none" BY <1>1, <1>2 DEF PlacesWith
  <2>3. /\ \A x : Member(q, x) <=> Member(queue, x) \/ x = j
        /\ \A x : Member(sub, x) <=> Member(submitted, x) \/ x = j
        /\ Once(q) /\ Once(sub)
    BY <1>1, <1>2, <2>1, AppendOnce DEF Typed, PlacesWith
  <2> HIDE DEF q, sub
  <2>4. QED BY <1>1, <2>2, <2>3 DEF PlacesWith
<1>5. CASE queue' = q /\ UNCHANGED <<disp, down>>
  <2>1. Typed' BY <1>1, <1>2, <1>3, <1>5 DEF Typed, Whole, Dispatching
  <2>2. Places' BY <1>2, <1>4, <1>5 DEF Places, PlacesWith, Loading, Dispatching
  <2>3. QED BY <2>1, <2>2 DEF IInv
<1>6. CASE ~(queue' = q /\ UNCHANGED <<disp, down>>)
  <2>1. PICK h, st : DispatchJob(h, "backGndJob", q, st, up[h], <<>>)
    BY <1>6 DEF Submit
  <2>2. <<>> \in Seq(Order) /\ \A i \in DOMAIN <<>> : <<>>[i].kind # "BG_start" OBVIOUS
  <2> HIDE DEF q, sub
  <2>3. QED BY <1>1, <1>2, <1>3, <1>4, <2>1, <2>2, DispatchSound
<1>7. QED BY <1>5, <1>6

\* A host registers or reports that it is free.
LEMMA FreeSound ==
  ASSUME IInv, NEW h \in Host, Register(h) \/ SetStatus(h)
  PROVE  IInv'
<1>1. Typed /\ PlacesWith(queue, submitted) BY DEF IInv, Places
<1>2. /\ disp.pc = "select" /\ UNCHANGED <<submitted, engine>>
  BY DEF Register, SetStatus
<1>3. /\ <<>> \in Seq(Order) /\ \A i \in DOMAIN <<>> : <<>>[i].kind # "BG_start"
  OBVIOUS
<1>4. <<Line("OK")>> \in Seq(Order) /\ \A i \in DOMAIN <<Line("OK")>> : <<Line("OK")>>[i].kind # "BG_start"
  <2> DEFINE l == Line("OK")
  <2>1. l \in Order /\ l.kind # "BG_start" BY Orders
  <2> HIDE DEF l
  <2>2. <<l>> \in Seq(Order) /\ \A i \in DOMAIN <<l>> : <<l>>[i].kind # "BG_start" BY <2>1
  <2>3. QED BY <2>2 DEF l
<1>5. PICK caller, st, line, first :
        /\ first \in Seq(Order) /\ \A i \in DOMAIN first : first[i].kind # "BG_start"
        /\ DispatchJob(h, caller, queue, st, line, first)
  <2>1. CASE Register(h) BY <1>4, <2>1 DEF Register
  <2>2. CASE SetStatus(h) BY <1>3, <2>2 DEF SetStatus
  <2>3. QED BY <2>1, <2>2
<1>6. queue \in Seq(Job) /\ submitted' \in Seq(Job) /\ PlacesWith(queue, submitted')
  BY <1>1, <1>2 DEF Typed
<1>7. QED BY <1>1, <1>2, <1>5, <1>6, DispatchSound

\* The start command is written: the job leaves the dispatcher's hands.
LEMMA DispatchedSound ==
  ASSUME IInv, Dispatched
  PROVE  IInv'
<1> DEFINE j == disp.run
           h == disp.host
           l == LineOf("BG_start", j)
<1>1. Typed /\ Places BY DEF IInv
<1>2. /\ Loading(j) /\ disp' = AtSelect /\ Say(h, l) /\ UNCHANGED <<queue, submitted, engine>>
  BY DEF Dispatched, Loading, Dispatching
<1>3. j \in Job BY <1>1, <1>2 DEF Typed, Loading
<1>4. l \in Order BY <1>3, Orders
<1>5. \A x \in Job : ~Loading(x)' BY <1>2 DEF AtSelect, Loading, Dispatching
<1>6. Whole(disp') /\ ~Dispatching' BY <1>2 DEF AtSelect, Whole, Dispatching
<1>7. CASE down' = down
  <2>1. Typed' BY <1>1, <1>2, <1>6, <1>7 DEF Typed
  <2>2. Places' BY <1>1, <1>2, <1>5, <1>7 DEF Places, PlacesWith
  <2>3. QED BY <2>1, <2>2 DEF IInv
<1>8. CASE down' # down
  <2>1. down' = [down EXCEPT ![h] = @ \o <<l>>]
    <3>1. down' = [down EXCEPT ![h] = IF co[h].pc = "dead" THEN @ ELSE @ \o <<l>>]
      BY <1>2 DEF Say, Write
    <3>2. co[h].pc # "dead"
      <4>1. [down EXCEPT ![h] = @] = down BY <1>1 DEF Typed
      <4>2. QED BY <1>8, <3>1, <4>1
    <3>3. QED BY <3>1, <3>2
  <2>2. h \in Host BY <1>1, <1>8, <2>1 DEF Typed
  <2>3. down[h] \in Seq(Order) BY <1>1, <2>2 DEF Typed
  <2> HIDE DEF l
  <2>4. down' = [g \in Host |-> IF g = h THEN Append(down[h], l) ELSE down[g]]
    <3>1. down[h] \o <<l>> = Append(down[h], l) BY <2>3
    <3>2. QED BY <1>1, <2>1, <2>2, <3>1 DEF Typed
  <2>5. down' \in [Host -> Seq(Order)]
    <3>1. Append(down[h], l) \in Seq(Order) BY <1>4, <2>3
    <3>2. QED BY <1>1, <2>4, <3>1 DEF Typed
  <2>6. \A g \in Host, x \in Job : \A i :
          Starts(down', g, i, x) => \/ Starts(down, g, i, x)
                                    \/ g = h /\ i = Len(down[h]) + 1 /\ x = j
    <3> SUFFICES ASSUME NEW g \in Host, NEW x \in Job, NEW i, Starts(down', g, i, x)
                 PROVE  Starts(down, g, i, x) \/ (g = h /\ i = Len(down[h]) + 1 /\ x = j)
      OBVIOUS
    <3>1. CASE g # h BY <2>4, <3>1 DEF Starts
    <3>2. CASE g = h
      <4>1. i \in 1 .. Len(Append(down[h], l)) /\ Append(down[h], l)[i] = LineOf("BG_start", x)
        BY <2>4, <3>2 DEF Starts
      <4>2. CASE i \in 1 .. Len(down[h]) BY <2>3, <3>2, <4>1, <4>2 DEF Starts
      <4>3. CASE i \notin 1 .. Len(down[h])
        <5>1. i = Len(down[h]) + 1 /\ Append(down[h], l)[i] = l BY <2>3, <4>1, <4>3
        <5>2. x = j BY <4>1, <5>1, LineOfInjective DEF l
        <5>3. QED BY <3>2, <5>1, <5>2
      <4>4. QED BY <4>2, <4>3
    <3>3. QED BY <3>1, <3>2
  <2>7. ~Started(down, j) /\ engine[j] = "none" /\ Member(submitted, j) /\ ~Member(queue, j)
    BY <1>1, <1>2, <1>3 DEF Places, PlacesWith
  <2>8. \A x \in Job : Started(down', x) => Started(down, x) \/ x = j
    BY <2>6 DEF Started
  <2>9. Sole(down')
    <3> SUFFICES ASSUME NEW g \in Host, NEW k \in Host, NEW x \in Job, NEW i, NEW n,
                        Starts(down', g, i, x), Starts(down', k, n, x)
                 PROVE  g = k /\ i = n
      BY DEF Sole
    <3>1. CASE x = j
      <4>1. \A m \in Host : \A o : ~Starts(down, m, o, j) BY <2>7 DEF Started
      <4>2. QED BY <2>6, <3>1, <4>1
    <3>2. CASE x # j BY <1>1, <2>6, <3>2 DEF Places, PlacesWith, Sole
    <3>3. QED BY <3>1, <3>2
  <2>10. Typed' BY <1>1, <1>2, <1>6, <2>5 DEF Typed
  <2>11. Places'
    <3> HIDE DEF j
    <3>1. QED BY <1>1, <1>2, <1>5, <2>7, <2>8, <2>9 DEF Places, PlacesWith
  <2>12. QED BY <2>10, <2>11 DEF IInv
<1>9. QED BY <1>7, <1>8

\* The start command is read: the job gets its engine.
LEMMA BGStartSound ==
  ASSUME IInv, NEW h \in Host, BGStart(h)
  PROVE  IInv'
<1> DEFINE l == Head(down[h])
           j == l.job
<1>1. Typed /\ Places BY DEF IInv
<1>2. /\ down[h] # <<>> /\ l.kind = "BG_start" /\ Take(h)
      /\ UNCHANGED <<queue, submitted, disp>> /\ engine' = [engine EXCEPT ![j] = "forked"]
  BY DEF BGStart, Reads, Start, dispatcher
<1>3. down[h] \in Seq(Order) /\ l \in Order
  <2>1. down[h] \in Seq(Order) BY <1>1 DEF Typed
  <2>2. ASSUME NEW X, NEW t \in Seq(X), t # <<>> PROVE Head(t) \in X BY <2>2
  <2>3. QED BY <1>2, <2>1, <2>2
<1>4. j \in Job /\ l = LineOf("BG_start", j)
  <2> HIDE DEF l
  <2>1. QED BY <1>2, <1>3 DEF Order, Lines, LineOf
<1>5. /\ down' \in [Host -> Seq(Order)] /\ Older(down, down') /\ ~Started(down', j)
  BY <1>1, <1>2, <1>4, OlderTake DEF Typed, Places, PlacesWith
<1>6. Sole(down') /\ \A x \in Job : Started(down', x) => Started(down, x)
  BY <1>1, <1>5, OlderSole DEF Typed, Places, PlacesWith
<1>7. Started(down, j)
  <2>1. 1 \in 1 .. Len(down[h]) /\ down[h][1] = l BY <1>2, <1>3
  <2>2. QED BY <1>4, <2>1 DEF Started, Starts
<1> HIDE DEF l, j
<1>8. engine' = [r \in Run |-> IF r = j THEN "forked" ELSE engine[r]] BY <1>1, <1>2 DEF Typed
<1>9. j \in Run /\ Job \subseteq Run BY <1>4 DEF Run
<1>10. \A x \in Job : x # j => engine'[x] = engine[x] BY <1>8, <1>9
<1>11. /\ Member(submitted, j) /\ ~Member(queue, j) /\ ~Loading(j)
  BY <1>1, <1>4, <1>7 DEF Places, PlacesWith
<1>12. \A x \in Job : Loading(x)' <=> Loading(x) BY <1>2 DEF Loading, Dispatching
<1>13. Typed' BY <1>1, <1>2, <1>5, <1>8 DEF Typed, Whole, Dispatching
<1>14. Places' BY <1>1, <1>2, <1>5, <1>6, <1>10, <1>11, <1>12 DEF Places, PlacesWith
<1>15. QED BY <1>13, <1>14 DEF IInv

-----------------------------------------------------------------------------
LEMMA InitSound == Init => IInv
<1> SUFFICES ASSUME Init PROVE IInv OBVIOUS
<1>1. /\ queue = <<>> /\ submitted = <<>> /\ disp = AtSelect
      /\ down = [h \in Host |-> <<>>] /\ engine = [r \in Run |-> "none"]
  BY DEF Init
<1>2. <<>> \in Seq(Job) /\ <<>> \in Seq(Order) OBVIOUS
<1>3. Typed
  <2>1. down \in [Host -> Seq(Order)] BY <1>1, <1>2
  <2>2. QED BY <1>1, <1>2, <2>1 DEF Typed, AtSelect, Whole, Dispatching
<1>4. Places
  <2>1. \A h \in Host : \A i, j : ~Starts(down, h, i, j)
    <3>1. \A h \in Host : Len(down[h]) = 0 BY <1>1
    <3>2. QED BY <3>1 DEF Starts
  <2>2. Sole(down) /\ \A j : ~Started(down, j) BY <2>1 DEF Sole, Started
  <2>3. \A j \in Job : engine[j] = "none" /\ ~Loading(j)
    BY <1>1 DEF Run, Loading, Dispatching, AtSelect
  <2>4. Once(<<>>) /\ \A j : ~Member(<<>>, j) BY DEF Once, Member
  <2>5. QED BY <1>1, <2>2, <2>3, <2>4 DEF Places, PlacesWith
<1>5. QED BY <1>3, <1>4 DEF IInv

LEMMA NextSound == IInv /\ [Next]_vars => IInv'
<1> SUFFICES ASSUME IInv, [Next]_vars PROVE IInv' OBVIOUS
<1>1. CASE DispatcherReads
  BY <1>1, FreeSound, ReadingKeeps, AnswerKeeps, DispatchedSound DEF DispatcherReads
<1>2. CASE Users BY <1>2, SubmitSound, UsersKeep DEF Users
<1>3. CASE Engines BY <1>3, EnginesKeep DEF Engines
<1>4. CASE Clients BY <1>4, ClientsKeep DEF Clients
<1>5. ASSUME NEW h \in Host, Coordinator(h) \/ HostCrash(h) PROVE IInv'
  BY <1>5, CoordinatorKeeps, BGStartSound
<1>6. CASE UNCHANGED vars
  <2>1. UNCHANGED <<queue, submitted, disp, down, engine>> BY <1>6 DEF vars
  <2>2. Typed BY DEF IInv
  <2>3. QED BY <2>1, <2>2, EngineSame, DispSame, DownSame, MovesNothing
<1>7. QED BY <1>1, <1>2, <1>3, <1>4, <1>5, <1>6 DEF Next

\* A submitted job is in one of the four places at any time.
THEOREM Invariance == Spec => []IInv
BY InitSound, NextSound, PTL DEF Spec

(* No job is started twice, whatever lines the dispatcher takes for        *)
(* answers, whatever users stop, abort or delete, and whoever dies         *)
(* (dispatchJob, JobQueue::getJob, BG_start).                              *)
THEOREM NoSecondStart == Spec => []StartedOnce
<1>1. IInv => StartedOnce
  <2> SUFFICES ASSUME IInv, NEW j \in Job, NEW h \in Host, NEW i \in DOMAIN down[h],
                      down[h][i] = LineOf("BG_start", j)
               PROVE  /\ engine[j] = "none" /\ ~InQueue(j) /\ ~Loading(j)
                      /\ \A g \in Host : \A k \in DOMAIN down[g] :
                           down[g][k] = LineOf("BG_start", j) => g = h /\ k = i
    BY DEF StartedOnce
  <2>1. \A g \in Host : DOMAIN down[g] = 1 .. Len(down[g])
    <3>1. \A g \in Host : down[g] \in Seq(Order) BY DEF IInv, Typed
    <3>2. QED BY <3>1
  <2>2. Starts(down, h, i, j) /\ Started(down, j) BY <2>1 DEF Starts, Started
  <2>3. engine[j] = "none" /\ ~Member(queue, j) /\ ~Loading(j)
    BY <2>2 DEF IInv, Places, PlacesWith
  <2>4. \A g \in Host : \A k \in DOMAIN down[g] :
          down[g][k] = LineOf("BG_start", j) => g = h /\ k = i
    <3> SUFFICES ASSUME NEW g \in Host, NEW k \in DOMAIN down[g],
                        down[g][k] = LineOf("BG_start", j)
                 PROVE  g = h /\ k = i
      OBVIOUS
    <3>1. Starts(down, g, k, j) BY <2>1 DEF Starts
    <3>2. Sole(down) BY DEF IInv, Places, PlacesWith
    <3>3. QED BY <2>2, <3>1, <3>2 DEF Sole
  <2>5. QED BY <2>3, <2>4 DEF InQueue, Member
<1>2. QED BY <1>1, Invariance, PTL

-----------------------------------------------------------------------------
(* Types.                                                                  *)

DispRec == [pc : {"select", "env", "put", "get", "tick", "setup", "dead"},
            host : Host \cup {None}, run : Run \cup {None}, clean : BOOLEAN,
            caller : {"none", "backGndJob", "setStatus", "registServer"}]
CoRec == [pc : {"off", "register", "select", "file", "wait", "dead"},
          session : Job \cup {None}, pid : Run \cup {None},
          sock : Run \cup {None}, active : Client \cup {None},
          then : {"none", "jobStop", "abort", "stop", "pause", "resume"}]

\* The dispatcher, the lines, and the hosts with what runs on them.
TypeD == /\ queue \in Seq(Job) /\ submitted \in Seq(Job) /\ entry \in Seq(Host)
         /\ misled \in BOOLEAN
         /\ jobMap \in [Job -> {"none", "WAITING", "RUNNING", "FINISHED"}]
         /\ coor \in [Job -> Host \cup {None}]
         /\ status \in [Host -> {"FREE", "BUSY"}]
         /\ disp \in DispRec
TypeL == up \in [Host -> Seq(Lines)] /\ down \in [Host -> Seq(Lines)]
TypeC == /\ co \in [Host -> CoRec]
         /\ engine \in [Run -> {"none", "ended", "dead"} \cup Live]
         /\ where \in [Run -> Host \cup {None}]
         /\ gui \in [Client -> {"new", "unanswered", "invited", "connected", "hungup", "closed"}]

LEMMA TypeParts == TypeOK <=> TypeD /\ TypeL /\ TypeC
BY DEF TypeOK, TypeD, TypeL, TypeC, DispRec, CoRec

LEMMA LinesOf ==
  /\ \A k \in {"register", "FREE", "jobFinished", "EnvOK", "please", "File get", "tick",
               "OK", "setupEnv", "BG_putFile", "file", "BG_start", "JOB_STOP",
               "JOB_ABORT", "getTick"} :
       Line(k) \in Lines /\ \A j \in Job \cup {None} : LineOf(k, j) \in Lines
  /\ FREE \in Lines
BY DEF Line, LineOf, FREE, Lines

LEMMA AnswerTyped ==
  ASSUME TypeL, TypeC, NEW h \in Host, NEW rec \in CoRec, NEW ls \in Seq(Lines),
         Answer(h, rec, ls)
  PROVE  co' \in [Host -> CoRec] /\ up' \in [Host -> Seq(Lines)]
<1>1. up[h] \o ls \in Seq(Lines)
  <2>1. up[h] \in Seq(Lines) BY DEF TypeL
  <2>2. QED BY <2>1
<1>2. co' = [co EXCEPT ![h] = rec] /\ up' = [up EXCEPT ![h] = up[h] \o ls] BY DEF Answer
<1>3. QED BY <1>1, <1>2 DEF TypeL, TypeC

LEMMA DiesTyped ==
  ASSUME TypeL, TypeC, NEW h \in Host, Dies(h, <<>>)
  PROVE  co' \in [Host -> CoRec] /\ up' \in [Host -> Seq(Lines)]
<1>1. <<>> \in Seq(Lines) OBVIOUS
<1>2. [co[h] EXCEPT !.pc = "dead"] \in CoRec BY DEF TypeC, CoRec
<1>3. QED BY <1>1, <1>2, AnswerTyped DEF Dies

LEMMA TailTyped ==
  ASSUME NEW f \in [Host -> Seq(Lines)], NEW h \in Host, f[h] # <<>>
  PROVE  [f EXCEPT ![h] = Tail(@)] \in [Host -> Seq(Lines)] /\ Head(f[h]) \in Lines
<1> DEFINE s == f[h]
<1>1. s \in Seq(Lines) /\ s # <<>> OBVIOUS
<1> HIDE DEF s
<1>2. Tail(s) \in Seq(Lines) /\ Head(s) \in Lines BY <1>1
<1>3. QED BY <1>2 DEF s

LEMMA WriteTyped ==
  ASSUME TypeL, NEW h, NEW ls \in Seq(Lines), Write(h, ls)
  PROVE  down' \in [Host -> Seq(Lines)]
<1>1. CASE h \in Host
  <2>1. down[h] \o ls \in Seq(Lines)
    <3>1. down[h] \in Seq(Lines) BY <1>1 DEF TypeL
    <3>2. QED BY <3>1
  <2>2. QED BY <1>1, <2>1 DEF Write, TypeL
<1>2. CASE h \notin Host BY <1>2 DEF Write, TypeL
<1>3. QED BY <1>1, <1>2

LEMMA SayTyped ==
  ASSUME TypeL, NEW h, NEW l \in Lines, Say(h, l)
  PROVE  down' \in [Host -> Seq(Lines)]
<1>1. <<l>> \in Seq(Lines) OBVIOUS
<1>2. QED BY <1>1, WriteTyped DEF Say

LEMMA HeardTyped ==
  ASSUME TypeL, NEW h, up[h] # <<>>, Heard(h)
  PROVE  up' \in [Host -> Seq(Lines)] /\ (h \in Host => Head(up[h]) \in Lines)
<1>1. CASE h \in Host BY <1>1, TailTyped DEF Heard, TypeL
<1>2. CASE h \notin Host BY <1>2 DEF Heard, TypeL
<1>3. QED BY <1>1, <1>2

LEMMA TakeTyped ==
  ASSUME TypeL, NEW h \in Host, down[h] # <<>>, Take(h)
  PROVE  down' \in [Host -> Seq(Lines)] /\ Head(down[h]) \in Lines
BY TailTyped DEF Take, TypeL

LEMMA KilledTyped == ASSUME TypeC, NEW h PROVE Killed(h) \in [Run -> {"none", "ended", "dead"} \cup Live]
BY DEF TypeC, Killed

LEMMA SignalTyped ==
  ASSUME TypeC, NEW h, NEW from, NEW to \in Live
  PROVE  Signal(h, from, to) \in [Run -> {"none", "ended", "dead"} \cup Live]
BY DEF TypeC, Signal

\* What ends a simulation.
LEMMA EndsTyped ==
  ASSUME TypeL, TypeC, NEW h \in Host, NEW k \in BOOLEAN,
         EndOfJobStop(h) \/ EndOfStop(h) \/ EndOfAbort(h, k)
  PROVE  /\ up' \in [Host -> Seq(Lines)] /\ co' \in [Host -> CoRec]
         /\ engine' \in [Run -> {"none", "ended", "dead"} \cup Live]
         /\ gui' \in [Client -> {"new", "unanswered", "invited", "connected", "hungup", "closed"}]
<1> DEFINE G == {"new", "unanswered", "invited", "connected", "hungup", "closed"}
<1>0. co[h] \in CoRec BY DEF TypeC
<1>1. CASE EndOfJobStop(h)
  <2>1. engine' = Killed(h) /\ gui' = gui BY <1>1 DEF EndOfJobStop
  <2> DEFINE end == [co[h] EXCEPT !.pc = "select", !.then = "none", !.pid = None,
                                  !.session = None, !.sock = None]
  <2>2. end \in CoRec BY <1>0 DEF CoRec
  <2>3. <<FREE, LineOf("jobFinished", co[h].session), FREE>> \in Seq(Lines)
        /\ <<FREE, FREE>> \in Seq(Lines)
    <3>1. co[h].session \in Job \cup {None} BY <1>0 DEF CoRec
    <3>2. FREE \in Lines /\ LineOf("jobFinished", co[h].session) \in Lines BY <3>1, LinesOf
    <3>3. QED BY <3>2
  <2>4. \/ Answer(h, end, <<FREE, LineOf("jobFinished", co[h].session), FREE>>)
        \/ Answer(h, end, <<FREE, FREE>>) \/ Dies(h, <<>>)
    BY <1>1 DEF EndOfJobStop
  <2> HIDE DEF end
  <2>5. QED BY <2>1, <2>2, <2>3, <2>4, AnswerTyped, DiesTyped, KilledTyped DEF TypeC
<1>2. CASE EndOfStop(h)
  <2>1. engine' = Killed(h) /\ gui' = gui BY <1>2 DEF EndOfStop
  <2> DEFINE end == [co[h] EXCEPT !.pc = "select", !.then = "none", !.pid = None]
  <2>2. end \in CoRec BY <1>0 DEF CoRec
  <2>3. <<>> \in Seq(Lines) OBVIOUS
  <2>4. Answer(h, end, <<>>) \/ Dies(h, <<>>) BY <1>2 DEF EndOfStop
  <2> HIDE DEF end
  <2>5. QED BY <2>1, <2>2, <2>3, <2>4, AnswerTyped, DiesTyped, KilledTyped DEF TypeC
<1>3. CASE EndOfAbort(h, k)
  <2>1. engine' \in {Killed(h), engine} BY <1>3 DEF EndOfAbort
  <2>2. gui' = gui \/ gui' = [c \in Client |-> IF co[h].session = None /\ c = co[h].active
                                               THEN "closed" ELSE gui[c]]
    BY <1>3 DEF EndOfAbort
  <2>3. gui' \in [Client -> G] BY <2>2 DEF TypeC
  <2> DEFINE end == [co[h] EXCEPT !.pc = "select", !.then = "none", !.sock = None,
                              !.pid = IF k THEN None ELSE @,
                              !.active = IF co[h].session = None THEN None ELSE @]
  <2>4. end \in CoRec BY <1>0 DEF CoRec
  <2>5. <<FREE>> \in Seq(Lines)
    <3>1. FREE \in Lines BY LinesOf
    <3>2. QED BY <3>1
  <2>6. Answer(h, end, <<FREE>>) \/ Dies(h, <<>>) BY <1>3 DEF EndOfAbort
  <2> HIDE DEF end
  <2>7. QED BY <2>1, <2>3, <2>4, <2>5, <2>6, AnswerTyped, DiesTyped, KilledTyped DEF TypeC
<1>4. QED BY <1>1, <1>2, <1>3

LEMMA WaitTyped ==
  ASSUME TypeL, TypeC, NEW h \in Host, NEW t \in {"jobStop", "abort", "stop", "pause", "resume"},
         Wait(h, t)
  PROVE  co' \in [Host -> CoRec] /\ up' \in [Host -> Seq(Lines)]
<1>1. [co[h] EXCEPT !.pc = "wait", !.then = t] \in CoRec BY ZenonT(60) DEF TypeC, CoRec
<1>2. <<>> \in Seq(Lines) OBVIOUS
<1>3. QED BY <1>1, <1>2, AnswerTyped DEF Wait

LEMMA AsksTyped ==
  ASSUME TypeL, TypeC, NEW h \in Host, AskJobStop(h) \/ AskStop(h) \/ AskAbort(h)
  PROVE  /\ up' \in [Host -> Seq(Lines)] /\ co' \in [Host -> CoRec]
         /\ engine' \in [Run -> {"none", "ended", "dead"} \cup Live]
         /\ gui' \in [Client -> {"new", "unanswered", "invited", "connected", "hungup", "closed"}]
<1>1. CASE EndOfJobStop(h) \/ EndOfStop(h) \/ EndOfAbort(h, FALSE) BY <1>1, EndsTyped
<1>2. CASE \E t \in {"jobStop", "abort", "stop"} : Wait(h, t) /\ UNCHANGED <<engine, gui>>
  BY <1>2, WaitTyped DEF TypeC
<1>3. QED BY <1>1, <1>2 DEF AskJobStop, AskStop, AskAbort

LEMMA StartTyped ==
  ASSUME TypeL, TypeC, NEW h \in Host, NEW r \in Run \cup {None}, NEW s \in Job \cup {None},
         Start(h, r, s)
  PROVE  /\ up' \in [Host -> Seq(Lines)] /\ co' \in [Host -> CoRec]
         /\ engine' \in [Run -> {"none", "ended", "dead"} \cup Live]
         /\ where' \in [Run -> Host \cup {None}]
<1>1. [co[h] EXCEPT !.session = s, !.pid = r] \in CoRec BY ZenonT(60) DEF TypeC, CoRec
<1>2. <<>> \in Seq(Lines) OBVIOUS
<1>3. co' \in [Host -> CoRec] /\ up' \in [Host -> Seq(Lines)]
  BY <1>1, <1>2, AnswerTyped DEF Start
<1>4. engine' = [engine EXCEPT ![r] = "forked"] /\ where' = [where EXCEPT ![r] = h] BY DEF Start
<1>5. QED BY <1>3, <1>4 DEF TypeC, Live

\* A step of a coordinator.
LEMMA CoordinatorTyped ==
  ASSUME TypeOK, NEW h \in Host, Coordinator(h) \/ HostCrash(h)
  PROVE  TypeOK'
<1> DEFINE E == {"none", "ended", "dead"} \cup Live
           G == {"new", "unanswered", "invited", "connected", "hungup", "closed"}
<1>0. TypeD /\ TypeL /\ TypeC /\ co[h] \in CoRec BY TypeParts DEF TypeC
<1>1. UNCHANGED dispatcher
  BY DEF Coordinator, HostCrash, BGStart, Boot, Registered, SetupEnv, PutFile, GotFile,
         TickAnswer, JobStop, JobAbort, Acknowledged, NoAcknowledgement, SimulationDone,
         EngineClosed, EngineConnects
<1>2. TypeD' BY <1>0, <1>1 DEF TypeD, dispatcher
<1>3. down' \in [Host -> Seq(Lines)]
  <2>1. down' = down \/ (down[h] # <<>> /\ Take(h))
    BY DEF Coordinator, HostCrash, BGStart, Boot, Registered, SetupEnv, PutFile, GotFile,
           TickAnswer, JobStop, JobAbort, Acknowledged, NoAcknowledgement, SimulationDone,
           EngineClosed, EngineConnects, Reads
  <2>2. QED BY <1>0, <2>1, TakeTyped DEF TypeL
<1>4. ASSUME Boot(h) \/ Registered(h) \/ SetupEnv(h) \/ PutFile(h) \/ GotFile(h)
             \/ TickAnswer(h)
      PROVE  /\ co' \in [Host -> CoRec] /\ up' \in [Host -> Seq(Lines)]
             /\ UNCHANGED <<engine, where, gui>>
  <2>1. UNCHANGED <<engine, where, gui>>
    BY <1>4 DEF Boot, Registered, SetupEnv, PutFile, GotFile, TickAnswer
  <2>2. \E rec \in CoRec : \E ls : /\ \/ ls = <<>>
                                      \/ \E k \in {"register", "EnvOK", "please", "File get", "tick"} :
                                           ls = <<Line(k)>>
                                   /\ Answer(h, rec, ls)
    <3>1. /\ [co[h] EXCEPT !.pc = "register"] \in CoRec /\ [co[h] EXCEPT !.pc = "select"] \in CoRec
          /\ [co[h] EXCEPT !.session = None] \in CoRec /\ [co[h] EXCEPT !.pc = "file"] \in CoRec
      BY <1>0 DEF CoRec
    <3>2. CASE Boot(h) BY <3>1, <3>2 DEF Boot
    <3>3. CASE Registered(h) BY <3>1, <3>3 DEF Registered
    <3>4. CASE SetupEnv(h) BY <3>1, <3>4 DEF SetupEnv
    <3>5. CASE PutFile(h) BY <3>1, <3>5 DEF PutFile
    <3>6. CASE GotFile(h) BY <3>1, <3>6 DEF GotFile
    <3>7. CASE TickAnswer(h) BY <1>0, <3>7 DEF TickAnswer
    <3>8. QED BY <1>4, <3>2, <3>3, <3>4, <3>5, <3>6, <3>7
  <2>3. PICK rec \in CoRec : \E ls : /\ \/ ls = <<>>
                                        \/ \E k \in {"register", "EnvOK", "please", "File get", "tick"} :
                                             ls = <<Line(k)>>
                                     /\ Answer(h, rec, ls)
    BY <2>2
  <2>4. PICK ls : /\ \/ ls = <<>>
                     \/ \E k \in {"register", "EnvOK", "please", "File get", "tick"} : ls = <<Line(k)>>
                  /\ Answer(h, rec, ls)
    BY <2>3
  <2>5. ls \in Seq(Lines)
    <3>1. \A l \in Lines : <<l>> \in Seq(Lines) OBVIOUS
    <3>2. <<>> \in Seq(Lines) OBVIOUS
    <3>3. QED BY <2>4, <3>1, <3>2, LinesOf
  <2>6. QED BY <1>0, <2>1, <2>4, <2>5, AnswerTyped
<1>5. ASSUME NoAcknowledgement(h) \/ HostCrash(h)
      PROVE  /\ co' \in [Host -> CoRec] /\ up' \in [Host -> Seq(Lines)]
             /\ UNCHANGED <<engine, where, gui>>
  BY <1>0, <1>5, DiesTyped DEF NoAcknowledgement, HostCrash
<1>6. ASSUME BGStart(h)
      PROVE  /\ co' \in [Host -> CoRec] /\ up' \in [Host -> Seq(Lines)]
             /\ engine' \in [Run -> E] /\ where' \in [Run -> Host \cup {None}] /\ gui' = gui
  <2>1. /\ Start(h, Head(down[h]).job, Head(down[h]).job) /\ down[h] # <<>> /\ Take(h) /\ gui' = gui
    BY <1>6 DEF BGStart, Reads
  <2>2. Head(down[h]) \in Lines BY <1>0, <2>1, TakeTyped
  <2>3. Head(down[h]).job \in Job \cup {None} BY <2>2 DEF Lines
  <2>4. Head(down[h]).job \in Run \cup {None} BY <2>3 DEF Run
  <2>5. QED BY <1>0, <2>1, <2>3, <2>4, StartTyped
<1>7. ASSUME JobStop(h) \/ JobAbort(h)
      PROVE  /\ co' \in [Host -> CoRec] /\ up' \in [Host -> Seq(Lines)]
             /\ engine' \in [Run -> E] /\ gui' \in [Client -> G] /\ where' = where
  BY <1>0, <1>7, AsksTyped DEF JobStop, JobAbort
<1>8. ASSUME Acknowledged(h)
      PROVE  /\ co' \in [Host -> CoRec] /\ up' \in [Host -> Seq(Lines)]
             /\ engine' \in [Run -> E] /\ gui' \in [Client -> G] /\ where' = where
  <2>1. where' = where BY <1>8 DEF Acknowledged
  <2>2. CASE EndOfJobStop(h) \/ EndOfAbort(h, TRUE) \/ EndOfStop(h)
    BY <1>0, <2>1, <2>2, EndsTyped
  <2>3. CASE /\ engine' = IF co[h].then = "pause" THEN Signal(h, "up", "paused") ELSE engine
             /\ Answer(h, [co[h] EXCEPT !.pc = "select", !.then = "none"], <<>>)
             /\ gui' = gui
    <3>1. engine' \in [Run -> E] BY <1>0, <2>3, SignalTyped DEF TypeC, Live
    <3>2. <<>> \in Seq(Lines) OBVIOUS
    <3>3. [co[h] EXCEPT !.pc = "select", !.then = "none"] \in CoRec BY <1>0 DEF CoRec
    <3>4. co' \in [Host -> CoRec] /\ up' \in [Host -> Seq(Lines)]
      BY <1>0, <2>3, <3>2, <3>3, AnswerTyped
    <3>5. QED BY <1>0, <2>1, <2>3, <3>1, <3>4 DEF TypeC
  <2>4. QED BY <1>8, <2>2, <2>3 DEF Acknowledged
<1>9. ASSUME SimulationDone(h)
      PROVE  /\ co' \in [Host -> CoRec] /\ up' \in [Host -> Seq(Lines)]
             /\ engine' \in [Run -> E] /\ UNCHANGED <<where, gui>>
  <2>1. /\ engine' = [engine EXCEPT ![co[h].sock] = "ended"] /\ UNCHANGED <<where, gui>>
    BY <1>9 DEF SimulationDone
  <2>2. engine' \in [Run -> E] BY <1>0, <2>1 DEF TypeC
  <2> DEFINE end == [co[h] EXCEPT !.session = None, !.sock = None]
  <2>3. end \in CoRec BY <1>0 DEF CoRec
  <2>4. \/ Answer(h, end, <<LineOf("jobFinished", co[h].session), FREE>>)
        \/ Answer(h, end, <<FREE>>) \/ Dies(h, <<>>)
    BY <1>9 DEF SimulationDone, SimulationFinished
  <2> HIDE DEF end
  <2>5. <<LineOf("jobFinished", co[h].session), FREE>> \in Seq(Lines) /\ <<FREE>> \in Seq(Lines)
    <3>1. co[h].session \in Job \cup {None} BY <1>0 DEF CoRec
    <3>2. FREE \in Lines /\ LineOf("jobFinished", co[h].session) \in Lines BY <3>1, LinesOf
    <3>3. QED BY <3>2
  <2>6. QED BY <1>0, <2>1, <2>2, <2>3, <2>4, <2>5, AnswerTyped, DiesTyped
<1>10. ASSUME EngineClosed(h) \/ \E r \in Run : EngineConnects(h, r)
       PROVE  /\ co' \in [Host -> CoRec] /\ up' \in [Host -> Seq(Lines)]
              /\ engine' \in [Run -> E] /\ UNCHANGED <<where, gui>>
  <2>1. \E x \in Run \cup {None} : Answer(h, [co[h] EXCEPT !.sock = x], <<>>)
    BY <1>10 DEF EngineClosed, EngineConnects
  <2>2. \A x \in Run \cup {None} : [co[h] EXCEPT !.sock = x] \in CoRec BY <1>0 DEF CoRec
  <2>3. <<>> \in Seq(Lines) OBVIOUS
  <2>4. co' \in [Host -> CoRec] /\ up' \in [Host -> Seq(Lines)]
    BY <1>0, <2>1, <2>2, <2>3, AnswerTyped
  <2>5. engine' = engine \/ \E r \in Run : engine' = [engine EXCEPT ![r] = "up"]
    BY <1>10 DEF EngineClosed, EngineConnects
  <2>6. engine' \in [Run -> E] BY <1>0, <2>5 DEF TypeC, Live
  <2>7. QED BY <1>10, <2>4, <2>6 DEF EngineClosed, EngineConnects
<1>11. /\ co' \in [Host -> CoRec] /\ up' \in [Host -> Seq(Lines)] /\ engine' \in [Run -> E]
       /\ where' \in [Run -> Host \cup {None}] /\ gui' \in [Client -> G]
  BY <1>0, <1>4, <1>5, <1>6, <1>7, <1>8, <1>9, <1>10 DEF Coordinator, TypeC
<1>12. TypeL' /\ TypeC' BY <1>3, <1>11 DEF TypeL, TypeC
<1>13. QED BY <1>2, <1>12, TypeParts, PTL

\* A step of an engine or of a client.
LEMMA EngineTyped ==
  ASSUME TypeOK, NEW r \in Run, EngineDone(r) \/ EngineCrash(r)
  PROVE  TypeOK'
<1>0. TypeD /\ TypeL /\ TypeC BY TypeParts
<1>1. UNCHANGED <<queue, jobMap, coor, entry, status, disp, submitted, misled, up, down,
                  co, where, gui>>
  BY DEF EngineDone, EngineCrash, dispatcher
<1>2. \E to \in {"done", "dead"} : engine' = [engine EXCEPT ![r] = to]
  BY DEF EngineDone, EngineCrash
<1>3. TypeD' /\ TypeL' BY <1>0, <1>1 DEF TypeD, TypeL
<1>4. TypeC' BY <1>0, <1>1, <1>2 DEF TypeC, Live
<1>5. QED BY <1>3, <1>4, TypeParts, PTL

LEMMA ClientTyped ==
  ASSUME TypeOK, NEW c \in Client,
         \/ InitClient(c) \/ StartSimulation(c) \/ StopSimulation(c) \/ PauseSimulation(c)
         \/ ResumeSimulation(c) \/ AbortSimulation(c) \/ HangUp(c) \/ ClientEnd(c)
  PROVE  TypeOK'
<1> DEFINE E == {"none", "ended", "dead"} \cup Live
           G == {"new", "unanswered", "invited", "connected", "hungup", "closed"}
           h == where[c]
<1>0. TypeD /\ TypeL /\ TypeC BY TypeParts
<1>1. UNCHANGED dispatcher /\ down' = down
  BY DEF InitClient, StartSimulation, StopSimulation, PauseSimulation, ResumeSimulation,
         AbortSimulation, HangUp, ClientEnd
<1>2. TypeD' BY <1>0, <1>1 DEF TypeD, dispatcher
<1>3. h \in Host
  <2>1. h # None
    BY DEF InitClient, StartSimulation, StopSimulation, PauseSimulation, ResumeSimulation,
           AbortSimulation, HangUp, ClientEnd, Serves
  <2>2. c \in Run BY DEF Run
  <2>3. QED BY <1>0, <2>1, <2>2 DEF TypeC
<1>4. co[h] \in CoRec BY <1>0, <1>3 DEF TypeC
<1>5. <<>> \in Seq(Lines) OBVIOUS
<1> HIDE DEF h
<1>6. CASE InitClient(c)
  <2>1. [co[h] EXCEPT !.active = c] \in CoRec BY <1>4 DEF CoRec
  <2>2. /\ Answer(h, [co[h] EXCEPT !.active = c], <<>>) /\ UNCHANGED <<engine, where>>
        /\ gui' = [gui EXCEPT ![c] = "connected"]
    BY <1>6 DEF InitClient, h
  <2>3. co' \in [Host -> CoRec] /\ up' \in [Host -> Seq(Lines)]
    BY <1>0, <1>3, <1>5, <2>1, <2>2, AnswerTyped
  <2>4. TypeC' /\ TypeL' BY <1>0, <1>1, <2>2, <2>3 DEF TypeC, TypeL
  <2>5. QED BY <1>2, <2>4, TypeParts, PTL
<1>7. CASE StartSimulation(c)
  <2>1. Start(h, c, None) /\ gui' = gui BY <1>7 DEF StartSimulation, h
  <2>2. c \in Run \cup {None} BY DEF Run
  <2>3. /\ up' \in [Host -> Seq(Lines)] /\ co' \in [Host -> CoRec]
        /\ engine' \in [Run -> E] /\ where' \in [Run -> Host \cup {None}]
    BY <1>0, <1>3, <2>1, <2>2, StartTyped
  <2>4. TypeC' /\ TypeL' BY <1>0, <1>1, <2>1, <2>3 DEF TypeC, TypeL
  <2>5. QED BY <1>2, <2>4, TypeParts, PTL
<1>8. CASE StopSimulation(c) \/ AbortSimulation(c) \/ (ClientEnd(c) /\ AskAbort(h))
  <2>1. (AskStop(h) \/ AskAbort(h)) /\ where' = where
    BY <1>8 DEF StopSimulation, AbortSimulation, ClientEnd, h
  <2>2. /\ up' \in [Host -> Seq(Lines)] /\ co' \in [Host -> CoRec]
        /\ engine' \in [Run -> E] /\ gui' \in [Client -> G]
    BY <1>0, <1>3, <2>1, AsksTyped
  <2>3. TypeC' /\ TypeL' BY <1>0, <1>1, <2>1, <2>2 DEF TypeC, TypeL
  <2>4. QED BY <1>2, <2>3, TypeParts, PTL
<1>9. CASE PauseSimulation(c) \/ ResumeSimulation(c)
  <2>1. /\ \E t \in {"pause", "resume"} : Wait(h, t)
        /\ engine' \in {engine, Signal(h, "paused", "up")} /\ UNCHANGED <<where, gui>>
    BY <1>9 DEF PauseSimulation, ResumeSimulation, h
  <2>2. engine' \in [Run -> E] BY <1>0, <2>1, SignalTyped DEF TypeC, Live
  <2>3. co' \in [Host -> CoRec] /\ up' \in [Host -> Seq(Lines)]
    BY <1>0, <1>3, <2>1, WaitTyped
  <2>4. TypeC' /\ TypeL' BY <1>0, <1>1, <2>1, <2>2, <2>3 DEF TypeC, TypeL
  <2>5. QED BY <1>2, <2>4, TypeParts, PTL
<1>10. CASE HangUp(c)
  <2>1. gui' = [gui EXCEPT ![c] = "hungup"] /\ UNCHANGED <<up, down, co, engine, where>>
    BY <1>10 DEF HangUp
  <2>2. TypeC' /\ TypeL' BY <1>0, <2>1 DEF TypeC, TypeL
  <2>3. QED BY <1>2, <2>2, TypeParts, PTL
<1>11. CASE ClientEnd(c) /\ ~AskAbort(h)
  <2>1. /\ UNCHANGED <<engine, where>>
        /\ gui' = gui \/ gui' = [d \in Client |-> IF d = co[h].active THEN "closed" ELSE gui[d]]
        /\ Answer(h, [co[h] EXCEPT !.active = None], <<>>) \/ Dies(h, <<>>)
    BY <1>11 DEF ClientEnd, h
  <2>2. [co[h] EXCEPT !.active = None] \in CoRec BY <1>4 DEF CoRec
  <2>3. co' \in [Host -> CoRec] /\ up' \in [Host -> Seq(Lines)]
    BY <1>0, <1>3, <1>5, <2>1, <2>2, AnswerTyped, DiesTyped
  <2>4. gui' \in [Client -> G] BY <1>0, <2>1 DEF TypeC
  <2>5. TypeC' /\ TypeL' BY <1>0, <1>1, <2>1, <2>3, <2>4 DEF TypeC, TypeL
  <2>6. QED BY <1>2, <2>5, TypeParts, PTL
<1>12. QED BY <1>6, <1>7, <1>8, <1>9, <1>10, <1>11

-----------------------------------------------------------------------------
LEMMA LeastIndex ==
  ASSUME NEW S \in SUBSET Nat, S # {}
  PROVE  \E m \in S : \A k \in S : m <= k
<1> DEFINE R == OpToRel(<, Nat)
<1>1. IsWellFoundedOn(R, Nat) BY NatLessThanWellFounded
<1>2. PICK m \in S : \A k \in S : <<k, m>> \notin R
  <2> HIDE DEF R
  <2>1. QED BY <1>1, WFMin
<1>3. \A a, b \in Nat : a < b => <<a, b>> \in R BY DEF OpToRel
<1> HIDE DEF R
<1>4. \A k \in S : ~(k < m) BY <1>2, <1>3
<1>5. QED BY <1>4

\* A free host is a host.
LEMMA FreeHostTyped ==
  ASSUME entry \in Seq(Host)
  PROVE  anyFreeHost \in Host \cup {None}
<1> DEFINE free == {i \in DOMAIN entry : status[entry[i]] = "FREE"}
           m == CHOOSE i \in free : \A k \in free : i <= k
<1>1. CASE free = {} BY <1>1 DEF anyFreeHost
<1>2. CASE free # {}
  <2>1. free \in SUBSET Nat /\ \A i \in DOMAIN entry : entry[i] \in Host OBVIOUS
  <2>2. \E n \in free : \A k \in free : n <= k
    <3> HIDE DEF free
    <3>1. QED BY <1>2, <2>1, LeastIndex
  <2>3. m \in free BY <2>2
  <2>4. anyFreeHost = entry[m] BY <1>2 DEF anyFreeHost
  <2> HIDE DEF m
  <2>5. m \in DOMAIN entry BY <2>3
  <2>6. QED BY <2>1, <2>4, <2>5
<1>3. QED BY <1>1, <1>2

\* dispatchJob up to its first answer.
LEMMA DispatchTyped ==
  ASSUME TypeD, TypeL, NEW q \in Seq(Job), NEW h \in Host,
         NEW caller \in {"backGndJob", "setStatus", "registServer"},
         NEW st \in [Host -> {"FREE", "BUSY"}], NEW line,
         NEW first \in Seq(Lines), DispatchJob(h, caller, q, st, line, first)
  PROVE  /\ queue' \in Seq(Job) /\ status' \in [Host -> {"FREE", "BUSY"}]
         /\ disp' \in DispRec /\ down' \in [Host -> Seq(Lines)]
<1>1. CASE q = <<>>
  <2>1. Write(h, first) /\ queue' = q /\ status' = StatusAfter(st, h, caller, "neg") /\ disp' = AtSelect
    BY <1>1 DEF DispatchJob
  <2>2. AtSelect \in DispRec BY DEF AtSelect, DispRec
  <2>3. StatusAfter(st, h, caller, "neg") \in [Host -> {"FREE", "BUSY"}] BY DEF StatusAfter
  <2>4. QED BY <2>1, <2>2, <2>3, WriteTyped
<1>2. CASE q # <<>>
  <2>1. /\ Write(h, first \o <<Line("setupEnv")>>) /\ queue' = Tail(q) /\ status' = st
        /\ disp' = [pc |-> "env", host |-> h, run |-> Head(q), caller |-> caller,
                    clean |-> Quiet(h, line)]
    BY <1>2 DEF DispatchJob, getJob
  <2>2. Head(q) \in Job /\ Tail(q) \in Seq(Job) BY <1>2
  <2>3. Quiet(h, line) \in BOOLEAN BY DEF Quiet
  <2>4. disp' \in DispRec BY <2>1, <2>2, <2>3 DEF DispRec, Run
  <2>5. first \o <<Line("setupEnv")>> \in Seq(Lines)
    <3>1. Line("setupEnv") \in Lines BY LinesOf
    <3> DEFINE l == Line("setupEnv")
    <3> HIDE DEF l
    <3>2. l \in Lines BY <3>1 DEF l
    <3>3. first \o <<l>> \in Seq(Lines) BY <3>2
    <3>4. QED BY <3>3 DEF l
  <2>6. QED BY <2>1, <2>2, <2>4, <2>5, WriteTyped
<1>3. QED BY <1>1, <1>2

LEMMA SubmitTyped == ASSUME TypeOK, NEW j \in Job, Submit(j) PROVE TypeOK'
<1>0. TypeD /\ TypeL /\ TypeC BY TypeParts
<1>1. /\ jobMap' = [jobMap EXCEPT ![j] = "WAITING"] /\ submitted' = Append(submitted, j)
      /\ UNCHANGED <<coor, entry, up, co, engine, where, gui, misled>>
  BY DEF Submit
<1>2. Append(queue, j) \in Seq(Job) /\ Append(submitted, j) \in Seq(Job) BY <1>0 DEF TypeD
<1>3. /\ queue' \in Seq(Job) /\ status' \in [Host -> {"FREE", "BUSY"}]
      /\ disp' \in DispRec /\ down' \in [Host -> Seq(Lines)]
  <2> DEFINE h == anyFreeHost
             st == [status EXCEPT ![h] = "BUSY"]
             q == Append(queue, j)
  <2>1. CASE h = None /\ queue' = q /\ UNCHANGED <<status, disp, down>>
    BY <1>0, <1>2, <2>1 DEF TypeD, TypeL
  <2>2. CASE h # None /\ DispatchJob(h, "backGndJob", q, st, up[h], <<>>)
    <3>1. h \in Host BY <1>0, <2>2, FreeHostTyped DEF TypeD
    <3>2. st \in [Host -> {"FREE", "BUSY"}] BY <1>0 DEF TypeD
    <3>3. <<>> \in Seq(Lines) OBVIOUS
    <3> HIDE DEF h, st, q
    <3>4. q \in Seq(Job) BY <1>2 DEF q
    <3>5. QED BY <1>0, <2>2, <3>1, <3>2, <3>3, <3>4, DispatchTyped
  <2>3. QED BY <2>1, <2>2 DEF Submit
<1>4. TypeD' BY <1>0, <1>1, <1>2, <1>3 DEF TypeD
<1>5. TypeL' /\ TypeC' BY <1>0, <1>1, <1>3 DEF TypeL, TypeC
<1>6. QED BY <1>4, <1>5, TypeParts, PTL

\* A line of a coordinator, or its end.
LEMMA ServerTyped ==
  ASSUME TypeOK, NEW h \in Host,
         Register(h) \/ SetStatus(h) \/ JobFinished(h) \/ IgnoreLine(h) \/ RemoveHost(h)
  PROVE  TypeOK'
<1>0. TypeD /\ TypeL /\ TypeC BY TypeParts
<1>1. UNCHANGED <<co, engine, where, gui>>
  BY DEF Register, SetStatus, JobFinished, IgnoreLine, RemoveHost
<1>2. TypeC' BY <1>0, <1>1 DEF TypeC
<1>3. CASE Register(h)
  <2> DEFINE st == [status EXCEPT ![h] = "FREE"]
             ok == <<Line("OK")>>
  <2>1. /\ up[h] # <<>> /\ Heard(h) /\ entry' = Append(entry, h)
        /\ DispatchJob(h, "registServer", queue, st, Tail(up[h]), ok)
        /\ UNCHANGED <<jobMap, coor, submitted, misled>>
    BY <1>3 DEF Register
  <2>2. st \in [Host -> {"FREE", "BUSY"}] /\ entry' \in Seq(Host) BY <1>0, <2>1 DEF TypeD
  <2>3. ok \in Seq(Lines)
    <3>1. Line("OK") \in Lines BY LinesOf
    <3>2. \A l \in Lines : <<l>> \in Seq(Lines) OBVIOUS
    <3>3. QED BY <3>1, <3>2
  <2>4. queue \in Seq(Job) BY <1>0 DEF TypeD
  <2>5. up' \in [Host -> Seq(Lines)] BY <1>0, <2>1, HeardTyped
  <2> HIDE DEF st, ok
  <2>6. /\ queue' \in Seq(Job) /\ status' \in [Host -> {"FREE", "BUSY"}]
        /\ disp' \in DispRec /\ down' \in [Host -> Seq(Lines)]
    BY <1>0, <2>1, <2>2, <2>3, <2>4, DispatchTyped
  <2>7. TypeD' /\ TypeL' BY <1>0, <2>1, <2>2, <2>5, <2>6 DEF TypeD, TypeL
  <2>8. QED BY <1>2, <2>7, TypeParts, PTL
<1>4. CASE SetStatus(h)
  <2>1. /\ up[h] # <<>> /\ Heard(h)
        /\ DispatchJob(h, "setStatus", queue, status, Tail(up[h]), <<>>)
        /\ UNCHANGED <<jobMap, coor, entry, submitted, misled>>
    BY <1>4 DEF SetStatus
  <2>2. <<>> \in Seq(Lines) OBVIOUS
  <2>3. queue \in Seq(Job) /\ status \in [Host -> {"FREE", "BUSY"}] BY <1>0 DEF TypeD
  <2>4. up' \in [Host -> Seq(Lines)] BY <1>0, <2>1, HeardTyped
  <2>5. /\ queue' \in Seq(Job) /\ status' \in [Host -> {"FREE", "BUSY"}]
        /\ disp' \in DispRec /\ down' \in [Host -> Seq(Lines)]
    BY <1>0, <2>1, <2>2, <2>3, DispatchTyped
  <2>6. TypeD' /\ TypeL' BY <1>0, <2>1, <2>4, <2>5 DEF TypeD, TypeL
  <2>7. QED BY <1>2, <2>6, TypeParts, PTL
<1>5. CASE JobFinished(h) \/ IgnoreLine(h)
  <2>1. /\ up[h] # <<>> /\ Heard(h) /\ UNCHANGED <<queue, coor, entry, status, disp, down, submitted, misled>>
        /\ \/ jobMap' = jobMap
           \/ \E j : jobMap' = [jobMap EXCEPT ![j] = "FINISHED"]
    BY <1>5 DEF JobFinished, IgnoreLine, dispatcher
  <2>2. up' \in [Host -> Seq(Lines)] BY <1>0, <2>1, HeardTyped
  <2>3. jobMap' \in [Job -> {"none", "WAITING", "RUNNING", "FINISHED"}] BY <1>0, <2>1 DEF TypeD
  <2>4. TypeD' /\ TypeL' BY <1>0, <2>1, <2>2, <2>3 DEF TypeD, TypeL
  <2>5. QED BY <1>2, <2>4, TypeParts, PTL
<1>6. CASE RemoveHost(h)
  <2>1. /\ status' = [status EXCEPT ![h] = "BUSY"]
        /\ UNCHANGED <<queue, jobMap, coor, disp, up, down, submitted, misled>>
    BY <1>6 DEF RemoveHost
  <2>2. entry' \in Seq(Host)
    <3>1. PICK i \in DOMAIN entry :
            entry' = SubSeq(entry, 1, i - 1) \o SubSeq(entry, i + 1, Len(entry))
      BY <1>6 DEF RemoveHost
    <3>2. entry \in Seq(Host) BY <1>0 DEF TypeD
    <3>3. i \in 1 .. Len(entry) BY <3>2
    <3>4. SubSeq(entry, 1, i - 1) \in Seq(Host) /\ SubSeq(entry, i + 1, Len(entry)) \in Seq(Host)
      BY <3>2, <3>3, SubSeqProperties
    <3>5. QED BY <3>1, <3>4, ConcatProperties
  <2>3. TypeD' /\ TypeL' BY <1>0, <2>1, <2>2 DEF TypeD, TypeL
  <2>4. QED BY <1>2, <2>3, TypeParts, PTL
<1>7. QED BY <1>3, <1>4, <1>5, <1>6

\* A line the dispatcher waited for, or the end of the connection.
LEMMA AnsweredTyped ==
  ASSUME TypeOK, IInv,
         \/ DispatchAnswer("env", "put", "BG_putFile") \/ DispatchAnswer("put", "get", "file")
         \/ Dispatched \/ DispatchFailed \/ DispatchBroken
         \/ TickRead \/ EnvAnswer \/ AnswerBroken
  PROVE  TypeOK'
<1> DEFINE G == {"new", "unanswered", "invited", "connected", "hungup", "closed"}
           h == disp.host
<1>0. TypeD /\ TypeL /\ TypeC /\ disp \in DispRec BY TypeParts DEF TypeD
<1>1. UNCHANGED <<queue, entry, co, engine, submitted>>
  BY DEF DispatchAnswer, Dispatched, DispatchFailed, DispatchBroken, TickRead, EnvAnswer,
         AnswerBroken
<1>2. up' \in [Host -> Seq(Lines)]
  <2>1. up' = up \/ (up[h] # <<>> /\ Heard(h))
    BY DEF DispatchAnswer, Dispatched, DispatchFailed, DispatchBroken, TickRead, EnvAnswer,
           AnswerBroken
  <2> HIDE DEF h
  <2>2. QED BY <1>0, <2>1, HeardTyped DEF TypeL
<1>3. down' \in [Host -> Seq(Lines)]
  <2>1. \/ down' = down \/ \E k \in {"BG_putFile", "file"} : Say(h, Line(k))
        \/ Say(h, LineOf("BG_start", disp.run)) /\ disp.pc = "get"
    BY DEF DispatchAnswer, Dispatched, DispatchFailed, DispatchBroken, TickRead, EnvAnswer,
           AnswerBroken
  <2>2. CASE down' = down BY <1>0, <2>2 DEF TypeL
  <2>3. CASE \E k \in {"BG_putFile", "file"} : Say(h, Line(k))
    <3> HIDE DEF h
    <3>1. PICK l \in Lines : Say(h, l) BY <2>3, LinesOf
    <3>2. QED BY <1>0, <3>1, SayTyped
  <2>4. CASE Say(h, LineOf("BG_start", disp.run)) /\ disp.pc = "get"
    <3>1. disp.run \in Job BY <2>4 DEF IInv, Typed, Dispatching
    <3> HIDE DEF h
    <3>2. QED BY <1>0, <2>4, <3>1, SayTyped, LinesOf
  <2>5. QED BY <2>1, <2>2, <2>3, <2>4
<1>4. disp' \in DispRec
  <2>1. \/ \E k \in {"put", "get"} : disp' = [disp EXCEPT !.pc = k]
        \/ disp' = AtSelect \/ disp' = [AtSelect EXCEPT !.pc = "dead"]
    BY DEF DispatchAnswer, Dispatched, DispatchFailed, DispatchBroken, TickRead, EnvAnswer,
           AnswerBroken
  <2>2. AtSelect \in DispRec /\ [AtSelect EXCEPT !.pc = "dead"] \in DispRec
    BY DEF DispRec, AtSelect
  <2>3. \A k \in {"put", "get"} : [disp EXCEPT !.pc = k] \in DispRec BY <1>0 DEF DispRec
  <2>4. QED BY <2>1, <2>2, <2>3
<1>5. status' \in [Host -> {"FREE", "BUSY"}]
  <2>1. status' = status \/ \E r : status' = StatusAfter(status, h, disp.caller, r)
    BY DEF DispatchAnswer, Dispatched, DispatchFailed, DispatchBroken, TickRead, EnvAnswer,
           AnswerBroken
  <2>2. QED BY <1>0, <2>1 DEF TypeD, StatusAfter
<1>6. jobMap' \in [Job -> {"none", "WAITING", "RUNNING", "FINISHED"}]
  <2>1. jobMap' = jobMap \/ jobMap' = [jobMap EXCEPT ![disp.run] = "RUNNING"]
    BY DEF DispatchAnswer, Dispatched, DispatchFailed, DispatchBroken, TickRead, EnvAnswer,
           AnswerBroken
  <2>2. QED BY <1>0, <2>1 DEF TypeD
<1>7. h \in Host \cup {None} BY <1>0 DEF DispRec
<1>8. coor' \in [Job -> Host \cup {None}]
  <2>1. coor' = coor \/ coor' = [coor EXCEPT ![disp.run] = h]
    BY DEF DispatchAnswer, Dispatched, DispatchFailed, DispatchBroken, TickRead, EnvAnswer,
           AnswerBroken
  <2>2. QED BY <1>0, <1>7, <2>1 DEF TypeD
<1>9. where' \in [Run -> Host \cup {None}]
  <2>1. where' = where \/ where' = [where EXCEPT ![disp.run] = h]
    BY DEF DispatchAnswer, Dispatched, DispatchFailed, DispatchBroken, TickRead, EnvAnswer,
           AnswerBroken
  <2>2. QED BY <1>0, <1>7, <2>1 DEF TypeC
<1>10. gui' \in [Client -> G]
  <2>1. gui' = gui \/ \E k \in {"invited", "unanswered"} : gui' = [gui EXCEPT ![disp.run] = k]
    BY DEF DispatchAnswer, Dispatched, DispatchFailed, DispatchBroken, TickRead, EnvAnswer,
           AnswerBroken
  <2>2. QED BY <1>0, <2>1 DEF TypeC
<1>11. misled' \in BOOLEAN
  <2>1. misled' = misled \/ \E b \in BOOLEAN : misled' = (misled \/ b)
    BY DEF DispatchAnswer, Dispatched, DispatchFailed, DispatchBroken, TickRead, EnvAnswer,
           AnswerBroken
  <2>2. QED BY <1>0, <2>1 DEF TypeD
<1>12. TypeD' BY <1>0, <1>1, <1>4, <1>5, <1>6, <1>8, <1>11 DEF TypeD
<1>13. TypeL' /\ TypeC' BY <1>0, <1>1, <1>2, <1>3, <1>9, <1>10 DEF TypeL, TypeC
<1>14. QED BY <1>12, <1>13, TypeParts, PTL

\* What users do besides submitting jobs.
LEMMA UsersTyped ==
  ASSUME TypeOK,
         \/ \E j \in Job : StopJob(j) \/ AbortJob(j) \/ DeleteJob(j) \/ GetTick(j)
         \/ \E c \in Client : ServRequest(c)
  PROVE  TypeOK'
<1>0. TypeD /\ TypeL /\ TypeC /\ disp \in DispRec BY TypeParts DEF TypeD
<1>1. UNCHANGED <<queue, coor, entry, up, co, engine, where, gui, submitted>> /\ misled' \in BOOLEAN
  BY <1>0, Controlled DEF DeleteJob, GetTick, ServRequest, TypeD
<1>2. down' \in [Host -> Seq(Lines)]
  <2>1. \/ down' = down
        \/ \E h : \E k \in {"getTick", "setupEnv"} : Say(h, Line(k))
        \/ \E h : \E k \in {"JOB_STOP", "JOB_ABORT"}, j \in Job : Say(h, LineOf(k, j))
    BY Controlled DEF DeleteJob, GetTick, ServRequest
  <2>2. CASE down' = down BY <1>0, <2>2 DEF TypeL
  <2>3. CASE down' # down
    <3>1. PICK h : \E l \in Lines : Say(h, l) BY <2>1, <2>3, LinesOf
    <3>2. QED BY <1>0, <3>1, SayTyped
  <2>4. QED BY <2>2, <2>3
<1>3. disp' \in DispRec
  <2>1. ASSUME NEW j \in Job, StopJob(j) \/ AbortJob(j) \/ DeleteJob(j) PROVE disp' \in DispRec
    BY <1>0, <2>1, Controlled DEF DeleteJob
  <2>2. ASSUME NEW j \in Job, GetTick(j) PROVE disp' \in DispRec
    <3>1. j \in Run BY DEF Run
    <3>2. QED BY <2>2, <3>1 DEF GetTick, AtSelect, DispRec
  <2>3. ASSUME NEW c \in Client, ServRequest(c) PROVE disp' \in DispRec
    <3>1. PICK g \in Host : disp' = [AtSelect EXCEPT !.pc = "setup", !.host = g, !.run = c,
                                                   !.clean = Quiet(g, up[g])]
      BY <2>3 DEF ServRequest
    <3>2. c \in Run /\ Quiet(g, up[g]) \in BOOLEAN BY DEF Quiet, Run
    <3> DEFINE q == Quiet(g, up[g])
    <3> HIDE DEF q
    <3>3. QED BY <3>1, <3>2 DEF AtSelect, DispRec, q
  <2>4. QED BY <2>1, <2>2, <2>3
<1>4. status' \in [Host -> {"FREE", "BUSY"}]
  <2>1. status' = status \/ \E h \in Host : status' = [status EXCEPT ![h] = "BUSY"]
    BY Controlled DEF DeleteJob, GetTick, ServRequest
  <2>2. QED BY <1>0, <2>1 DEF TypeD
<1>5. jobMap' \in [Job -> {"none", "WAITING", "RUNNING", "FINISHED"}]
  <2>1. jobMap' = jobMap \/ \E j, k : jobMap' = [jobMap EXCEPT ![j] = k] /\ k \in {"FINISHED", "none"}
    BY Controlled DEF DeleteJob, GetTick, ServRequest
  <2>2. QED BY <1>0, <2>1 DEF TypeD
<1>6. TypeD' BY <1>0, <1>1, <1>3, <1>4, <1>5 DEF TypeD
<1>7. TypeL' /\ TypeC' BY <1>0, <1>1, <1>2 DEF TypeL, TypeC
<1>8. QED BY <1>6, <1>7, TypeParts, PTL

LEMMA InitTyped == Init => TypeOK
<1> SUFFICES ASSUME Init PROVE TypeOK OBVIOUS
<1>1. TypeD
  <2>1. AtSelect \in DispRec BY DEF AtSelect, DispRec
  <2>2. <<>> \in Seq(Job) /\ <<>> \in Seq(Host) OBVIOUS
  <2>3. QED BY <2>1, <2>2 DEF Init, TypeD
<1>2. TypeL BY DEF Init, TypeL
<1>3. TypeC BY DEF Init, TypeC, CoRec
<1>4. QED BY <1>1, <1>2, <1>3, TypeParts

LEMMA NextTyped == IInv /\ TypeOK /\ [Next]_vars => TypeOK'
<1> SUFFICES ASSUME IInv, TypeOK, [Next]_vars PROVE TypeOK' OBVIOUS
<1>1. CASE DispatcherReads BY <1>1, ServerTyped, AnsweredTyped DEF DispatcherReads
<1>2. CASE Users BY <1>2, SubmitTyped, UsersTyped DEF Users
<1>3. CASE Engines BY <1>3, EngineTyped DEF Engines
<1>4. CASE Clients BY <1>4, ClientTyped DEF Clients
<1>5. ASSUME NEW h \in Host, Coordinator(h) \/ HostCrash(h) PROVE TypeOK'
  BY <1>5, CoordinatorTyped
<1>6. CASE UNCHANGED vars BY <1>6 DEF vars, TypeOK
<1>7. QED BY <1>1, <1>2, <1>3, <1>4, <1>5, <1>6 DEF Next

(* Every field keeps its type, in particular the hosts of entry, the lines *)
(* on both directions of a connection and what a coordinator remembers.    *)
THEOREM TypeCorrect == Spec => []TypeOK
BY Invariance, InitTyped, NextTyped, PTL DEF Spec
-----------------------------------------------------------------------------
(* An exchange that begins cleanly.  While it lasts the host has no engine *)
(* that lives and no client, so its coordinator has nothing to report and  *)
(* at most one line is under way: the last request or its reply.           *)

Exchanging == disp.pc \in {"env", "put", "get", "setup"}
Request(pc) == CASE pc = "put" -> Line("BG_putFile")
                 [] pc = "get" -> Line("file")
                 [] OTHER      -> Line("setupEnv")
Reply(pc) == CASE pc = "put" -> Line("please")
               [] pc = "get" -> Line("File get")
               [] OTHER      -> Line("EnvOK")

\* The request is not answered yet; a coordinator that waits for the answer
\* to its registration may take a request for it.
Asked(h, pc) ==
  /\ up[h] = <<>>
  /\ \/ /\ pc \in {"env", "setup"} /\ co[h].pc \in {"select", "register"}
        /\ down[h] \in {<<>>, <<Request(pc)>>, <<Line("OK"), Request(pc)>>}
     \/ pc = "put" /\ co[h].pc = "select" /\ down[h] = <<Request(pc)>>
     \/ pc = "get" /\ co[h].pc = "file" /\ down[h] = <<Request(pc)>>
Answered(h, pc) ==
  /\ up[h] = <<Reply(pc)>> /\ down[h] = <<>>
  /\ co[h].pc = IF pc = "put" THEN "file" ELSE "select"
Silent(h, pc) == co[h].pc = "dead" /\ up[h] \in {<<>>, <<Reply(pc)>>}

Alone(h) == \A r \in Run : where[r] = h => r \in Job /\ engine[r] \notin Live

TalkOf(h, pc) == Asked(h, pc) \/ Answered(h, pc) \/ Silent(h, pc)
Talk == disp.clean => /\ Exchanging /\ disp.host \in Host /\ Alone(disp.host)
                      /\ TalkOf(disp.host, disp.pc)

\* A coordinator's socket is that of an engine of its host.
Socks == \A h \in Host : co[h].sock # None =>
           where[co[h].sock] = h /\ engine[co[h].sock] # "none"

\* A client that has no host yet runs nothing.
News == /\ \A c \in Client : gui[c] = "new" => engine[c] = "none"
        /\ \A h \in Host : co[h].active # None => gui[co[h].active] # "new"
        /\ disp.pc = "setup" => disp.run \in Client /\ gui[disp.run] = "new"

CInv == TypeOK /\ IInv /\ Socks /\ News /\ Talk

\* What any step does to engines, clients and coordinators.
Smooth ==
  /\ \A r \in Run : engine[r] # "none" => engine'[r] # "none" /\ where'[r] = where[r]
  /\ \A c \in Client : gui[c] = "new" => engine'[c] = engine[c]
  /\ \A c \in Client : gui'[c] = "new" => gui[c] = "new"
  /\ \A h \in Host : \/ co'[h].sock \in {co[h].sock, None}
                     \/ /\ co'[h].sock \in Run
                        /\ where'[co'[h].sock] = h /\ engine'[co'[h].sock] # "none"
  /\ \A h \in Host : \/ co'[h].active \in {co[h].active, None}
                     \/ co'[h].active \in Client /\ gui'[co'[h].active] # "new"

\* What a step at host h does to the other hosts.
Local(h) ==
  /\ \A g \in Host : g # h => up'[g] = up[g] /\ down'[g] = down[g] /\ co'[g] = co[g]
  /\ \A r \in Run : /\ where'[r] = where[r] \/ where'[r] = h
                    /\ engine'[r] \in Live => engine[r] \in Live \/ where'[r] = h
  /\ \A c \in Client : gui[c] = "new" => gui'[c] = "new"

LEMMA SmoothKeeps ==
  ASSUME TypeOK, Socks, News, Smooth,
         disp'.pc = "setup" => disp'.run \in Client /\ gui'[disp'.run] = "new"
  PROVE  Socks' /\ News'
<1>0. TypeC BY TypeParts
<1>1. \A h \in Host : co[h].sock \in Run \cup {None} /\ co[h].active \in Client \cup {None}
  BY <1>0 DEF TypeC, CoRec
<1>2. Socks'
  <2> SUFFICES ASSUME NEW h \in Host, co'[h].sock # None
               PROVE  where'[co'[h].sock] = h /\ engine'[co'[h].sock] # "none"
    BY DEF Socks
  <2>1. CASE co'[h].sock = co[h].sock BY <1>1, <2>1 DEF Socks, Smooth
  <2>2. QED BY <2>1 DEF Smooth
<1>3. ASSUME NEW h \in Host, co'[h].active # None PROVE gui'[co'[h].active] # "new"
  <2>1. CASE co'[h].active = co[h].active BY <1>1, <1>3, <2>1 DEF News, Smooth
  <2>2. QED BY <1>3, <2>1 DEF Smooth
<1>4. \A c \in Client : gui'[c] = "new" => engine'[c] = "none" BY DEF News, Smooth
<1>5. QED BY <1>2, <1>3, <1>4 DEF News

\* The exchange goes on untouched when another host moves.
LEMMA LocalKeeps ==
  ASSUME TypeOK, Talk, NEW h, Local(h), disp' = disp, disp.clean => disp.host # h
  PROVE  Talk'
<1> SUFFICES ASSUME disp.clean PROVE Talk' BY DEF Talk
<1> DEFINE x == disp.host
<1>1. x \in Host /\ x # h /\ Exchanging /\ Alone(x) /\ TalkOf(x, disp.pc) BY DEF Talk
<1>2. up'[x] = up[x] /\ down'[x] = down[x] /\ co'[x] = co[x] BY <1>1 DEF Local
<1>3. Alone(x)'
  <2> SUFFICES ASSUME NEW r \in Run, where'[r] = x PROVE r \in Job /\ engine'[r] \notin Live
    BY DEF Alone
  <2>1. where[r] = x BY <1>1 DEF Local
  <2>2. QED BY <1>1, <2>1 DEF Local, Alone
<1>4. TalkOf(x, disp.pc)' BY <1>1, <1>2 DEF TalkOf, Asked, Answered, Silent
<1>5. QED BY <1>1, <1>3, <1>4 DEF Talk, Exchanging

-----------------------------------------------------------------------------
LEMMA AnswerMoves ==
  ASSUME TypeOK, NEW h \in Host, NEW rec, NEW ls, Answer(h, rec, ls)
  PROVE  /\ co'[h] = rec /\ up'[h] = up[h] \o ls
         /\ \A g \in Host : g # h => co'[g] = co[g] /\ up'[g] = up[g]
BY TypeParts DEF Answer, TypeC, TypeL

LEMMA DiesMoves ==
  ASSUME TypeOK, NEW h \in Host, Dies(h, <<>>)
  PROVE  /\ co'[h] = [co[h] EXCEPT !.pc = "dead"] /\ up'[h] = up[h]
         /\ \A g \in Host : g # h => co'[g] = co[g] /\ up'[g] = up[g]
<1>1. up[h] \o <<>> = up[h]
  <2>1. up[h] \in Seq(Lines) BY TypeParts DEF TypeL
  <2>2. QED BY <2>1, ConcatEmptySeq
<1>2. QED BY <1>1, AnswerMoves DEF Dies

\* What ends a simulation at host h.
LEMMA EndsMove ==
  ASSUME TypeOK, NEW h \in Host, NEW k \in BOOLEAN,
         EndOfJobStop(h) \/ EndOfStop(h) \/ EndOfAbort(h, k),
         \A g \in Host : g # h => down'[g] = down[g], where' = where, News
  PROVE  Smooth /\ Local(h)
<1>0. TypeC /\ TypeL BY TypeParts
<1>1. engine' = engine \/ engine' = Killed(h) BY DEF EndOfJobStop, EndOfStop, EndOfAbort
<1>2. \A r \in Run : engine'[r] = engine[r] \/ (engine[r] \in Live /\ engine'[r] = "dead")
  BY <1>1 DEF Killed
<1>3. \/ gui' = gui
      \/ gui' = [c \in Client |-> IF co[h].session = None /\ c = co[h].active
                                  THEN "closed" ELSE gui[c]]
  BY DEF EndOfJobStop, EndOfStop, EndOfAbort
<1>4. \A c \in Client : gui'[c] = gui[c] \/ gui'[c] = "closed" BY <1>3
<1>5. /\ co'[h].sock \in {co[h].sock, None} /\ co'[h].active \in {co[h].active, None}
      /\ \A g \in Host : g # h => co'[g] = co[g] /\ up'[g] = up[g]
  <2>0. co[h] \in CoRec BY <1>0 DEF TypeC
  <2>1. PICK end, ls :
          /\ Answer(h, end, ls)
          /\ end.sock \in {co[h].sock, None} /\ end.active \in {co[h].active, None}
    <3> DEFINE d == [co[h] EXCEPT !.pc = "dead"]
               e1 == [co[h] EXCEPT !.pc = "select", !.then = "none", !.pid = None,
                                   !.session = None, !.sock = None]
               e2 == [co[h] EXCEPT !.pc = "select", !.then = "none", !.pid = None]
               e3 == [co[h] EXCEPT !.pc = "select", !.then = "none", !.sock = None,
                                   !.pid = IF k THEN None ELSE @,
                                   !.active = IF co[h].session = None THEN None ELSE @]
    <3>1. /\ d.sock = co[h].sock /\ d.active = co[h].active
          /\ e1.sock = None /\ e1.active = co[h].active
          /\ e2.sock = co[h].sock /\ e2.active = co[h].active
          /\ e3.sock = None /\ e3.active \in {co[h].active, None}
      BY <2>0 DEF CoRec
    <3>2. \E ls : Answer(h, d, ls) \/ Answer(h, e1, ls) \/ Answer(h, e2, ls) \/ Answer(h, e3, ls)
      <4>1. CASE EndOfJobStop(h) BY <4>1 DEF EndOfJobStop, Dies
      <4>2. CASE EndOfStop(h) BY <4>2 DEF EndOfStop, Dies
      <4>3. CASE EndOfAbort(h, k) BY <4>3 DEF EndOfAbort, Dies
      <4>4. QED BY <4>1, <4>2, <4>3
    <3> HIDE DEF d, e1, e2, e3
    <3>3. QED BY <3>1, <3>2
  <2>2. QED BY <2>1, AnswerMoves
<1>6. Local(h)
  <2>1. \A c \in Client : gui[c] = "new" => gui'[c] = "new"
    BY <1>3, JobConstants DEF News
  <2>2. QED BY <1>2, <1>5, <2>1 DEF Local, Live
<1>7. \A c \in Client : gui[c] = "new" => engine'[c] = engine[c]
  BY <1>2 DEF News, Live, Run
<1>8. Smooth BY <1>2, <1>4, <1>5, <1>7 DEF Smooth, Live
<1>9. QED BY <1>6, <1>8

LEMMA AsksMove ==
  ASSUME TypeOK, NEW h \in Host, AskJobStop(h) \/ AskStop(h) \/ AskAbort(h),
         \A g \in Host : g # h => down'[g] = down[g], where' = where, News
  PROVE  Smooth /\ Local(h)
<1>1. CASE \E k \in BOOLEAN : EndOfJobStop(h) \/ EndOfStop(h) \/ EndOfAbort(h, k)
  BY <1>1, EndsMove
<1>2. CASE \E t : Wait(h, t) /\ UNCHANGED <<engine, gui>>
  <2>0. co[h] \in CoRec BY TypeParts DEF TypeC
  <2>1. PICK rec : Answer(h, rec, <<>>) /\ rec.sock = co[h].sock /\ rec.active = co[h].active
    <3>1. \A t : LET rec == [co[h] EXCEPT !.pc = "wait", !.then = t] IN
            rec.sock = co[h].sock /\ rec.active = co[h].active
      BY <2>0 DEF CoRec
    <3>2. QED BY <1>2, <3>1 DEF Wait
  <2>3. co'[h].sock = co[h].sock /\ co'[h].active = co[h].active
    BY <2>1, AnswerMoves
  <2>4. \A g \in Host : g # h => co'[g] = co[g] /\ up'[g] = up[g] BY <2>1, AnswerMoves
  <2>5. \A g \in Host : co'[g].sock = co[g].sock /\ co'[g].active = co[g].active
    BY <2>3, <2>4
  <2>6. Local(h) BY <1>2, <2>4 DEF Local
  <2>7. Smooth BY <1>2, <2>5 DEF Smooth
  <2>8. QED BY <2>6, <2>7
<1>3. QED BY <1>1, <1>2 DEF AskJobStop, AskStop, AskAbort

\* A start puts an engine where there was none.
LEMMA StartMoves ==
  ASSUME TypeOK, NEW h \in Host, NEW r \in Run, NEW s, Start(h, r, s), engine[r] = "none",
         r \in Client => gui[r] # "new", gui' = gui,
         \A g \in Host : g # h => down'[g] = down[g]
  PROVE  Smooth /\ Local(h)
<1>0. TypeC BY TypeParts
<1>1. /\ engine' = [engine EXCEPT ![r] = "forked"] /\ where' = [where EXCEPT ![r] = h]
      /\ Answer(h, [co[h] EXCEPT !.session = s, !.pid = r], <<>>)
  BY DEF Start
<1>2. \A x \in Run : /\ engine'[x] = IF x = r THEN "forked" ELSE engine[x]
                     /\ where'[x] = IF x = r THEN h ELSE where[x]
  BY <1>0, <1>1 DEF TypeC
<1>3. /\ co'[h].sock = co[h].sock /\ co'[h].active = co[h].active
      /\ \A g \in Host : g # h => co'[g] = co[g] /\ up'[g] = up[g]
  <2> DEFINE rec == [co[h] EXCEPT !.session = s, !.pid = r]
  <2>1. co[h] \in CoRec BY <1>0 DEF TypeC
  <2>2. rec.sock = co[h].sock /\ rec.active = co[h].active BY <2>1 DEF CoRec
  <2> HIDE DEF rec
  <2>3. QED BY <1>1, <2>2, AnswerMoves DEF rec
<1>4. Local(h) BY <1>2, <1>3 DEF Local
<1>5. \A g \in Host : co'[g].sock = co[g].sock /\ co'[g].active = co[g].active BY <1>3
<1>6. Client \subseteq Run BY DEF Run
<1>7. Smooth BY <1>2, <1>5, <1>6 DEF Smooth
<1>8. QED BY <1>4, <1>7

\* Engines, clients and lines to other hosts stay as they are.
LEMMA PlainMoves ==
  ASSUME TypeOK, NEW h \in Host, NEW rec, NEW ls, Answer(h, rec, ls),
         rec.sock \in {co[h].sock, None}, rec.active = co[h].active,
         \A g \in Host : g # h => down'[g] = down[g],
         UNCHANGED <<engine, where, gui>>
  PROVE  Smooth /\ Local(h)
<1>1. /\ co'[h] = rec /\ \A g \in Host : g # h => co'[g] = co[g] /\ up'[g] = up[g]
  BY AnswerMoves
<1>2. \A g \in Host : co'[g].sock \in {co[g].sock, None} /\ co'[g].active = co[g].active
  BY <1>1
<1>3. QED BY <1>1, <1>2 DEF Smooth, Local

\* A coordinator's step.
LEMMA CoordinatorMoves ==
  ASSUME TypeOK, IInv, Socks, News, NEW h \in Host, Coordinator(h) \/ HostCrash(h)
  PROVE  Smooth /\ Local(h)
<1>0. TypeC /\ TypeL /\ co[h] \in CoRec BY TypeParts DEF TypeC
<1>1. \A g \in Host : g # h => down'[g] = down[g]
  <2>1. down' = down \/ Take(h)
    BY DEF Coordinator, HostCrash, BGStart, Boot, Registered, SetupEnv, PutFile, GotFile,
           TickAnswer, JobStop, JobAbort, Acknowledged, NoAcknowledgement, SimulationDone,
           EngineClosed, EngineConnects
  <2>2. QED BY <1>0, <2>1 DEF Take, TypeL
<1>2. CASE Boot(h) \/ Registered(h) \/ SetupEnv(h) \/ PutFile(h) \/ GotFile(h)
           \/ TickAnswer(h) \/ NoAcknowledgement(h) \/ EngineClosed(h) \/ HostCrash(h)
  <2>1. UNCHANGED <<engine, where, gui>>
    BY <1>2 DEF Boot, Registered, SetupEnv, PutFile, GotFile, TickAnswer,
                NoAcknowledgement, EngineClosed, HostCrash
  <2>2. PICK rec, ls : /\ Answer(h, rec, ls) /\ rec.sock \in {co[h].sock, None}
                       /\ rec.active = co[h].active
    <3>1. /\ \A k : LET rec == [co[h] EXCEPT !.pc = k] IN
               rec.sock = co[h].sock /\ rec.active = co[h].active
          /\ LET rec == [co[h] EXCEPT !.session = None] IN
               rec.sock = co[h].sock /\ rec.active = co[h].active
          /\ LET rec == [co[h] EXCEPT !.sock = None] IN
               rec.sock = None /\ rec.active = co[h].active
      BY <1>0 DEF CoRec
    <3>2. \E ls : \/ \E k : Answer(h, [co[h] EXCEPT !.pc = k], ls)
                  \/ Answer(h, [co[h] EXCEPT !.session = None], ls)
                  \/ Answer(h, [co[h] EXCEPT !.sock = None], ls)
                  \/ Answer(h, co[h], ls)
      BY <1>2 DEF Boot, Registered, SetupEnv, PutFile, GotFile, TickAnswer,
                  NoAcknowledgement, EngineClosed, HostCrash, Dies
    <3>3. QED BY <3>1, <3>2
  <2>3. QED BY <1>1, <2>1, <2>2, PlainMoves
<1>3. CASE BGStart(h)
  <2> DEFINE j == Head(down[h]).job
  <2>1. Start(h, j, j) /\ gui' = gui /\ down[h] # <<>> /\ Head(down[h]).kind = "BG_start"
    BY <1>3 DEF BGStart, Reads
  <2>2. j \in Job /\ engine[j] = "none"
    <3>1. down[h] \in Seq(Order) BY DEF IInv, Typed
    <3>2. Head(down[h]) \in Order /\ 1 \in 1 .. Len(down[h]) /\ Head(down[h]) = down[h][1]
      BY <2>1, <3>1
    <3>3. j \in Job /\ Head(down[h]) = LineOf("BG_start", j)
      BY <2>1, <3>2 DEF Order, Lines, LineOf
    <3>4. Started(down, j) BY <3>2, <3>3 DEF Started, Starts
    <3>5. QED BY <3>3, <3>4 DEF IInv, Places, PlacesWith
  <2> HIDE DEF j
  <2>3. j \in Run /\ j \notin Client BY <2>2, JobConstants DEF Run
  <2>4. QED BY <1>1, <2>1, <2>2, <2>3, StartMoves
<1>4. CASE JobStop(h) \/ JobAbort(h)
  BY <1>1, <1>4, AsksMove DEF JobStop, JobAbort
<1>5. CASE Acknowledged(h)
  <2>1. CASE EndOfJobStop(h) \/ EndOfAbort(h, TRUE) \/ EndOfStop(h)
    BY <1>1, <1>5, <2>1, EndsMove DEF Acknowledged
  <2>2. CASE /\ engine' = IF co[h].then = "pause" THEN Signal(h, "up", "paused") ELSE engine
             /\ Answer(h, [co[h] EXCEPT !.pc = "select", !.then = "none"], <<>>)
             /\ gui' = gui
    <3>1. \A r \in Run : engine'[r] = engine[r] \/ (engine[r] \in Live /\ engine'[r] \in Live)
      BY <2>2 DEF Signal, Live
    <3>2. PICK rec : Answer(h, rec, <<>>) /\ rec.sock = co[h].sock /\ rec.active = co[h].active
      <4>1. LET rec == [co[h] EXCEPT !.pc = "select", !.then = "none"] IN
              rec.sock = co[h].sock /\ rec.active = co[h].active
        BY <1>0 DEF CoRec
      <4>2. QED BY <2>2, <4>1
    <3>3. /\ co'[h] = rec /\ \A g \in Host : g # h => co'[g] = co[g] /\ up'[g] = up[g]
      BY <3>2, AnswerMoves
    <3>4. \A g \in Host : co'[g].sock = co[g].sock /\ co'[g].active = co[g].active
      BY <3>2, <3>3
    <3>5. where' = where BY <1>5 DEF Acknowledged
    <3>6. Local(h) BY <1>1, <2>2, <3>1, <3>3, <3>5 DEF Local
    <3>7. \A c \in Client : gui[c] = "new" => engine'[c] = engine[c]
      BY <3>1 DEF News, Live, Run
    <3>8. Smooth BY <2>2, <3>1, <3>4, <3>5, <3>7 DEF Smooth, Live
    <3>9. QED BY <3>6, <3>8
  <2>3. QED BY <1>5, <2>1, <2>2 DEF Acknowledged
<1>6. CASE SimulationDone(h)
  <2> DEFINE s == co[h].sock
  <2>1. /\ s # None /\ engine[s] = "done" /\ engine' = [engine EXCEPT ![s] = "ended"]
        /\ UNCHANGED <<where, gui>>
    BY <1>6 DEF SimulationDone
  <2>2. s \in Run BY <1>0, <2>1 DEF CoRec
  <2>3. PICK rec, ls : /\ Answer(h, rec, ls) /\ rec.sock \in {co[h].sock, None}
                       /\ rec.active = co[h].active
    <3>1. /\ LET rec == [co[h] EXCEPT !.pc = "dead"] IN
               rec.sock = co[h].sock /\ rec.active = co[h].active
          /\ LET rec == [co[h] EXCEPT !.session = None, !.sock = None] IN
               rec.sock = None /\ rec.active = co[h].active
      BY <1>0 DEF CoRec
    <3>2. \E ls : \/ Answer(h, [co[h] EXCEPT !.pc = "dead"], ls)
                  \/ Answer(h, [co[h] EXCEPT !.session = None, !.sock = None], ls)
      BY <1>6 DEF SimulationDone, SimulationFinished, Dies
    <3>3. QED BY <3>1, <3>2
  <2> HIDE DEF s
  <2>4. \A r \in Run : engine'[r] = IF r = s THEN "ended" ELSE engine[r]
    BY <1>0, <2>1 DEF TypeC
  <2>5. /\ co'[h] = rec /\ \A g \in Host : g # h => co'[g] = co[g] /\ up'[g] = up[g]
    BY <2>3, AnswerMoves
  <2>6. \A g \in Host : co'[g].sock \in {co[g].sock, None} /\ co'[g].active = co[g].active
    BY <2>3, <2>5
  <2>7. Local(h) BY <1>1, <2>1, <2>4, <2>5 DEF Local, Live
  <2>8. \A c \in Client : gui[c] = "new" => c # s /\ engine'[c] = engine[c]
    BY <2>1, <2>4 DEF News, Run
  <2>9. Smooth BY <2>1, <2>4, <2>6, <2>8 DEF Smooth
  <2>10. QED BY <2>7, <2>9
<1>7. ASSUME NEW r \in Run, EngineConnects(h, r) PROVE Smooth /\ Local(h)
  <2>1. /\ where[r] = h /\ engine[r] = "forked" /\ engine' = [engine EXCEPT ![r] = "up"]
        /\ Answer(h, [co[h] EXCEPT !.sock = r], <<>>) /\ UNCHANGED <<where, gui>>
    BY <1>7 DEF EngineConnects
  <2> DEFINE rec == [co[h] EXCEPT !.sock = r]
  <2>2. rec.sock = r /\ rec.active = co[h].active BY <1>0 DEF CoRec
  <2> HIDE DEF rec
  <2>3. /\ co'[h] = rec /\ \A g \in Host : g # h => co'[g] = co[g] /\ up'[g] = up[g]
    BY <2>1, AnswerMoves DEF rec
  <2>4. \A x \in Run : engine'[x] = IF x = r THEN "up" ELSE engine[x] BY <1>0, <2>1 DEF TypeC
  <2>5. \A g \in Host : /\ co'[g].sock = co[g].sock \/ (g = h /\ co'[g].sock = r)
                        /\ co'[g].active = co[g].active
    BY <2>2, <2>3
  <2>6. Local(h) BY <1>1, <2>1, <2>3, <2>4 DEF Local, Live
  <2>7. \A c \in Client : gui[c] = "new" => c # r /\ engine'[c] = engine[c]
    BY <2>1, <2>4 DEF News, Run
  <2>8. Smooth BY <2>1, <2>4, <2>5, <2>7 DEF Smooth
  <2>9. QED BY <2>6, <2>8
<1>8. QED BY <1>2, <1>3, <1>4, <1>5, <1>6, <1>7 DEF Coordinator

\* An engine that ends, and a client's step at its host.
LEMMA EngineMoves ==
  ASSUME TypeOK, News, NEW r \in Run, EngineDone(r) \/ EngineCrash(r), NEW h
  PROVE  Smooth /\ Local(h)
<1>0. TypeC BY TypeParts
<1>1. PICK to \in {"done", "dead"} : engine' = [engine EXCEPT ![r] = to] /\ engine[r] \in Live
  BY DEF EngineDone, EngineCrash, Live
<1>2. UNCHANGED <<up, down, co, where, gui>> BY DEF EngineDone, EngineCrash
<1>3. \A x \in Run : engine'[x] = IF x = r THEN to ELSE engine[x] BY <1>0, <1>1 DEF TypeC
<1>4. Local(h) BY <1>1, <1>2, <1>3 DEF Local, Live
<1>5. \A c \in Client : gui[c] = "new" => c # r /\ engine'[c] = engine[c]
  BY <1>1, <1>3 DEF News, Live, Run
<1>6. Smooth BY <1>1, <1>2, <1>3, <1>5 DEF Smooth, Live
<1>7. QED BY <1>4, <1>6

LEMMA ClientMoves ==
  ASSUME TypeOK, News, NEW c \in Client,
         \/ InitClient(c) \/ StartSimulation(c) \/ StopSimulation(c) \/ PauseSimulation(c)
         \/ ResumeSimulation(c) \/ AbortSimulation(c) \/ HangUp(c) \/ ClientEnd(c)
  PROVE  where[c] \in Host /\ Smooth /\ Local(where[c])
<1> DEFINE h == where[c]
<1>0. TypeC BY TypeParts
<1>1. h \in Host /\ c \in Run
  <2>1. h # None
    BY DEF InitClient, StartSimulation, StopSimulation, PauseSimulation, ResumeSimulation,
           AbortSimulation, HangUp, ClientEnd, Serves
  <2>2. c \in Run BY DEF Run
  <2>3. QED BY <1>0, <2>1, <2>2 DEF TypeC
<1>2. co[h] \in CoRec BY <1>0, <1>1 DEF TypeC
<1>3. down' = down
  BY DEF InitClient, StartSimulation, StopSimulation, PauseSimulation, ResumeSimulation,
         AbortSimulation, HangUp, ClientEnd
<1> SUFFICES Smooth /\ Local(h) BY <1>1
<1> HIDE DEF h
<1>4. CASE InitClient(c)
  <2> DEFINE rec == [co[h] EXCEPT !.active = c]
  <2>1. Answer(h, rec, <<>>) /\ UNCHANGED <<engine, where>> /\ gui' = [gui EXCEPT ![c] = "connected"]
    BY <1>4 DEF InitClient, h
  <2>2. rec.sock = co[h].sock /\ rec.active = c BY <1>2 DEF CoRec
  <2> HIDE DEF rec
  <2>3. /\ co'[h] = rec /\ \A g \in Host : g # h => co'[g] = co[g] /\ up'[g] = up[g]
    BY <1>1, <2>1, AnswerMoves
  <2>4. \A g \in Host : /\ co'[g].sock = co[g].sock
                        /\ co'[g].active = co[g].active \/ co'[g].active = c
    BY <2>2, <2>3
  <2>5. \A d \in Client : gui'[d] = IF d = c THEN "connected" ELSE gui[d] BY <1>0, <2>1 DEF TypeC
  <2>6. gui[c] = "invited" BY <1>4 DEF InitClient
  <2>7. Local(h) BY <1>3, <2>1, <2>3, <2>5, <2>6 DEF Local
  <2>8. Smooth BY <2>1, <2>4, <2>5 DEF Smooth
  <2>9. QED BY <2>7, <2>8
<1>5. CASE StartSimulation(c)
  BY <1>1, <1>3, <1>5, StartMoves DEF StartSimulation, h
<1>6. CASE StopSimulation(c) \/ AbortSimulation(c) \/ (ClientEnd(c) /\ AskAbort(h))
  <2>1. (AskStop(h) \/ AskAbort(h)) /\ where' = where
    BY <1>6 DEF StopSimulation, AbortSimulation, ClientEnd, h
  <2>2. QED BY <1>1, <1>3, <2>1, AsksMove
<1>7. CASE PauseSimulation(c) \/ ResumeSimulation(c)
  <2>1. /\ \E t : Wait(h, t)
        /\ engine' \in {engine, Signal(h, "paused", "up")} /\ UNCHANGED <<where, gui>>
    BY <1>7 DEF PauseSimulation, ResumeSimulation, h
  <2>2. \A r \in Run : engine'[r] = engine[r] \/ (engine[r] \in Live /\ engine'[r] \in Live)
    BY <2>1 DEF Signal, Live
  <2>3. PICK rec : Answer(h, rec, <<>>) /\ rec.sock = co[h].sock /\ rec.active = co[h].active
    <3>1. \A t : LET rec == [co[h] EXCEPT !.pc = "wait", !.then = t] IN
            rec.sock = co[h].sock /\ rec.active = co[h].active
      BY <1>2 DEF CoRec
    <3>2. QED BY <2>1, <3>1 DEF Wait
  <2>4. /\ co'[h] = rec /\ \A g \in Host : g # h => co'[g] = co[g] /\ up'[g] = up[g]
    BY <1>1, <2>3, AnswerMoves
  <2>5. \A g \in Host : co'[g].sock = co[g].sock /\ co'[g].active = co[g].active
    BY <2>3, <2>4
  <2>6. Local(h) BY <1>3, <2>1, <2>2, <2>4 DEF Local
  <2>7. \A d \in Client : gui[d] = "new" => engine'[d] = engine[d]
    BY <2>2 DEF News, Live, Run
  <2>8. Smooth BY <2>1, <2>2, <2>5, <2>7 DEF Smooth, Live
  <2>9. QED BY <2>6, <2>8
<1>8. CASE HangUp(c)
  <2>1. gui' = [gui EXCEPT ![c] = "hungup"] /\ UNCHANGED <<up, down, co, engine, where>>
    BY <1>8 DEF HangUp
  <2>2. \A d \in Client : gui'[d] = IF d = c THEN "hungup" ELSE gui[d] BY <1>0, <2>1 DEF TypeC
  <2>3. gui[c] = "connected" BY <1>8 DEF HangUp
  <2>4. QED BY <2>1, <2>2, <2>3 DEF Local, Smooth
<1>9. CASE ClientEnd(c) /\ ~AskAbort(h)
  <2>1. /\ UNCHANGED <<engine, where>>
        /\ gui' = gui \/ gui' = [d \in Client |-> IF d = co[h].active THEN "closed" ELSE gui[d]]
        /\ Answer(h, [co[h] EXCEPT !.active = None], <<>>)
           \/ Answer(h, [co[h] EXCEPT !.pc = "dead"], <<>>)
    BY <1>9 DEF ClientEnd, Dies, h
  <2>2. PICK rec : /\ Answer(h, rec, <<>>) /\ rec.sock = co[h].sock
                   /\ rec.active \in {co[h].active, None}
    <3>1. /\ LET rec == [co[h] EXCEPT !.active = None] IN
               rec.sock = co[h].sock /\ rec.active = None
          /\ LET rec == [co[h] EXCEPT !.pc = "dead"] IN
               rec.sock = co[h].sock /\ rec.active = co[h].active
      BY <1>2 DEF CoRec
    <3>2. QED BY <2>1, <3>1
  <2>3. /\ co'[h] = rec /\ \A g \in Host : g # h => co'[g] = co[g] /\ up'[g] = up[g]
    BY <1>1, <2>2, AnswerMoves
  <2>4. \A g \in Host : co'[g].sock = co[g].sock /\ co'[g].active \in {co[g].active, None}
    BY <2>2, <2>3
  <2>5. \A d \in Client : gui'[d] = gui[d] \/ gui'[d] = "closed" BY <2>1
  <2>6. \A d \in Client : gui[d] = "new" => gui'[d] = "new"
    BY <1>1, <2>1, JobConstants DEF News
  <2>7. Local(h) BY <1>3, <2>1, <2>3, <2>6 DEF Local
  <2>8. Smooth BY <2>1, <2>4, <2>5 DEF Smooth
  <2>9. QED BY <2>7, <2>8
<1>10. QED BY <1>4, <1>5, <1>6, <1>7, <1>8, <1>9

-----------------------------------------------------------------------------
\* The coordinator the dispatcher talks to: it answers, or it dies.
LEMMA TalkMoves ==
  ASSUME TypeOK, Socks, Talk, disp.clean, disp' = disp,
         Coordinator(disp.host) \/ HostCrash(disp.host)
  PROVE  Talk'
<1>h. PICK h, pc : h = disp.host /\ pc = disp.pc OBVIOUS
<1>0. /\ TypeC /\ TypeL /\ h \in Host /\ Exchanging /\ Alone(h)
      /\ TalkOf(h, pc) /\ (Coordinator(h) \/ HostCrash(h))
  BY <1>h, TypeParts DEF Talk
<1>1. co[h] \in CoRec /\ up[h] \in Seq(Lines) /\ down[h] \in Seq(Lines) BY <1>0 DEF TypeC, TypeL
<1>a. \A rec, ls : Answer(h, rec, ls) => co'[h] = rec /\ up'[h] = up[h] \o ls
  <2>1. h \in Host BY <1>0
  <2>2. QED BY <2>1, AnswerMoves
<1>2. \A r \in Run : where[r] = h => r \in Job /\ engine[r] \notin Live BY <1>0 DEF Alone
<1>3. CASE HostCrash(h)
  <2>1. Dies(h, <<>>) /\ UNCHANGED <<engine, where>> BY <1>3 DEF HostCrash
  <2>2. up'[h] = up[h] /\ co'[h] = [co[h] EXCEPT !.pc = "dead"] BY <1>0, <2>1, DiesMoves
  <2>3. co'[h].pc = "dead" BY <1>1, <2>2 DEF CoRec
  <2>4. up[h] \in {<<>>, <<Reply(pc)>>} BY <1>0 DEF TalkOf, Asked, Answered, Silent
  <2>5. TalkOf(h, pc)' BY <2>2, <2>3, <2>4 DEF TalkOf, Silent
  <2>6. Alone(h)' BY <1>0, <2>1 DEF Alone
  <2>7. QED BY <1>h, <1>0, <2>5, <2>6 DEF Talk, Exchanging
<1>4. CASE Coordinator(h) /\ Silent(h, pc)
  BY <1>4 DEF Silent, Coordinator, BGStart, Boot, Registered, SetupEnv, PutFile, GotFile,
              TickAnswer, JobStop, JobAbort, Acknowledged, NoAcknowledgement, SimulationDone,
              EngineClosed, EngineConnects, Reads
<1>5. CASE Coordinator(h) /\ ~Silent(h, pc)
  <2>1. Asked(h, pc) \/ Answered(h, pc) BY <1>0, <1>5 DEF TalkOf
  <2>2. co[h].pc \in {"select", "register", "file"} BY <2>1 DEF Asked, Answered
  <2>3. ~SimulationDone(h) /\ \A r \in Run : ~EngineConnects(h, r)
    <3>1. ASSUME SimulationDone(h) PROVE FALSE
      <4>1. co[h].sock # None /\ engine[co[h].sock] = "done" BY <3>1 DEF SimulationDone
      <4>2. where[co[h].sock] = h /\ co[h].sock \in Run BY <1>0, <1>1, <4>1 DEF Socks, CoRec
      <4>3. QED BY <1>2, <4>1, <4>2 DEF Live
    <3>2. ASSUME NEW r \in Run, EngineConnects(h, r) PROVE FALSE
      BY <1>2, <3>2 DEF EngineConnects, Live
    <3>3. QED BY <3>1, <3>2
  <2>4. \/ down[h] = <<>>
        \/ Head(down[h]) \in {Request(pc), Line("OK")}
    BY <2>1 DEF Asked, Answered
  <2>5. down[h] = <<>> \/ Head(down[h]).kind \in {"OK", "setupEnv", "BG_putFile", "file"}
    BY <2>4 DEF Request, Line
  <2>6. \/ Registered(h) \/ SetupEnv(h) \/ PutFile(h) \/ GotFile(h) \/ EngineClosed(h)
    BY <1>5, <2>2, <2>3, <2>5
       DEF Coordinator, Boot, BGStart, TickAnswer, JobStop, JobAbort, Acknowledged,
           NoAcknowledgement, Reads
  <2>7. UNCHANGED <<engine, where>>
    BY <2>6 DEF Registered, SetupEnv, PutFile, GotFile, EngineClosed
  <2>8. Alone(h)' BY <1>0, <2>7 DEF Alone
  <2>9. TalkOf(h, pc)'
    <3>1. \A ls : <<>> \o <<ls>> = <<ls>> OBVIOUS
    <3>2. /\ \A l : Head(<<l>>) = l /\ Tail(<<l>>) = <<>> /\ <<l>> # <<>>
          /\ \A l, m : Head(<<l, m>>) = l /\ Tail(<<l, m>>) = <<m>> /\ <<l, m>> # <<>>
      OBVIOUS
    <3>3. up[h] \o <<>> = up[h] BY <1>1, ConcatEmptySeq
    <3>0. /\ \A k : [co[h] EXCEPT !.pc = k].pc = k
          /\ [co[h] EXCEPT !.session = None].pc = co[h].pc
          /\ [co[h] EXCEPT !.sock = None].pc = co[h].pc
          /\ down' = [down EXCEPT ![h] = Tail(@)] => down'[h] = Tail(down[h])
      BY <1>0, <1>1 DEF CoRec, TypeL
    <3>4. CASE Registered(h)
      <4>1. /\ co[h].pc = "register" /\ down[h] # <<>>
            /\ down' = [down EXCEPT ![h] = Tail(@)]
            /\ Answer(h, [co[h] EXCEPT !.pc = "select"], <<>>)
        BY <3>4 DEF Registered, Take
      <4>r. PICK rec : Answer(h, rec, <<>>) /\ rec.pc = "select" BY <3>0, <4>1
      <4>a. co'[h] = rec /\ up'[h] = up[h] \o <<>> BY <1>a, <4>r
      <4>2. up'[h] = up[h] /\ co'[h].pc = "select" /\ down'[h] = Tail(down[h])
        BY <1>0, <3>0, <3>3, <4>1, <4>r, <4>a
      <4>3. /\ up[h] = <<>> /\ pc \in {"env", "setup"}
            /\ down[h] \in {<<Request(pc)>>, <<Line("OK"), Request(pc)>>}
        BY <2>1, <4>1 DEF Asked, Answered
      <4>4. down'[h] \in {<<>>, <<Request(pc)>>} BY <3>2, <4>2, <4>3
      <4>5. Asked(h, pc)' BY <4>2, <4>3, <4>4 DEF Asked
      <4>6. QED BY <4>5 DEF TalkOf
    <3>5. CASE SetupEnv(h)
      <4>1. /\ co[h].pc = "select" /\ down[h] # <<>> /\ Head(down[h]).kind = "setupEnv"
            /\ down' = [down EXCEPT ![h] = Tail(@)]
            /\ Answer(h, [co[h] EXCEPT !.session = None], <<Line("EnvOK")>>)
        BY <3>5 DEF SetupEnv, Take, Reads
      <4>r. PICK rec : Answer(h, rec, <<Line("EnvOK")>>) /\ rec.pc = "select" BY <3>0, <4>1
      <4>a. co'[h] = rec /\ up'[h] = up[h] \o <<Line("EnvOK")>> BY <1>a, <4>r
      <4>2. /\ up'[h] = up[h] \o <<Line("EnvOK")>> /\ co'[h].pc = "select"
            /\ down'[h] = Tail(down[h])
        BY <1>0, <3>0, <4>1, <4>r, <4>a
      <4>3. up[h] = <<>> /\ pc \in {"env", "setup"} /\ down[h] = <<Request(pc)>>
        BY <2>1, <3>2, <4>1 DEF Asked, Answered, Request, Line
      <4>4. down'[h] = <<>> /\ up'[h] = <<Line("EnvOK")>> BY <3>1, <3>2, <4>2, <4>3
      <4>5. Answered(h, pc)' BY <4>2, <4>3, <4>4 DEF Answered, Reply
      <4>6. QED BY <4>5 DEF TalkOf
    <3>6. CASE PutFile(h)
      <4>1. /\ co[h].pc = "select" /\ down[h] # <<>> /\ Head(down[h]).kind = "BG_putFile"
            /\ down' = [down EXCEPT ![h] = Tail(@)]
            /\ Answer(h, [co[h] EXCEPT !.pc = "file"], <<Line("please")>>)
        BY <3>6 DEF PutFile, Take, Reads
      <4>r. PICK rec : Answer(h, rec, <<Line("please")>>) /\ rec.pc = "file" BY <3>0, <4>1
      <4>a. co'[h] = rec /\ up'[h] = up[h] \o <<Line("please")>> BY <1>a, <4>r
      <4>2. /\ up'[h] = up[h] \o <<Line("please")>> /\ co'[h].pc = "file"
            /\ down'[h] = Tail(down[h])
        BY <1>0, <3>0, <4>1, <4>r, <4>a
      <4>3. up[h] = <<>> /\ pc = "put" /\ down[h] = <<Request(pc)>>
        BY <2>1, <3>2, <4>1 DEF Asked, Answered, Request, Line
      <4>4. down'[h] = <<>> /\ up'[h] = <<Line("please")>> BY <3>1, <3>2, <4>2, <4>3
      <4>5. Answered(h, pc)' BY <4>2, <4>3, <4>4 DEF Answered, Reply
      <4>6. QED BY <4>5 DEF TalkOf
    <3>7. CASE GotFile(h)
      <4>1. /\ co[h].pc = "file" /\ down[h] # <<>>
            /\ down' = [down EXCEPT ![h] = Tail(@)]
            /\ Answer(h, [co[h] EXCEPT !.pc = "select"], <<Line("File get")>>)
        BY <3>7 DEF GotFile, Take
      <4>r. PICK rec : Answer(h, rec, <<Line("File get")>>) /\ rec.pc = "select" BY <3>0, <4>1
      <4>a. co'[h] = rec /\ up'[h] = up[h] \o <<Line("File get")>> BY <1>a, <4>r
      <4>2. /\ up'[h] = up[h] \o <<Line("File get")>> /\ co'[h].pc = "select"
            /\ down'[h] = Tail(down[h])
        BY <1>0, <3>0, <4>1, <4>r, <4>a
      <4>3. up[h] = <<>> /\ pc = "get" /\ down[h] = <<Request(pc)>>
        BY <2>1, <4>1 DEF Asked, Answered
      <4>4. down'[h] = <<>> /\ up'[h] = <<Line("File get")>> BY <3>1, <3>2, <4>2, <4>3
      <4>5. Answered(h, pc)' BY <4>2, <4>3, <4>4 DEF Answered, Reply
      <4>6. QED BY <4>5 DEF TalkOf
    <3>8. CASE EngineClosed(h)
      <4>1. Answer(h, [co[h] EXCEPT !.sock = None], <<>>) /\ down' = down
        BY <3>8 DEF EngineClosed
      <4>r. PICK rec : Answer(h, rec, <<>>) /\ rec.pc = co[h].pc BY <3>0, <4>1
      <4>a. co'[h] = rec /\ up'[h] = up[h] \o <<>> BY <1>a, <4>r
      <4>2. up'[h] = up[h] /\ co'[h].pc = co[h].pc /\ down'[h] = down[h]
        BY <1>0, <3>0, <3>3, <4>1, <4>r, <4>a
      <4>3. QED BY <2>1, <4>2 DEF TalkOf, Asked, Answered
    <3>9. QED BY <2>6, <3>4, <3>5, <3>6, <3>7, <3>8
  <2>10. QED BY <1>h, <1>0, <2>8, <2>9 DEF Talk, Exchanging
<1>6. QED BY <1>0, <1>3, <1>4, <1>5

-----------------------------------------------------------------------------
\* The dispatcher turns to a host nothing is under way from or to.
LEMMA QuietTalk ==
  ASSUME TypeOK, NEW h \in Host, NEW line, Quiet(h, line), up'[h] = line,
         NEW first \in {<<Line("setupEnv")>>, <<Line("OK"), Line("setupEnv")>>}, Write(h, first),
         UNCHANGED <<co, engine, where>>, NEW pc \in {"env", "setup"},
         disp'.pc = pc, disp'.host = h
  PROVE  Talk'
<1>0. TypeL BY TypeParts
<1>1. /\ up'[h] = <<>> /\ down[h] = <<>> /\ co[h].pc \in {"select", "register"} /\ Alone(h)
  BY DEF Quiet, Alone
<1>2. down'[h] = down[h] \o first BY <1>0, <1>1 DEF Write, TypeL
<1>3. \A l, m : <<>> \o <<l>> = <<l>> /\ <<>> \o <<l, m>> = <<l, m>> OBVIOUS
<1>4. down'[h] = first BY <1>1, <1>2, <1>3
<1>5. first \in {<<Request(pc)>>, <<Line("OK"), Request(pc)>>} BY DEF Request
<1>6. Asked(h, pc)' BY <1>1, <1>4, <1>5 DEF Asked
<1>7. Alone(h)' BY <1>1 DEF Alone
<1>8. QED BY <1>6, <1>7 DEF Talk, TalkOf, Exchanging

LEMMA DispatchTalk ==
  ASSUME TypeOK, NEW h \in Host, NEW caller, NEW q, NEW st, NEW line, up'[h] = line,
         NEW first \in {<<>>, <<Line("OK")>>}, DispatchJob(h, caller, q, st, line, first),
         UNCHANGED <<co, engine, where>>
  PROVE  Talk' /\ disp'.pc # "setup"
<1>1. CASE q = <<>>
  <2>1. disp' = AtSelect BY <1>1 DEF DispatchJob
  <2>2. QED BY <2>1 DEF AtSelect, Talk
<1>2. CASE q # <<>>
  <2>1. /\ Write(h, first \o <<Line("setupEnv")>>)
        /\ disp'.pc = "env" /\ disp'.host = h /\ disp'.clean = Quiet(h, line)
    BY <1>2 DEF DispatchJob
  <2>2. \A l, m : <<>> \o <<l>> = <<l>> /\ <<m>> \o <<l>> = <<m, l>>
    <3> SUFFICES ASSUME NEW l, NEW m PROVE <<>> \o <<l>> = <<l>> /\ <<m>> \o <<l>> = <<m, l>>
      OBVIOUS
    <3>1. <<l>> \in Seq({l, m}) /\ <<m>> \in Seq({l, m}) OBVIOUS
    <3>2. Append(<<m>>, l) = <<m, l>>
      <4> DEFINE S == {l, m}
                 s == Append(<<m>>, l)
      <4>1. <<m, l>> \in Seq(S) /\ Len(<<m, l>>) = 2 /\ <<m, l>>[1] = m /\ <<m, l>>[2] = l
        OBVIOUS
      <4>2. s \in Seq(S) /\ Len(s) = 2 /\ s[1] = m /\ s[2] = l BY <3>1, AppendProperties
      <4> HIDE DEF s
      <4>3. s = <<m, l>> BY <4>1, <4>2, SeqEqual
      <4>4. QED BY <4>3 DEF s
    <3>3. <<m>> \o <<l>> = Append(<<m>>, l) BY <3>1, AppendIsConcat
    <3>4. <<>> \o <<l>> = <<l>> OBVIOUS
    <3>5. QED BY <3>2, <3>3, <3>4
  <2>3. first \o <<Line("setupEnv")>> \in {<<Line("setupEnv")>>, <<Line("OK"), Line("setupEnv")>>}
    BY <2>2
  <2>4. CASE ~disp'.clean BY <2>1, <2>4 DEF Talk
  <2>5. CASE disp'.clean
    <3>1. Quiet(h, line) BY <2>1, <2>5
    <3>2. QED BY <2>1, <2>3, <3>1, QuietTalk
  <2>6. QED BY <2>1, <2>4, <2>5
<1>3. QED BY <1>1, <1>2

\* Nothing but the lines and the dispatcher's books changes.
LEMMA StillSmooth ==
  ASSUME UNCHANGED <<co, engine, where, gui>>
  PROVE  Smooth
BY DEF Smooth

\* At select there is no exchange.
LEMMA SelectTalk ==
  ASSUME Talk, disp.pc = "select", disp' = disp
  PROVE  Talk' /\ disp'.pc # "setup"
BY DEF Talk, Exchanging

LEMMA IdleTalk ==
  ASSUME \/ disp' = AtSelect \/ disp' = [AtSelect EXCEPT !.pc = "dead"]
         \/ \E h, r : disp' = [AtSelect EXCEPT !.pc = "tick", !.host = h, !.run = r]
  PROVE  Talk' /\ disp'.pc # "setup"
<1>1. ~AtSelect.clean /\ AtSelect.pc = "select" BY DEF AtSelect
<1>2. /\ ~[AtSelect EXCEPT !.pc = "dead"].clean
      /\ [AtSelect EXCEPT !.pc = "dead"].pc = "dead"
  BY DEF AtSelect
<1>3. \A h, r : LET d == [AtSelect EXCEPT !.pc = "tick", !.host = h, !.run = r] IN
        ~d.clean /\ d.pc = "tick"
  BY DEF AtSelect
<1>4. ~disp'.clean /\ disp'.pc # "setup"
  <2>1. CASE disp' = AtSelect BY <1>1, <2>1
  <2>2. CASE disp' = [AtSelect EXCEPT !.pc = "dead"] BY <1>2, <2>2
  <2>3. CASE \E h, r : disp' = [AtSelect EXCEPT !.pc = "tick", !.host = h, !.run = r]
    BY <1>3, <2>3
  <2>4. QED BY <2>1, <2>2, <2>3
<1>5. QED BY <1>4 DEF Talk

LEMMA ServerTalk ==
  ASSUME TypeOK, Talk, NEW h \in Host,
         Register(h) \/ SetStatus(h) \/ JobFinished(h) \/ IgnoreLine(h) \/ RemoveHost(h)
  PROVE  Smooth /\ Talk' /\ disp'.pc # "setup"
<1>0. TypeL BY TypeParts
<1>1. UNCHANGED <<co, engine, where, gui>> /\ disp.pc = "select"
  BY DEF Register, SetStatus, JobFinished, IgnoreLine, RemoveHost
<1>2. Smooth BY <1>1, StillSmooth
<1>3. CASE Register(h) \/ SetStatus(h)
  <2>1. Heard(h) BY <1>3 DEF Register, SetStatus
  <2>2. up'[h] = Tail(up[h]) BY <1>0, <2>1 DEF Heard, TypeL
  <2>3. \E caller, st : \E first \in {<<>>, <<Line("OK")>>} :
          DispatchJob(h, caller, queue, st, Tail(up[h]), first)
    BY <1>3 DEF Register, SetStatus
  <2>4. QED BY <1>1, <1>2, <2>2, <2>3, DispatchTalk
<1>4. CASE JobFinished(h) \/ IgnoreLine(h) \/ RemoveHost(h)
  <2>1. disp' = disp BY <1>4 DEF JobFinished, IgnoreLine, RemoveHost, dispatcher
  <2>2. QED BY <1>1, <1>2, <2>1, SelectTalk
<1>5. QED BY <1>3, <1>4

LEMMA UserTalk ==
  ASSUME TypeOK, Talk, Users
  PROVE  /\ Smooth /\ Talk'
         /\ disp'.pc = "setup" => disp'.run \in Client /\ gui'[disp'.run] = "new"
<1>0. TypeL /\ TypeD BY TypeParts
<1>1. UNCHANGED <<up, co, engine, where, gui>> /\ disp.pc = "select"
  BY Controlled DEF Users, Submit, DeleteJob, GetTick, ServRequest
<1>2. Smooth BY <1>1, StillSmooth
<1> DEFINE h == anyFreeHost
<1>3. h \in Host \cup {None} BY <1>0, FreeHostTyped DEF TypeD
<1>4. ASSUME NEW j \in Job, Submit(j) PROVE Talk' /\ disp'.pc # "setup"
  <2>1. CASE disp' = disp BY <1>1, <2>1, SelectTalk
  <2>2. CASE disp' # disp
    <3>1. h # None /\ \E caller, q, st : DispatchJob(h, caller, q, st, up[h], <<>>)
      BY <1>4, <2>2 DEF Submit
    <3>2. h \in Host BY <1>3, <3>1
    <3> HIDE DEF h
    <3>3. QED BY <1>1, <3>1, <3>2, DispatchTalk
  <2>3. QED BY <2>1, <2>2
<1>5. ASSUME NEW j \in Job, StopJob(j) \/ AbortJob(j) \/ DeleteJob(j)
      PROVE  Talk' /\ disp'.pc # "setup"
  BY <1>1, <1>5, Controlled, SelectTalk DEF DeleteJob
<1>6. ASSUME NEW j \in Job, GetTick(j) PROVE Talk' /\ disp'.pc # "setup"
  <2>1. \E g : disp' = [AtSelect EXCEPT !.pc = "tick", !.host = g, !.run = j]
    BY <1>6 DEF GetTick
  <2>2. QED BY <2>1, IdleTalk
<1>7. ASSUME NEW c \in Client, ServRequest(c)
      PROVE  Talk' /\ disp'.run \in Client /\ gui'[disp'.run] = "new"
  <2>1. PICK g \in Host :
          /\ gui[c] = "new" /\ Write(g, <<Line("setupEnv")>>)
          /\ disp' = [AtSelect EXCEPT !.pc = "setup", !.host = g, !.run = c,
                                      !.clean = Quiet(g, up[g])]
    BY <1>7 DEF ServRequest, Say
  <2>3. /\ disp'.pc = "setup" /\ disp'.host = g /\ disp'.run = c
        /\ disp'.clean = Quiet(g, up[g])
    BY <2>1 DEF AtSelect
  <2>4. CASE ~disp'.clean BY <1>1, <2>1, <2>3, <2>4 DEF Talk
  <2>5. CASE disp'.clean
    <3>1. Quiet(g, up[g]) BY <2>3, <2>5
    <3>2. Talk' BY <1>1, <2>1, <2>3, <3>1, QuietTalk
    <3>3. QED BY <1>1, <2>1, <2>3, <3>2
  <2>6. QED BY <2>4, <2>5
<1>8. QED BY <1>2, <1>4, <1>5, <1>6, <1>7 DEF Users

\* The next request of an exchange.
LEMMA AnswerTalk ==
  ASSUME TypeOK, Talk, NEW pc, NEW next, NEW request,
         <<pc, next, request>> \in {<<"env", "put", "BG_putFile">>, <<"put", "get", "file">>},
         DispatchAnswer(pc, next, request)
  PROVE  Smooth /\ Talk' /\ disp'.pc # "setup"
<1>h. PICK h : h = disp.host OBVIOUS
<1>0. TypeL /\ TypeC /\ disp \in DispRec BY TypeParts DEF TypeD
<1>1. /\ disp.pc = pc /\ up[h] # <<>> /\ Heard(h) /\ Write(h, <<Line(request)>>)
      /\ disp' = [disp EXCEPT !.pc = next] /\ UNCHANGED <<co, engine, where, gui>>
  BY <1>h DEF DispatchAnswer, Say
<1>2. Smooth BY <1>1, StillSmooth
<1>3. disp'.pc = next /\ disp'.host = h /\ disp'.clean = disp.clean
  BY <1>h, <1>0, <1>1 DEF DispRec
<1>4. CASE ~disp.clean BY <1>2, <1>3, <1>4 DEF Talk
<1>5. CASE disp.clean
  <2>1. h \in Host /\ Alone(h) /\ TalkOf(h, pc) BY <1>h, <1>1, <1>5 DEF Talk
  <2>2. up[h] = <<Reply(pc)>> BY <1>1, <2>1 DEF TalkOf, Asked, Answered, Silent
  <2>3. up'[h] = <<>>
    <3>1. \A l : Tail(<<l>>) = <<>> OBVIOUS
    <3>2. up'[h] = Tail(up[h]) BY <1>0, <1>1, <2>1 DEF Heard, TypeL
    <3>3. QED BY <2>2, <3>1, <3>2
  <2>4. Line(request) = Request(next) BY DEF Request
  <2>5. Alone(h)' BY <1>1, <2>1 DEF Alone
  <2>6. TalkOf(h, next)'
    <3>1. CASE Silent(h, pc) BY <1>1, <2>3, <3>1 DEF TalkOf, Silent
    <3>2. CASE ~Silent(h, pc)
      <4>1. Answered(h, pc) BY <1>1, <2>1, <3>2 DEF TalkOf, Asked
      <4>2. down[h] = <<>> /\ co[h].pc = IF pc = "put" THEN "file" ELSE "select"
        BY <4>1 DEF Answered
      <4>3. down'[h] = down[h] \o <<Request(next)>>
        BY <1>0, <1>1, <2>1, <2>4, <4>2 DEF Write, TypeL
      <4>4. \A l : <<>> \o <<l>> = <<l>> OBVIOUS
      <4>5. down'[h] = <<Request(next)>> BY <4>2, <4>3, <4>4
      <4>6. Asked(h, next)' BY <1>1, <2>3, <4>2, <4>5 DEF Asked
      <4>7. QED BY <4>6 DEF TalkOf
    <3>3. QED BY <3>1, <3>2
  <2>7. QED BY <1>2, <1>3, <2>1, <2>5, <2>6 DEF Talk, Exchanging
<1>6. QED BY <1>4, <1>5

LEMMA ReadTalk ==
  ASSUME TypeOK, News, Talk,
         \/ Dispatched \/ DispatchFailed \/ DispatchBroken \/ TickRead \/ EnvAnswer \/ AnswerBroken
  PROVE  Smooth /\ Talk' /\ disp'.pc # "setup"
<1>0. TypeC BY TypeParts
<1>1. Talk' /\ disp'.pc # "setup"
  <2>1. disp' = AtSelect \/ disp' = [AtSelect EXCEPT !.pc = "dead"]
    BY DEF Dispatched, DispatchFailed, DispatchBroken, TickRead, EnvAnswer, AnswerBroken
  <2>2. QED BY <2>1, IdleTalk
<1>2. CASE Dispatched \/ DispatchFailed \/ DispatchBroken \/ TickRead
  BY <1>1, <1>2, StillSmooth DEF Dispatched, DispatchFailed, DispatchBroken, TickRead
<1>3. CASE EnvAnswer \/ AnswerBroken
  <2>1. /\ UNCHANGED <<co, engine>>
        /\ where' = where \/ (disp.pc = "setup" /\ where' = [where EXCEPT ![disp.run] = disp.host])
        /\ gui' = gui \/ \E k \in {"invited", "unanswered"} : gui' = [gui EXCEPT ![disp.run] = k]
    BY <1>3 DEF EnvAnswer, AnswerBroken
  <2>2. disp.pc = "setup" => disp.run \in Client /\ engine[disp.run] = "none" BY DEF News
  <2>3. \A r \in Run : where'[r] = where[r] \/ (disp.pc = "setup" /\ r = disp.run)
    BY <1>0, <2>1 DEF TypeC
  <2>4. \A c \in Client : gui'[c] = gui[c] \/ gui'[c] \in {"invited", "unanswered"}
    BY <1>0, <2>1 DEF TypeC
  <2>5. \A r \in Run : engine[r] # "none" => where'[r] = where[r] BY <2>2, <2>3
  <2>6. Smooth BY <2>1, <2>4, <2>5 DEF Smooth
  <2>7. QED BY <1>1, <2>6
<1>4. QED BY <1>2, <1>3

LEMMA CInvInit == Init => CInv
<1> SUFFICES ASSUME Init PROVE CInv OBVIOUS
<1>1. TypeOK /\ IInv BY InitTyped, InitSound
<1>2. Socks BY DEF Init, Socks
<1>3. News
  <2>1. Client \subseteq Run BY DEF Run
  <2>2. QED BY <2>1 DEF Init, News, AtSelect
<1>4. Talk BY DEF Init, Talk, AtSelect
<1>5. QED BY <1>1, <1>2, <1>3, <1>4 DEF CInv

LEMMA CInvNext == CInv /\ [Next]_vars => CInv'
<1> SUFFICES ASSUME CInv, [Next]_vars PROVE CInv' OBVIOUS
<1>0. TypeOK /\ IInv /\ Socks /\ News /\ Talk BY DEF CInv
<1>1. TypeOK' /\ IInv' BY <1>0, NextTyped, NextSound
<1>2. /\ Smooth /\ Talk'
      /\ disp'.pc = "setup" => disp'.run \in Client /\ gui'[disp'.run] = "new"
  <2>1. ASSUME NEW h, Smooth, Local(h), disp' = disp, disp.clean => disp.host # h
        PROVE  /\ Smooth /\ Talk'
               /\ disp'.pc = "setup" => disp'.run \in Client /\ gui'[disp'.run] = "new"
    BY <1>0, <2>1, LocalKeeps DEF News, Local
  <2>2. CASE DispatcherReads
    <3>1. ASSUME NEW h \in Host,
                 Register(h) \/ SetStatus(h) \/ JobFinished(h) \/ IgnoreLine(h) \/ RemoveHost(h)
          PROVE  Smooth /\ Talk' /\ disp'.pc # "setup"
      BY <1>0, <3>1, ServerTalk
    <3>2. CASE DispatchAnswer("env", "put", "BG_putFile") BY <1>0, <3>2, AnswerTalk
    <3>3. CASE DispatchAnswer("put", "get", "file") BY <1>0, <3>3, AnswerTalk
    <3>4. CASE \/ Dispatched \/ DispatchFailed \/ DispatchBroken
               \/ TickRead \/ EnvAnswer \/ AnswerBroken
      BY <1>0, <3>4, ReadTalk
    <3>5. QED BY <2>2, <3>1, <3>2, <3>3, <3>4 DEF DispatcherReads
  <2>3. CASE Users BY <1>0, <2>3, UserTalk
  <2>4. CASE Engines
    <3>1. PICK r \in Run : EngineDone(r) \/ EngineCrash(r) BY <2>4 DEF Engines
    <3>2. disp' = disp BY <3>1 DEF EngineDone, EngineCrash, dispatcher
    <3>3. PICK h : disp.host # h
      <4>1. CASE disp.host = None
        <5>1. CASE \E x \in Run : TRUE BY <4>1, <5>1, JobConstants DEF Run
        <5>2. QED BY <3>1, <5>1
      <4>2. QED BY <4>1
    <3>4. Smooth /\ Local(h) BY <1>0, <3>1, EngineMoves
    <3>5. QED BY <2>1, <3>2, <3>3, <3>4
  <2>5. CASE Clients
    <3>1. PICK c \in Client :
            \/ InitClient(c) \/ StartSimulation(c) \/ StopSimulation(c) \/ PauseSimulation(c)
            \/ ResumeSimulation(c) \/ AbortSimulation(c) \/ HangUp(c) \/ ClientEnd(c)
      BY <2>5 DEF Clients
    <3>2. disp' = disp
      BY <3>1 DEF InitClient, StartSimulation, StopSimulation, PauseSimulation,
                  ResumeSimulation, AbortSimulation, HangUp, ClientEnd, dispatcher
    <3>3. where[c] \in Host /\ Smooth /\ Local(where[c]) BY <1>0, <3>1, ClientMoves
    <3>4. disp.clean => disp.host # where[c]
      <4>1. c \in Run /\ c \notin Job BY JobConstants DEF Run
      <4>2. QED BY <1>0, <4>1 DEF Talk, Alone
    <3>5. QED BY <2>1, <3>2, <3>3, <3>4
  <2>6. ASSUME NEW h \in Host, Coordinator(h) \/ HostCrash(h)
        PROVE  /\ Smooth /\ Talk'
               /\ disp'.pc = "setup" => disp'.run \in Client /\ gui'[disp'.run] = "new"
    <3>1. disp' = disp
      BY <2>6 DEF Coordinator, HostCrash, BGStart, Boot, Registered, SetupEnv, PutFile,
                  GotFile, TickAnswer, JobStop, JobAbort, Acknowledged, NoAcknowledgement,
                  SimulationDone, EngineClosed, EngineConnects, dispatcher
    <3>2. Smooth /\ Local(h) BY <1>0, <2>6, CoordinatorMoves
    <3>3. CASE disp.clean => disp.host # h BY <2>1, <3>1, <3>2, <3>3
    <3>4. CASE disp.clean /\ disp.host = h
      <4>1. Talk' BY <1>0, <2>6, <3>1, <3>4, TalkMoves
      <4>2. QED BY <1>0, <3>1, <3>2, <4>1 DEF News, Local
    <3>5. QED BY <3>3, <3>4
  <2>7. CASE UNCHANGED vars
    <3>1. UNCHANGED <<up, down, co, engine, where, gui, disp>> BY <2>7 DEF vars
    <3>2. Smooth BY <3>1 DEF Smooth
    <3>3. Talk' BY <1>0, <3>1 DEF Talk, TalkOf, Asked, Answered, Silent, Alone, Exchanging
    <3>4. QED BY <1>0, <3>1, <3>2, <3>3 DEF News
  <2>8. QED BY <2>2, <2>3, <2>4, <2>5, <2>6, <2>7 DEF Next
<1>3. Socks' /\ News' BY <1>0, <1>2, SmoothKeeps
<1>4. QED BY <1>1, <1>2, <1>3 DEF CInv

(* An exchange that begins with nothing under way from or to a host that    *)
(* runs nothing succeeds at every step, whatever users, other hosts and     *)
(* engines do meanwhile: every line dispatchJob and setupSimEnv read is the *)
(* answer to their last request.                                            *)
THEOREM ExchangesAnswered == Spec => []CleanDispatch
<1>1. CInv => CleanDispatch
  <2> SUFFICES ASSUME CInv, disp.clean, up[disp.host] # <<>>
               PROVE  Head(up[disp.host]).kind = CASE disp.pc \in {"env", "setup"} -> "EnvOK"
                                                   [] disp.pc = "put" -> "please"
                                                   [] disp.pc = "get" -> "File get"
    BY DEF CleanDispatch
  <2>1. Exchanging /\ TalkOf(disp.host, disp.pc) BY DEF CInv, Talk
  <2>2. up[disp.host] = <<Reply(disp.pc)>> BY <2>1 DEF TalkOf, Asked, Answered, Silent
  <2>3. \A l : Head(<<l>>) = l OBVIOUS
  <2>4. Head(up[disp.host]) = Reply(disp.pc) BY <2>2, <2>3
  <2>5. Head(up[disp.host]).kind = Reply(disp.pc).kind BY <2>4
  <2>6. QED BY <2>1, <2>5 DEF Exchanging, Reply, Line
<1>2. QED BY <1>1, CInvInit, CInvNext, PTL DEF Spec

-----------------------------------------------------------------------------
(* Why a host the dispatcher calls FREE is idle.  Everything that is under  *)
(* way between the dispatcher and a host is written as one word, in the     *)
(* order in which the dispatcher will read it or what it brings about: the  *)
(* lines to the dispatcher, a mark for the session the coordinator keeps, a *)
(* stop command it holds while its engine has not acknowledged, the lines   *)
(* to the coordinator.  Each handler rewrites a few letters of this word,   *)
(* its road, and the invariant says which letters never follow which.       *)
(* First words in general: is there a letter of P, one of P before one of   *)
(* Q, and so on.                                                            *)
\* Lines in the order in which the dispatcher will read them or what they
\* bring about: is there one of P, one of P before one of Q, ... ?
Some(w, P) == \E i \in DOMAIN w : w[i] \in P
Pair(w, P, Q) == \E i, k \in DOMAIN w : i < k /\ w[i] \in P /\ w[k] \in Q
Triple(w, P, Q, R) ==
  \E i, k, l \in DOMAIN w : i < k /\ k < l /\ w[i] \in P /\ w[k] \in Q /\ w[l] \in R
Quad(w, P, Q, R, S) ==
  \E i, k, l, m \in DOMAIN w : /\ i < k /\ k < l /\ l < m
                               /\ w[i] \in P /\ w[k] \in Q /\ w[l] \in R /\ w[m] \in S

LEMMA CatIndex ==
  ASSUME NEW X, NEW u \in Seq(X), NEW v \in Seq(X)
  PROVE  /\ Len(u) \in Nat /\ DOMAIN u = 1 .. Len(u)
         /\ \A i \in DOMAIN u : i \in DOMAIN (u \o v) /\ (u \o v)[i] = u[i]
         /\ \A i \in DOMAIN v : /\ i + Len(u) \in DOMAIN (u \o v)
                                /\ (u \o v)[i + Len(u)] = v[i]
         /\ \A i \in DOMAIN (u \o v) :
              \/ i \in DOMAIN u /\ (u \o v)[i] = u[i]
              \/ i > Len(u) /\ i - Len(u) \in DOMAIN v /\ (u \o v)[i] = v[i - Len(u)]
         /\ DOMAIN u \subseteq Int /\ DOMAIN v \subseteq Nat \ {0} /\ DOMAIN (u \o v) \subseteq Int
OBVIOUS

LEMMA CatSome ==
  ASSUME NEW X, NEW u \in Seq(X), NEW v \in Seq(X), NEW P
  PROVE  Some(u \o v, P) <=> Some(u, P) \/ Some(v, P)
<1> DEFINE w == u \o v
<1>1. ASSUME Some(w, P) PROVE Some(u, P) \/ Some(v, P)
  <2>1. PICK i \in DOMAIN w : w[i] \in P BY <1>1 DEF Some
  <2>2. QED BY <2>1, CatIndex DEF Some
<1>2. ASSUME Some(u, P) \/ Some(v, P) PROVE Some(w, P)
  <2> HIDE DEF w
  <2>0. /\ \A i \in DOMAIN u : i \in DOMAIN w /\ w[i] = u[i]
        /\ \A i \in DOMAIN v : i + Len(u) \in DOMAIN w /\ w[i + Len(u)] = v[i]
    BY CatIndex DEF w
  <2>1. CASE \E i \in DOMAIN u : u[i] \in P BY <2>0, <2>1 DEF Some
  <2>2. CASE \E i \in DOMAIN v : v[i] \in P BY <2>0, <2>2 DEF Some
  <2>3. QED BY <1>2, <2>1, <2>2 DEF Some
<1>3. QED BY <1>1, <1>2

LEMMA CatPair ==
  ASSUME NEW X, NEW u \in Seq(X), NEW v \in Seq(X), NEW P, NEW Q
  PROVE  Pair(u \o v, P, Q) <=> Pair(u, P, Q) \/ Pair(v, P, Q) \/ (Some(u, P) /\ Some(v, Q))
<1> DEFINE w == u \o v
           n == Len(u)
<1>0. /\ n \in Nat /\ DOMAIN u = 1 .. n
      /\ DOMAIN u \subseteq Int /\ DOMAIN v \subseteq Nat \ {0} /\ DOMAIN w \subseteq Int
      /\ \A i \in DOMAIN u : i \in DOMAIN w /\ w[i] = u[i]
      /\ \A i \in DOMAIN v : i + n \in DOMAIN w /\ w[i + n] = v[i]
      /\ \A i \in DOMAIN w : \/ i \in DOMAIN u /\ w[i] = u[i]
                             \/ i > n /\ i - n \in DOMAIN v /\ w[i] = v[i - n]
  BY CatIndex
<1> HIDE DEF w, n
<1>1. ASSUME Pair(w, P, Q) PROVE Pair(u, P, Q) \/ Pair(v, P, Q) \/ (Some(u, P) /\ Some(v, Q))
  <2>1. PICK i, k \in DOMAIN w : i < k /\ w[i] \in P /\ w[k] \in Q BY <1>1 DEF Pair
  <2>2. CASE i \in DOMAIN u /\ k \in DOMAIN u BY <1>0, <2>1, <2>2 DEF Pair
  <2>3. CASE i \in DOMAIN u /\ k \notin DOMAIN u BY <1>0, <2>1, <2>3 DEF Some
  <2>4. CASE i \notin DOMAIN u
    <3>1. i > n /\ i - n \in DOMAIN v /\ k > n /\ k - n \in DOMAIN v /\ i - n < k - n
          /\ v[i - n] \in P /\ v[k - n] \in Q
      BY <1>0, <2>1, <2>4
    <3>2. QED BY <3>1 DEF Pair
  <2>5. QED BY <2>2, <2>3, <2>4
<1>2. ASSUME Pair(u, P, Q) PROVE Pair(w, P, Q) BY <1>0, <1>2 DEF Pair
<1>3. ASSUME Pair(v, P, Q) PROVE Pair(w, P, Q)
  <2>1. PICK i, k \in DOMAIN v : i < k /\ v[i] \in P /\ v[k] \in Q BY <1>3 DEF Pair
  <2>2. i + n \in DOMAIN w /\ k + n \in DOMAIN w /\ i + n < k + n
        /\ w[i + n] \in P /\ w[k + n] \in Q
    BY <1>0, <2>1
  <2>3. QED BY <2>2 DEF Pair
<1>4. ASSUME Some(u, P), Some(v, Q) PROVE Pair(w, P, Q)
  <2>1. PICK i \in DOMAIN u, k \in DOMAIN v : u[i] \in P /\ v[k] \in Q BY <1>4 DEF Some
  <2>2. i \in DOMAIN w /\ k + n \in DOMAIN w /\ i < k + n /\ w[i] \in P /\ w[k + n] \in Q
    BY <1>0, <2>1
  <2>3. QED BY <2>2 DEF Pair
<1>5. QED BY <1>1, <1>2, <1>3, <1>4 DEF w

LEMMA CatTriple ==
  ASSUME NEW X, NEW u \in Seq(X), NEW v \in Seq(X), NEW P, NEW Q, NEW R
  PROVE  Triple(u \o v, P, Q, R)
           <=> \/ Triple(u, P, Q, R)
               \/ Triple(v, P, Q, R)
               \/ (Pair(u, P, Q) /\ Some(v, R))
               \/ (Some(u, P) /\ Pair(v, Q, R))
<1> DEFINE w == u \o v
           n == Len(u)
<1>0. /\ n \in Nat /\ DOMAIN u = 1 .. n
      /\ DOMAIN u \subseteq Int /\ DOMAIN v \subseteq Nat \ {0} /\ DOMAIN w \subseteq Int
      /\ \A i \in DOMAIN u : i \in DOMAIN w /\ w[i] = u[i]
      /\ \A i \in DOMAIN v : i + n \in DOMAIN w /\ w[i + n] = v[i]
      /\ \A i \in DOMAIN w : \/ i \in DOMAIN u /\ w[i] = u[i]
                             \/ i > n /\ i - n \in DOMAIN v /\ w[i] = v[i - n]
  BY CatIndex
<1> HIDE DEF w, n
<1>1. ASSUME Triple(w, P, Q, R)
      PROVE  \/ Triple(u, P, Q, R)
             \/ Triple(v, P, Q, R)
             \/ (Pair(u, P, Q) /\ Some(v, R))
             \/ (Some(u, P) /\ Pair(v, Q, R))
  <2>1. PICK i, k, l \in DOMAIN w :
          /\ i < k /\ k < l
          /\ w[i] \in P /\ w[k] \in Q /\ w[l] \in R
    BY <1>1 DEF Triple
  <2>2. CASE i \in DOMAIN u /\ k \in DOMAIN u /\ l \in DOMAIN u
    <3>1. /\ i \in DOMAIN u /\ u[i] \in P
          /\ k \in DOMAIN u /\ u[k] \in Q
          /\ l \in DOMAIN u /\ u[l] \in R
          /\ i < k
          /\ k < l
      BY <1>0, <2>1, <2>2
    <3>2. QED BY <3>1 DEF Triple
  <2>3. CASE i \in DOMAIN u /\ k \in DOMAIN u /\ l \notin DOMAIN u
    <3>1. /\ i \in DOMAIN u /\ u[i] \in P
          /\ k \in DOMAIN u /\ u[k] \in Q
          /\ l > n /\ l - n \in DOMAIN v /\ v[l - n] \in R
          /\ i < k
      BY <1>0, <2>1, <2>3
    <3>2. QED BY <3>1 DEF Pair, Some
  <2>4. CASE i \in DOMAIN u /\ k \notin DOMAIN u
    <3>1. /\ i \in DOMAIN u /\ u[i] \in P
          /\ k > n /\ k - n \in DOMAIN v /\ v[k - n] \in Q
          /\ l > n /\ l - n \in DOMAIN v /\ v[l - n] \in R
          /\ k - n < l - n
      BY <1>0, <2>1, <2>4
    <3>2. QED BY <3>1 DEF Pair, Some
  <2>5. CASE i \notin DOMAIN u
    <3>1. /\ i > n /\ i - n \in DOMAIN v /\ v[i - n] \in P
          /\ k > n /\ k - n \in DOMAIN v /\ v[k - n] \in Q
          /\ l > n /\ l - n \in DOMAIN v /\ v[l - n] \in R
          /\ i - n < k - n
          /\ k - n < l - n
      BY <1>0, <2>1, <2>5, SMTT(40)
    <3>2. QED BY <3>1 DEF Triple
  <2>6. QED BY <2>2, <2>3, <2>4, <2>5
<1>2. ASSUME Triple(u, P, Q, R) PROVE Triple(w, P, Q, R)
  <2>1. PICK i, k, l \in DOMAIN u :
          /\ i < k
          /\ k < l
          /\ u[i] \in P
          /\ u[k] \in Q
          /\ u[l] \in R
    BY <1>2 DEF Triple
  <2>3. /\ i \in DOMAIN w /\ w[i] \in P
        /\ k \in DOMAIN w /\ w[k] \in Q
        /\ l \in DOMAIN w /\ w[l] \in R
        /\ i < k
        /\ k < l
    BY <1>0, <2>1
  <2>4. QED BY <2>3 DEF Triple
<1>3. ASSUME Triple(v, P, Q, R) PROVE Triple(w, P, Q, R)
  <2>2. PICK i, k, l \in DOMAIN v :
          /\ i < k
          /\ k < l
          /\ v[i] \in P
          /\ v[k] \in Q
          /\ v[l] \in R
    BY <1>3 DEF Triple
  <2>3. /\ i + n \in DOMAIN w /\ w[i + n] \in P
        /\ k + n \in DOMAIN w /\ w[k + n] \in Q
        /\ l + n \in DOMAIN w /\ w[l + n] \in R
        /\ i + n < k + n
        /\ k + n < l + n
    BY <1>0, <2>2
  <2>4. QED BY <2>3 DEF Triple
<1>4. ASSUME Pair(u, P, Q), Some(v, R) PROVE Triple(w, P, Q, R)
  <2>1. PICK i, k \in DOMAIN u :
          /\ i < k
          /\ u[i] \in P
          /\ u[k] \in Q
    BY <1>4 DEF Pair
  <2>2. PICK l \in DOMAIN v :
          /\ v[l] \in R
    BY <1>4 DEF Some
  <2>3. /\ i \in DOMAIN w /\ w[i] \in P
        /\ k \in DOMAIN w /\ w[k] \in Q
        /\ l + n \in DOMAIN w /\ w[l + n] \in R
        /\ i < k
        /\ k < l + n
    BY <1>0, <2>1, <2>2
  <2>4. QED BY <2>3 DEF Triple
<1>5. ASSUME Some(u, P), Pair(v, Q, R) PROVE Triple(w, P, Q, R)
  <2>1. PICK i \in DOMAIN u :
          /\ u[i] \in P
    BY <1>5 DEF Some
  <2>2. PICK k, l \in DOMAIN v :
          /\ k < l
          /\ v[k] \in Q
          /\ v[l] \in R
    BY <1>5 DEF Pair
  <2>3. /\ i \in DOMAIN w /\ w[i] \in P
        /\ k + n \in DOMAIN w /\ w[k + n] \in Q
        /\ l + n \in DOMAIN w /\ w[l + n] \in R
        /\ i < k + n
        /\ k + n < l + n
    BY <1>0, <2>1, <2>2
  <2>4. QED BY <2>3 DEF Triple
<1>6. QED BY <1>1, <1>2, <1>3, <1>4, <1>5 DEF w

LEMMA CatQuad ==
  ASSUME NEW X, NEW u \in Seq(X), NEW v \in Seq(X), NEW P, NEW Q, NEW R, NEW S
  PROVE  Quad(u \o v, P, Q, R, S)
           <=> \/ Quad(u, P, Q, R, S)
               \/ Quad(v, P, Q, R, S)
               \/ (Triple(u, P, Q, R) /\ Some(v, S))
               \/ (Pair(u, P, Q) /\ Pair(v, R, S))
               \/ (Some(u, P) /\ Triple(v, Q, R, S))
<1> DEFINE w == u \o v
           n == Len(u)
<1>0. /\ n \in Nat /\ DOMAIN u = 1 .. n
      /\ DOMAIN u \subseteq Int /\ DOMAIN v \subseteq Nat \ {0} /\ DOMAIN w \subseteq Int
      /\ \A i \in DOMAIN u : i \in DOMAIN w /\ w[i] = u[i]
      /\ \A i \in DOMAIN v : i + n \in DOMAIN w /\ w[i + n] = v[i]
      /\ \A i \in DOMAIN w : \/ i \in DOMAIN u /\ w[i] = u[i]
                             \/ i > n /\ i - n \in DOMAIN v /\ w[i] = v[i - n]
  BY CatIndex
<1> HIDE DEF w, n
<1>1. ASSUME Quad(w, P, Q, R, S)
      PROVE  \/ Quad(u, P, Q, R, S)
             \/ Quad(v, P, Q, R, S)
             \/ (Triple(u, P, Q, R) /\ Some(v, S))
             \/ (Pair(u, P, Q) /\ Pair(v, R, S))
             \/ (Some(u, P) /\ Triple(v, Q, R, S))
  <2>1. PICK i, k, l, m \in DOMAIN w :
          /\ i < k /\ k < l /\ l < m
          /\ w[i] \in P /\ w[k] \in Q /\ w[l] \in R /\ w[m] \in S
    BY <1>1 DEF Quad
  <2>2. CASE i \in DOMAIN u /\ k \in DOMAIN u /\ l \in DOMAIN u /\ m \in DOMAIN u
    <3>1. /\ i \in DOMAIN u /\ u[i] \in P
          /\ k \in DOMAIN u /\ u[k] \in Q
          /\ l \in DOMAIN u /\ u[l] \in R
          /\ m \in DOMAIN u /\ u[m] \in S
          /\ i < k
          /\ k < l
          /\ l < m
      BY <1>0, <2>1, <2>2
    <3>2. QED BY <3>1 DEF Quad
  <2>3. CASE i \in DOMAIN u /\ k \in DOMAIN u /\ l \in DOMAIN u /\ m \notin DOMAIN u
    <3>1. /\ i \in DOMAIN u /\ u[i] \in P
          /\ k \in DOMAIN u /\ u[k] \in Q
          /\ l \in DOMAIN u /\ u[l] \in R
          /\ m > n /\ m - n \in DOMAIN v /\ v[m - n] \in S
          /\ i < k
          /\ k < l
      BY <1>0, <2>1, <2>3
    <3>2. QED BY <3>1 DEF Some, Triple
  <2>4. CASE i \in DOMAIN u /\ k \in DOMAIN u /\ l \notin DOMAIN u
    <3>1. /\ i \in DOMAIN u /\ u[i] \in P
          /\ k \in DOMAIN u /\ u[k] \in Q
          /\ l > n /\ l - n \in DOMAIN v /\ v[l - n] \in R
          /\ m > n /\ m - n \in DOMAIN v /\ v[m - n] \in S
          /\ i < k
          /\ l - n < m - n
      BY <1>0, <2>1, <2>4
    <3>2. QED BY <3>1 DEF Pair
  <2>5. CASE i \in DOMAIN u /\ k \notin DOMAIN u
    <3>1. /\ i \in DOMAIN u /\ u[i] \in P
          /\ k > n /\ k - n \in DOMAIN v /\ v[k - n] \in Q
          /\ l > n /\ l - n \in DOMAIN v /\ v[l - n] \in R
          /\ m > n /\ m - n \in DOMAIN v /\ v[m - n] \in S
          /\ k - n < l - n
          /\ l - n < m - n
      BY <1>0, <2>1, <2>5
    <3>2. QED BY <3>1 DEF Some, Triple
  <2>6. CASE i \notin DOMAIN u
    <3>1. /\ i > n /\ i - n \in DOMAIN v /\ v[i - n] \in P
          /\ k > n /\ k - n \in DOMAIN v /\ v[k - n] \in Q
          /\ l > n /\ l - n \in DOMAIN v /\ v[l - n] \in R
          /\ m > n /\ m - n \in DOMAIN v /\ v[m - n] \in S
          /\ i - n < k - n
          /\ k - n < l - n
          /\ l - n < m - n
      BY <1>0, <2>1, <2>6, SMTT(40)
    <3>2. QED BY <3>1 DEF Quad
  <2>7. QED BY <2>2, <2>3, <2>4, <2>5, <2>6
<1>2. ASSUME Quad(u, P, Q, R, S) PROVE Quad(w, P, Q, R, S)
  <2>1. PICK i, k, l, m \in DOMAIN u :
          /\ i < k
          /\ k < l
          /\ l < m
          /\ u[i] \in P
          /\ u[k] \in Q
          /\ u[l] \in R
          /\ u[m] \in S
    BY <1>2 DEF Quad
  <2>3. /\ i \in DOMAIN w /\ w[i] \in P
        /\ k \in DOMAIN w /\ w[k] \in Q
        /\ l \in DOMAIN w /\ w[l] \in R
        /\ m \in DOMAIN w /\ w[m] \in S
        /\ i < k
        /\ k < l
        /\ l < m
    BY <1>0, <2>1
  <2>4. QED BY <2>3 DEF Quad
<1>3. ASSUME Quad(v, P, Q, R, S) PROVE Quad(w, P, Q, R, S)
  <2>2. PICK i, k, l, m \in DOMAIN v :
          /\ i < k
          /\ k < l
          /\ l < m
          /\ v[i] \in P
          /\ v[k] \in Q
          /\ v[l] \in R
          /\ v[m] \in S
    BY <1>3 DEF Quad
  <2>3. /\ i + n \in DOMAIN w /\ w[i + n] \in P
        /\ k + n \in DOMAIN w /\ w[k + n] \in Q
    BY <1>0, <2>2
  <2>4. /\ l + n \in DOMAIN w /\ w[l + n] \in R
        /\ m + n \in DOMAIN w /\ w[m + n] \in S
    BY <1>0, <2>2
  <2>5. i + n < k + n /\ k + n < l + n /\ l + n < m + n
    BY <1>0, <2>2, SMTT(40)
  <2>6. QED BY <2>3, <2>4, <2>5 DEF Quad
<1>4. ASSUME Triple(u, P, Q, R), Some(v, S) PROVE Quad(w, P, Q, R, S)
  <2>1. PICK i, k, l \in DOMAIN u :
          /\ i < k
          /\ k < l
          /\ u[i] \in P
          /\ u[k] \in Q
          /\ u[l] \in R
    BY <1>4 DEF Triple
  <2>2. PICK m \in DOMAIN v :
          /\ v[m] \in S
    BY <1>4 DEF Some
  <2>3. /\ i \in DOMAIN w /\ w[i] \in P
        /\ k \in DOMAIN w /\ w[k] \in Q
        /\ l \in DOMAIN w /\ w[l] \in R
        /\ m + n \in DOMAIN w /\ w[m + n] \in S
        /\ i < k
        /\ k < l
        /\ l < m + n
    BY <1>0, <2>1, <2>2
  <2>4. QED BY <2>3 DEF Quad
<1>5. ASSUME Pair(u, P, Q), Pair(v, R, S) PROVE Quad(w, P, Q, R, S)
  <2>1. PICK i, k \in DOMAIN u :
          /\ i < k
          /\ u[i] \in P
          /\ u[k] \in Q
    BY <1>5 DEF Pair
  <2>2. PICK l, m \in DOMAIN v :
          /\ l < m
          /\ v[l] \in R
          /\ v[m] \in S
    BY <1>5 DEF Pair
  <2>3. /\ i \in DOMAIN w /\ w[i] \in P
        /\ k \in DOMAIN w /\ w[k] \in Q
        /\ l + n \in DOMAIN w /\ w[l + n] \in R
        /\ m + n \in DOMAIN w /\ w[m + n] \in S
        /\ i < k
        /\ k < l + n
        /\ l + n < m + n
    BY <1>0, <2>1, <2>2
  <2>4. QED BY <2>3 DEF Quad
<1>6. ASSUME Some(u, P), Triple(v, Q, R, S) PROVE Quad(w, P, Q, R, S)
  <2>1. PICK i \in DOMAIN u :
          /\ u[i] \in P
    BY <1>6 DEF Some
  <2>2. PICK k, l, m \in DOMAIN v :
          /\ k < l
          /\ l < m
          /\ v[k] \in Q
          /\ v[l] \in R
          /\ v[m] \in S
    BY <1>6 DEF Triple
  <2>3. /\ i \in DOMAIN w /\ w[i] \in P
        /\ k + n \in DOMAIN w /\ w[k + n] \in Q
        /\ l + n \in DOMAIN w /\ w[l + n] \in R
        /\ m + n \in DOMAIN w /\ w[m + n] \in S
        /\ i < k + n
        /\ k + n < l + n
        /\ l + n < m + n
    BY <1>0, <2>1, <2>2, SMTT(40)
  <2>4. QED BY <2>3 DEF Quad
<1>7. QED BY <1>1, <1>2, <1>3, <1>4, <1>5, <1>6 DEF w

LEMMA LoneWord ==
  ASSUME NEW x
  PROVE  /\ \A P : Some(<<x>>, P) <=> x \in P
         /\ \A P, Q : ~Pair(<<x>>, P, Q)
         /\ \A P, Q, R : ~Triple(<<x>>, P, Q, R)
         /\ \A P, Q, R, S : ~Quad(<<x>>, P, Q, R, S)
<1> DEFINE w == <<x>>
<1>1. DOMAIN w = {1} /\ w[1] = x OBVIOUS
<1> HIDE DEF w
<1>2. \A P : Some(w, P) <=> x \in P BY <1>1 DEF Some
<1>3. \A P, Q : ~Pair(w, P, Q) BY <1>1 DEF Pair
<1>4. \A P, Q, R : ~Triple(w, P, Q, R) BY <1>1 DEF Triple
<1>5. \A P, Q, R, S : ~Quad(w, P, Q, R, S) BY <1>1 DEF Quad
<1>6. QED BY <1>2, <1>3, <1>4, <1>5 DEF w

LEMMA NoWord ==
  /\ \A P : ~Some(<<>>, P)
  /\ \A P, Q : ~Pair(<<>>, P, Q)
  /\ \A P, Q, R : ~Triple(<<>>, P, Q, R)
  /\ \A P, Q, R, S : ~Quad(<<>>, P, Q, R, S)
BY DEF Some, Pair, Triple, Quad

\* The laws of words that are put together.
LEMMA Cat ==
  ASSUME NEW X, NEW u \in Seq(X), NEW v \in Seq(X)
  PROVE  /\ u \o v \in Seq(X)
         /\ \A P : Some(u \o v, P) <=> Some(u, P) \/ Some(v, P)
         /\ \A P, Q : Pair(u \o v, P, Q)
                        <=> Pair(u, P, Q) \/ Pair(v, P, Q) \/ (Some(u, P) /\ Some(v, Q))
         /\ \A P, Q, R : Triple(u \o v, P, Q, R)
                        <=> \/ Triple(u, P, Q, R) \/ Triple(v, P, Q, R)
                            \/ (Pair(u, P, Q) /\ Some(v, R)) \/ (Some(u, P) /\ Pair(v, Q, R))
         /\ \A P, Q, R, S : Quad(u \o v, P, Q, R, S)
                        <=> \/ Quad(u, P, Q, R, S) \/ Quad(v, P, Q, R, S)
                            \/ (Triple(u, P, Q, R) /\ Some(v, S))
                            \/ (Pair(u, P, Q) /\ Pair(v, R, S))
                            \/ (Some(u, P) /\ Triple(v, Q, R, S))
<1>1. u \o v \in Seq(X) OBVIOUS
<1>2. \A P : Some(u \o v, P) <=> Some(u, P) \/ Some(v, P) BY CatSome
<1>3. \A P, Q : Pair(u \o v, P, Q)
                  <=> Pair(u, P, Q) \/ Pair(v, P, Q) \/ (Some(u, P) /\ Some(v, Q))
  BY CatPair
<1>4. \A P, Q, R : Triple(u \o v, P, Q, R)
                  <=> \/ Triple(u, P, Q, R) \/ Triple(v, P, Q, R)
                      \/ (Pair(u, P, Q) /\ Some(v, R)) \/ (Some(u, P) /\ Pair(v, Q, R))
  <2> TAKE P, Q, R
  <2>1. QED BY CatTriple
<1>5. \A P, Q, R, S : Quad(u \o v, P, Q, R, S)
                  <=> \/ Quad(u, P, Q, R, S) \/ Quad(v, P, Q, R, S)
                      \/ (Triple(u, P, Q, R) /\ Some(v, S))
                      \/ (Pair(u, P, Q) /\ Pair(v, R, S))
                      \/ (Some(u, P) /\ Triple(v, Q, R, S))
  <2> TAKE P, Q, R, S
  <2>1. QED BY CatQuad
<1>6. QED BY <1>1, <1>2, <1>3, <1>4, <1>5

\* A longer pattern has shorter ones in it.
LEMMA Shorter ==
  ASSUME NEW w
  PROVE  /\ \A P, Q : Pair(w, P, Q) => Some(w, P) /\ Some(w, Q)
         /\ \A P, Q, R : Triple(w, P, Q, R) => Pair(w, P, Q) /\ Pair(w, Q, R)
         /\ \A P, Q, R, S : Quad(w, P, Q, R, S) => Triple(w, P, Q, R) /\ Triple(w, Q, R, S)
BY DEF Some, Pair, Triple, Quad

LEMMA Lacking ==
  ASSUME NEW w, NEW P, ~Some(w, P)
  PROVE  /\ \A Q : ~Pair(w, P, Q) /\ ~Pair(w, Q, P)
         /\ \A Q, R : ~Triple(w, P, Q, R)
         /\ \A Q, R, S : ~Quad(w, P, Q, R, S)
BY DEF Some, Pair, Triple, Quad

\* One letter more, at the end or in front.
LEMMA AddOne ==
  ASSUME NEW X, NEW u \in Seq(X), NEW x \in X
  PROVE  /\ u \o <<x>> \in Seq(X)
         /\ \A P : Some(u \o <<x>>, P) <=> Some(u, P) \/ x \in P
         /\ \A P, Q : Pair(u \o <<x>>, P, Q) <=> Pair(u, P, Q) \/ (Some(u, P) /\ x \in Q)
         /\ \A P, Q, R : Triple(u \o <<x>>, P, Q, R)
                         <=> Triple(u, P, Q, R) \/ (Pair(u, P, Q) /\ x \in R)
         /\ \A P, Q, R, S : Quad(u \o <<x>>, P, Q, R, S)
                         <=> Quad(u, P, Q, R, S) \/ (Triple(u, P, Q, R) /\ x \in S)
<1> DEFINE v == <<x>>
<1>1. v \in Seq(X) OBVIOUS
<1>2. /\ \A P : Some(v, P) <=> x \in P
      /\ \A P, Q : ~Pair(v, P, Q)
      /\ \A P, Q, R : ~Triple(v, P, Q, R)
      /\ \A P, Q, R, S : ~Quad(v, P, Q, R, S)
  BY LoneWord
<1> HIDE DEF v
<1>3. /\ u \o v \in Seq(X)
      /\ \A P : Some(u \o v, P) <=> Some(u, P) \/ x \in P
      /\ \A P, Q : Pair(u \o v, P, Q) <=> Pair(u, P, Q) \/ (Some(u, P) /\ x \in Q)
      /\ \A P, Q, R : Triple(u \o v, P, Q, R)
                      <=> Triple(u, P, Q, R) \/ (Pair(u, P, Q) /\ x \in R)
      /\ \A P, Q, R, S : Quad(u \o v, P, Q, R, S)
                      <=> Quad(u, P, Q, R, S) \/ (Triple(u, P, Q, R) /\ x \in S)
  BY <1>1, <1>2, Cat
<1>4. QED BY <1>3 DEF v

LEMMA PushOne ==
  ASSUME NEW X, NEW v \in Seq(X), NEW x \in X
  PROVE  /\ <<x>> \o v \in Seq(X)
         /\ \A P : Some(<<x>> \o v, P) <=> x \in P \/ Some(v, P)
         /\ \A P, Q : Pair(<<x>> \o v, P, Q) <=> Pair(v, P, Q) \/ (x \in P /\ Some(v, Q))
         /\ \A P, Q, R : Triple(<<x>> \o v, P, Q, R)
                         <=> Triple(v, P, Q, R) \/ (x \in P /\ Pair(v, Q, R))
         /\ \A P, Q, R, S : Quad(<<x>> \o v, P, Q, R, S)
                         <=> Quad(v, P, Q, R, S) \/ (x \in P /\ Triple(v, Q, R, S))
<1> DEFINE u == <<x>>
<1>1. u \in Seq(X) OBVIOUS
<1>2. /\ \A P : Some(u, P) <=> x \in P
      /\ \A P, Q : ~Pair(u, P, Q)
      /\ \A P, Q, R : ~Triple(u, P, Q, R)
      /\ \A P, Q, R, S : ~Quad(u, P, Q, R, S)
  BY LoneWord
<1> HIDE DEF u
<1>3. /\ u \o v \in Seq(X)
      /\ \A P : Some(u \o v, P) <=> x \in P \/ Some(v, P)
      /\ \A P, Q : Pair(u \o v, P, Q) <=> Pair(v, P, Q) \/ (x \in P /\ Some(v, Q))
      /\ \A P, Q, R : Triple(u \o v, P, Q, R)
                      <=> Triple(v, P, Q, R) \/ (x \in P /\ Pair(v, Q, R))
      /\ \A P, Q, R, S : Quad(u \o v, P, Q, R, S)
                      <=> Quad(v, P, Q, R, S) \/ (x \in P /\ Triple(v, Q, R, S))
  BY <1>1, <1>2, Cat
<1>4. QED BY <1>3 DEF u

-----------------------------------------------------------------------------
(* Roads.  Rites are the requests of dispatchJob and their answers; Jobs(R) *)
(* are the letters that stand for a job the dispatcher believes to run, or  *)
(* that has been or will be started; Ends(R) are the letters that report a  *)
(* free host, will bring such a report about, or report a job that no       *)
(* longer runs for the dispatcher.                                          *)
(*                                                                          *)
(* Tidy, always: a job's letter comes before its ends, no answer to a       *)
(* request comes after it, there is one job at a time.  Idle, while the     *)
(* dispatcher calls the host FREE or has turned to it: no job's letter at   *)
(* all.  Spare, while it prepares the host it just heard is free: how many  *)
(* reports may still follow.  Owned, while the coordinator lives: every job *)
(* that runs for the dispatcher has its letter.                             *)
UpKinds == {"register", "FREE", "jobFinished", "EnvOK", "please", "File get", "tick"}
DownKinds == {"OK", "setupEnv", "BG_putFile", "file", "BG_start", "JOB_STOP", "JOB_ABORT",
              "getTick"}
Letter == [kind : UpKinds \cup DownKinds \cup {"session"}, job : Job \cup {None}]
OfKind(K) == {l \in Letter : l.kind \in K}
Rites == OfKind({"EnvOK", "please", "File get", "setupEnv", "BG_putFile", "file"})
Stops == OfKind({"JOB_STOP"})
Frees == OfKind({"FREE", "JOB_STOP"})
Ticks == OfKind({"tick", "getTick"})
Aborts == OfKind({"JOB_ABORT"})
Jobs(R) == OfKind({"session", "BG_start"}) \cup {l \in OfKind({"jobFinished"}) : l.job \in R}
Ends(R) == Frees \cup {l \in OfKind({"jobFinished"}) : l.job \notin R}
Of(j) == {l \in OfKind({"session", "BG_start", "jobFinished"}) : l.job = j}

Tidy(w, R) ==
  /\ ~Pair(w, Ends(R), Jobs(R)) /\ ~Pair(w, Jobs(R), Rites) /\ ~Pair(w, Jobs(R), Jobs(R))
  /\ ~Triple(w, Ends(R), Rites, Ends(R))
  /\ ~Quad(w, Frees, Ends(R), Ends(R), Ends(R))
  /\ ~Pair(w, Stops, Ends(R)) /\ ~Triple(w, Frees, Ends(R), Stops)
  /\ ~Pair(w, Ticks, Ticks) /\ ~Some(w, Aborts)
Idle(w, R) == ~Some(w, Jobs(R)) /\ ~Pair(w, Rites, Ends(R))
Spare(w, R, pc) ==
  /\ pc = "env" => ~Triple(w, Ends(R), Ends(R), Ends(R)) /\ ~Pair(w, Ends(R), Stops)
  /\ pc = "put" => ~Pair(w, Ends(R), Ends(R)) /\ ~Some(w, Stops)
  /\ pc = "get" => ~Some(w, Ends(R))
Owned(w, R) ==
  /\ \A j \in R : Some(w, Of(j))
  /\ R # {} => ~Some(w, Stops) /\ ~Pair(w, Ends(R), Ends(R))
Sound(w, R, live, held, turn, clear, asked) ==
  /\ Tidy(w, R) /\ (held => Idle(w, R)) /\ Spare(w, R, turn)
  /\ (clear => ~Some(w, Ends(R))) /\ (live => Owned(w, R)) /\ (Some(w, Ticks) => asked)

\* Classes and how patterns depend on them.
LEMMA Wider ==
  ASSUME NEW w, NEW P, NEW Q, P \subseteq Q
  PROVE  /\ Some(w, P) => Some(w, Q)
         /\ \A X : (Pair(w, P, X) => Pair(w, Q, X)) /\ (Pair(w, X, P) => Pair(w, X, Q))
BY DEF Some, Pair

LEMMA Classes ==
  /\ Stops \subseteq Frees
  /\ \A R : Frees \subseteq Ends(R) /\ \A j \in R : Of(j) \subseteq Jobs(R)
  /\ \A l \in Letter :
       /\ l \in Rites <=> l.kind \in {"EnvOK", "please", "File get", "setupEnv",
                                      "BG_putFile", "file"}
       /\ l \in Stops <=> l.kind = "JOB_STOP"
       /\ l \in Frees <=> l.kind \in {"FREE", "JOB_STOP"}
       /\ l \in Ticks <=> l.kind \in {"tick", "getTick"}
       /\ l \in Aborts <=> l.kind = "JOB_ABORT"
       /\ \A R : /\ l \in Jobs(R) <=> \/ l.kind \in {"session", "BG_start"}
                                      \/ l.kind = "jobFinished" /\ l.job \in R
                 /\ l \in Ends(R) <=> \/ l.kind \in {"FREE", "JOB_STOP"}
                                      \/ l.kind = "jobFinished" /\ l.job \notin R
       /\ \A j : l \in Of(j) <=> l.kind \in {"session", "BG_start", "jobFinished"} /\ l.job = j
BY DEF OfKind, Rites, Stops, Frees, Ticks, Aborts, Jobs, Ends, Of

LEMMA Both ==
  ASSUME NEW X, NEW w \in Seq(X), NEW P, NEW Q, Some(w, P), Some(w, Q), P \cap Q = {}
  PROVE  Pair(w, P, Q) \/ Pair(w, Q, P)
<1>1. PICK i \in DOMAIN w, k \in DOMAIN w : w[i] \in P /\ w[k] \in Q BY DEF Some
<1>2. i \in Int /\ k \in Int /\ i # k BY <1>1
<1>3. QED BY <1>1, <1>2 DEF Pair

LEMMA Between ==
  ASSUME NEW X, NEW w \in Seq(X), NEW P, NEW Q, NEW Y, Pair(w, P, Q), Some(w, Y)
  PROVE  Pair(w, Y, Q) \/ Pair(w, P, Y)
<1>1. PICK i, k \in DOMAIN w : i < k /\ w[i] \in P /\ w[k] \in Q BY DEF Pair
<1>2. PICK l \in DOMAIN w : w[l] \in Y BY DEF Some
<1>3. i \in Int /\ k \in Int /\ l \in Int /\ (l < k \/ i < l) BY <1>1, <1>2
<1>4. QED BY <1>1, <1>2, <1>3 DEF Pair

\* Only one job runs on a host that lives.
LEMMA OneRuns ==
  ASSUME NEW w \in Seq(Letter), NEW R, Tidy(w, R), Owned(w, R)
  PROVE  /\ \A i, j \in R : i = j
         /\ Idle(w, R) => R = {}
<1>1. ASSUME NEW i \in R, NEW j \in R, i # j PROVE FALSE
  <2>1. Some(w, Of(i)) /\ Some(w, Of(j)) BY DEF Owned
  <2>2. Of(i) \cap Of(j) = {} BY <1>1 DEF Of
  <2>3. Pair(w, Of(i), Of(j)) \/ Pair(w, Of(j), Of(i)) BY <2>1, <2>2, Both
  <2>4. Of(i) \subseteq Jobs(R) /\ Of(j) \subseteq Jobs(R) BY Classes
  <2>5. Pair(w, Jobs(R), Jobs(R)) BY <2>3, <2>4, Wider
  <2>6. QED BY <2>5 DEF Tidy
<1>2. ASSUME Idle(w, R), NEW j \in R PROVE FALSE
  <2>1. Of(j) \subseteq Jobs(R) /\ Some(w, Of(j)) BY Classes DEF Owned
  <2>2. QED BY <1>2, <2>1, Wider DEF Idle
<1>3. QED BY <1>1, <1>2

-----------------------------------------------------------------------------
(* What coordinators do to the road. *)

Alike(x, y, R) ==
  /\ x \in Rites <=> y \in Rites
  /\ x \in Stops <=> y \in Stops
  /\ x \in Frees <=> y \in Frees
  /\ x \in Ticks <=> y \in Ticks
  /\ x \in Aborts <=> y \in Aborts
  /\ x \in Jobs(R) <=> y \in Jobs(R)
  /\ x \in Ends(R) <=> y \in Ends(R)
  /\ \A j : x \in Of(j) <=> y \in Of(j)

LEMMA Swapped ==
  ASSUME NEW u \in Seq(Letter), NEW v \in Seq(Letter), NEW x \in Letter, NEW y \in Letter,
         NEW R, NEW live, NEW held, NEW turn, NEW clear, NEW asked, Alike(x, y, R),
         Sound((u \o <<x>>) \o v, R, live, held, turn, clear, asked)
  PROVE  Sound((u \o <<y>>) \o v, R, live, held, turn, clear, asked)
<1> DEFINE a == u \o <<x>>
           b == u \o <<y>>
           Group == {Rites, Stops, Frees, Ticks, Aborts, Jobs(R), Ends(R)}
<1>0. a \in Seq(Letter) /\ b \in Seq(Letter) /\ <<x>> \in Seq(Letter) /\ <<y>> \in Seq(Letter) OBVIOUS
<1>1. \A P \in Group : x \in P <=> y \in P BY DEF Alike
<1>2. /\ \A P \in Group : Some(a, P) <=> Some(b, P)
      /\ \A P, Q \in Group : Pair(a, P, Q) <=> Pair(b, P, Q)
      /\ \A P, Q, X \in Group : Triple(a, P, Q, X) <=> Triple(b, P, Q, X)
      /\ \A P, Q, X, Y \in Group : Quad(a, P, Q, X, Y) <=> Quad(b, P, Q, X, Y)
      /\ \A j : Some(a, Of(j)) <=> Some(b, Of(j))
  <2> HIDE DEF Group
  <2>1. \A j : x \in Of(j) <=> y \in Of(j) BY DEF Alike
  <2>2. /\ \A P : Some(a, P) <=> Some(u, P) \/ x \in P
        /\ \A P, Q : Pair(a, P, Q) <=> Pair(u, P, Q) \/ (Some(u, P) /\ x \in Q)
        /\ \A P, Q, X : Triple(a, P, Q, X) <=> Triple(u, P, Q, X) \/ (Pair(u, P, Q) /\ x \in X)
        /\ \A P, Q, X, Y : Quad(a, P, Q, X, Y)
                            <=> Quad(u, P, Q, X, Y) \/ (Triple(u, P, Q, X) /\ x \in Y)
    BY AddOne
  <2>3. /\ \A P : Some(b, P) <=> Some(u, P) \/ y \in P
        /\ \A P, Q : Pair(b, P, Q) <=> Pair(u, P, Q) \/ (Some(u, P) /\ y \in Q)
        /\ \A P, Q, X : Triple(b, P, Q, X) <=> Triple(u, P, Q, X) \/ (Pair(u, P, Q) /\ y \in X)
        /\ \A P, Q, X, Y : Quad(b, P, Q, X, Y)
                            <=> Quad(u, P, Q, X, Y) \/ (Triple(u, P, Q, X) /\ y \in Y)
    BY AddOne
  <2> HIDE DEF a, b
  <2>4. QED BY <1>1, <2>1, <2>2, <2>3
<1> HIDE DEF a, b, Group
<1>3. /\ \A P \in Group : Some(a \o v, P) <=> Some(b \o v, P)
      /\ \A P, Q \in Group : Pair(a \o v, P, Q) <=> Pair(b \o v, P, Q)
      /\ \A P, Q, X \in Group : Triple(a \o v, P, Q, X) <=> Triple(b \o v, P, Q, X)
      /\ \A P, Q, X, Y \in Group : Quad(a \o v, P, Q, X, Y) <=> Quad(b \o v, P, Q, X, Y)
      /\ \A j : Some(a \o v, Of(j)) <=> Some(b \o v, Of(j))
  BY <1>0, <1>2, Cat
<1>4. /\ Rites \in Group /\ Stops \in Group /\ Frees \in Group /\ Ticks \in Group
      /\ Aborts \in Group /\ Jobs(R) \in Group /\ Ends(R) \in Group
  BY DEF Group
<1>5. Sound(a \o v, R, live, held, turn, clear, asked) BY DEF a
<1>6. Sound(b \o v, R, live, held, turn, clear, asked)
  BY <1>3, <1>4, <1>5 DEF Sound, Tidy, Idle, Spare, Owned
<1>7. QED BY <1>6 DEF b

\* A line that names no running job is read.
LEMMA Removed ==
  ASSUME NEW u \in Seq(Letter), NEW v \in Seq(Letter), NEW x \in Letter,
         NEW R, NEW live, NEW held, NEW turn, NEW clear, NEW asked, x \notin Jobs(R),
         Sound((u \o <<x>>) \o v, R, live, held, turn, clear, asked)
  PROVE  /\ Sound(u \o v, R, live, held, turn, clear, asked)
         /\ x \in Ticks => ~Some(u \o v, Ticks)
<1> DEFINE a == u \o <<x>>
           w == a \o v
           z == u \o v
<1>0. a \in Seq(Letter) /\ <<x>> \in Seq(Letter) OBVIOUS
<1>1. /\ \A P : Some(z, P) => Some(w, P)
      /\ \A P, Q : Pair(z, P, Q) => Pair(w, P, Q)
      /\ \A P, Q, X : Triple(z, P, Q, X) => Triple(w, P, Q, X)
      /\ \A P, Q, X, Y : Quad(z, P, Q, X, Y) => Quad(w, P, Q, X, Y)
      /\ \A P : Some(w, P) /\ x \notin P => Some(z, P)
      /\ \A P : x \in P /\ Some(z, P) => Pair(w, P, P)
  <2>1. /\ \A P : Some(u, P) => Some(a, P)
        /\ \A P : Some(a, P) <=> Some(u, P) \/ x \in P
        /\ \A P, Q : Pair(u, P, Q) => Pair(a, P, Q)
        /\ \A P, Q, X : Triple(u, P, Q, X) => Triple(a, P, Q, X)
        /\ \A P, Q, X, Y : Quad(u, P, Q, X, Y) => Quad(a, P, Q, X, Y)
        /\ \A P, Q : Some(u, P) /\ x \in Q => Pair(a, P, Q)
    BY <1>0, Cat, LoneWord
  <2> HIDE DEF a
  <2>2. QED BY <1>0, <2>1, Cat, ZenonT(60)
<1>2. \A j \in R : x \notin Of(j) BY Classes
<1> HIDE DEF z, w
<1>3. Sound(w, R, live, held, turn, clear, asked) BY DEF w
<1>4. Sound(z, R, live, held, turn, clear, asked)
  BY <1>1, <1>2, <1>3 DEF Sound, Tidy, Idle, Spare, Owned
<1>5. x \in Ticks => ~Some(z, Ticks) BY <1>1, <1>3 DEF Sound, Tidy
<1>6. QED BY <1>4, <1>5 DEF z

\* A line of no class, or the one request for a tick and its answer.
LEMMA Inserted ==
  ASSUME NEW u \in Seq(Letter), NEW v \in Seq(Letter), NEW x \in Letter,
         NEW R, NEW live, NEW held, NEW turn, NEW clear, NEW asked,
         x.kind \in {"register", "OK", "tick", "getTick"},
         x \in Ticks => asked /\ ~Some(u \o v, Ticks),
         Sound(u \o v, R, live, held, turn, clear, asked)
  PROVE  Sound((u \o <<x>>) \o v, R, live, held, turn, clear, asked)
<1> DEFINE a == u \o <<x>>
           Group == {Rites, Stops, Frees, Aborts, Jobs(R), Ends(R)}
<1>0. a \in Seq(Letter) OBVIOUS
<1>1. \A P \in Group : x \notin P
  <2>1. /\ x \notin Rites /\ x \notin Stops /\ x \notin Frees /\ x \notin Aborts
        /\ x \notin Jobs(R) /\ x \notin Ends(R)
    BY Classes
  <2>2. QED BY <2>1
<1>2. \A j : x \notin Of(j) BY Classes
<1>3. /\ \A P \in Group : Some(a, P) <=> Some(u, P)
      /\ \A P, Q \in Group : Pair(a, P, Q) <=> Pair(u, P, Q)
      /\ \A P, Q, X \in Group : Triple(a, P, Q, X) <=> Triple(u, P, Q, X)
      /\ \A P, Q, X, Y \in Group : Quad(a, P, Q, X, Y) <=> Quad(u, P, Q, X, Y)
      /\ \A j : Some(a, Of(j)) <=> Some(u, Of(j))
      /\ Some(a, Ticks) <=> Some(u, Ticks) \/ x \in Ticks
      /\ Pair(a, Ticks, Ticks) <=> Pair(u, Ticks, Ticks) \/ (Some(u, Ticks) /\ x \in Ticks)
  <2> HIDE DEF Group
  <2>1. /\ \A P : Some(a, P) <=> Some(u, P) \/ x \in P
        /\ \A P, Q : Pair(a, P, Q) <=> Pair(u, P, Q) \/ (Some(u, P) /\ x \in Q)
        /\ \A P, Q, X : Triple(a, P, Q, X) <=> Triple(u, P, Q, X) \/ (Pair(u, P, Q) /\ x \in X)
        /\ \A P, Q, X, Y : Quad(a, P, Q, X, Y)
                            <=> Quad(u, P, Q, X, Y) \/ (Triple(u, P, Q, X) /\ x \in Y)
    BY AddOne
  <2> HIDE DEF a
  <2>2. QED BY <1>1, <1>2, <2>1
<1> HIDE DEF a, Group
<1>4. /\ \A P \in Group : Some(a \o v, P) <=> Some(u \o v, P)
      /\ \A P, Q \in Group : Pair(a \o v, P, Q) <=> Pair(u \o v, P, Q)
      /\ \A P, Q, X \in Group : Triple(a \o v, P, Q, X) <=> Triple(u \o v, P, Q, X)
      /\ \A P, Q, X, Y \in Group : Quad(a \o v, P, Q, X, Y) <=> Quad(u \o v, P, Q, X, Y)
      /\ \A j : Some(a \o v, Of(j)) <=> Some(u \o v, Of(j))
      /\ Some(a \o v, Ticks) <=> Some(u \o v, Ticks) \/ x \in Ticks
      /\ Pair(a \o v, Ticks, Ticks) => Pair(u \o v, Ticks, Ticks) \/ (Some(u \o v, Ticks) /\ x \in Ticks)
  BY <1>0, <1>3, Cat
<1>5. /\ Rites \in Group /\ Stops \in Group /\ Frees \in Group
      /\ Aborts \in Group /\ Jobs(R) \in Group /\ Ends(R) \in Group
  BY DEF Group
<1>6. Sound(a \o v, R, live, held, turn, clear, asked)
  BY <1>4, <1>5 DEF Sound, Tidy, Idle, Spare, Owned
<1>7. QED BY <1>6 DEF a

\* The host dies: what it would have read is gone.
LEMMA CutOff ==
  ASSUME NEW u \in Seq(Letter), NEW v \in Seq(Letter),
         NEW R, NEW live, NEW held, NEW turn, NEW clear, NEW asked,
         Sound(u \o v, R, live, held, turn, clear, asked)
  PROVE  Sound(u, R, FALSE, held, turn, clear, asked)
<1> DEFINE w == u \o v
<1>1. /\ \A P : Some(u, P) => Some(w, P)
      /\ \A P, Q : Pair(u, P, Q) => Pair(w, P, Q)
      /\ \A P, Q, X : Triple(u, P, Q, X) => Triple(w, P, Q, X)
      /\ \A P, Q, X, Y : Quad(u, P, Q, X, Y) => Quad(w, P, Q, X, Y)
  BY Cat
<1> HIDE DEF w
<1>2. Sound(w, R, live, held, turn, clear, asked) BY DEF w
<1>3. QED BY <1>1, <1>2 DEF Sound, Tidy, Idle, Spare

\* What the dispatcher writes ends nothing but by JOB_STOP, what a
\* coordinator writes is no JOB_STOP.
Down(d) == \A i \in DOMAIN d : d[i].kind \in DownKinds
Up(u) == \A i \in DOMAIN u : u[i].kind \in UpKinds

LEMMA Sides ==
  ASSUME NEW R, NEW w \in Seq(Letter)
  PROVE  /\ Up(w) => ~Some(w, Stops)
         /\ Down(w) => /\ Some(w, Ends(R)) => Some(w, Stops)
                       /\ \A P : Pair(w, Ends(R), P) => Pair(w, Stops, P)
                       /\ \A P : Pair(w, P, Ends(R)) => Pair(w, P, Stops)
<1>1. \A i \in DOMAIN w : w[i] \in Letter OBVIOUS
<1>2. Up(w) => \A i \in DOMAIN w : w[i] \notin Stops BY <1>1, Classes DEF Up, UpKinds
<1>3. Down(w) => \A i \in DOMAIN w : w[i] \in Ends(R) => w[i] \in Stops
  BY <1>1, Classes, ZenonT(60) DEF Down, DownKinds
<1>4. QED BY <1>2, <1>3 DEF Some, Pair

\* A simulation is over: the host reports the job, if it has one, and itself.
LEMMA Reported ==
  ASSUME NEW u \in Seq(Letter), NEW d \in Seq(Letter), Up(u), Down(d),
         NEW m \in Letter, NEW x \in Letter, NEW f \in Letter, NEW R,
         NEW held, NEW turn, NEW clear, NEW asked,
         m.kind = "session", x.kind = "jobFinished", x.job = m.job, f.kind = "FREE",
         turn # "none" => held, clear => held,
         Sound((u \o <<m>>) \o d, R, TRUE, held, turn, clear, asked)
  PROVE  Sound(((u \o <<x>>) \o <<f>>) \o d, R, TRUE, held, turn, clear, asked)
<1> DEFINE a == u \o <<m>>
           b == u \o <<x>>
           c == b \o <<f>>
           w == a \o d
           z == c \o d
           E == Ends(R)
           B == Jobs(R)
<1>0. a \in Seq(Letter) /\ b \in Seq(Letter) /\ c \in Seq(Letter) OBVIOUS
<1>1. /\ m \notin Rites /\ m \notin E /\ m \in B
      /\ x \notin Rites /\ x \notin Stops /\ x \notin Frees /\ x \notin Ticks /\ x \notin Aborts
      /\ (x \in B <=> x.job \in R) /\ (x \in E <=> x.job \notin R)
      /\ f \notin Rites /\ f \notin Stops /\ f \in Frees /\ f \notin Ticks /\ f \notin Aborts
      /\ f \notin B /\ f \in E
  <2>1. m \notin Rites /\ m \notin E /\ m \in B BY Classes
  <2>2. x \notin Rites /\ x \notin Stops /\ x \notin Frees /\ x \notin Ticks /\ x \notin Aborts
    BY Classes
  <2>3. (x \in B <=> x.job \in R) /\ (x \in E <=> x.job \notin R) BY Classes
  <2>4. f \notin Rites /\ f \notin Stops /\ f \in Frees /\ f \notin Ticks /\ f \notin Aborts
    BY Classes
  <2>5. f \notin B /\ f \in E BY Classes
  <2>6. QED BY <2>1, <2>2, <2>3, <2>4, <2>5
<1>a. \A j : (m \in Of(j) <=> j = x.job) /\ (x \in Of(j) <=> j = x.job)
  BY Classes
<1>2. /\ \A P : Some(a, P) <=> Some(u, P) \/ m \in P
      /\ \A P, Q : Pair(a, P, Q) <=> Pair(u, P, Q) \/ (Some(u, P) /\ m \in Q)
  BY AddOne
<1>3. /\ \A P : Some(b, P) <=> Some(u, P) \/ x \in P
      /\ \A P, Q : Pair(b, P, Q) <=> Pair(u, P, Q) \/ (Some(u, P) /\ x \in Q)
      /\ \A P, Q, X : Triple(b, P, Q, X) <=> Triple(u, P, Q, X) \/ (Pair(u, P, Q) /\ x \in X)
      /\ \A P, Q, X, Y : Quad(b, P, Q, X, Y) <=> Quad(u, P, Q, X, Y) \/ (Triple(u, P, Q, X) /\ x \in Y)
  BY AddOne
<1> HIDE DEF a, b
<1>4. /\ \A P : Some(c, P) <=> Some(b, P) \/ f \in P
      /\ \A P, Q : Pair(c, P, Q) <=> Pair(b, P, Q) \/ (Some(b, P) /\ f \in Q)
      /\ \A P, Q, X : Triple(c, P, Q, X) <=> Triple(b, P, Q, X) \/ (Pair(b, P, Q) /\ f \in X)
      /\ \A P, Q, X, Y : Quad(c, P, Q, X, Y) <=> Quad(b, P, Q, X, Y) \/ (Triple(b, P, Q, X) /\ f \in Y)
  BY <1>0, AddOne
<1>5. Sound(w, R, TRUE, held, turn, clear, asked) BY DEF a
<1> HIDE DEF c
<1>6. /\ \A P : Some(w, P) <=> Some(a, P) \/ Some(d, P)
      /\ \A P, Q : Pair(w, P, Q) <=> Pair(a, P, Q) \/ Pair(d, P, Q) \/ (Some(a, P) /\ Some(d, Q))
  BY <1>0, Cat
<1>7. /\ \A P : Some(z, P) <=> Some(c, P) \/ Some(d, P)
      /\ \A P, Q : Pair(z, P, Q) <=> Pair(c, P, Q) \/ Pair(d, P, Q) \/ (Some(c, P) /\ Some(d, Q))
      /\ \A P, Q, X : Triple(z, P, Q, X)
            <=> \/ Triple(c, P, Q, X) \/ Triple(d, P, Q, X)
                \/ (Pair(c, P, Q) /\ Some(d, X)) \/ (Some(c, P) /\ Pair(d, Q, X))
      /\ \A P, Q, X, Y : Quad(z, P, Q, X, Y)
            <=> \/ Quad(c, P, Q, X, Y) \/ Quad(d, P, Q, X, Y) \/ (Triple(c, P, Q, X) /\ Some(d, Y))
                \/ (Pair(c, P, Q) /\ Pair(d, X, Y)) \/ (Some(c, P) /\ Triple(d, Q, X, Y))
  BY <1>0, Cat
<1> HIDE DEF w, z
<1>8. Tidy(w, R) /\ Owned(w, R) /\ ~held BY <1>1, <1>2, <1>5, <1>6 DEF Sound, Idle
<1>9. /\ ~Some(u, E) /\ ~Some(u, B) /\ ~Some(d, B) /\ ~Some(d, Rites)
  BY <1>1, <1>2, <1>6, <1>8 DEF Tidy
<1>10. /\ ~Some(u, Stops) /\ ~Some(u, Frees) /\ ~Pair(d, Stops, E) /\ ~Pair(d, E, E)
       /\ ~Pair(d, E, Stops) /\ ~Pair(d, Frees, E)
  <2>1. ~Pair(d, Stops, E) BY <1>6, <1>8 DEF Tidy
  <2>2. ~Pair(d, E, E) BY <2>1, Sides
  <2>3. QED BY <1>9, <2>1, <2>2, Classes, Wider
<1>11. Tidy(z, R)
  <2> HIDE DEF E, B
  <2>1. /\ ~Pair(u, E, B) /\ ~Pair(u, B, Rites) /\ ~Pair(u, B, B) /\ ~Pair(u, Stops, E)
        /\ ~Pair(d, E, B) /\ ~Pair(d, B, Rites) /\ ~Pair(d, B, B) /\ ~Pair(d, E, Rites)
        /\ ~Pair(d, Rites, E)
    BY <1>9, <1>10, Shorter
  <2>2. /\ ~Pair(z, E, B) /\ ~Pair(z, B, Rites) /\ ~Pair(z, B, B)
    BY <1>1, <1>3, <1>4, <1>7, <1>9, <2>1 DEF E, B
  <2>3. ~Triple(z, E, Rites, E)
    BY <1>1, <1>3, <1>4, <1>7, <1>9, <2>1, Shorter
  <2>4. ~Quad(z, Frees, E, E, E)
    BY <1>1, <1>3, <1>4, <1>7, <1>9, <1>10, <2>1, Shorter
  <2>5. ~Pair(z, Stops, E) BY <1>1, <1>3, <1>4, <1>7, <1>10, <2>1
  <2>6. ~Triple(z, Frees, E, Stops)
    BY <1>1, <1>3, <1>4, <1>7, <1>9, <1>10, <2>1, Shorter
  <2>7. ~Pair(z, Ticks, Ticks) BY <1>1, <1>2, <1>3, <1>4, <1>6, <1>7, <1>8 DEF Tidy
  <2>8. ~Some(z, Aborts) BY <1>1, <1>2, <1>3, <1>4, <1>6, <1>7, <1>8 DEF Tidy
  <2>9. QED BY <2>2, <2>3, <2>4, <2>5, <2>6, <2>7, <2>8 DEF Tidy, E, B
<1>12. Owned(z, R)
  <2>1. \A j \in R : Some(z, Of(j)) BY <1>a, <1>2, <1>3, <1>4, <1>6, <1>7, <1>8 DEF Owned
  <2>2. ASSUME R # {} PROVE ~Some(z, Stops) /\ ~Pair(z, E, E)
    <3>1. PICK j \in R : TRUE BY <2>2
    <3>2. ~Some(w, Stops) /\ ~Some(d, Stops) BY <1>6, <1>8, <2>2 DEF Owned
    <3>3. ~Some(d, E) BY <3>2, Sides
    <3>4. x.job \in R
      <4>1. CASE j = x.job BY <4>1
      <4>2. CASE j # x.job
        <5>1. Of(j) \subseteq B /\ m \notin Of(j) BY <1>a, <4>2, Classes
        <5>2. Some(u, Of(j)) \/ Some(d, Of(j)) BY <1>2, <1>6, <1>8, <5>1 DEF Owned
        <5>3. QED BY <1>9, <5>1, <5>2, Wider
      <4>3. QED BY <4>1, <4>2
    <3>5. ~Pair(u, E, E) /\ ~Pair(d, E, E) BY <1>9, <3>3, Shorter
    <3>6. QED BY <1>1, <1>3, <1>4, <1>7, <1>9, <1>10, <3>2, <3>3, <3>4, <3>5
  <2>3. QED BY <2>1, <2>2 DEF Owned
<1>13. Some(z, Ticks) => asked
  BY <1>1, <1>2, <1>3, <1>4, <1>5, <1>6, <1>7 DEF Sound
<1>14. Sound(z, R, TRUE, held, turn, clear, asked)
  BY <1>8, <1>11, <1>12, <1>13 DEF Sound, Spare
<1>15. QED BY <1>14 DEF z, c, b

\* A job is stopped by JOB_STOP: the host reports itself, the job, and
\* itself again.
LEMMA StoppedJob ==
  ASSUME NEW u \in Seq(Letter), NEW d \in Seq(Letter), Up(u), Down(d),
         NEW m \in Letter, NEW s \in Letter, NEW x \in Letter, NEW f \in Letter, NEW R,
         NEW held, NEW turn, NEW clear, NEW asked,
         m.kind = "session", s.kind = "JOB_STOP",
         x.kind = "jobFinished", x.job = m.job, f.kind = "FREE",
         turn # "none" => held, clear => held,
         Sound(((u \o <<m>>) \o <<s>>) \o d, R, TRUE, held, turn, clear, asked)
  PROVE  Sound((((u \o <<f>>) \o <<x>>) \o <<f>>) \o d, R, TRUE, held, turn, clear, asked)
<1> DEFINE a == u \o <<m>>
           b == a \o <<s>>
           w == b \o d
           a2 == u \o <<f>>
           b2 == a2 \o <<x>>
           c2 == b2 \o <<f>>
           z == c2 \o d
           E == Ends(R)
           B == Jobs(R)
<1>1. /\ m \notin E /\ m \in B /\ s \in Stops /\ s \in E
      /\ x \notin Rites /\ x \notin Stops /\ x \notin Frees /\ x \notin Ticks /\ x \notin Aborts
      /\ f \notin Rites /\ f \notin Stops /\ f \in Frees /\ f \notin Ticks /\ f \notin Aborts
      /\ f \notin B /\ f \in E
  <2>1. m \notin E /\ m \in B /\ s \in Stops /\ s \in E BY Classes
  <2>2. x \notin Rites /\ x \notin Stops /\ x \notin Frees /\ x \notin Ticks /\ x \notin Aborts
    BY Classes
  <2>3. f \notin Rites /\ f \notin Stops /\ f \in Frees /\ f \notin Ticks /\ f \notin Aborts
    BY Classes
  <2>4. f \notin B /\ f \in E BY Classes
  <2>5. QED BY <2>1, <2>2, <2>3, <2>4
<1>2. /\ a \in Seq(Letter) /\ a2 \in Seq(Letter)
      /\ \A P : Some(a, P) <=> Some(u, P) \/ m \in P
      /\ \A P, Q : Pair(a, P, Q) <=> Pair(u, P, Q) \/ (Some(u, P) /\ m \in Q)
      /\ \A P : Some(a2, P) <=> Some(u, P) \/ f \in P
      /\ \A P, Q : Pair(a2, P, Q) <=> Pair(u, P, Q) \/ (Some(u, P) /\ f \in Q)
      /\ \A P, Q, X : Triple(a2, P, Q, X) <=> Triple(u, P, Q, X) \/ (Pair(u, P, Q) /\ f \in X)
      /\ \A P, Q, X, Y : Quad(a2, P, Q, X, Y)
                          <=> Quad(u, P, Q, X, Y) \/ (Triple(u, P, Q, X) /\ f \in Y)
  BY AddOne
<1> HIDE DEF a, a2
<1>3. /\ b \in Seq(Letter) /\ b2 \in Seq(Letter)
      /\ \A P : Some(b, P) <=> Some(a, P) \/ s \in P
      /\ \A P, Q : Pair(b, P, Q) <=> Pair(a, P, Q) \/ (Some(a, P) /\ s \in Q)
      /\ \A P : Some(b2, P) <=> Some(a2, P) \/ x \in P
      /\ \A P, Q : Pair(b2, P, Q) <=> Pair(a2, P, Q) \/ (Some(a2, P) /\ x \in Q)
      /\ \A P, Q, X : Triple(b2, P, Q, X) <=> Triple(a2, P, Q, X) \/ (Pair(a2, P, Q) /\ x \in X)
      /\ \A P, Q, X, Y : Quad(b2, P, Q, X, Y)
                          <=> Quad(a2, P, Q, X, Y) \/ (Triple(a2, P, Q, X) /\ x \in Y)
  BY <1>2, AddOne
<1> HIDE DEF b, b2
<1>4. /\ c2 \in Seq(Letter)
      /\ \A P : Some(c2, P) <=> Some(b2, P) \/ f \in P
      /\ \A P, Q : Pair(c2, P, Q) <=> Pair(b2, P, Q) \/ (Some(b2, P) /\ f \in Q)
      /\ \A P, Q, X : Triple(c2, P, Q, X) <=> Triple(b2, P, Q, X) \/ (Pair(b2, P, Q) /\ f \in X)
      /\ \A P, Q, X, Y : Quad(c2, P, Q, X, Y)
                          <=> Quad(b2, P, Q, X, Y) \/ (Triple(b2, P, Q, X) /\ f \in Y)
  BY <1>3, AddOne
<1> HIDE DEF c2
<1>5. Sound(w, R, TRUE, held, turn, clear, asked) BY DEF a, b
<1>6. /\ \A P : Some(w, P) <=> Some(b, P) \/ Some(d, P)
      /\ \A P, Q : Pair(w, P, Q) <=> Pair(b, P, Q) \/ Pair(d, P, Q) \/ (Some(b, P) /\ Some(d, Q))
  BY <1>3, Cat
<1>7. /\ \A P : Some(z, P) <=> Some(c2, P) \/ Some(d, P)
      /\ \A P, Q : Pair(z, P, Q) <=> Pair(c2, P, Q) \/ Pair(d, P, Q) \/ (Some(c2, P) /\ Some(d, Q))
      /\ \A P, Q, X : Triple(z, P, Q, X)
            <=> \/ Triple(c2, P, Q, X) \/ Triple(d, P, Q, X)
                \/ (Pair(c2, P, Q) /\ Some(d, X)) \/ (Some(c2, P) /\ Pair(d, Q, X))
      /\ \A P, Q, X, Y : Quad(z, P, Q, X, Y)
            <=> \/ Quad(c2, P, Q, X, Y) \/ Quad(d, P, Q, X, Y) \/ (Triple(c2, P, Q, X) /\ Some(d, Y))
                \/ (Pair(c2, P, Q) /\ Pair(d, X, Y)) \/ (Some(c2, P) /\ Triple(d, Q, X, Y))
  BY <1>4, Cat
<1> HIDE DEF w, z
<1>8. Tidy(w, R) /\ Owned(w, R) /\ ~held /\ R = {}
  <2>1. Tidy(w, R) /\ Owned(w, R) /\ ~held BY <1>1, <1>2, <1>3, <1>5, <1>6 DEF Sound, Idle
  <2>2. Some(w, Stops) BY <1>1, <1>3, <1>6
  <2>3. QED BY <2>1, <2>2 DEF Owned
<1>9. /\ ~Some(u, E) /\ ~Some(u, B) /\ ~Some(d, B) /\ ~Some(d, Rites) /\ ~Some(d, E)
      /\ x \notin B
  <2>1. /\ ~Some(u, E) /\ ~Some(u, B) /\ ~Some(d, B) /\ ~Some(d, Rites) /\ ~Some(d, E)
    BY <1>1, <1>2, <1>3, <1>6, <1>8 DEF Tidy
  <2>2. x \notin B BY <1>8, Classes
  <2>3. QED BY <2>1, <2>2
<1>10. ~Some(u, Stops) /\ ~Some(u, Frees) /\ ~Some(d, Stops)
  BY <1>9, Classes, Wider
<1>11. Tidy(z, R)
  <2> HIDE DEF E, B
  <2>1. /\ ~Pair(u, E, B) /\ ~Pair(u, B, Rites) /\ ~Pair(u, B, B) /\ ~Pair(u, Stops, E)
        /\ ~Pair(u, E, E)
        /\ ~Pair(d, E, B) /\ ~Pair(d, B, Rites) /\ ~Pair(d, B, B) /\ ~Pair(d, E, Rites)
        /\ ~Pair(d, Rites, E) /\ ~Pair(d, E, E) /\ ~Pair(d, Stops, E)
    BY <1>9, <1>10, Shorter
  <2>2. /\ ~Pair(z, E, B) /\ ~Pair(z, B, Rites) /\ ~Pair(z, B, B)
    BY <1>1, <1>2, <1>3, <1>4, <1>7, <1>9, <2>1
  <2>3. ~Triple(z, E, Rites, E)
    <3>1. ~Pair(a2, E, Rites) BY <1>1, <1>2, <1>9, Shorter
    <3>2. ~Pair(b2, E, Rites) BY <1>1, <1>3, <3>1
    <3>3. ~Pair(c2, E, Rites) BY <1>1, <1>4, <3>2
    <3>4. ~Triple(c2, E, Rites, E) /\ ~Triple(d, E, Rites, E) BY <2>1, <3>3, Shorter
    <3>5. QED BY <1>7, <2>1, <3>3, <3>4
  <2>4. ~Quad(z, Frees, E, E, E)
    <3>1. ~Pair(u, Frees, E) BY <1>10, Shorter
    <3>2. ~Triple(u, Frees, E, E) BY <3>1, Shorter
    <3>3. ~Quad(u, Frees, E, E, E) BY <3>2, Shorter
    <3>4. ~Pair(a2, Frees, E) BY <1>2, <1>10, <3>1
    <3>5. ~Triple(a2, Frees, E, E) BY <1>2, <3>1, <3>2
    <3>6. ~Quad(a2, Frees, E, E, E) BY <1>2, <3>2, <3>3
    <3>7. ~Triple(b2, Frees, E, E) BY <1>3, <3>4, <3>5
    <3>8. ~Quad(b2, Frees, E, E, E) BY <1>3, <3>5, <3>6
    <3>9. ~Quad(c2, Frees, E, E, E) BY <1>4, <3>7, <3>8
    <3>10. ~Triple(d, E, E, E) BY <2>1, Shorter
    <3>11. ~Quad(d, Frees, E, E, E) BY <3>10, Shorter
    <3>12. QED BY <1>7, <1>9, <2>1, <3>9, <3>10, <3>11
  <2>5. ~Pair(z, Stops, E) BY <1>1, <1>2, <1>3, <1>4, <1>7, <1>10, <2>1
  <2>6. ~Triple(z, Frees, E, Stops)
    <3>1. ~Some(c2, Stops) BY <1>1, <1>2, <1>3, <1>4, <1>10
    <3>2. ~Some(z, Stops) BY <1>7, <1>10, <3>1
    <3>3. ~Pair(z, E, Stops) BY <3>2, Shorter
    <3>4. QED BY <3>3, Shorter
  <2>7. ~Pair(z, Ticks, Ticks) BY <1>1, <1>2, <1>3, <1>4, <1>6, <1>7, <1>8 DEF Tidy
  <2>8. ~Some(z, Aborts) BY <1>1, <1>2, <1>3, <1>4, <1>6, <1>7, <1>8 DEF Tidy
  <2>9. QED BY <2>2, <2>3, <2>4, <2>5, <2>6, <2>7, <2>8 DEF Tidy, E, B
<1>12. Owned(z, R) BY <1>8 DEF Owned
<1>13. Some(z, Ticks) => asked
  BY <1>1, <1>2, <1>3, <1>4, <1>5, <1>6, <1>7 DEF Sound
<1>14. Sound(z, R, TRUE, held, turn, clear, asked)
  BY <1>8, <1>11, <1>12, <1>13 DEF Sound, Spare
<1>15. QED BY <1>14 DEF z, c2, b2, a2

\* JOB_STOP reaches a host that has no job: it reports itself twice.
LEMMA StoppedIdle ==
  ASSUME NEW u \in Seq(Letter), NEW d \in Seq(Letter), Up(u), Down(d),
         NEW s \in Letter, NEW f \in Letter, NEW R,
         NEW held, NEW turn, NEW clear, NEW asked,
         s.kind = "JOB_STOP", f.kind = "FREE",
         Sound((u \o <<s>>) \o d, R, TRUE, held, turn, clear, asked)
  PROVE  Sound(((u \o <<f>>) \o <<f>>) \o d, R, TRUE, held, turn, clear, asked)
<1> DEFINE a == u \o <<s>>
           w == a \o d
           a2 == u \o <<f>>
           b2 == a2 \o <<f>>
           z == b2 \o d
           E == Ends(R)
           B == Jobs(R)
<1>1. /\ s \in Stops /\ s \in E
      /\ f \notin Rites /\ f \notin Stops /\ f \in Frees /\ f \notin Ticks /\ f \notin Aborts
      /\ f \notin B /\ f \in E
  <2>1. s \in Stops /\ s \in E BY Classes
  <2>3. f \notin Rites /\ f \notin Stops /\ f \in Frees /\ f \notin Ticks /\ f \notin Aborts
    BY Classes
  <2>4. f \notin B /\ f \in E BY Classes
  <2>5. QED BY <2>1, <2>3, <2>4
<1>2. /\ a \in Seq(Letter) /\ a2 \in Seq(Letter)
      /\ \A P : Some(a, P) <=> Some(u, P) \/ s \in P
      /\ \A P, Q : Pair(a, P, Q) <=> Pair(u, P, Q) \/ (Some(u, P) /\ s \in Q)
      /\ \A P, Q, X : Triple(a, P, Q, X) <=> Triple(u, P, Q, X) \/ (Pair(u, P, Q) /\ s \in X)
      /\ \A P : Some(a2, P) <=> Some(u, P) \/ f \in P
      /\ \A P, Q : Pair(a2, P, Q) <=> Pair(u, P, Q) \/ (Some(u, P) /\ f \in Q)
      /\ \A P, Q, X : Triple(a2, P, Q, X) <=> Triple(u, P, Q, X) \/ (Pair(u, P, Q) /\ f \in X)
      /\ \A P, Q, X, Y : Quad(a2, P, Q, X, Y)
                          <=> Quad(u, P, Q, X, Y) \/ (Triple(u, P, Q, X) /\ f \in Y)
  BY AddOne
<1> HIDE DEF a, a2
<1>3. /\ b2 \in Seq(Letter)
      /\ \A P : Some(b2, P) <=> Some(a2, P) \/ f \in P
      /\ \A P, Q : Pair(b2, P, Q) <=> Pair(a2, P, Q) \/ (Some(a2, P) /\ f \in Q)
      /\ \A P, Q, X : Triple(b2, P, Q, X) <=> Triple(a2, P, Q, X) \/ (Pair(a2, P, Q) /\ f \in X)
      /\ \A P, Q, X, Y : Quad(b2, P, Q, X, Y)
                          <=> Quad(a2, P, Q, X, Y) \/ (Triple(a2, P, Q, X) /\ f \in Y)
  BY <1>2, AddOne
<1> HIDE DEF b2
<1>5. Sound(w, R, TRUE, held, turn, clear, asked) BY DEF a
<1>6. /\ \A P : Some(w, P) <=> Some(a, P) \/ Some(d, P)
      /\ \A P, Q : Pair(w, P, Q) <=> Pair(a, P, Q) \/ Pair(d, P, Q) \/ (Some(a, P) /\ Some(d, Q))
      /\ \A P, Q, X : Triple(a, P, Q, X) => Triple(w, P, Q, X)
  BY <1>2, Cat
<1>7. /\ \A P : Some(z, P) <=> Some(b2, P) \/ Some(d, P)
      /\ \A P, Q : Pair(z, P, Q) <=> Pair(b2, P, Q) \/ Pair(d, P, Q) \/ (Some(b2, P) /\ Some(d, Q))
      /\ \A P, Q, X : Triple(z, P, Q, X)
            <=> \/ Triple(b2, P, Q, X) \/ Triple(d, P, Q, X)
                \/ (Pair(b2, P, Q) /\ Some(d, X)) \/ (Some(b2, P) /\ Pair(d, Q, X))
      /\ \A P, Q, X, Y : Quad(z, P, Q, X, Y)
            <=> \/ Quad(b2, P, Q, X, Y) \/ Quad(d, P, Q, X, Y) \/ (Triple(b2, P, Q, X) /\ Some(d, Y))
                \/ (Pair(b2, P, Q) /\ Pair(d, X, Y)) \/ (Some(b2, P) /\ Triple(d, Q, X, Y))
  BY <1>3, Cat
<1> HIDE DEF w, z
<1>8. Tidy(w, R) /\ R = {} /\ ~clear /\ turn \notin {"put", "get"}
      /\ (held => Idle(w, R)) /\ Spare(w, R, turn) /\ (Some(w, Ticks) => asked)
  <2>1. Some(w, Stops) /\ Some(w, E) BY <1>1, <1>2, <1>6
  <2>2. QED BY <1>5, <2>1 DEF Sound, Owned, Spare
<1>9. /\ ~Some(d, E)
      /\ ~Some(d, Stops) /\ ~Some(d, Frees)
      /\ ~Pair(u, Frees, E) /\ ~Pair(u, E, Rites) /\ ~Some(d, B)
  <2>1. ~Some(d, E) /\ ~Some(d, B) BY <1>1, <1>2, <1>6, <1>8 DEF Tidy
  <2>2. ~Pair(u, Frees, E) BY <1>1, <1>2, <1>6, <1>8 DEF Tidy
  <2>3. ~Pair(u, E, Rites) BY <1>1, <1>2, <1>6, <1>8 DEF Tidy
  <2>4. QED BY <2>1, <2>2, <2>3, Sides, Classes, Wider
<1>10. ~Some(u, Stops) /\ ~Pair(u, Frees, E) /\ ~Pair(u, E, Rites)
  <2>1. ~Some(u, Stops) BY Sides
  <2>2. QED BY <2>1, <1>9
<1>11. Tidy(z, R)
  <2> HIDE DEF E, B
  <2>0. /\ ~Pair(u, E, B) /\ ~Pair(u, B, Rites) /\ ~Pair(u, B, B) /\ ~Pair(d, B, Rites)
        /\ ~(Some(u, B) /\ Some(d, Rites))
        /\ ~Pair(u, Ticks, Ticks) /\ ~Some(u, Aborts)
    BY <1>2, <1>6, <1>8 DEF Tidy, E, B
  <2>1. /\ ~Pair(d, E, B) /\ ~Pair(d, B, B) /\ ~Pair(d, E, Rites) /\ ~Pair(u, Stops, E)
        /\ ~Pair(d, Rites, E) /\ ~Pair(d, E, E) /\ ~Pair(d, Stops, E) /\ ~Pair(d, E, Stops)
    BY <1>9, <1>10, Shorter
  <2>2. /\ ~Pair(z, E, B) /\ ~Pair(z, B, Rites) /\ ~Pair(z, B, B)
    BY <1>1, <1>2, <1>3, <1>7, <1>9, <2>0, <2>1
  <2>3. ~Triple(z, E, Rites, E)
    <3>1. ~Pair(a2, E, Rites) BY <1>1, <1>2, <1>10
    <3>2. ~Pair(b2, E, Rites) BY <1>1, <1>3, <3>1
    <3>3. ~Triple(b2, E, Rites, E) /\ ~Triple(d, E, Rites, E) BY <2>1, <3>2, Shorter
    <3>4. QED BY <1>7, <2>1, <3>2, <3>3
  <2>4. ~Quad(z, Frees, E, E, E)
    <3>1. ~Triple(u, Frees, E, E) BY <1>10, Shorter
    <3>2. ~Quad(u, Frees, E, E, E) BY <3>1, Shorter
    <3>3. ~Triple(a2, Frees, E, E) BY <1>2, <1>10, <3>1
    <3>4. ~Quad(a2, Frees, E, E, E) BY <1>2, <3>1, <3>2
    <3>5. ~Quad(b2, Frees, E, E, E) BY <1>3, <3>3, <3>4
    <3>6. ~Triple(d, E, E, E) BY <2>1, Shorter
    <3>7. ~Quad(d, Frees, E, E, E) BY <3>6, Shorter
    <3>8. QED BY <1>7, <1>9, <2>1, <3>5, <3>6, <3>7
  <2>5. ~Pair(z, Stops, E) BY <1>1, <1>2, <1>3, <1>7, <1>9, <1>10, <2>1
  <2>6. ~Triple(z, Frees, E, Stops)
    <3>1. ~Some(z, Stops) BY <1>1, <1>2, <1>3, <1>7, <1>9, <1>10
    <3>2. ~Pair(z, E, Stops) BY <3>1, Shorter
    <3>3. QED BY <3>2, Shorter
  <2>7. ~Pair(z, Ticks, Ticks) BY <1>1, <1>2, <1>3, <1>6, <1>7, <1>8 DEF Tidy
  <2>8. ~Some(z, Aborts) BY <1>1, <1>2, <1>3, <1>6, <1>7, <1>8 DEF Tidy
  <2>9. QED BY <2>2, <2>3, <2>4, <2>5, <2>6, <2>7, <2>8 DEF Tidy, E, B
<1>12. held => Idle(z, R)
  <2> SUFFICES ASSUME held PROVE Idle(z, R) OBVIOUS
  <2>1. ~Some(u, B) /\ ~Pair(w, Rites, E) BY <1>2, <1>6, <1>8 DEF Idle
  <2>2. ~Some(u, Rites) /\ ~Pair(d, Rites, E)
    BY <1>1, <1>2, <1>6, <2>1
  <2>3. ~Pair(u, Rites, E) BY <2>2, Shorter
  <2>4. ~Some(z, B) BY <1>1, <1>2, <1>3, <1>7, <1>9, <2>1
  <2>5. ~Pair(z, Rites, E) BY <1>1, <1>2, <1>3, <1>7, <1>9, <2>2, <2>3
  <2>6. QED BY <2>4, <2>5 DEF Idle
<1>13. Spare(z, R, turn)
  <2> SUFFICES ASSUME turn = "env" PROVE ~Triple(z, E, E, E) /\ ~Pair(z, E, Stops)
    BY <1>8 DEF Spare
  <2>1. ~Pair(w, E, Stops) BY <1>8 DEF Spare
  <2>2. ~Some(u, E) BY <1>1, <1>2, <1>6, <2>1
  <2>3. ~Pair(u, E, E) /\ ~Pair(d, E, E) /\ ~Pair(u, E, Stops) /\ ~Pair(d, E, Stops)
    BY <1>9, <2>2, Shorter
  <2>4. ~Triple(z, E, E, E)
    <3>1. ~Triple(u, E, E, E) /\ ~Triple(d, E, E, E) BY <2>3, Shorter
    <3>2. ~Pair(a2, E, E) BY <1>2, <2>2, <2>3
    <3>3. ~Triple(a2, E, E, E) BY <1>2, <2>3, <3>1
    <3>4. ~Triple(b2, E, E, E) BY <1>3, <3>2, <3>3
    <3>5. QED BY <1>7, <1>9, <2>3, <3>1, <3>4
  <2>5. ~Pair(z, E, Stops) BY <1>1, <1>2, <1>3, <1>7, <1>9, <2>2, <2>3
  <2>6. QED BY <2>4, <2>5
<1>14. Owned(z, R) BY <1>8 DEF Owned
<1>15. Some(z, Ticks) => asked BY <1>1, <1>2, <1>3, <1>6, <1>7, <1>8
<1>16. Sound(z, R, TRUE, held, turn, clear, asked)
  BY <1>8, <1>11, <1>12, <1>13, <1>14, <1>15 DEF Sound
<1>17. QED BY <1>16 DEF z, b2, a2

-----------------------------------------------------------------------------
(* Steps of the coordinator and the dispatcher, seen on the road.           *)
\* Less is asked of the road.
LEMMA Looser ==
  ASSUME NEW w, NEW R, NEW live, NEW held, NEW turn, NEW clear, NEW asked,
         Sound(w, R, live, held, turn, clear, asked)
  PROVE  /\ \A l, h, c, a : (l => live) /\ (h => held) /\ (c => clear) /\ (asked => a)
               => Sound(w, R, l, h, turn, c, a) /\ Sound(w, R, l, h, "none", c, a)
         /\ ~Some(w, Ticks) => Sound(w, R, live, held, turn, clear, FALSE)
BY DEF Sound, Spare

\* A road without reports, starts and running jobs.
LEMMA Blank ==
  ASSUME NEW w \in Seq(Letter), NEW R, NEW live, NEW held, NEW turn, NEW clear, NEW asked,
         \A i \in DOMAIN w : w[i].kind \in {"register", "OK", "setupEnv"}, live => R = {}
  PROVE  Sound(w, R, live, held, turn, clear, asked)
<1>1. \A i \in DOMAIN w : w[i] \in Letter OBVIOUS
<1>2. \A i \in DOMAIN w : /\ w[i] \notin Jobs(R) /\ w[i] \notin Ends(R) /\ w[i] \notin Frees
                          /\ w[i] \notin Stops /\ w[i] \notin Ticks /\ w[i] \notin Aborts
  <2> TAKE i \in DOMAIN w
  <2>1. w[i] \notin Jobs(R) /\ w[i] \notin Ends(R) BY <1>1, Classes
  <2>2. w[i] \notin Frees /\ w[i] \notin Stops BY <1>1, Classes
  <2>3. w[i] \notin Ticks /\ w[i] \notin Aborts BY <1>1, Classes
  <2>4. QED BY <2>1, <2>2, <2>3
<1>3. /\ ~Some(w, Jobs(R)) /\ ~Some(w, Ends(R)) /\ ~Some(w, Frees) /\ ~Some(w, Stops)
      /\ ~Some(w, Ticks) /\ ~Some(w, Aborts)
  BY <1>2 DEF Some
<1>4. /\ \A P : ~Pair(w, Ends(R), P) /\ ~Pair(w, P, Ends(R)) /\ ~Pair(w, Jobs(R), P)
             /\ ~Pair(w, Stops, P) /\ ~Pair(w, Ticks, P) /\ ~Pair(w, Frees, P)
  BY <1>3, Shorter
<1>5. /\ \A P, Q : ~Triple(w, Ends(R), P, Q) /\ ~Triple(w, Frees, P, Q)
  BY <1>4, Shorter
<1>6. \A P, Q, X : ~Quad(w, Frees, P, Q, X) BY <1>5, Shorter
<1>7. Tidy(w, R) BY <1>3, <1>4, <1>5, <1>6 DEF Tidy
<1>8. QED BY <1>3, <1>4, <1>5, <1>7 DEF Sound, Idle, Spare, Owned

\* A job stops running for the dispatcher: what its report says is no news.
LEMMA Reclass ==
  ASSUME NEW w \in Seq(Letter), NEW R, NEW j, NEW live, NEW held, NEW turn, NEW clear, NEW asked,
         turn # "none" => held, clear => held,
         Sound(w, R, live, held, turn, clear, asked)
  PROVE  Sound(w, R \ {j}, live, held, turn, clear, asked)
<1> DEFINE S == R \ {j}
           E == Ends(R)
           B == Jobs(R)
           F == Ends(S)
           C == Jobs(S)
<1>1. CASE j \notin R
  <2>1. S = R BY <1>1
  <2>2. QED BY <2>1
<1>2. CASE j \in R
  <2>1. \A i \in DOMAIN w : /\ w[i] \in F => w[i] \in E \/ w[i] \in B
                            /\ w[i] \in C => w[i] \in B
                            /\ w[i] \in Stops => w[i] \in E
                            /\ w[i] \in Frees => w[i] \in E
    <3> TAKE i \in DOMAIN w
    <3>1. w[i] \in Letter OBVIOUS
    <3>2. w[i] \in F => w[i] \in E \/ w[i] \in B BY <3>1, Classes
    <3>3. w[i] \in C => w[i] \in B BY <3>1, Classes
    <3>4. w[i] \in Stops => w[i] \in E BY <3>1, Classes
    <3>5. w[i] \in Frees => w[i] \in E BY <3>1, Classes
    <3>6. QED BY <3>2, <3>3, <3>4, <3>5
  <2> HIDE DEF E, B, F, C
  <2>2. Tidy(w, R) /\ DOMAIN w \subseteq Int BY DEF Sound
  <2>3. /\ ~Pair(w, E, B) /\ ~Pair(w, B, Rites) /\ ~Pair(w, B, B)
        /\ ~Triple(w, E, Rites, E) /\ ~Quad(w, Frees, E, E, E)
        /\ ~Pair(w, Stops, E) /\ ~Triple(w, Frees, E, Stops)
    BY <2>2 DEF Tidy, E, B
  <2>4. ~Pair(w, F, C) /\ ~Pair(w, C, Rites) /\ ~Pair(w, C, C)
    BY <2>1, <2>3 DEF Pair
  <2>5. ~Pair(w, Stops, F)
    BY <2>1, <2>3 DEF Pair
  <2>6. ~Triple(w, F, Rites, F)
    <3> SUFFICES ASSUME NEW a \in DOMAIN w, NEW b \in DOMAIN w, NEW c \in DOMAIN w,
                        a < b, b < c, w[a] \in F, w[b] \in Rites, w[c] \in F
                 PROVE  FALSE
      BY DEF Triple
    <3>1. w[a] \in E BY <2>1, <2>3 DEF Pair
    <3>2. a < c BY <2>2
    <3>3. w[c] \in E BY <2>1, <2>3, <3>1, <3>2 DEF Pair
    <3>4. QED BY <2>3, <3>1, <3>3 DEF Triple
  <2>7. \A a, b \in DOMAIN w : a < b /\ w[a] \in Frees /\ w[b] \in F => w[b] \in E
    BY <2>1, <2>3 DEF Pair
  <2>8. ~Triple(w, Frees, F, Stops) BY <2>3, <2>7 DEF Triple
  <2>9. ~Quad(w, Frees, F, F, F)
    <3> SUFFICES ASSUME NEW a \in DOMAIN w, NEW b \in DOMAIN w, NEW c \in DOMAIN w,
                        NEW d \in DOMAIN w, a < b, b < c, c < d,
                        w[a] \in Frees, w[b] \in F, w[c] \in F, w[d] \in F
                 PROVE  FALSE
      BY DEF Quad
    <3>1. a < c /\ a < d BY <2>2
    <3>2. w[b] \in E /\ w[c] \in E /\ w[d] \in E BY <2>7, <3>1
    <3>3. QED BY <2>3, <3>2 DEF Quad
  <2>10. Tidy(w, S) BY <2>2, <2>4, <2>5, <2>6, <2>8, <2>9 DEF Tidy, F, C
  <2>11. ASSUME held PROVE /\ Idle(w, S)
                           /\ \A i \in DOMAIN w : w[i] \in F => w[i] \in E
    <3>1. ~Some(w, B) /\ ~Pair(w, Rites, E) BY <2>11 DEF Sound, Idle, E, B
    <3>2. \A i \in DOMAIN w : w[i] \in F => w[i] \in E BY <2>1, <3>1 DEF Some
    <3>3. ~Some(w, C) BY <2>1, <3>1 DEF Some
    <3>4. ~Pair(w, Rites, F) BY <3>1, <3>2 DEF Pair
    <3>5. QED BY <3>2, <3>3, <3>4 DEF Idle, F, C
  <2>12. Spare(w, S, turn)
    <3>1. CASE turn = "none" BY <3>1 DEF Spare
    <3>2. CASE turn # "none"
      <4>1. \A i \in DOMAIN w : w[i] \in F => w[i] \in E BY <3>2, <2>11
      <4>2. /\ Some(w, F) => Some(w, E)
            /\ Pair(w, F, F) => Pair(w, E, E)
            /\ Pair(w, F, Stops) => Pair(w, E, Stops)
            /\ Triple(w, F, F, F) => Triple(w, E, E, E)
        BY <4>1 DEF Some, Pair, Triple
      <4>3. Spare(w, R, turn) BY DEF Sound
      <4>4. QED BY <4>2, <4>3 DEF Spare, E, F
    <3>3. QED BY <3>1, <3>2
  <2>13. clear => ~Some(w, F)
    <3> SUFFICES ASSUME clear PROVE ~Some(w, F) OBVIOUS
    <3>1. ~Some(w, E) BY DEF Sound, E
    <3>2. QED BY <2>11, <3>1 DEF Some
  <2>14. live => Owned(w, S)
    <3> SUFFICES ASSUME live PROVE Owned(w, S) OBVIOUS
    <3>1. Owned(w, R) BY DEF Sound
    <3>2. S = {} BY <1>2, <2>2, <3>1, OneRuns
    <3>3. QED BY <3>2 DEF Owned
  <2>15. Some(w, Ticks) => asked BY DEF Sound
  <2>16. QED BY <2>10, <2>11, <2>12, <2>13, <2>14, <2>15 DEF Sound, F, S
<1>3. QED BY <1>1, <1>2

\* JOB_STOP is written to a live host for its running job.
LEMMA StopWritten ==
  ASSUME NEW w \in Seq(Letter), NEW R, NEW j \in R, NEW held, NEW turn, NEW clear, NEW asked,
         NEW s \in Letter, s.kind = "JOB_STOP",
         turn # "none" => held, clear => held,
         Sound(w, R, TRUE, held, turn, clear, asked)
  PROVE  ~held /\ Sound(w \o <<s>>, R \ {j}, TRUE, held, turn, clear, asked)
<1> DEFINE z == w \o <<s>>
           S == R \ {j}
           E == Ends(R)
           B == Jobs(R)
           F == Ends(S)
           C == Jobs(S)
<1>1. Tidy(w, R) /\ Owned(w, R) /\ (Some(w, Ticks) => asked) BY DEF Sound
<1>2. S = {} /\ ~held BY <1>1, OneRuns DEF Sound
<1>3. Sound(w, S, TRUE, held, turn, clear, asked) BY Reclass
<1>4. /\ s \in Stops /\ s \in Frees /\ s \in F /\ s \notin C
      /\ s \notin Rites /\ s \notin Ticks /\ s \notin Aborts
  <2>1. s \in Stops /\ s \in Frees /\ s \in F BY Classes
  <2>2. s \notin C /\ s \notin Rites /\ s \notin Ticks /\ s \notin Aborts BY Classes
  <2>3. QED BY <2>1, <2>2
<1>5. /\ ~Some(w, Stops) /\ ~Pair(w, E, E) /\ Some(w, B)
  <2>1. Some(w, Of(j)) BY <1>1 DEF Owned
  <2>2. Some(w, B) BY <2>1, Classes, Wider
  <2>3. QED BY <1>1, <2>2 DEF Owned
<1>6. \A i \in DOMAIN w : /\ w[i] \in F => w[i] \in E \/ w[i] \in B
                          /\ w[i] \in Frees => w[i] \in E
  <2> TAKE i \in DOMAIN w
  <2>1. w[i] \in Letter OBVIOUS
  <2>2. w[i] \in F => w[i] \in E \/ w[i] \in B BY <2>1, Classes
  <2>3. w[i] \in Frees => w[i] \in E BY <2>1, Classes
  <2>4. QED BY <2>2, <2>3
<1>7. /\ ~Pair(w, E, B) /\ ~Pair(w, B, Rites) BY <1>1 DEF Tidy
<1>8. ~Pair(w, E, Rites) BY <1>5, <1>7, Between
<1> HIDE DEF E, B, F, C, S
<1>9. ~Pair(w, F, Rites) BY <1>6, <1>7, <1>8 DEF Pair
<1>10. ~Pair(w, Frees, F) BY <1>5, <1>6, <1>7 DEF Pair
<1>11. ~Triple(w, Frees, F, F) BY <1>10, Shorter
<1>12. /\ z \in Seq(Letter)
       /\ \A P : Some(z, P) <=> Some(w, P) \/ s \in P
       /\ \A P, Q : Pair(z, P, Q) <=> Pair(w, P, Q) \/ (Some(w, P) /\ s \in Q)
       /\ \A P, Q, X : Triple(z, P, Q, X) <=> Triple(w, P, Q, X) \/ (Pair(w, P, Q) /\ s \in X)
       /\ \A P, Q, X, Y : Quad(z, P, Q, X, Y)
                            <=> Quad(w, P, Q, X, Y) \/ (Triple(w, P, Q, X) /\ s \in Y)
  BY AddOne
<1> HIDE DEF z
<1>13. Tidy(w, S) BY <1>3 DEF Sound
<1>14. /\ ~Pair(z, F, C) /\ ~Pair(z, C, Rites) /\ ~Pair(z, C, C) /\ ~Pair(z, Stops, F)
       /\ ~Pair(z, Ticks, Ticks) /\ ~Some(z, Aborts)
  BY <1>4, <1>5, <1>12, <1>13 DEF Tidy, F, C
<1>15. ~Triple(z, F, Rites, F) BY <1>9, <1>12, <1>13 DEF Tidy, F, C
<1>16. ~Quad(z, Frees, F, F, F) BY <1>11, <1>12, <1>13 DEF Tidy, F, C
<1>17. ~Triple(z, Frees, F, Stops) BY <1>10, <1>12, <1>13 DEF Tidy, F, C
<1>18. Tidy(z, S) BY <1>14, <1>15, <1>16, <1>17 DEF Tidy, F, C
<1>19. Owned(z, S) BY <1>2 DEF Owned
<1>20. Some(z, Ticks) => asked BY <1>1, <1>4, <1>12
<1>21. Sound(z, S, TRUE, held, turn, clear, asked) BY <1>2, <1>18, <1>19, <1>20 DEF Sound, Spare
<1>22. QED BY <1>2, <1>21 DEF z, S

\* The head of the road is read, and named no running job.
LEMMA Dropped ==
  ASSUME NEW v \in Seq(Letter), NEW x \in Letter,
         NEW R, NEW live, NEW held, NEW turn, NEW clear, NEW asked, x \notin Jobs(R),
         Sound(<<x>> \o v, R, live, held, turn, clear, asked)
  PROVE  /\ Sound(v, R, live, held, turn, clear, asked)
         /\ x \in Ticks => Sound(v, R, live, held, turn, clear, FALSE)
<1> DEFINE e == <<>>
<1>1. e \in Seq(Letter) /\ e \o <<x>> = <<x>> /\ e \o v = v OBVIOUS
<1> HIDE DEF e
<1>2. Sound((e \o <<x>>) \o v, R, live, held, turn, clear, asked) BY <1>1
<1>3. /\ Sound(e \o v, R, live, held, turn, clear, asked)
      /\ x \in Ticks => ~Some(e \o v, Ticks)
  BY <1>1, <1>2, Removed
<1>4. /\ Sound(v, R, live, held, turn, clear, asked)
      /\ x \in Ticks => ~Some(v, Ticks)
  BY <1>1, <1>3
<1>5. ~Some(v, Ticks) => Sound(v, R, live, held, turn, clear, FALSE) BY <1>4, Looser
<1>6. QED BY <1>4, <1>5

\* A host reports itself free: it will report little more.
LEMMA FreeRead ==
  ASSUME NEW v \in Seq(Letter), NEW x \in Letter, x.kind = "FREE",
         NEW R, NEW live, NEW held, NEW turn, NEW clear, NEW asked,
         Sound(<<x>> \o v, R, live, held, turn, clear, asked)
  PROVE  ~clear /\ Sound(v, R, live, TRUE, "env", FALSE, asked)
<1> DEFINE w == <<x>> \o v
           E == Ends(R)
           B == Jobs(R)
<1>1. x \in Frees /\ x \in E /\ x \notin B BY Classes
<1>2. /\ \A P : Some(w, P) <=> x \in P \/ Some(v, P)
      /\ \A P, Q : Pair(w, P, Q) <=> Pair(v, P, Q) \/ (x \in P /\ Some(v, Q))
      /\ \A P, Q, X : Triple(w, P, Q, X) <=> Triple(v, P, Q, X) \/ (x \in P /\ Pair(v, Q, X))
      /\ \A P, Q, X, Y : Quad(w, P, Q, X, Y)
                           <=> Quad(v, P, Q, X, Y) \/ (x \in P /\ Triple(v, Q, X, Y))
  BY PushOne
<1>3. Sound(w, R, live, held, turn, clear, asked) OBVIOUS
<1>4. Sound(v, R, live, held, turn, clear, asked) BY <1>1, Dropped
<1> HIDE DEF w
<1>5. Tidy(w, R) /\ (clear => ~Some(w, E)) BY <1>3 DEF Sound
<1>6. ~clear BY <1>1, <1>2, <1>5
<1>7. Idle(v, R) BY <1>1, <1>2, <1>5 DEF Tidy, Idle
<1>8. ~Triple(v, E, E, E) /\ ~Pair(v, E, Stops) BY <1>1, <1>2, <1>5 DEF Tidy
<1>9. Spare(v, R, "env") BY <1>8 DEF Spare
<1>10. QED BY <1>4, <1>6, <1>7, <1>9 DEF Sound

\* A request is written to a host that is held, or its answer to the dispatcher.
LEMMA RiteWritten ==
  ASSUME NEW v \in Seq(Letter), NEW a \in Letter, a \in Rites,
         NEW R, NEW live, NEW turn, NEW clear, NEW asked,
         Sound(v, R, live, TRUE, turn, clear, asked)
  PROVE  Sound(v \o <<a>>, R, live, TRUE, turn, clear, asked)
<1> DEFINE z == v \o <<a>>
           E == Ends(R)
           B == Jobs(R)
<1>1. /\ a \notin E /\ a \notin B /\ a \notin Stops /\ a \notin Ticks /\ a \notin Aborts
  <2>1. a \notin E /\ a \notin B BY Classes
  <2>2. a \notin Stops /\ a \notin Ticks /\ a \notin Aborts BY Classes
  <2>3. QED BY <2>1, <2>2
<1>2. /\ \A P : Some(z, P) <=> Some(v, P) \/ a \in P
      /\ \A P, Q : Pair(z, P, Q) <=> Pair(v, P, Q) \/ (Some(v, P) /\ a \in Q)
      /\ \A P, Q, X : Triple(z, P, Q, X) <=> Triple(v, P, Q, X) \/ (Pair(v, P, Q) /\ a \in X)
      /\ \A P, Q, X, Y : Quad(z, P, Q, X, Y)
                           <=> Quad(v, P, Q, X, Y) \/ (Triple(v, P, Q, X) /\ a \in Y)
  BY AddOne
<1> HIDE DEF z
<1>3. Tidy(v, R) /\ Idle(v, R) BY DEF Sound
<1>4. ~Some(v, B) BY <1>3 DEF Idle
<1>5. Tidy(z, R) BY <1>1, <1>2, <1>3, <1>4 DEF Tidy
<1>6. Idle(z, R) BY <1>1, <1>2, <1>3, <1>4 DEF Idle
<1>7. Spare(z, R, turn)
  <2>1. Spare(v, R, turn) BY DEF Sound
  <2>2. QED BY <1>1, <1>2, <2>1 DEF Spare
<1>8. live => Owned(z, R)
  <2>1. live => Owned(v, R) BY DEF Sound
  <2>2. QED BY <1>1, <1>2, <2>1 DEF Owned
<1>9. (clear => ~Some(z, E)) /\ (Some(z, Ticks) => asked)
  <2>1. (clear => ~Some(v, E)) /\ (Some(v, Ticks) => asked) BY DEF Sound
  <2>2. QED BY <1>1, <1>2, <2>1
<1>10. Sound(z, R, live, TRUE, turn, clear, asked)
  BY <1>5, <1>6, <1>7, <1>8, <1>9 DEF Sound
<1>11. QED BY <1>10 DEF z

\* dispatchJob takes a line for the answer to its request: either it is one,
\* or there is one report less to come.
LEMMA AnswerRead ==
  ASSUME NEW v \in Seq(Letter), NEW x \in Letter, x.kind \in UpKinds \ {"register"},
         NEW R, NEW live, NEW turn, NEW clear,
         Sound(<<x>> \o v, R, live, TRUE, turn, clear, FALSE)
  PROVE  /\ Sound(v, R, live, TRUE, "none", clear, FALSE)
         /\ turn = "env" => Sound(v, R, live, TRUE, "put", clear, FALSE)
         /\ turn = "put" => Sound(v, R, live, TRUE, "get", clear, FALSE)
         /\ turn = "get" => Sound(v, R, live, TRUE, "none", TRUE, FALSE)
<1> DEFINE w == <<x>> \o v
           E == Ends(R)
           B == Jobs(R)
<1>2. /\ \A P : Some(w, P) <=> x \in P \/ Some(v, P)
      /\ \A P, Q : Pair(w, P, Q) <=> Pair(v, P, Q) \/ (x \in P /\ Some(v, Q))
      /\ \A P, Q, X : Triple(w, P, Q, X) <=> Triple(v, P, Q, X) \/ (x \in P /\ Pair(v, Q, X))
  BY PushOne
<1>3. Tidy(w, R) /\ Idle(w, R) /\ ~Some(w, Ticks) /\ Spare(w, R, turn) BY DEF Sound
<1>4. x \notin B /\ x \notin Ticks /\ (x \in Rites \/ x \in E)
  <2>1. x \notin B /\ x \notin Ticks BY <1>2, <1>3 DEF Idle
  <2>2. x.kind # "tick" BY <2>1, Classes
  <2>3. x.kind = "jobFinished" => x.job \notin R BY <2>1, Classes
  <2>4. x.kind \in {"FREE", "jobFinished", "EnvOK", "please", "File get"} BY <2>2 DEF UpKinds
  <2>5. QED BY <2>1, <2>3, <2>4, Classes
<1>5. Sound(v, R, live, TRUE, turn, clear, FALSE) BY <1>4, Dropped
<1> HIDE DEF w
<1>6. x \in Rites => ~Some(v, E) BY <1>2, <1>3 DEF Idle
<1>7. ASSUME turn = "env" PROVE Spare(v, R, "put")
  <2>1. ~Triple(w, E, E, E) /\ ~Pair(w, E, Stops) BY <1>3, <1>7 DEF Spare
  <2>2. CASE x \in E
    <3>1. ~Pair(v, E, E) /\ ~Some(v, Stops) BY <1>2, <2>1, <2>2
    <3>2. QED BY <3>1 DEF Spare
  <2>3. CASE x \in Rites
    <3>1. ~Some(v, E) BY <1>6, <2>3
    <3>2. ~Pair(v, E, E) /\ ~Some(v, Stops)
      <4>1. Stops \subseteq E BY Classes
      <4>2. QED BY <3>1, <4>1, Wider, Shorter
    <3>3. QED BY <3>2 DEF Spare
  <2>4. QED BY <1>4, <2>2, <2>3
<1>8. ASSUME turn = "put" PROVE Spare(v, R, "get")
  <2>1. ~Pair(w, E, E) BY <1>3, <1>8 DEF Spare
  <2>2. ~Some(v, E) BY <1>2, <1>4, <1>6, <2>1
  <2>3. QED BY <2>2 DEF Spare
<1>9. ASSUME turn = "get" PROVE ~Some(v, E)
  BY <1>3, <1>9, <1>2 DEF Spare
<1>10. Sound(v, R, live, TRUE, "none", clear, FALSE) BY <1>5, Looser
<1>11. QED BY <1>5, <1>7, <1>8, <1>9, <1>10 DEF Sound

\* The last answer is read, the job is on its way to a host that has nothing
\* to report.
LEMMA StartWritten ==
  ASSUME NEW v \in Seq(Letter), NEW x \in Letter, x \in Rites,
         NEW b \in Letter, b.kind = "BG_start", NEW j, b.job = j,
         NEW R, NEW live, NEW turn, NEW clear, NEW asked,
         Sound(<<x>> \o v, R, live, TRUE, turn, clear, asked)
  PROVE  /\ Sound(v, R \cup {j}, FALSE, FALSE, "none", FALSE, asked)
         /\ live => Sound(v \o <<b>>, R \cup {j}, TRUE, FALSE, "none", FALSE, asked)
<1> DEFINE w == <<x>> \o v
           z == v \o <<b>>
           S == R \cup {j}
           E == Ends(R)
           B == Jobs(R)
           F == Ends(S)
           C == Jobs(S)
<1>1. x \notin B /\ x \in Rites BY Classes
<1>2. /\ \A P : Some(w, P) <=> x \in P \/ Some(v, P)
      /\ \A P, Q : Pair(w, P, Q) <=> Pair(v, P, Q) \/ (x \in P /\ Some(v, Q))
  BY PushOne
<1>3. Sound(v, R, live, TRUE, turn, clear, asked) BY <1>1, Dropped
<1>4. Idle(w, R) BY DEF Sound
<1> HIDE DEF w
<1>5. ~Some(v, E) /\ ~Some(v, B) BY <1>1, <1>2, <1>4 DEF Idle
<1>6. \A i \in DOMAIN v : v[i] \notin F /\ v[i] \notin C /\ v[i] \notin Frees /\ v[i] \notin Stops
  <2> TAKE i \in DOMAIN v
  <2>1. v[i] \in Letter /\ v[i] \notin E /\ v[i] \notin B BY <1>5 DEF Some
  <2>a. v[i].kind \notin {"FREE", "JOB_STOP", "jobFinished", "session", "BG_start"}
    BY <2>1, Classes
  <2>2. v[i] \notin F BY <2>1, <2>a, Classes
  <2>3. v[i] \notin C BY <2>1, <2>a, Classes
  <2>4. v[i] \notin Frees /\ v[i] \notin Stops BY <2>1, <2>a, Classes
  <2>5. QED BY <2>2, <2>3, <2>4
<1>7. ~Some(v, F) /\ ~Some(v, C) /\ ~Some(v, Frees) /\ ~Some(v, Stops) BY <1>6 DEF Some
<1>8. /\ \A P : ~Pair(v, F, P) /\ ~Pair(v, P, F) /\ ~Pair(v, C, P) /\ ~Pair(v, Stops, P)
             /\ ~Pair(v, Frees, P)
  BY <1>7, Lacking
<1>9. \A P, Q : ~Triple(v, F, P, Q) /\ ~Triple(v, Frees, P, Q) BY <1>7, Lacking
<1>10. \A P, Q, X : ~Quad(v, Frees, P, Q, X) BY <1>7, Lacking
<1>11. Tidy(v, R) /\ (Some(v, Ticks) => asked) /\ (live => Owned(v, R)) BY <1>3 DEF Sound
<1>12. ~Pair(v, Ticks, Ticks) /\ ~Some(v, Aborts) BY <1>11 DEF Tidy
<1>13. Tidy(v, S) BY <1>7, <1>8, <1>9, <1>10, <1>12 DEF Tidy
<1>14. Sound(v, S, FALSE, FALSE, "none", FALSE, asked) BY <1>11, <1>13 DEF Sound, Spare
<1>15. ASSUME live PROVE Sound(z, S, TRUE, FALSE, "none", FALSE, asked)
  <2>1. b \notin F /\ b \in C /\ b \notin Rites /\ b \notin Stops /\ b \notin Ticks /\ b \notin Aborts
    <3>1. b \notin F /\ b \in C /\ b \notin Rites BY Classes
    <3>2. b \notin Stops /\ b \notin Ticks /\ b \notin Aborts BY Classes
    <3>3. QED BY <3>1, <3>2
  <2>2. R = {}
    <3>1. Idle(v, R) BY <1>3 DEF Sound
    <3>2. QED BY <1>11, <1>15, <3>1, OneRuns
  <2>3. b \in Of(j) /\ S = {j} BY <2>2, Classes
  <2>4. /\ \A P : Some(z, P) <=> Some(v, P) \/ b \in P
        /\ \A P, Q : Pair(z, P, Q) <=> Pair(v, P, Q) \/ (Some(v, P) /\ b \in Q)
        /\ \A P, Q, X : Triple(z, P, Q, X) <=> Triple(v, P, Q, X) \/ (Pair(v, P, Q) /\ b \in X)
        /\ \A P, Q, X, Y : Quad(z, P, Q, X, Y)
                             <=> Quad(v, P, Q, X, Y) \/ (Triple(v, P, Q, X) /\ b \in Y)
    BY AddOne
  <2> HIDE DEF z, F, C, S
  <2>5. /\ ~Pair(z, F, C) /\ ~Pair(z, C, Rites) /\ ~Pair(z, C, C) /\ ~Pair(z, Stops, F)
        /\ ~Pair(z, Ticks, Ticks) /\ ~Some(z, Aborts) /\ ~Pair(z, F, F) /\ ~Some(z, Stops)
    BY <1>7, <1>8, <1>12, <2>1, <2>4
  <2>6. /\ ~Triple(z, F, Rites, F) /\ ~Triple(z, Frees, F, Stops) /\ ~Quad(z, Frees, F, F, F)
    BY <1>8, <1>9, <1>10, <2>1, <2>4
  <2>7. Tidy(z, S) BY <2>5, <2>6 DEF Tidy, F, C
  <2>8. Some(z, Of(j)) BY <2>3, <2>4
  <2>9. Owned(z, S) BY <2>3, <2>5, <2>8 DEF Owned, F
  <2>10. Some(z, Ticks) => asked BY <1>11, <2>1, <2>4
  <2>11. QED BY <2>7, <2>9, <2>10 DEF Sound, Spare
<1>16. QED BY <1>14, <1>15

-----------------------------------------------------------------------------
(* The invariant.  Neat(h): the lines under way are of their kinds, what a   *)
(* line jobFinished names is over, the coordinator runs the engine of its   *)
(* session only, a host that has not registered is untouched, a file        *)
(* follows its announcement, and the road is sound.  All of it holds as     *)
(* long as JobsKept does.                                                   *)
UpLine == {l \in Lines : l.kind \in UpKinds /\ (l.kind = "jobFinished" => l.job \in Job)}
DownLine == {l \in Order : l.kind \in DownKinds}

Mark(c) == IF c.session = None THEN <<>> ELSE <<LineOf("session", c.session)>>
Hold(c) == IF c.pc = "wait" THEN <<Line("JOB_STOP")>> ELSE <<>>
Ahead(c, d) == IF c.pc = "dead" THEN <<>> ELSE Hold(c) \o d
RoadOf(c, u, d) == (u \o Mark(c)) \o Ahead(c, d)
Road(h) == RoadOf(co[h], up[h], down[h])
Running(h) == {j \in Job : jobMap[j] = "RUNNING" /\ coor[j] = h}

Busy(h) == Dispatching /\ disp.host = h
Held(h) == status[h] = "FREE" \/ Busy(h) \/ (disp.pc = "setup" /\ disp.host = h)
Turn(h) == IF Busy(h) /\ disp.caller = "setStatus" THEN disp.pc ELSE "none"
Clear(h) == status[h] = "FREE" /\ queue # <<>>
Ticking(h) == disp.pc = "tick" /\ disp.host = h
RoadOK(h) == Sound(Road(h), Running(h), co[h].pc # "dead", Held(h), Turn(h), Clear(h), Ticking(h))

Over(r) == engine[r] \in {"ended", "dead"}

Spoken(h) == up[h] \in Seq(UpLine) /\ down[h] \in Seq(DownLine)
Reports(h) == \A i \in DOMAIN up[h] : up[h][i].kind = "jobFinished" => Over(up[h][i].job)

Coord(h) ==
  /\ LiveAt(h) \subseteq {co[h].session}
  /\ co[h].session # None => /\ co[h].pid = co[h].session /\ where[co[h].session] = h
                             /\ engine[co[h].session] # "none"
  /\ co[h].sock # None => co[h].sock = co[h].session
  /\ co[h].active = None
  /\ co[h].pc = "wait" => co[h].then = "jobStop" /\ co[h].sock # None

Turned(h) == /\ Busy(h) /\ disp.caller # "registServer" => status[h] = "BUSY"
             /\ Busy(h) => disp.caller # "none"

\* A host that has not registered, one that is gone, and one that is served.
Young(c, u, d) == /\ c.pc \in {"off", "register", "dead"} /\ c.session = None /\ d = <<>>
                  /\ u \in {<<>>, <<Line("register")>>}
                  /\ c.pc = "off" => u = <<>>
                  /\ c.pc = "register" => u = <<Line("register")>>
Gone(c, u) == c.pc = "dead" /\ u = <<>>
Served(c, u, d) == /\ c.pc # "off" /\ (\A i \in DOMAIN u : u[i].kind # "register")
                   /\ c.pc = "register" => d # <<>> /\ Head(d).kind = "OK"
Addressed(h) == disp.pc \notin {"select", "dead"} /\ disp.host = h
Fresh(h) == IF Known(h) THEN Served(co[h], up[h], down[h])
            ELSE /\ status[h] = "BUSY" /\ ~Addressed(h)
                 /\ Young(co[h], up[h], down[h]) \/ Gone(co[h], up[h])

Fed(w, p) == \A i \in DOMAIN w : w[i].kind = "BG_putFile" =>
               IF i = Len(w) THEN p ELSE w[i + 1].kind = "file"
Putting(h) == disp.pc = "put" /\ disp.host = h
Filing(c, d, p) == c.pc # "dead" =>
  /\ Fed(d, p)
  /\ c.pc = "file" => IF d = <<>> THEN p ELSE Head(d).kind = "file"
Files(h) == Filing(co[h], down[h], Putting(h))

Neat(h) == /\ Spoken(h) /\ Reports(h) /\ Coord(h) /\ Fresh(h) /\ Files(h)
           /\ RoadOK(h) /\ Turned(h)

Filed == \A j \in Job : jobMap[j] # "none" => Member(submitted, j)
Settled == \A j \in Job : jobMap[j] = "RUNNING" => ~Member(queue, j) /\ ~Loading(j)

\* The host an exchange is with.
Placed == disp.pc \notin {"select", "dead"} => disp.host \in Host

All == Filed /\ Settled /\ Placed /\ \A h \in Host : Neat(h)

-----------------------------------------------------------------------------
LEMMA Letters ==
  /\ UpLine \subseteq Letter /\ DownLine \subseteq Letter
  /\ UpLine \subseteq Lines /\ DownLine \subseteq Lines
  /\ \A j \in Job : LineOf("session", j) \in Letter
  /\ \A k \in UpKinds \cup DownKinds : Line(k) \in Letter
BY DEF UpLine, DownLine, Letter, Order, Lines, LineOf, Line, UpKinds, DownKinds

LEMMA UpLines ==
  /\ \A k \in UpKinds \ {"jobFinished"} : Line(k) \in UpLine
  /\ FREE \in UpLine
  /\ \A j \in Job : LineOf("jobFinished", j) \in UpLine
BY DEF UpLine, Lines, LineOf, Line, UpKinds, FREE

LEMMA DownLines ==
  /\ \A k \in DownKinds \ {"BG_start"} : Line(k) \in DownLine
  /\ \A j \in Job : \A k \in DownKinds : LineOf(k, j) \in DownLine
BY DEF DownLine, Order, Lines, LineOf, Line, DownKinds

LEMMA WordOf ==
  ASSUME NEW X, NEW s \in Seq(X)
  PROVE  /\ \A Y : X \subseteq Y => s \in Seq(Y)
         /\ s # <<>> => /\ Head(s) \in X /\ Tail(s) \in Seq(X) /\ s = <<Head(s)>> \o Tail(s)
                        /\ Head(s) = s[1] /\ 1 \in DOMAIN s
                        /\ \A i \in DOMAIN Tail(s) : i + 1 \in DOMAIN s /\ Tail(s)[i] = s[i + 1]
                        /\ DOMAIN s = 1 .. Len(s) /\ DOMAIN Tail(s) = 1 .. Len(s) - 1
                        /\ Len(s) \in Nat /\ Len(Tail(s)) = Len(s) - 1 /\ Len(s) >= 1
         /\ s \o <<>> = s /\ <<>> \o s = s
<1>1. \A Y : X \subseteq Y => s \in Seq(Y) OBVIOUS
<1>2. ASSUME s # <<>>
      PROVE  /\ Head(s) \in X /\ Tail(s) \in Seq(X) /\ Head(s) = s[1] /\ 1 \in DOMAIN s
             /\ \A i \in DOMAIN Tail(s) : i + 1 \in DOMAIN s /\ Tail(s)[i] = s[i + 1]
             /\ DOMAIN s = 1 .. Len(s) /\ DOMAIN Tail(s) = 1 .. Len(s) - 1
             /\ Len(s) \in Nat /\ Len(Tail(s)) = Len(s) - 1 /\ Len(s) >= 1
  BY <1>2
<1>3. ASSUME s # <<>> PROVE s = <<Head(s)>> \o Tail(s)
  BY <1>3, <1>2
<1>4. s \o <<>> = s /\ <<>> \o s = s OBVIOUS
<1>5. QED BY <1>1, <1>2, <1>3, <1>4

\* The parts of a road.
LEMMA RoadParts ==
  ASSUME NEW c \in CoRec, NEW u \in Seq(UpLine), NEW d \in Seq(DownLine)
  PROVE  /\ u \in Seq(Letter) /\ Up(u) /\ Mark(c) \in Seq(Letter) /\ u \o Mark(c) \in Seq(Letter)
         /\ d \in Seq(Letter) /\ Ahead(c, d) \in Seq(Letter) /\ Down(Ahead(c, d)) /\ Down(d)
         /\ RoadOf(c, u, d) \in Seq(Letter)
         /\ c.session = None => u \o Mark(c) = u
         /\ c.session # None => /\ c.session \in Job /\ LineOf("session", c.session) \in Letter
                                /\ u \o Mark(c) = u \o <<LineOf("session", c.session)>>
         /\ c.pc = "dead" => RoadOf(c, u, d) = u \o Mark(c)
         /\ c.pc = "wait" => Ahead(c, d) = <<Line("JOB_STOP")>> \o d
         /\ c.pc \notin {"dead", "wait"} => Ahead(c, d) = d
<1>1. u \in Seq(Letter) /\ d \in Seq(Letter) BY Letters, WordOf
<1>2. Up(u)
  <2>1. \A i \in DOMAIN u : u[i] \in UpLine OBVIOUS
  <2>2. QED BY <2>1 DEF UpLine, Up
<1>3. Down(d)
  <2>1. \A i \in DOMAIN d : d[i] \in DownLine OBVIOUS
  <2>2. QED BY <2>1 DEF DownLine, Down
<1>4. c.session # None => c.session \in Job /\ LineOf("session", c.session) \in Letter
  BY Letters DEF CoRec
<1>5. Mark(c) \in Seq(Letter) BY <1>4 DEF Mark
<1>6. u \o Mark(c) \in Seq(Letter) BY <1>1, <1>5
<1>7. c.session = None => u \o Mark(c) = u BY <1>1, WordOf DEF Mark
<1>8. c.session # None => u \o Mark(c) = u \o <<LineOf("session", c.session)>> BY DEF Mark
<1> DEFINE s == Line("JOB_STOP")
<1>9. s \in Letter /\ s.kind \in DownKinds
  <2>1. s.kind = "JOB_STOP" BY DEF Line
  <2>2. QED BY <2>1, Letters DEF DownKinds
<1>10. c.pc = "wait" => Ahead(c, d) = <<s>> \o d BY DEF Ahead, Hold
<1>11. c.pc \notin {"dead", "wait"} => Ahead(c, d) = d BY <1>1, WordOf DEF Ahead, Hold
<1>12. c.pc = "dead" => Ahead(c, d) = <<>> BY DEF Ahead
<1> HIDE DEF s
<1>13. <<s>> \o d \in Seq(Letter) /\ Down(<<s>> \o d)
  <2> DEFINE w == <<s>>
  <2>1. w \in Seq(Letter) /\ \A i \in DOMAIN w : w[i].kind \in DownKinds BY <1>9
  <2>2. w \o d \in Seq(Letter) BY <1>1, <2>1
  <2> HIDE DEF w
  <2>3. \A i \in DOMAIN (w \o d) : \/ i \in DOMAIN w /\ (w \o d)[i] = w[i]
                                   \/ \E k \in DOMAIN d : (w \o d)[i] = d[k]
    BY <1>1, <2>1, CatIndex
  <2>4. Down(w \o d) BY <1>3, <2>1, <2>3 DEF Down
  <2>5. QED BY <2>2, <2>4 DEF w
<1>14. Ahead(c, d) \in Seq(Letter) /\ Down(Ahead(c, d))
  <2>1. CASE c.pc = "dead" BY <1>12, <2>1 DEF Down
  <2>2. CASE c.pc = "wait" BY <1>10, <1>13, <2>2
  <2>3. CASE c.pc \notin {"dead", "wait"} BY <1>1, <1>3, <1>11, <2>3
  <2>4. QED BY <2>1, <2>2, <2>3
<1>15. RoadOf(c, u, d) \in Seq(Letter) BY <1>6, <1>14 DEF RoadOf
<1>16. c.pc = "dead" => RoadOf(c, u, d) = u \o Mark(c) BY <1>6, <1>12, WordOf DEF RoadOf
<1>17. QED BY <1>1, <1>2, <1>3, <1>4, <1>5, <1>6, <1>7, <1>8, <1>10, <1>11, <1>14, <1>15, <1>16 DEF s

-----------------------------------------------------------------------------
(* Steps of the coordinator.                                               *)
Onward == \A r \in Run : Over(r) => Over(r)'

LEMMA Typing ==
  ASSUME CInv
  PROVE  /\ TypeD /\ TypeL /\ TypeC /\ Socks /\ News /\ IInv /\ TypeOK
         /\ \A h \in Host : co[h] \in CoRec
         /\ Job \subseteq Run /\ Client \subseteq Run /\ None \notin Run /\ None \notin Host
         /\ Job \cap Client = {}
BY TypeParts, JobConstants DEF CInv, TypeC, Run

\* The road of a host does not change.
LEMMA RoadStep ==
  ASSUME NEW h, UNCHANGED dispatcher,
         Sound(RoadOf(co'[h], up'[h], down'[h]), Running(h), co'[h].pc # "dead",
               Held(h), Turn(h), Clear(h), Ticking(h))
  PROVE  RoadOK(h)'
<1>1. /\ Running(h)' = Running(h) /\ Held(h)' = Held(h) /\ Turn(h)' = Turn(h)
      /\ Clear(h)' = Clear(h) /\ Ticking(h)' = Ticking(h)
  BY DEF dispatcher, Running, Held, Turn, Clear, Ticking, Busy, Dispatching
<1>2. QED BY <1>1 DEF RoadOK, Road

LEMMA Holding ==
  ASSUME NEW h
  PROVE  (Turn(h) # "none" => Held(h)) /\ (Clear(h) => Held(h))
BY DEF Turn, Clear, Held

\* A host at which nothing moves but engines that end.
LEMMA Stays ==
  ASSUME CInv, NEW g \in Host, Neat(g), UNCHANGED dispatcher, Smooth, Onward,
         up'[g] = up[g], down'[g] = down[g], co'[g] = co[g], LiveAt(g)' \subseteq LiveAt(g)
  PROVE  Neat(g)'
<1>0. TypeC /\ co[g] \in CoRec /\ Job \subseteq Run BY Typing
<1>1. Spoken(g)' BY DEF Neat, Spoken
<1>2. Reports(g)'
  <2>1. \A i \in DOMAIN up[g] : up[g][i].kind = "jobFinished" => up[g][i].job \in Run
    <3>1. \A i \in DOMAIN up[g] : up[g][i] \in UpLine BY DEF Neat, Spoken
    <3>2. QED BY <1>0, <3>1 DEF UpLine
  <2>2. QED BY <2>1 DEF Neat, Reports, Onward
<1>3. Coord(g)'
  <2>1. co[g].session # None => co[g].session \in Run BY <1>0 DEF CoRec
  <2>2. QED BY <2>1 DEF Neat, Coord, Smooth
<1>4. Fresh(g)' BY DEF Neat, Fresh, dispatcher, Known, Addressed
<1>5. Files(g)' BY DEF Neat, Files, Filing, Putting, dispatcher
<1>6. RoadOK(g)' BY RoadStep DEF Neat, RoadOK, Road
<1>7. Turned(g)' BY DEF Neat, Turned, Busy, Dispatching, dispatcher
<1>8. QED BY <1>1, <1>2, <1>3, <1>4, <1>5, <1>6, <1>7 DEF Neat

LEMMA ActiveKnown ==
  ASSUME NEW h, Fresh(h), co[h].pc \in {"select", "file", "wait"} PROVE Known(h)
BY DEF Fresh, Young, Gone

\* The suffix of a word is fed as the word is.
LEMMA FedTail ==
  ASSUME NEW d \in Seq(DownLine), d # <<>>, NEW p, Fed(d, p)
  PROVE  /\ Fed(Tail(d), p)
         /\ Head(d).kind = "BG_putFile" =>
              IF Tail(d) = <<>> THEN p ELSE Head(Tail(d)).kind = "file"
<1> DEFINE t == Tail(d)
<1>1. /\ Head(d) = d[1] /\ 1 \in DOMAIN d
      /\ \A i \in DOMAIN t : i + 1 \in DOMAIN d /\ t[i] = d[i + 1]
      /\ DOMAIN d = 1 .. Len(d) /\ DOMAIN t = 1 .. Len(t) /\ Len(d) \in Nat /\ Len(t) = Len(d) - 1
      /\ t \in Seq(DownLine)
  BY WordOf
<1>2. t # <<>> => Head(t) = t[1] /\ 1 \in DOMAIN t /\ Len(t) >= 1 BY <1>1, WordOf
<1>3. t = <<>> => Len(d) = 1 BY <1>1
<1> HIDE DEF t
<1>4. Fed(t, p)
  <2> SUFFICES ASSUME NEW i \in DOMAIN t, t[i].kind = "BG_putFile"
               PROVE  IF i = Len(t) THEN p ELSE t[i + 1].kind = "file"
    BY DEF Fed
  <2>1. i + 1 \in DOMAIN d /\ d[i + 1].kind = "BG_putFile" /\ i \in 1 .. Len(t) BY <1>1
  <2>2. IF i + 1 = Len(d) THEN p ELSE d[(i + 1) + 1].kind = "file" BY <2>1 DEF Fed
  <2>3. CASE i = Len(t) BY <1>1, <2>1, <2>2, <2>3
  <2>4. CASE i # Len(t)
    <3>1. i + 1 \in DOMAIN t BY <1>1, <2>1, <2>4
    <3>2. t[i + 1] = d[(i + 1) + 1] BY <1>1, <3>1
    <3>3. QED BY <1>1, <2>1, <2>2, <2>4, <3>2
  <2>5. QED BY <2>3, <2>4
<1>5. ASSUME d[1].kind = "BG_putFile" PROVE IF t = <<>> THEN p ELSE Head(t).kind = "file"
  <2>1. IF 1 = Len(d) THEN p ELSE d[1 + 1].kind = "file" BY <1>1, <1>5 DEF Fed
  <2>2. CASE t = <<>> BY <1>3, <2>1, <2>2
  <2>3. CASE t # <<>>
    <3>1. t[1] = d[1 + 1] /\ 1 # Len(d) BY <1>1, <1>2, <2>3
    <3>2. QED BY <1>2, <2>1, <2>3, <3>1
  <2>4. QED BY <2>2, <2>3
<1>6. QED BY <1>1, <1>4, <1>5 DEF t

\* What every step of a coordinator keeps at its own host.
LEMMA Moved ==
  ASSUME CInv, NEW h \in Host, Neat(h), Known(h), UNCHANGED dispatcher, Onward,
         co'[h].pc \notin {"off", "register"}, co[h].pc # "dead",
         NEW ls \in Seq(UpLine), up'[h] = up[h] \o ls,
         \A i \in DOMAIN ls : /\ ls[i].kind # "register"
                              /\ ls[i].kind = "jobFinished" => Over(ls[i].job)',
         \/ down'[h] = down[h] /\ (co'[h].pc = "file" => co[h].pc = "file")
         \/ /\ down[h] # <<>> /\ down'[h] = Tail(down[h])
            /\ co'[h].pc = "file" => Head(down[h]).kind = "BG_putFile"
  PROVE  Spoken(h)' /\ Reports(h)' /\ Fresh(h)' /\ Files(h)' /\ Turned(h)'
<1> DEFINE u == up[h]
           d == down[h]
<1>0. u \in Seq(UpLine) /\ d \in Seq(DownLine) /\ Job \subseteq Run BY Typing DEF Neat, Spoken
<1>1. Spoken(h)'
  <2>1. u \o ls \in Seq(UpLine) BY <1>0
  <2>2. d # <<>> => Tail(d) \in Seq(DownLine) BY <1>0, WordOf
  <2>3. QED BY <1>0, <2>1, <2>2 DEF Spoken
<1>2. \A i \in DOMAIN (u \o ls) :
        \/ \E k \in DOMAIN u : (u \o ls)[i] = u[k]
        \/ \E k \in DOMAIN ls : (u \o ls)[i] = ls[k]
  <2> HIDE DEF u, d
  <2>1. \A i \in DOMAIN (u \o ls) :
          \/ i \in DOMAIN u /\ (u \o ls)[i] = u[i]
          \/ i > Len(u) /\ i - Len(u) \in DOMAIN ls /\ (u \o ls)[i] = ls[i - Len(u)]
    BY <1>0, CatIndex
  <2>2. QED BY <2>1
<1>3. Reports(h)'
  <2>1. \A i \in DOMAIN u : u[i].kind = "jobFinished" => u[i].job \in Run /\ Over(u[i].job)
    <3>1. \A i \in DOMAIN u : u[i] \in UpLine BY <1>0
    <3>2. QED BY <1>0, <3>1 DEF UpLine, Neat, Reports
  <2> HIDE DEF u
  <2>2. \A i \in DOMAIN u : u[i].kind = "jobFinished" => \E r \in Run : r = u[i].job /\ Over(r)'
    BY <2>1 DEF Onward
  <2>3. \A i \in DOMAIN ls : ls[i].kind = "jobFinished" => \E r \in Job : r = ls[i].job /\ Over(r)'
    <3>1. \A i \in DOMAIN ls : ls[i] \in UpLine OBVIOUS
    <3>2. QED BY <3>1 DEF UpLine
  <2>4. \A i \in DOMAIN (u \o ls) : (u \o ls)[i].kind = "jobFinished" =>
          \E r : r = (u \o ls)[i].job /\ Over(r)'
    BY <1>2, <2>2, <2>3
  <2>5. \A i \in DOMAIN up'[h] : up'[h][i].kind = "jobFinished" => \E r : r = up'[h][i].job /\ Over(r)'
    BY <2>4 DEF u
  <2>6. QED BY <2>5 DEF Reports
<1>4. Fresh(h)'
  <2>1. Served(co[h], u, d) BY DEF Neat, Fresh
  <2>2. \A i \in DOMAIN (u \o ls) : (u \o ls)[i].kind # "register"
    BY <1>2, <2>1 DEF Served
  <2>3. Served(co'[h], u \o ls, down'[h]) BY <2>2 DEF Served
  <2>4. Known(h)' BY DEF Known, dispatcher
  <2>5. QED BY <2>3, <2>4 DEF Fresh
<1>5. Files(h)'
  <2> DEFINE p == Putting(h)
  <2>1. Fed(d, p) /\ (co[h].pc = "file" => IF d = <<>> THEN p ELSE Head(d).kind = "file")
    BY DEF Neat, Files, Filing
  <2>2. Putting(h)' = p BY DEF Putting, dispatcher
  <2> HIDE DEF p
  <2>3. Filing(co'[h], down'[h], p)
    <3>1. CASE down'[h] = down[h] /\ (co'[h].pc = "file" => co[h].pc = "file")
      BY <2>1, <3>1 DEF Filing
    <3>2. CASE /\ down[h] # <<>> /\ down'[h] = Tail(down[h])
               /\ co'[h].pc = "file" => Head(down[h]).kind = "BG_putFile"
      <4>1. /\ Fed(Tail(d), p)
            /\ Head(d).kind = "BG_putFile" =>
                 IF Tail(d) = <<>> THEN p ELSE Head(Tail(d)).kind = "file"
        BY <1>0, <2>1, <3>2, FedTail
      <4>2. QED BY <3>2, <4>1 DEF Filing
    <3>3. QED BY <3>1, <3>2
  <2>4. QED BY <2>2, <2>3 DEF Files
<1>6. Turned(h)' BY DEF Neat, Turned, Busy, Dispatching, dispatcher
<1>7. QED BY <1>1, <1>3, <1>4, <1>5, <1>6

-----------------------------------------------------------------------------
(* Roads at a coordinator's step.                                          *)

\* The request at the head is behind what the coordinator has written.
LEMMA ReadAhead ==
  ASSUME NEW c \in CoRec, NEW u \in Seq(UpLine), NEW d \in Seq(DownLine),
         c.pc \notin {"dead", "wait"}, d # <<>>
  PROVE  /\ RoadOf(c, u, d) = ((u \o Mark(c)) \o <<Head(d)>>) \o Tail(d)
         /\ Head(d) \in DownLine /\ Head(d) \in Letter
         /\ Tail(d) \in Seq(DownLine) /\ Tail(d) \in Seq(Letter)
<1> DEFINE x == Head(d)
           t == Tail(d)
           p == u \o Mark(c)
<1>1. x \in DownLine /\ t \in Seq(DownLine) /\ d = <<x>> \o t BY WordOf
<1>2. x \in Letter /\ t \in Seq(Letter) BY <1>1, Letters, WordOf
<1>3. p \in Seq(Letter) /\ RoadOf(c, u, d) = p \o d BY RoadParts DEF RoadOf
<1> HIDE DEF x, t, p
<1>4. <<x>> \in Seq(Letter) BY <1>2
<1>5. p \o (<<x>> \o t) = (p \o <<x>>) \o t
  <2> DEFINE y == <<x>>
  <2>1. y \in Seq(Letter) BY <1>4
  <2> HIDE DEF y
  <2>2. p \o (y \o t) = (p \o y) \o t BY <1>2, <1>3, <2>1, ConcatAssociative, SMTT(40)
  <2>3. QED BY <2>2 DEF y
<1>6. RoadOf(c, u, d) = (p \o <<x>>) \o t BY <1>1, <1>3, <1>5
<1>7. QED BY <1>1, <1>2, <1>6 DEF x, t, p

LEMMA NoSession ==
  ASSUME NEW p \in Seq(Letter), NEW t \in Seq(Letter), NEW m \in Letter, NEW x \in Letter,
         m.kind = "session", x \in Rites \/ x.kind = "BG_start",
         NEW R, NEW live, NEW held, NEW turn, NEW clear, NEW asked,
         Sound(((p \o <<m>>) \o <<x>>) \o t, R, live, held, turn, clear, asked)
  PROVE  FALSE
<1> DEFINE a == p \o <<m>>
           b == a \o <<x>>
           w == b \o t
           B == Jobs(R)
<1>1. a \in Seq(Letter) /\ \A P : Some(a, P) <=> Some(p, P) \/ m \in P BY AddOne
<1> HIDE DEF a
<1>2. b \in Seq(Letter) /\ \A P, Q : Pair(b, P, Q) <=> Pair(a, P, Q) \/ (Some(a, P) /\ x \in Q)
  BY <1>1, AddOne
<1> HIDE DEF b
<1>3. \A P, Q : Pair(b, P, Q) => Pair(w, P, Q) BY <1>2, Cat
<1>4. m \in B /\ (x \in Rites \/ x \in B) BY Classes
<1>5. Pair(w, B, Rites) \/ Pair(w, B, B) BY <1>1, <1>2, <1>3, <1>4
<1>6. Sound(w, R, live, held, turn, clear, asked) BY DEF a, b
<1>7. QED BY <1>5, <1>6 DEF Sound, Tidy

\* A request of an exchange is answered.
LEMMA RiteAnswered ==
  ASSUME NEW c \in CoRec, NEW u \in Seq(UpLine), NEW d \in Seq(DownLine),
         c.pc \notin {"dead", "wait"}, d # <<>>, Head(d) \in Rites, NEW y \in Letter, y \in Rites,
         NEW R, NEW live, NEW held, NEW turn, NEW clear, NEW asked,
         Sound(RoadOf(c, u, d), R, live, held, turn, clear, asked)
  PROVE  /\ c.session = None
         /\ Sound((u \o <<y>>) \o Tail(d), R, live, held, turn, clear, asked)
<1> DEFINE x == Head(d)
           t == Tail(d)
           m == LineOf("session", c.session)
<1>1. /\ RoadOf(c, u, d) = ((u \o Mark(c)) \o <<x>>) \o t /\ x \in Letter /\ t \in Seq(Letter)
  BY ReadAhead
<1>2. u \in Seq(Letter) BY RoadParts
<1> HIDE DEF x, t
<1>3. c.session = None
  <2> SUFFICES ASSUME c.session # None PROVE FALSE OBVIOUS
  <2>1. m \in Letter /\ u \o Mark(c) = u \o <<m>> BY RoadParts
  <2>2. m.kind = "session" BY DEF LineOf
  <2> HIDE DEF m
  <2>3. Sound(((u \o <<m>>) \o <<x>>) \o t, R, live, held, turn, clear, asked) BY <1>1, <2>1
  <2>4. QED BY <1>1, <1>2, <2>1, <2>2, <2>3, NoSession DEF x
<1>4. u \o Mark(c) = u BY <1>3, RoadParts
<1>5. Sound((u \o <<x>>) \o t, R, live, held, turn, clear, asked) BY <1>1, <1>4
<1>6. Alike(x, y, R)
  <2>1. x \in Rites BY DEF x
  <2>2. \A l \in Letter : l \in Rites => /\ l \notin Stops /\ l \notin Frees /\ l \notin Ticks
                                         /\ l \notin Aborts
    BY Classes
  <2>3. \A l \in Letter : l \in Rites => l \notin Jobs(R) /\ l \notin Ends(R) BY Classes
  <2>4. \A l \in Letter : l \in Rites => \A j : l \notin Of(j) BY Classes
  <2>5. QED BY <1>1, <2>1, <2>2, <2>3, <2>4 DEF Alike
<1>7. Sound((u \o <<y>>) \o t, R, live, held, turn, clear, asked)
  BY <1>1, <1>2, <1>5, <1>6, Swapped
<1>8. QED BY <1>3, <1>7 DEF t

LEMMA CoordKept ==
  ASSUME CInv, NEW h \in Host, Coord(h), Smooth, LiveAt(h)' \subseteq LiveAt(h),
         co'[h].session = co[h].session, co'[h].pid = co[h].pid,
         co'[h].active = co[h].active, co'[h].sock \in {co[h].sock, None},
         co'[h].pc = "wait" => co'[h].then = "jobStop" /\ co'[h].sock # None
  PROVE  Coord(h)'
<1>0. co[h] \in CoRec /\ Job \subseteq Run BY Typing
<1>1. co[h].session # None => co[h].session \in Run BY <1>0 DEF CoRec
<1>2. QED BY <1>1 DEF Coord, Smooth

LEMMA EnginesSame ==
  ASSUME UNCHANGED <<engine, where>> PROVE Onward /\ \A h \in Host : LiveAt(h)' = LiveAt(h)
BY DEF Onward, Over, LiveAt

LEMMA TakeMoves ==
  ASSUME CInv, NEW h \in Host, Take(h) PROVE down'[h] = Tail(down[h])
BY Typing DEF Take, TypeL

\* SetupEnv, PutFile and GotFile: a request of the exchange is answered.
LEMMA AnswersNeat ==
  ASSUME CInv, NEW h \in Host, Neat(h), Smooth, Local(h),
         SetupEnv(h) \/ PutFile(h) \/ GotFile(h)
  PROVE  Neat(h)'
<1> DEFINE c == co[h]
           d == down[h]
           u == up[h]
<1>0. /\ c \in CoRec /\ TypeOK /\ u \in Seq(UpLine) /\ d \in Seq(DownLine) BY Typing DEF Neat, Spoken
<1>1. /\ UNCHANGED <<dispatcher, engine, where, gui>> /\ d # <<>> /\ Take(h) /\ c.pc \in {"select", "file"}
  BY DEF SetupEnv, PutFile, GotFile, Reads
<1>2. Onward /\ LiveAt(h)' = LiveAt(h) BY <1>1, EnginesSame
<1>3. down'[h] = Tail(d) BY <1>1, TakeMoves
<1>4. Known(h) BY <1>1, ActiveKnown DEF Neat
<1>5. Head(d) \in Rites
  <2>1. Head(d).kind \in {"setupEnv", "BG_putFile", "file"}
    <3>1. CASE SetupEnv(h) BY <3>1 DEF SetupEnv, Reads
    <3>2. CASE PutFile(h) BY <3>2 DEF PutFile, Reads
    <3>3. CASE GotFile(h) BY <1>1, <3>3 DEF GotFile, Neat, Files, Filing
    <3>4. QED BY <3>1, <3>2, <3>3
  <2>2. Head(d) \in Letter BY <1>0, <1>1, ReadAhead
  <2>3. QED BY <2>1, <2>2, Classes
<1>6. PICK y, rec :
        /\ Answer(h, rec, <<y>>) /\ y \in Rites /\ y \in Letter /\ y \in UpLine
        /\ y.kind \notin {"register", "jobFinished"}
        /\ rec \in CoRec /\ rec.pc \in {"select", "file"} /\ rec.session \in {c.session, None}
        /\ rec.pid = c.pid /\ rec.sock = c.sock /\ rec.active = c.active
        /\ rec.pc = "file" => Head(d).kind = "BG_putFile"
  <2>1. \A k \in {"EnvOK", "please", "File get"} :
           /\ Line(k) \in Rites /\ Line(k) \in Letter /\ Line(k) \in UpLine
           /\ Line(k).kind \notin {"register", "jobFinished"}
    <3> TAKE k \in {"EnvOK", "please", "File get"}
    <3>1. Line(k) \in Letter /\ Line(k) \in UpLine /\ Line(k).kind = k
      BY Letters, UpLines DEF UpKinds, Line
    <3>2. Line(k) \in Rites BY <3>1, Classes
    <3>3. QED BY <3>1, <3>2
  <2> HIDE DEF d
  <2>2. CASE SetupEnv(h)
    <3> DEFINE e == [c EXCEPT !.session = None]
               l == Line("EnvOK")
    <3>1. Answer(h, e, <<l>>) /\ c.pc = "select" BY <2>2 DEF SetupEnv, Reads
    <3>2. /\ e.pc = c.pc /\ e.session = None /\ e.pid = c.pid /\ e.sock = c.sock
          /\ e.active = c.active /\ e \in CoRec
      BY <1>0 DEF CoRec
    <3>3. /\ l \in Rites /\ l \in Letter /\ l \in UpLine
          /\ l.kind \notin {"register", "jobFinished"}
      BY <2>1
    <3> HIDE DEF e, l, c
    <3>4. QED BY <3>1, <3>2, <3>3
  <2>3. CASE PutFile(h)
    <3> DEFINE e == [c EXCEPT !.pc = "file"]
               l == Line("please")
    <3>1. Answer(h, e, <<l>>) /\ Head(d).kind = "BG_putFile" BY <2>3 DEF PutFile, Reads, d
    <3>2. /\ e.pc = "file" /\ e.session = c.session /\ e.pid = c.pid /\ e.sock = c.sock
          /\ e.active = c.active /\ e \in CoRec
      BY <1>0 DEF CoRec
    <3>3. /\ l \in Rites /\ l \in Letter /\ l \in UpLine
          /\ l.kind \notin {"register", "jobFinished"}
      BY <2>1
    <3> HIDE DEF e, l, c
    <3>4. QED BY <3>1, <3>2, <3>3
  <2>4. CASE GotFile(h)
    <3> DEFINE e == [c EXCEPT !.pc = "select"]
               l == Line("File get")
    <3>1. Answer(h, e, <<l>>) BY <2>4 DEF GotFile
    <3>2. /\ e.pc = "select" /\ e.session = c.session /\ e.pid = c.pid /\ e.sock = c.sock
          /\ e.active = c.active /\ e \in CoRec
      BY <1>0 DEF CoRec
    <3>3. /\ l \in Rites /\ l \in Letter /\ l \in UpLine
          /\ l.kind \notin {"register", "jobFinished"}
      BY <2>1
    <3> HIDE DEF e, l, c
    <3>4. QED BY <3>1, <3>2, <3>3
  <2>5. QED BY <2>2, <2>3, <2>4
<1>7. co'[h] = rec /\ up'[h] = u \o <<y>> BY <1>0, <1>6, AnswerMoves, ZenonT(60)
<1>8. /\ Spoken(h)' /\ Reports(h)' /\ Fresh(h)' /\ Files(h)' /\ Turned(h)'
  <2> DEFINE ls == <<y>>
  <2>1. ls \in Seq(UpLine) /\ \A i \in DOMAIN ls : ls[i].kind \notin {"register", "jobFinished"}
    BY <1>6
  <2> HIDE DEF ls
  <2>2. up'[h] = up[h] \o ls BY <1>7 DEF ls
  <2>3. /\ co'[h].pc \notin {"off", "register"} /\ co[h].pc # "dead"
        /\ down[h] # <<>> /\ down'[h] = Tail(down[h])
        /\ co'[h].pc = "file" => Head(down[h]).kind = "BG_putFile"
    BY <1>1, <1>3, <1>6, <1>7
  <2>4. QED BY <1>1, <1>2, <1>4, <2>1, <2>2, <2>3, Moved
<1>9. /\ c.session = None
      /\ Sound((u \o <<y>>) \o Tail(d), Running(h), c.pc # "dead", Held(h), Turn(h), Clear(h), Ticking(h))
  <2>1. Sound(RoadOf(c, u, d), Running(h), c.pc # "dead", Held(h), Turn(h), Clear(h), Ticking(h))
    BY DEF Neat, RoadOK, Road
  <2> HIDE DEF c, u, d
  <2>2. QED BY <1>0, <1>1, <1>5, <1>6, <2>1, RiteAnswered
<1>10. RoadOK(h)'
  <2>1. u \o <<y>> \in Seq(UpLine) /\ Tail(d) \in Seq(DownLine) BY <1>0, <1>1, <1>6, WordOf
  <2>2. rec.session = None /\ rec.pc \notin {"dead", "wait"} BY <1>6, <1>9
  <2>3. RoadOf(rec, u \o <<y>>, Tail(d)) = (u \o <<y>>) \o Tail(d)
    <3> DEFINE v == u \o <<y>>
               t == Tail(d)
    <3>1. v \in Seq(UpLine) /\ t \in Seq(DownLine) BY <2>1
    <3> HIDE DEF v, t
    <3>2. v \o Mark(rec) = v /\ Ahead(rec, t) = t BY <1>6, <2>2, <3>1, RoadParts
    <3>3. RoadOf(rec, v, t) = v \o t BY <3>2 DEF RoadOf
    <3>4. QED BY <3>3 DEF v, t
  <2>4. co'[h].pc # "dead" /\ c.pc # "dead" BY <1>1, <1>7, <2>2
  <2>5. QED BY <1>1, <1>3, <1>7, <1>9, <2>3, <2>4, RoadStep
<1>11. Coord(h)'
  <2>1. co'[h].session = co[h].session BY <1>6, <1>7, <1>9
  <2>2. QED BY <1>2, <1>6, <1>7, <2>1, CoordKept DEF Neat
<1>12. QED BY <1>8, <1>10, <1>11 DEF Neat

\* TickAnswer.
LEMMA TickNeat ==
  ASSUME CInv, NEW h \in Host, Neat(h), Smooth, Local(h), TickAnswer(h)
  PROVE  Neat(h)'
<1> DEFINE c == co[h]
           d == down[h]
           u == up[h]
           x == Head(d)
           t == Tail(d)
           y == Line("tick")
           m == Mark(c)
<1>0. /\ c \in CoRec /\ TypeOK /\ u \in Seq(UpLine) /\ d \in Seq(DownLine) BY Typing DEF Neat, Spoken
<1>1. /\ UNCHANGED <<dispatcher, engine, where, gui>> /\ d # <<>> /\ Take(h) /\ c.pc = "select"
      /\ x.kind = "getTick" /\ Answer(h, c, <<y>>)
  BY DEF TickAnswer, Reads
<1>2. Onward /\ LiveAt(h)' = LiveAt(h) BY <1>1, EnginesSame
<1>3. down'[h] = t BY <1>1, TakeMoves
<1>4. Known(h) BY <1>1, ActiveKnown DEF Neat
<1>5. y \in Letter /\ y \in UpLine /\ y.kind = "tick" BY Letters, UpLines DEF UpKinds, Line
<1>6. x \in Letter /\ t \in Seq(Letter) /\ t \in Seq(DownLine)
      /\ RoadOf(c, u, d) = ((u \o m) \o <<x>>) \o t
  BY <1>0, <1>1, ReadAhead
<1>7. u \in Seq(Letter) /\ m \in Seq(Letter) /\ u \o m \in Seq(Letter) BY <1>0, RoadParts
<1>8. co'[h] = c /\ up'[h] = u \o <<y>>
  <2> DEFINE ls == <<y>>
  <2>1. Answer(h, c, ls) BY <1>1
  <2> HIDE DEF ls, c
  <2>2. co'[h] = c /\ up'[h] = up[h] \o ls BY <1>0, <2>1, AnswerMoves
  <2>3. QED BY <2>2 DEF ls
<1> HIDE DEF y
<1>9. /\ Spoken(h)' /\ Reports(h)' /\ Fresh(h)' /\ Files(h)' /\ Turned(h)'
  <2> DEFINE ls == <<y>>
  <2>1. ls \in Seq(UpLine) /\ \A i \in DOMAIN ls : ls[i].kind \notin {"register", "jobFinished"}
    BY <1>5
  <2> HIDE DEF ls
  <2>2. up'[h] = up[h] \o ls BY <1>8 DEF ls
  <2>3. /\ co'[h].pc \notin {"off", "register", "file"} /\ co[h].pc # "dead"
        /\ down[h] # <<>> /\ down'[h] = Tail(down[h])
    BY <1>1, <1>3, <1>8
  <2>4. QED BY <1>1, <1>2, <1>4, <2>1, <2>2, <2>3, Moved
<1>10. Sound(((u \o m) \o <<x>>) \o t, Running(h), c.pc # "dead", Held(h), Turn(h), Clear(h), Ticking(h))
  BY <1>6 DEF Neat, RoadOK, Road
<1>11. RoadOK(h)'
  <2> DEFINE R == Running(h)
             p == u \o m
             a == p \o <<x>>
  <2> HIDE DEF c, d, u, x, t, m
  <2>1. x \in Ticks /\ x \notin Jobs(R) BY <1>1, <1>6, Classes
  <2>2. /\ Sound(p \o t, R, c.pc # "dead", Held(h), Turn(h), Clear(h), Ticking(h))
        /\ ~Some(p \o t, Ticks)
    BY <1>6, <1>7, <1>10, <2>1, Removed
  <2>3. Ticking(h)
    <3> HIDE DEF p
    <3>1. a \in Seq(Letter) /\ Some(a, Ticks) BY <1>6, <1>7, <2>1, AddOne DEF p
    <3> HIDE DEF a
    <3>2. Some(a \o t, Ticks) BY <1>6, <3>1, Cat
    <3>3. QED BY <1>10, <3>2 DEF Sound, a, p
  <2>4. p \o t = u \o (m \o t) /\ m \o t \in Seq(Letter)
    BY <1>6, <1>7, ConcatAssociative, ConcatProperties
  <2> DEFINE v == m \o t
  <2>5. v \in Seq(Letter) /\ p \o t = u \o v BY <2>4
  <2> HIDE DEF v, p
  <2>6. Sound((u \o <<y>>) \o v, R, c.pc # "dead", Held(h), Turn(h), Clear(h), Ticking(h))
    <3>1. Sound(u \o v, R, c.pc # "dead", Held(h), Turn(h), Clear(h), Ticking(h))
      BY <2>2, <2>5
    <3>2. y \in Ticks => Ticking(h) /\ ~Some(u \o v, Ticks) BY <2>2, <2>3, <2>5
    <3>3. QED BY <1>5, <1>7, <2>5, <3>1, <3>2, Inserted
  <2>7. (u \o <<y>>) \o v = ((u \o <<y>>) \o m) \o t
    <3> DEFINE z == u \o <<y>>
    <3>1. z \in Seq(Letter) BY <1>5, <1>7
    <3> HIDE DEF z
    <3>0. m \in Seq(Letter) /\ t \in Seq(Letter) BY <1>6, <1>7
    <3>2. (z \o m) \o t = z \o (m \o t) BY <3>0, <3>1, ConcatAssociative
    <3>3. QED BY <3>2 DEF z, v
  <2>8. Ahead(c, t) = t BY <1>0, <1>1, <1>6, RoadParts
  <2>9. RoadOf(c, u \o <<y>>, t) = ((u \o <<y>>) \o m) \o t BY <2>8 DEF RoadOf, m
  <2>10. RoadOf(co'[h], up'[h], down'[h]) = (u \o <<y>>) \o v BY <1>3, <1>8, <2>7, <2>9
  <2>11. QED BY <1>1, <1>8, <2>6, <2>10, RoadStep DEF c
<1>12. Coord(h)' BY <1>1, <1>2, <1>8, CoordKept DEF Neat
<1>13. QED BY <1>9, <1>11, <1>12 DEF Neat

\* Nothing is appended to a word.
LEMMA NothingSaid ==
  ASSUME CInv, NEW h \in Host, Neat(h)
  PROVE  up[h] \o <<>> = up[h] /\ <<>> \in Seq(UpLine) /\ up[h] \in Seq(UpLine) /\ down[h] \in Seq(DownLine)
<1>1. up[h] \in Seq(UpLine) /\ down[h] \in Seq(DownLine) BY DEF Neat, Spoken
<1>2. QED BY <1>1, WordOf

LEMMA NoOrder ==
  ASSUME CInv, NEW h \in Host, Neat(h), co[h].pc \notin {"dead", "wait"}, down[h] # <<>>
  PROVE  Head(down[h]).kind # "JOB_ABORT"
<1> DEFINE c == co[h]
           u == up[h]
           d == down[h]
           x == Head(d)
           t == Tail(d)
<1>1. c \in CoRec /\ u \in Seq(UpLine) /\ d \in Seq(DownLine) BY Typing DEF Neat, Spoken
<1>2. ~Some(RoadOf(c, u, d), Aborts) BY DEF Neat, RoadOK, Road, Sound, Tidy
<1> HIDE DEF c, u, d
<1>3. c.pc \notin {"dead", "wait"} /\ d # <<>> BY DEF c, d
<1>4. /\ RoadOf(c, u, d) = ((u \o Mark(c)) \o <<x>>) \o t /\ x \in Letter /\ t \in Seq(Letter)
  BY <1>1, <1>3, ReadAhead
<1>5. u \o Mark(c) \in Seq(Letter) BY <1>1, RoadParts
<1> DEFINE p == u \o Mark(c)
           a == p \o <<x>>
<1> HIDE DEF x, t, p
<1>6. p \in Seq(Letter) BY <1>5 DEF p
<1>7. a \in Seq(Letter) /\ (x \in Aborts => Some(a, Aborts)) BY <1>4, <1>6, AddOne
<1> HIDE DEF a
<1>8. x \in Aborts => Some(a \o t, Aborts) BY <1>4, <1>7, Cat
<1>9. x \notin Aborts BY <1>2, <1>4, <1>8 DEF a, p
<1>10. x.kind # "JOB_ABORT" BY <1>4, <1>9, Classes
<1>11. QED BY <1>10 DEF x, d

\* A coordinator dies.
LEMMA DeadNeat ==
  ASSUME CInv, NEW h \in Host, Neat(h), Smooth, Dies(h, <<>>), down' = down,
         UNCHANGED <<dispatcher, engine, where>>, co[h].pc \notin {"off", "dead"}
  PROVE  Neat(h)'
<1> DEFINE c == co[h]
           u == up[h]
           d == down[h]
           e == [c EXCEPT !.pc = "dead"]
<1>0. /\ c \in CoRec /\ TypeOK /\ u \in Seq(UpLine) /\ d \in Seq(DownLine) BY Typing DEF Neat, Spoken
<1>1. Onward /\ LiveAt(h)' = LiveAt(h) BY EnginesSame
<1>2. co'[h] = e /\ up'[h] = u BY <1>0, DiesMoves
<1>3. /\ e.pc = "dead" /\ e.session = c.session /\ e.pid = c.pid /\ e.sock = c.sock
      /\ e.active = c.active /\ e \in CoRec
  BY <1>0 DEF CoRec
<1> HIDE DEF e
<1>4. RoadOK(h)'
  <2>1. Sound(RoadOf(c, u, d), Running(h), c.pc # "dead", Held(h), Turn(h), Clear(h), Ticking(h))
    BY DEF Neat, RoadOK, Road
  <2>2. Mark(e) = Mark(c) BY <1>3 DEF Mark
  <2> HIDE DEF c, u, d
  <2>3. /\ RoadOf(e, u, d) = u \o Mark(e) /\ u \o Mark(c) \in Seq(Letter)
        /\ Ahead(c, d) \in Seq(Letter)
    BY <1>0, <1>3, RoadParts
  <2>4. Sound(u \o Mark(c), Running(h), FALSE, Held(h), Turn(h), Clear(h), Ticking(h))
    BY <2>1, <2>3, CutOff DEF RoadOf
  <2>5. Sound(RoadOf(e, u, d), Running(h), FALSE, Held(h), Turn(h), Clear(h), Ticking(h))
    BY <2>2, <2>3, <2>4
  <2>6. co'[h].pc = "dead" /\ down'[h] = d BY <1>2, <1>3 DEF d
  <2>7. QED BY <1>2, <2>5, <2>6, RoadStep DEF u
<1>5. Coord(h)' BY <1>1, <1>2, <1>3, CoordKept DEF Neat
<1>6. Spoken(h)' BY <1>2 DEF Neat, Spoken
<1>7. Reports(h)'
  <2>1. \A i \in DOMAIN u : u[i].kind = "jobFinished" => \E r \in Run : r = u[i].job /\ Over(r)'
    <3>1. \A i \in DOMAIN u : u[i] \in UpLine BY <1>0
    <3>2. \A i \in DOMAIN u : u[i].kind = "jobFinished" => u[i].job \in Run /\ Over(u[i].job)
      BY <3>1, Typing DEF UpLine, Neat, Reports
    <3> HIDE DEF u
    <3>3. QED BY <1>1, <3>2 DEF Onward
  <2>2. \A i \in DOMAIN up'[h] : up'[h][i].kind = "jobFinished" => \E r : r = up'[h][i].job /\ Over(r)'
    BY <1>2, <2>1
  <2>3. QED BY <2>2 DEF Reports
<1>8. Fresh(h)'
  <2>1. Known(h)' = Known(h) /\ Addressed(h)' = Addressed(h) /\ status'[h] = status[h]
    BY DEF Known, Addressed, dispatcher
  <2>2. CASE Known(h)
    <3>1. Served(co'[h], up'[h], down'[h]) BY <1>2, <1>3, <2>2 DEF Neat, Fresh, Served
    <3>2. QED BY <2>1, <2>2, <3>1 DEF Fresh
  <2>3. CASE ~Known(h)
    <3>1. Young(c, u, d) /\ status[h] = "BUSY" /\ ~Addressed(h)
      BY <2>3 DEF Neat, Fresh, Gone
    <3>2. Young(co'[h], up'[h], down'[h]) BY <1>2, <1>3, <3>1 DEF Young
    <3>3. QED BY <2>1, <2>3, <3>1, <3>2 DEF Fresh
  <2>4. QED BY <2>2, <2>3
<1>9. Files(h)' BY <1>2, <1>3 DEF Files, Filing
<1>10. Turned(h)' BY DEF Neat, Turned, Busy, Dispatching, dispatcher
<1>11. QED BY <1>4, <1>5, <1>6, <1>7, <1>8, <1>9, <1>10 DEF Neat

\* EngineClosed, EngineConnects.
LEMMA SocketNeat ==
  ASSUME CInv, NEW h \in Host, Neat(h), Smooth,
         EngineClosed(h) \/ \E r \in Run : EngineConnects(h, r)
  PROVE  Neat(h)'
<1> DEFINE c == co[h]
<1>0. c \in CoRec /\ TypeOK /\ TypeC BY Typing
<1>1. UNCHANGED <<dispatcher, down, where>> /\ c.pc = "select"
  BY DEF EngineClosed, EngineConnects
<1>2. Known(h) BY <1>1, ActiveKnown DEF Neat
<1>3. PICK s \in Run \cup {None} : /\ Answer(h, [c EXCEPT !.sock = s], <<>>)
                                   /\ s # None => s \in LiveAt(h)
  BY DEF EngineClosed, EngineConnects, LiveAt, Live
<1> DEFINE e == [c EXCEPT !.sock = s]
<1>4. /\ e.pc = c.pc /\ e.session = c.session /\ e.pid = c.pid /\ e.sock = s
      /\ e.active = c.active /\ e \in CoRec
  BY <1>0 DEF CoRec
<1> HIDE DEF e
<1>5. co'[h] = e /\ up'[h] = up[h] \o <<>> BY <1>0, <1>3, AnswerMoves DEF e
<1>6. up'[h] = up[h] BY <1>5, NothingSaid
<1>7. Onward /\ LiveAt(h)' \subseteq LiveAt(h)
  <2>1. CASE engine' = engine BY <1>1, <2>1 DEF Onward, Over, LiveAt
  <2>2. CASE engine' # engine
    <3>1. PICK r \in Run : engine[r] = "forked" /\ engine' = [engine EXCEPT ![r] = "up"]
      BY <2>2 DEF EngineClosed, EngineConnects
    <3>2. \A x \in Run : engine'[x] = IF x = r THEN "up" ELSE engine[x] BY <1>0, <3>1 DEF TypeC
    <3>3. QED BY <1>1, <3>1, <3>2 DEF Onward, Over, LiveAt, Live
  <2>3. QED BY <2>1, <2>2
<1>8. /\ Spoken(h)' /\ Reports(h)' /\ Fresh(h)' /\ Files(h)' /\ Turned(h)'
  <2> DEFINE ls == <<>>
  <2>1. ls \in Seq(UpLine) /\ \A i \in DOMAIN ls : FALSE OBVIOUS
  <2> HIDE DEF ls
  <2>2. up'[h] = up[h] \o ls BY <1>5 DEF ls
  <2>3. co'[h].pc = "select" /\ co[h].pc # "dead" /\ down'[h] = down[h] BY <1>1, <1>4, <1>5
  <2>4. QED BY <1>1, <1>2, <1>7, <2>1, <2>2, <2>3, Moved
<1>9. RoadOK(h)'
  <2>1. RoadOf(e, up[h], down[h]) = RoadOf(c, up[h], down[h])
    BY <1>4 DEF RoadOf, Mark, Ahead, Hold
  <2>2. co'[h].pc # "dead" /\ c.pc # "dead" /\ down'[h] = down[h] BY <1>1, <1>4, <1>5
  <2>3. Sound(RoadOf(c, up[h], down[h]), Running(h), c.pc # "dead", Held(h), Turn(h), Clear(h), Ticking(h))
    BY DEF Neat, RoadOK, Road
  <2>4. QED BY <1>1, <1>5, <1>6, <2>1, <2>2, <2>3, RoadStep
<1>10. Coord(h)'
  <2>1. Coord(h) BY DEF Neat
  <2>2. c.session # None => c.session \in Run BY <1>0 DEF CoRec, Run
  <2>3. s # None => s = c.session BY <1>3, <2>1 DEF Coord
  <2>4. co'[h].pc # "wait" BY <1>1, <1>4, <1>5
  <2>5. QED BY <1>4, <1>5, <1>7, <2>1, <2>2, <2>3, <2>4 DEF Coord, Smooth
<1>11. QED BY <1>8, <1>9, <1>10 DEF Neat

\* Boot.
LEMMA BootNeat ==
  ASSUME CInv, NEW h \in Host, Neat(h), Smooth, Boot(h)
  PROVE  Neat(h)'
<1> DEFINE c == co[h]
           e == [c EXCEPT !.pc = "register"]
           l == Line("register")
<1>0. c \in CoRec /\ TypeOK BY Typing
<1>1. /\ UNCHANGED <<dispatcher, down, engine, where, gui>> /\ c.pc = "off"
      /\ Answer(h, e, <<l>>)
  BY DEF Boot
<1>2. Onward /\ LiveAt(h)' = LiveAt(h) BY <1>1, EnginesSame
<1>3. /\ e.pc = "register" /\ e.session = c.session /\ e.pid = c.pid /\ e.sock = c.sock
      /\ e.active = c.active /\ e \in CoRec
  BY <1>0 DEF CoRec
<1>4. ~Known(h) /\ Young(c, up[h], down[h]) /\ status[h] = "BUSY" /\ ~Addressed(h)
  BY <1>1 DEF Neat, Fresh, Served, Gone
<1>5. c.session = None /\ up[h] = <<>> /\ down[h] = <<>> BY <1>1, <1>4 DEF Young
<1> HIDE DEF e
<1>6. l \in UpLine /\ l.kind = "register" /\ l \in Letter BY UpLines, Letters DEF UpKinds, Line
<1>7. co'[h] = e /\ up'[h] = <<l>>
  <2> HIDE DEF l
  <2>1. <<>> \o <<l>> = <<l>> OBVIOUS
  <2> DEFINE ls == <<l>>
  <2> HIDE DEF ls, c
  <2>2. Answer(h, e, ls) BY <1>1 DEF ls
  <2>3. co'[h] = e /\ up'[h] = up[h] \o ls BY <1>0, <2>2, AnswerMoves
  <2>4. QED BY <1>5, <2>1, <2>3 DEF ls
<1>8. Spoken(h)'
  <2> HIDE DEF l
  <2>1. <<l>> \in Seq(UpLine) BY <1>6
  <2>2. QED BY <1>1, <1>7, <2>1 DEF Neat, Spoken
<1>9. Reports(h)'
  <2>1. \A i \in DOMAIN <<l>> : <<l>>[i].kind = "register" BY <1>6
  <2>2. QED BY <1>7, <2>1 DEF Reports
<1>10. Fresh(h)'
  <2>1. Young(co'[h], up'[h], down'[h]) BY <1>1, <1>3, <1>5, <1>7 DEF Young
  <2>2. ~Known(h)' /\ status'[h] = "BUSY" /\ ~Addressed(h)'
    BY <1>1, <1>4 DEF Known, Addressed, dispatcher
  <2>3. QED BY <2>1, <2>2 DEF Fresh
<1>11. Files(h)'
  <2>1. Fed(<<>>, Putting(h)') BY DEF Fed
  <2>2. QED BY <1>1, <1>3, <1>5, <1>7, <2>1 DEF Files, Filing
<1>12. Turned(h)' BY <1>1 DEF Neat, Turned, Busy, Dispatching, dispatcher
<1>13. Coord(h)' BY <1>1, <1>2, <1>3, <1>7, CoordKept DEF Neat
<1>14. RoadOK(h)'
  <2> HIDE DEF l
  <2>1. <<l>> \in Seq(UpLine) /\ <<l>> \in Seq(Letter) BY <1>6
  <2>2. <<>> \in Seq(UpLine) /\ <<>> \in Seq(DownLine) OBVIOUS
  <2> DEFINE v == <<l>>
             d == <<>>
  <2>3. RoadOf(e, v, d) = v
    <3> HIDE DEF v, d
    <3>1. v \in Seq(UpLine) /\ v \in Seq(Letter) /\ d \in Seq(DownLine) /\ d = <<>> BY <2>1, <2>2 DEF v, d
    <3>2. v \o Mark(e) = v /\ Ahead(e, d) = d BY <1>3, <1>5, <3>1, RoadParts
    <3>3. QED BY <3>1, <3>2, WordOf DEF RoadOf
  <2>4. RoadOf(c, <<>>, <<>>) = <<>>
    <3>1. Mark(c) = <<>> /\ Ahead(c, <<>>) = <<>>
      <4>1. <<>> \o <<>> = <<>> OBVIOUS
      <4>2. QED BY <1>1, <1>5, <4>1 DEF Mark, Ahead, Hold
    <3>2. QED BY <3>1 DEF RoadOf
  <2>5. Running(h) = {}
    <3>1. Owned(<<>>, Running(h)) BY <1>1, <1>5, <2>4 DEF Neat, RoadOK, Road, Sound
    <3>2. QED BY <3>1 DEF Owned, Some
  <2>6. \A i \in DOMAIN v : v[i].kind \in {"register", "OK", "setupEnv"} BY <1>6
  <2> HIDE DEF v, d
  <2>7. Sound(v, Running(h), co'[h].pc # "dead", Held(h), Turn(h), Clear(h), Ticking(h))
    BY <2>1, <2>5, <2>6, Blank DEF v
  <2>8. RoadOf(co'[h], up'[h], down'[h]) = v BY <1>1, <1>5, <1>7, <2>3 DEF v, d
  <2>9. QED BY <1>1, <2>7, <2>8, RoadStep
<1>15. QED BY <1>8, <1>9, <1>10, <1>11, <1>12, <1>13, <1>14 DEF Neat

\* Registered.
LEMMA RegisteredNeat ==
  ASSUME CInv, NEW h \in Host, Neat(h), Smooth, Registered(h)
  PROVE  Neat(h)'
<1> DEFINE c == co[h]
           u == up[h]
           d == down[h]
           e == [c EXCEPT !.pc = "select"]
           x == Head(d)
           t == Tail(d)
<1>0. c \in CoRec /\ TypeOK /\ u \in Seq(UpLine) /\ d \in Seq(DownLine) BY Typing DEF Neat, Spoken
<1>1. /\ UNCHANGED <<dispatcher, engine, where, gui>> /\ c.pc = "register" /\ d # <<>>
      /\ Take(h) /\ Answer(h, e, <<>>)
  BY DEF Registered
<1>2. Onward /\ LiveAt(h)' = LiveAt(h) BY <1>1, EnginesSame
<1>3. /\ e.pc = "select" /\ e.session = c.session /\ e.pid = c.pid /\ e.sock = c.sock
      /\ e.active = c.active /\ e \in CoRec
  BY <1>0 DEF CoRec
<1>4. Known(h) /\ x.kind = "OK" BY <1>1 DEF Neat, Fresh, Young, Gone, Served
<1> HIDE DEF e
<1>5. co'[h] = e /\ up'[h] = u \o <<>> BY <1>0, <1>1, AnswerMoves
<1>6. up'[h] = u BY <1>5, NothingSaid
<1>7. down'[h] = t BY <1>1, TakeMoves
<1>8. /\ Spoken(h)' /\ Reports(h)' /\ Fresh(h)' /\ Files(h)' /\ Turned(h)'
  <2> DEFINE ls == <<>>
  <2>1. ls \in Seq(UpLine) /\ \A i \in DOMAIN ls : FALSE OBVIOUS
  <2> HIDE DEF ls
  <2>2. up'[h] = up[h] \o ls BY <1>5 DEF ls
  <2>3. co'[h].pc = "select" /\ co[h].pc # "dead" /\ down[h] # <<>> /\ down'[h] = Tail(down[h])
    BY <1>1, <1>3, <1>5, <1>7
  <2>4. QED BY <1>1, <1>2, <1>4, <2>1, <2>2, <2>3, Moved
<1>9. RoadOK(h)'
  <2>1. Sound(RoadOf(c, u, d), Running(h), c.pc # "dead", Held(h), Turn(h), Clear(h), Ticking(h))
    BY DEF Neat, RoadOK, Road
  <2>2. Mark(e) = Mark(c) BY <1>3 DEF Mark
  <2>3. c.pc \notin {"dead", "wait"} /\ c.pc # "dead" BY <1>1
  <2>4. d # <<>> /\ x.kind = "OK" BY <1>1, <1>4
  <2> HIDE DEF c, u, d
  <2>5. /\ RoadOf(c, u, d) = ((u \o Mark(c)) \o <<x>>) \o t /\ x \in Letter
        /\ t \in Seq(DownLine) /\ t \in Seq(Letter)
    BY <1>0, <2>3, <2>4, ReadAhead
  <2>6. u \o Mark(c) \in Seq(Letter) BY <1>0, RoadParts
  <2> HIDE DEF x, t
  <2>7. x \notin Jobs(Running(h)) BY <2>4, <2>5, Classes
  <2> DEFINE p == u \o Mark(c)
  <2>8. Sound((p \o <<x>>) \o t, Running(h), c.pc # "dead", Held(h), Turn(h), Clear(h), Ticking(h))
    BY <2>1, <2>5
  <2>9. p \in Seq(Letter) BY <2>6
  <2> HIDE DEF p
  <2>10. Sound(p \o t, Running(h), c.pc # "dead", Held(h), Turn(h), Clear(h), Ticking(h))
    BY <2>5, <2>7, <2>8, <2>9, Removed
  <2>11. RoadOf(e, u, t) = p \o t
    <3>1. Ahead(e, t) = t BY <1>0, <1>3, <2>5, RoadParts
    <3>2. QED BY <2>2, <3>1 DEF RoadOf, p
  <2>12. co'[h].pc # "dead" BY <1>3, <1>5
  <2>13. QED BY <1>1, <1>5, <1>6, <1>7, <2>3, <2>10, <2>11, <2>12, RoadStep
<1>10. Coord(h)' BY <1>1, <1>2, <1>3, <1>5, CoordKept DEF Neat
<1>11. QED BY <1>8, <1>9, <1>10 DEF Neat

\* BGStart.
LEMMA StartNeat ==
  ASSUME CInv, NEW h \in Host, Neat(h), Smooth, Local(h), BGStart(h)
  PROVE  Neat(h)'
<1> DEFINE c == co[h]
           u == up[h]
           d == down[h]
           x == Head(d)
           t == Tail(d)
           j == x.job
           m == LineOf("session", j)
           e == [c EXCEPT !.session = j, !.pid = j]
<1>0. /\ c \in CoRec /\ TypeOK /\ TypeC /\ u \in Seq(UpLine) /\ d \in Seq(DownLine)
  BY Typing DEF Neat, Spoken
<1>1. /\ UNCHANGED <<dispatcher, gui>> /\ c.pc = "select" /\ d # <<>> /\ x.kind = "BG_start"
      /\ Take(h) /\ Answer(h, e, <<>>)
      /\ engine' = [engine EXCEPT ![j] = "forked"] /\ where' = [where EXCEPT ![j] = h]
  BY DEF BGStart, Reads, Start
<1>2. c.pc \notin {"dead", "wait"} /\ c.pc # "dead" BY <1>1
<1>3. down'[h] = t BY <1>1, TakeMoves
<1>4. Known(h) BY <1>1, ActiveKnown DEF Neat
<1>5. /\ RoadOf(c, u, d) = ((u \o Mark(c)) \o <<x>>) \o t /\ x \in Letter /\ x \in DownLine
      /\ t \in Seq(DownLine) /\ t \in Seq(Letter)
  <2> HIDE DEF c, u, d
  <2>1. QED BY <1>0, <1>1, <1>2, ReadAhead
<1>6. j \in Job /\ x = LineOf("BG_start", j)
  <2> HIDE DEF x
  <2>1. QED BY <1>1, <1>5 DEF DownLine, Order, Lines, LineOf
<1>7. engine[j] = "none"
  <2>1. d \in Seq(Order) BY Typing DEF IInv, Typed
  <2>2. 1 \in 1 .. Len(d) /\ x = d[1] BY <1>1, <2>1
  <2>3. Started(down, j) BY <1>6, <2>2 DEF Started, Starts
  <2>4. Places BY Typing DEF IInv
  <2> HIDE DEF j
  <2>5. QED BY <1>6, <2>3, <2>4 DEF Places, PlacesWith
<1>8. Sound(((u \o Mark(c)) \o <<x>>) \o t, Running(h), c.pc # "dead", Held(h), Turn(h), Clear(h), Ticking(h))
  <2>1. Sound(RoadOf(c, u, d), Running(h), c.pc # "dead", Held(h), Turn(h), Clear(h), Ticking(h))
    BY DEF Neat, RoadOK, Road
  <2> HIDE DEF c, u, d, x, t
  <2>2. QED BY <1>5, <2>1
<1>9. /\ e.pc = c.pc /\ e.session = j /\ e.pid = j /\ e.sock = c.sock
      /\ e.active = c.active /\ e \in CoRec
  <2> HIDE DEF x
  <2>1. j \in Run BY <1>6 DEF Run
  <2>2. QED BY <1>0, <1>6, <2>1 DEF CoRec
<1>10. m \in Letter /\ m.kind = "session" /\ m.job = j BY <1>6, Letters DEF LineOf
<1> HIDE DEF e, m
<1>11. c.session = None
  <2> SUFFICES ASSUME c.session # None PROVE FALSE OBVIOUS
  <2> DEFINE n == LineOf("session", c.session)
  <2>1. n \in Letter /\ u \o Mark(c) = u \o <<n>> BY <1>0, RoadParts
  <2>2. n.kind = "session" BY DEF LineOf
  <2>3. u \in Seq(Letter) BY <1>0, RoadParts
  <2> HIDE DEF n, c, u, d, x, t
  <2>4. Sound(((u \o <<n>>) \o <<x>>) \o t, Running(h), c.pc # "dead", Held(h), Turn(h), Clear(h), Ticking(h))
    BY <1>8, <2>1
  <2>5. QED BY <1>1, <1>5, <2>1, <2>2, <2>3, <2>4, NoSession
<1>12. co'[h] = e /\ up'[h] = u \o <<>> BY <1>0, <1>1, AnswerMoves DEF e
<1>13. up'[h] = u BY <1>12, NothingSaid
<1>14. j \in Run /\ \A r \in Run : /\ engine'[r] = IF r = j THEN "forked" ELSE engine[r]
                                   /\ where'[r] = IF r = j THEN h ELSE where[r]
  <2> HIDE DEF j
  <2>1. j \in Run BY <1>6 DEF Run
  <2>2. QED BY <1>0, <1>1, <2>1 DEF TypeC
<1> HIDE DEF j
<1>15. Onward BY <1>7, <1>14 DEF Onward, Over
<1>16. /\ Spoken(h)' /\ Reports(h)' /\ Fresh(h)' /\ Files(h)' /\ Turned(h)'
  <2> DEFINE ls == <<>>
  <2>1. ls \in Seq(UpLine) /\ \A i \in DOMAIN ls : FALSE OBVIOUS
  <2> HIDE DEF ls
  <2>2. up'[h] = up[h] \o ls BY <1>12 DEF ls
  <2>3. co'[h].pc = "select" /\ co[h].pc # "dead" /\ down[h] # <<>> /\ down'[h] = Tail(down[h])
    BY <1>1, <1>3, <1>9, <1>12
  <2>4. QED BY <1>1, <1>4, <1>15, <2>1, <2>2, <2>3, Moved
<1>17. RoadOK(h)'
  <2>1. u \in Seq(Letter) /\ u \o Mark(c) = u BY <1>0, <1>11, RoadParts
  <2>2. c.pc = "select" /\ c.pc # "dead" BY <1>1
  <2>3. e.session # None BY <1>9, <1>6, JobConstants
  <2> HIDE DEF c, u, d, x, t
  <2>4. Sound((u \o <<x>>) \o t, Running(h), c.pc # "dead", Held(h), Turn(h), Clear(h), Ticking(h))
    BY <1>8, <2>1
  <2>5. Alike(x, m, Running(h))
    <3>1. x.kind = "BG_start" /\ x.job = j BY <1>1 DEF j
    <3>2. /\ x \notin Rites /\ m \notin Rites /\ x \notin Stops /\ m \notin Stops
          /\ x \notin Frees /\ m \notin Frees
      BY <1>5, <1>10, <3>1, Classes
    <3>3. /\ x \notin Ticks /\ m \notin Ticks /\ x \notin Aborts /\ m \notin Aborts
      BY <1>5, <1>10, <3>1, Classes
    <3>4. /\ x \in Jobs(Running(h)) /\ m \in Jobs(Running(h))
          /\ x \notin Ends(Running(h)) /\ m \notin Ends(Running(h))
      BY <1>5, <1>10, <3>1, Classes
    <3>5. \A i : x \in Of(i) <=> m \in Of(i) BY <1>5, <1>10, <3>1, Classes
    <3>6. QED BY <3>2, <3>3, <3>4, <3>5 DEF Alike
  <2>6. Sound((u \o <<m>>) \o t, Running(h), c.pc # "dead", Held(h), Turn(h), Clear(h), Ticking(h))
    BY <1>5, <1>10, <2>1, <2>4, <2>5, Swapped
  <2>7. RoadOf(e, u, t) = (u \o <<m>>) \o t
    <3>1. u \o Mark(e) = u \o <<m>> /\ Ahead(e, t) = t
      BY <1>0, <1>5, <1>9, <2>2, <2>3, RoadParts DEF m
    <3>2. QED BY <3>1 DEF RoadOf
  <2>8. co'[h].pc # "dead" BY <1>9, <1>12, <2>2
  <2>9. QED BY <1>1, <1>3, <1>12, <1>13, <2>2, <2>6, <2>7, <2>8, RoadStep
<1>18. Coord(h)'
  <2>1. Coord(h) BY DEF Neat
  <2>2. LiveAt(h) = {}
    <3>1. LiveAt(h) \subseteq {None} BY <1>11, <2>1 DEF Coord
    <3>2. QED BY <3>1, Typing DEF LiveAt
  <2>3. LiveAt(h)' \subseteq {j} BY <1>14, <2>2 DEF LiveAt
  <2>4. c.sock = None BY <1>11, <2>1 DEF Coord
  <2>5. where'[j] = h /\ engine'[j] # "none" BY <1>14
  <2>6. c.active = None BY <2>1 DEF Coord
  <2>7. QED BY <1>1, <1>9, <1>12, <2>3, <2>4, <2>5, <2>6 DEF Coord
<1>19. QED BY <1>16, <1>17, <1>18 DEF Neat

\* SimulationDone.
LEMMA DoneNeat ==
  ASSUME CInv, NEW h \in Host, Neat(h), Smooth, SimulationDone(h)
  PROVE  Neat(h)'
<1> DEFINE c == co[h]
           u == up[h]
           d == down[h]
           m == LineOf("session", c.session)
           x == LineOf("jobFinished", c.session)
           e == [c EXCEPT !.session = None, !.sock = None]
<1>0. /\ c \in CoRec /\ TypeOK /\ TypeC /\ u \in Seq(UpLine) /\ d \in Seq(DownLine)
  BY Typing DEF Neat, Spoken
<1>1. /\ UNCHANGED <<dispatcher, down, where, gui>> /\ c.pc = "select" /\ c.sock # None
      /\ engine[c.sock] = "done" /\ engine' = [engine EXCEPT ![c.sock] = "ended"]
  BY DEF SimulationDone
<1>2. c.sock = c.session /\ c.session \in Job /\ c.session \in Run
  BY <1>0, <1>1 DEF Neat, Coord, CoRec, Run
<1>3. Answer(h, e, <<x, FREE>>) BY <1>1, <1>2 DEF SimulationDone, SimulationFinished
<1>4. Known(h) BY <1>1, ActiveKnown DEF Neat
<1>5. /\ e.pc = c.pc /\ e.session = None /\ e.pid = c.pid /\ e.sock = None
      /\ e.active = c.active /\ e \in CoRec
  BY <1>0 DEF CoRec
<1>6. /\ m \in Letter /\ m.kind = "session" /\ m.job = c.session
      /\ x \in Letter /\ x \in UpLine /\ x.kind = "jobFinished" /\ x.job = c.session
      /\ FREE \in Letter /\ FREE \in UpLine /\ FREE.kind = "FREE"
  BY <1>2, Letters, UpLines DEF LineOf, FREE, Line
<1> HIDE DEF e
<1>7. co'[h] = e /\ up'[h] = u \o <<x, FREE>>
  <2> DEFINE ls == <<x, FREE>>
  <2>1. Answer(h, e, ls) BY <1>3
  <2> HIDE DEF ls
  <2>2. co'[h] = e /\ up'[h] = up[h] \o ls BY <1>0, <2>1, AnswerMoves
  <2>3. QED BY <2>2 DEF ls
<1>8. \A r \in Run : engine'[r] = IF r = c.session THEN "ended" ELSE engine[r]
  BY <1>0, <1>1, <1>2 DEF TypeC
<1>s. PICK s \in Job : s = c.session BY <1>2
<1>9. Onward /\ Over(s)' BY <1>1, <1>2, <1>8, <1>s DEF Onward, Over
<1>10. LiveAt(h)' = {}
  <2>1. LiveAt(h) \subseteq {c.session} BY DEF Neat, Coord
  <2>2. LiveAt(h)' \subseteq LiveAt(h) /\ c.session \notin LiveAt(h)'
    BY <1>1, <1>2, <1>8 DEF LiveAt, Live
  <2>3. QED BY <2>1, <2>2
<1>11. /\ Spoken(h)' /\ Reports(h)' /\ Fresh(h)' /\ Files(h)' /\ Turned(h)'
  <2>1. PICK ls : ls = <<x, FREE>> OBVIOUS
  <2>2. ls \in Seq(UpLine) /\ \A i \in DOMAIN ls : ls[i] \in {x, FREE}
    <3> HIDE DEF x
    <3>1. <<x, FREE>> \in Seq(UpLine) /\ \A i \in DOMAIN <<x, FREE>> : <<x, FREE>>[i] \in {x, FREE}
      BY <1>6
    <3>2. QED BY <2>1, <3>1
  <2>3. \A i \in DOMAIN ls : /\ ls[i].kind # "register"
                             /\ ls[i].kind = "jobFinished" => ls[i].job = s
    <3> HIDE DEF x
    <3>1. QED BY <1>6, <1>s, <2>2
  <2>4. \A i \in DOMAIN ls : ls[i].kind = "jobFinished" => Over(ls[i].job)'
    BY <1>9, <2>3
  <2>5. up'[h] = up[h] \o ls BY <1>7, <2>1
  <2>6. /\ co'[h].pc \notin {"off", "register"} /\ co[h].pc # "dead"
        /\ down'[h] = down[h] /\ (co'[h].pc = "file" => co[h].pc = "file")
    BY <1>1, <1>5, <1>7
  <2>7. QED BY <1>1, <1>4, <1>9, <2>2, <2>3, <2>4, <2>5, <2>6, Moved
<1>12. RoadOK(h)'
  <2>1. Sound(RoadOf(c, u, d), Running(h), c.pc # "dead", Held(h), Turn(h), Clear(h), Ticking(h))
    BY DEF Neat, RoadOK, Road
  <2>2. /\ u \in Seq(Letter) /\ d \in Seq(Letter) /\ Up(u) /\ Down(d)
        /\ u \o Mark(c) = u \o <<m>> /\ Ahead(c, d) = d
    <3>1. c.session # None /\ c.pc \notin {"dead", "wait"} BY <1>1, <1>2, JobConstants
    <3>2. QED BY <1>0, <3>1, RoadParts
  <2>3. c.pc # "dead" BY <1>1
  <2>4. u \o <<x, FREE>> = (u \o <<x>>) \o <<FREE>>
    <3> HIDE DEF u, x
    <3>1. u \in Seq(Letter) /\ x \in Letter /\ FREE \in Letter BY <1>6, <2>2
    <3>2. QED BY <3>1
  <2> DEFINE f == FREE
             v == u \o <<x, f>>
  <2>5. v \in Seq(UpLine)
    <3> HIDE DEF u, x, f
    <3>1. QED BY <1>0, <1>6 DEF f
  <2> HIDE DEF c, u, d, m, x, f
  <2>6. Sound((u \o <<m>>) \o d, Running(h), TRUE, Held(h), Turn(h), Clear(h), Ticking(h))
    BY <2>1, <2>2, <2>3 DEF RoadOf
  <2>7. x.job = m.job /\ f \in Letter /\ f.kind = "FREE" BY <1>6 DEF f
  <2>8. Sound(((u \o <<x>>) \o <<f>>) \o d, Running(h), TRUE, Held(h), Turn(h), Clear(h), Ticking(h))
    BY <1>6, <2>2, <2>6, <2>7, Holding, Reported
  <2>9. v = (u \o <<x>>) \o <<f>> BY <2>4 DEF f
  <2>10. RoadOf(e, v, d) = v \o d
    <3> HIDE DEF v
    <3>1. c.pc \notin {"dead", "wait"} BY <1>1 DEF c
    <3>2. v \o Mark(e) = v /\ Ahead(e, d) = d BY <1>0, <1>5, <2>5, <3>1, RoadParts
    <3>3. QED BY <3>2 DEF RoadOf
  <2>11. co'[h].pc # "dead" BY <1>5, <1>7, <2>3
  <2>12. up'[h] = v /\ down'[h] = d BY <1>1, <1>7 DEF f, d
  <2>13. QED BY <1>1, <1>7, <2>8, <2>9, <2>10, <2>11, <2>12, RoadStep
<1>13. Coord(h)' BY <1>1, <1>5, <1>7, <1>10 DEF Neat, Coord
<1>14. QED BY <1>11, <1>12, <1>13 DEF Neat

\* A stop command brings about the lines of EndOfJobStop.
LEMMA EndStop ==
  ASSUME NEW c \in CoRec, NEW u \in Seq(UpLine), NEW t \in Seq(DownLine),
         NEW s \in Letter, s.kind = "JOB_STOP",
         NEW R, NEW held, NEW turn, NEW clear, NEW asked,
         turn # "none" => held, clear => held,
         Sound(((u \o Mark(c)) \o <<s>>) \o t, R, TRUE, held, turn, clear, asked)
  PROVE  /\ c.session # None =>
              Sound((u \o <<FREE, LineOf("jobFinished", c.session), FREE>>) \o t,
                    R, TRUE, held, turn, clear, asked)
         /\ c.session = None => Sound((u \o <<FREE, FREE>>) \o t, R, TRUE, held, turn, clear, asked)
         /\ Sound(u \o Mark(c), R, FALSE, held, turn, clear, asked)
<1> DEFINE m == LineOf("session", c.session)
           x == LineOf("jobFinished", c.session)
           f == FREE
           p == u \o Mark(c)
<1>0. /\ u \in Seq(Letter) /\ Up(u) /\ t \in Seq(Letter) /\ Down(t) /\ p \in Seq(Letter)
      /\ c.session = None => p = u
      /\ c.session # None => c.session \in Job /\ m \in Letter /\ p = u \o <<m>>
  BY RoadParts
<1>1. f \in Letter /\ f.kind = "FREE" BY Letters, UpLines DEF FREE, Line
<1>2. c.session # None => /\ x \in Letter /\ x.kind = "jobFinished" /\ x.job = m.job
                          /\ m.kind = "session"
  BY <1>0, Letters, UpLines DEF LineOf
<1> HIDE DEF m, x, f, p
<1>3. Sound((p \o <<s>>) \o t, R, TRUE, held, turn, clear, asked) BY DEF p
<1>4. ASSUME c.session # None
      PROVE  Sound((u \o <<f, x, f>>) \o t, R, TRUE, held, turn, clear, asked)
  <2>1. Sound(((u \o <<m>>) \o <<s>>) \o t, R, TRUE, held, turn, clear, asked)
    BY <1>0, <1>3, <1>4
  <2>2. Sound((((u \o <<f>>) \o <<x>>) \o <<f>>) \o t, R, TRUE, held, turn, clear, asked)
    BY <1>0, <1>1, <1>2, <1>4, <2>1, StoppedJob
  <2>3. u \o <<f, x, f>> = ((u \o <<f>>) \o <<x>>) \o <<f>>
    <3>0. u \in Seq(Letter) /\ x \in Letter /\ f \in Letter BY <1>0, <1>1, <1>2, <1>4
    <3> HIDE DEF x, f
    <3> DEFINE a == <<f, x>>
               b == <<f>>
               z == <<x>>
    <3>4. a \in Seq(Letter) /\ b \in Seq(Letter) /\ z \in Seq(Letter) /\ <<f, x, f>> \in Seq(Letter) BY <3>0
    <3>3. a \o b = <<f, x, f>>
      <4> DEFINE y == Append(a, f)
      <4>1. <<f, x, f>> \in Seq(Letter) /\ Len(<<f, x, f>>) = 3 /\ <<f, x, f>>[1] = f
            /\ <<f, x, f>>[2] = x /\ <<f, x, f>>[3] = f
        BY <3>0
      <4>2. y \in Seq(Letter) /\ Len(y) = 3 /\ y[1] = f /\ y[2] = x /\ y[3] = f
        BY <3>0, <3>4, AppendProperties
      <4>3. a \o b = y BY <3>0, <3>4, AppendIsConcat
      <4> HIDE DEF y
      <4>4. y = <<f, x, f>> BY <4>1, <4>2, SeqEqual
      <4>5. QED BY <4>3, <4>4
    <3>2. (u \o b) \o z = u \o a
      <4>1. b \o z = a
        <5> DEFINE y == Append(b, x)
        <5>1. a \in Seq(Letter) /\ Len(a) = 2 /\ a[1] = f /\ a[2] = x BY <3>0
        <5>2. y \in Seq(Letter) /\ Len(y) = 2 /\ y[1] = f /\ y[2] = x BY <3>0, <3>4, AppendProperties
        <5>3. b \o z = y BY <3>0, <3>4, AppendIsConcat
        <5> HIDE DEF y, a
        <5>4. y = a BY <5>1, <5>2, SeqEqual
        <5>5. QED BY <5>3, <5>4
      <4> HIDE DEF a, b, z
      <4>2. (u \o b) \o z = u \o (b \o z) BY <3>0, <3>4, ConcatAssociative, SMTT(40)
      <4>3. QED BY <4>1, <4>2
    <3> HIDE DEF a
    <3>5. (u \o a) \o b = u \o (a \o b)
      <4> HIDE DEF b
      <4>1. QED BY <3>0, <3>4, ConcatAssociative
    <3>6. (u \o a) \o b = u \o <<f, x, f>> BY <3>3, <3>5
    <3>7. QED BY <3>2, <3>6
  <2>4. QED BY <2>2, <2>3
<1>5. ASSUME c.session = None
      PROVE  Sound((u \o <<f, f>>) \o t, R, TRUE, held, turn, clear, asked)
  <2>1. Sound((u \o <<s>>) \o t, R, TRUE, held, turn, clear, asked) BY <1>0, <1>3, <1>5
  <2>2. Sound(((u \o <<f>>) \o <<f>>) \o t, R, TRUE, held, turn, clear, asked)
    BY <1>0, <1>1, <2>1, StoppedIdle
  <2>3. u \o <<f, f>> = (u \o <<f>>) \o <<f>> BY <1>0, <1>1, SMTT(40)
  <2>4. QED BY <2>2, <2>3
<1>6. Sound(p, R, FALSE, held, turn, clear, asked)
  <2> DEFINE b == <<s>>
             v == b \o t
  <2>1. b \in Seq(Letter) OBVIOUS
  <2> HIDE DEF b
  <2>2. v \in Seq(Letter) /\ (p \o b) \o t = p \o v
    BY <1>0, <2>1, ConcatAssociative, ConcatProperties
  <2>3. Sound((p \o b) \o t, R, TRUE, held, turn, clear, asked) BY <1>3 DEF b
  <2> HIDE DEF v
  <2>4. QED BY <1>0, <2>2, <2>3, CutOff
<1>7. QED BY <1>4, <1>5, <1>6 DEF x, f, p

\* What EndOfJobStop leaves on the host.
LEMMA StopKills ==
  ASSUME CInv, NEW h \in Host, Coord(h), engine' = Killed(h), where' = where
  PROVE  /\ Onward /\ LiveAt(h)' = {}
         /\ \A s \in Job : s = co[h].session => Over(s)'
<1>0. TypeC /\ co[h] \in CoRec /\ Job \subseteq Run /\ None \notin Run BY Typing
<1>1. \A r \in Run : engine'[r] = IF /\ where[r] = h /\ engine[r] \in Live
                                     /\ co[h].pid \in {r, None}
                                  THEN "dead" ELSE engine[r]
  BY DEF Killed
<1>2. Onward BY <1>1 DEF Onward, Over
<1>3. \A r \in LiveAt(h) : r = co[h].session /\ r # None /\ co[h].pid = r
  BY <1>0 DEF Coord, LiveAt
<1>4. LiveAt(h)' = {}
  <2>1. \A r \in Run : where[r] = h /\ engine[r] \in Live => engine'[r] = "dead"
    BY <1>1, <1>3 DEF LiveAt
  <2>2. \A r \in Run : engine'[r] \in Live => engine[r] \in Live BY <1>1 DEF Live
  <2>3. QED BY <2>1, <2>2 DEF LiveAt, Live
<1>5. ASSUME NEW s \in Job, s = co[h].session PROVE Over(s)'
  <2>1. s \in Run /\ s # None BY <1>0
  <2>2. where[s] = h /\ engine[s] # "none" /\ co[h].pid = s BY <1>5, <2>1 DEF Coord
  <2>3. engine[s] \in Live \/ engine[s] \in {"ended", "dead"} BY <1>0, <2>1, <2>2 DEF TypeC
  <2>4. QED BY <1>1, <2>1, <2>2, <2>3 DEF Over
<1>6. QED BY <1>2, <1>4, <1>5

LEMMA StopEnds ==
  ASSUME CInv, NEW h \in Host, Neat(h), Smooth, Known(h), EndOfJobStop(h),
         UNCHANGED <<dispatcher, where>>, co[h].pc \in {"select", "wait"},
         NEW s \in Letter, s.kind = "JOB_STOP", NEW t \in Seq(DownLine), down'[h] = t,
         t = down[h] \/ (down[h] # <<>> /\ t = Tail(down[h])),
         Sound(((up[h] \o Mark(co[h])) \o <<s>>) \o t, Running(h), TRUE, Held(h), Turn(h),
               Clear(h), Ticking(h))
  PROVE  Neat(h)'
<1> DEFINE c == co[h]
           u == up[h]
           d == down[h]
           x == LineOf("jobFinished", c.session)
           e == [c EXCEPT !.pc = "select", !.then = "none", !.pid = None,
                          !.session = None, !.sock = None]
           z == [c EXCEPT !.pc = "dead"]
<1>0. /\ c \in CoRec /\ TypeOK /\ TypeC /\ u \in Seq(UpLine) /\ d \in Seq(DownLine)
  BY Typing DEF Neat, Spoken
<1>1. /\ e.pc = "select" /\ e.session = None /\ e.sock = None /\ e.active = c.active /\ e \in CoRec
      /\ z.pc = "dead" /\ z.session = c.session /\ z.sock = c.sock /\ z.active = c.active
      /\ z \in CoRec /\ z.pid = c.pid
  BY <1>0 DEF CoRec
<1>2. Onward /\ LiveAt(h)' = {} /\ \A j \in Job : j = c.session => Over(j)'
  BY StopKills DEF EndOfJobStop, Neat
<1>3. c.session \in Job \cup {None} /\ Job \subseteq Run BY <1>0, Typing DEF CoRec
<1>4. /\ c.session # None => Sound((u \o <<FREE, x, FREE>>) \o t, Running(h), TRUE, Held(h),
                                   Turn(h), Clear(h), Ticking(h))
      /\ c.session = None => Sound((u \o <<FREE, FREE>>) \o t, Running(h), TRUE, Held(h),
                                   Turn(h), Clear(h), Ticking(h))
      /\ Sound(u \o Mark(c), Running(h), FALSE, Held(h), Turn(h), Clear(h), Ticking(h))
  <2>1. (Turn(h) # "none" => Held(h)) /\ (Clear(h) => Held(h)) BY Holding
  <2>2. Sound(((u \o Mark(c)) \o <<s>>) \o t, Running(h), TRUE, Held(h), Turn(h), Clear(h), Ticking(h))
    OBVIOUS
  <2> HIDE DEF c, u, d
  <2>3. QED BY <1>0, <2>1, <2>2, EndStop
<1>5. PICK rec, ls :
        /\ Answer(h, rec, ls)
        /\ \/ rec = e /\ c.session # None /\ ls = <<FREE, x, FREE>>
           \/ rec = e /\ c.session = None /\ ls = <<FREE, FREE>>
           \/ rec = z /\ c.session = None /\ ls = <<>>
  BY DEF EndOfJobStop, Dies
<1> HIDE DEF e, z
<1>6. co'[h] = rec /\ up'[h] = u \o ls BY <1>0, <1>5, AnswerMoves
<1>7. /\ ls \in Seq(UpLine)
      /\ \A i \in DOMAIN ls : ls[i] = FREE \/ (c.session # None /\ ls[i] = x)
  <2>1. FREE \in UpLine /\ (c.session # None => x \in UpLine) BY <1>3, UpLines
  <2> HIDE DEF x, c
  <2>2. CASE ls = <<FREE, x, FREE>> /\ c.session # None BY <2>1, <2>2
  <2>3. CASE ls = <<FREE, FREE>> BY <2>1, <2>3
  <2>4. CASE ls = <<>> BY <2>4
  <2>5. QED BY <1>5, <2>2, <2>3, <2>4
<1>8. /\ Spoken(h)' /\ Reports(h)' /\ Fresh(h)' /\ Files(h)' /\ Turned(h)'
  <2>1. FREE.kind = "FREE" /\ x.kind = "jobFinished" /\ x.job = c.session
    BY DEF FREE, Line, LineOf
  <2> HIDE DEF x
  <2>2. \A i \in DOMAIN ls : /\ ls[i].kind # "register"
                             /\ ls[i].kind = "jobFinished" =>
                                  ls[i].job = c.session /\ c.session # None
    BY <1>7, <2>1
  <2>3. \A i \in DOMAIN ls : ls[i].kind = "jobFinished" => Over(ls[i].job)'
    BY <1>2, <1>3, <2>2
  <2>4. co'[h].pc \in {"select", "dead"} BY <1>1, <1>5, <1>6
  <2>5. \/ down'[h] = down[h] /\ (co'[h].pc = "file" => co[h].pc = "file")
        \/ /\ down[h] # <<>> /\ down'[h] = Tail(down[h])
           /\ co'[h].pc = "file" => Head(down[h]).kind = "BG_putFile"
    BY <2>4
  <2>6. QED BY <1>2, <1>6, <1>7, <2>2, <2>3, <2>4, <2>5, Moved
<1>9. RoadOK(h)'
  <2> DEFINE v == u \o ls
  <2>1. v \in Seq(UpLine) BY <1>0, <1>7
  <2>2. CASE rec = e
    <3>1. Sound(v \o t, Running(h), TRUE, Held(h), Turn(h), Clear(h), Ticking(h))
      <4>1. CASE c.session # None /\ ls = <<FREE, x, FREE>> BY <1>4, <4>1
      <4>2. CASE c.session = None /\ ls = <<FREE, FREE>> BY <1>4, <4>2
      <4>3. CASE rec = z BY <1>1, <2>2, <4>3
      <4>4. QED BY <1>5, <4>1, <4>2, <4>3
    <3> HIDE DEF v
    <3>2. v \o Mark(e) = v /\ Ahead(e, t) = t BY <1>1, <2>1, RoadParts
    <3>3. RoadOf(e, v, t) = v \o t BY <3>2 DEF RoadOf
    <3>4. up'[h] = v /\ co'[h] = e /\ co'[h].pc # "dead" BY <1>1, <1>6, <2>2 DEF v
    <3>5. QED BY <3>1, <3>3, <3>4, RoadStep
  <2>3. CASE rec # e
    <3>1. rec = z /\ ls = <<>> BY <1>5, <2>3
    <3>2. u \o ls = u BY <1>0, <3>1, WordOf
    <3>3. Mark(z) = Mark(c) BY <1>1 DEF Mark
    <3>4. RoadOf(z, u, t) = u \o Mark(z) BY <1>0, <1>1, RoadParts
    <3>5. up'[h] = u /\ co'[h] = z /\ co'[h].pc = "dead" BY <1>1, <1>6, <3>1, <3>2
    <3>6. Sound(RoadOf(co'[h], up'[h], down'[h]), Running(h), co'[h].pc # "dead", Held(h),
                Turn(h), Clear(h), Ticking(h))
      BY <1>4, <3>3, <3>4, <3>5
    <3>7. QED BY <3>6, RoadStep
  <2>4. QED BY <2>2, <2>3
<1>10. Coord(h)'
  <2>1. Coord(h) BY DEF Neat
  <2>2. CASE rec = e BY <1>1, <1>2, <1>6, <2>1, <2>2 DEF Coord
  <2>3. CASE rec # e
    <3>1. rec = z /\ c.session = None BY <1>5, <2>3
    <3>2. QED BY <1>1, <1>2, <1>6, <2>1, <3>1 DEF Coord
  <2>4. QED BY <2>2, <2>3
<1>11. QED BY <1>8, <1>9, <1>10 DEF Neat

\* JobStop.
LEMMA JobStopNeat ==
  ASSUME CInv, NEW h \in Host, Neat(h), Smooth, JobStop(h)
  PROVE  Neat(h)'
<1> DEFINE c == co[h]
           u == up[h]
           d == down[h]
           x == Head(d)
           t == Tail(d)
           s == Line("JOB_STOP")
           e == [c EXCEPT !.pc = "wait", !.then = "jobStop"]
<1>0. /\ c \in CoRec /\ TypeOK /\ u \in Seq(UpLine) /\ d \in Seq(DownLine)
  BY Typing DEF Neat, Spoken
<1>1. /\ UNCHANGED <<dispatcher, where>> /\ c.pc = "select" /\ d # <<>> /\ x.kind = "JOB_STOP"
      /\ Take(h) /\ AskJobStop(h)
  BY DEF JobStop, Reads
<1>2. down'[h] = t BY <1>1, TakeMoves
<1>3. Known(h) BY <1>1, ActiveKnown DEF Neat
<1>4. /\ RoadOf(c, u, d) = ((u \o Mark(c)) \o <<x>>) \o t /\ x \in Letter
      /\ t \in Seq(DownLine) /\ t \in Seq(Letter)
  <2>1. c.pc \notin {"dead", "wait"} BY <1>1
  <2> HIDE DEF c, u, d
  <2>2. QED BY <1>0, <1>1, <2>1, ReadAhead
<1>5. Sound(((u \o Mark(c)) \o <<x>>) \o t, Running(h), TRUE, Held(h), Turn(h), Clear(h), Ticking(h))
  <2>1. Sound(RoadOf(c, u, d), Running(h), c.pc # "dead", Held(h), Turn(h), Clear(h), Ticking(h))
    BY DEF Neat, RoadOK, Road
  <2>2. c.pc # "dead" BY <1>1
  <2> HIDE DEF c, u, d, x, t
  <2>3. QED BY <1>4, <2>1, <2>2
<1>6. CASE EndOfJobStop(h)
  <2>1. t = Tail(down[h]) /\ down[h] # <<>> /\ co[h].pc = "select" BY <1>1
  <2>2. Sound(((up[h] \o Mark(co[h])) \o <<x>>) \o t, Running(h), TRUE, Held(h), Turn(h),
              Clear(h), Ticking(h))
    BY <1>5
  <2> HIDE DEF c, u, d, x, t
  <2>3. QED BY <1>1, <1>2, <1>3, <1>4, <1>6, <2>1, <2>2, StopEnds
<1>7. CASE c.sock # None /\ Wait(h, "jobStop") /\ UNCHANGED <<engine, gui>>
  <2>1. Answer(h, e, <<>>) BY <1>7 DEF Wait
  <2>2. /\ e.pc = "wait" /\ e.then = "jobStop" /\ e.session = c.session /\ e.pid = c.pid
        /\ e.sock = c.sock /\ e.active = c.active /\ e \in CoRec
    BY <1>0 DEF CoRec
  <2> HIDE DEF e
  <2>3. co'[h] = e /\ up'[h] = u \o <<>> BY <1>0, <2>1, AnswerMoves
  <2>4. up'[h] = u BY <2>3, NothingSaid
  <2>5. Onward /\ LiveAt(h)' = LiveAt(h) BY <1>1, <1>7, EnginesSame
  <2>6. /\ Spoken(h)' /\ Reports(h)' /\ Fresh(h)' /\ Files(h)' /\ Turned(h)'
    <3> DEFINE ls == <<>>
    <3>1. ls \in Seq(UpLine) /\ \A i \in DOMAIN ls : FALSE OBVIOUS
    <3> HIDE DEF ls
    <3>2. up'[h] = up[h] \o ls BY <2>3 DEF ls
    <3>3. co'[h].pc = "wait" /\ co[h].pc # "dead" /\ down[h] # <<>> /\ down'[h] = Tail(down[h])
      BY <1>1, <1>2, <2>2, <2>3
    <3>4. QED BY <1>1, <1>3, <2>5, <3>1, <3>2, <3>3, Moved
  <2>7. Coord(h)' BY <1>7, <2>2, <2>3, <2>5, CoordKept DEF Neat
  <2>8. RoadOK(h)'
    <3>1. s \in Letter /\ s.kind = "JOB_STOP" /\ s.job = None BY Letters DEF DownKinds, Line
    <3>2. u \o Mark(c) \in Seq(Letter) /\ x.kind = "JOB_STOP" BY <1>0, <1>1, RoadParts
    <3>3. Mark(e) = Mark(c) BY <2>2 DEF Mark
    <3>4. Ahead(e, t) = <<s>> \o t BY <2>2 DEF Ahead, Hold
    <3> DEFINE p == u \o Mark(c)
               b == <<s>>
    <3>5. p \in Seq(Letter) /\ b \in Seq(Letter) BY <3>1, <3>2
    <3>6. Sound((p \o <<x>>) \o t, Running(h), TRUE, Held(h), Turn(h), Clear(h), Ticking(h))
      BY <1>5
    <3>7. RoadOf(e, u, t) = p \o (b \o t) BY <3>3, <3>4 DEF RoadOf
    <3>8. up'[h] = u /\ down'[h] = t /\ co'[h] = e /\ e.pc # "dead" BY <1>2, <2>2, <2>3, <2>4
    <3> HIDE DEF p, x, t, s, c, u, d
    <3>9. Alike(x, s, Running(h))
      <4>1. /\ x \notin Rites /\ s \notin Rites /\ x \in Stops /\ s \in Stops
            /\ x \in Frees /\ s \in Frees
        BY <1>4, <3>1, <3>2, Classes
      <4>2. /\ x \notin Ticks /\ s \notin Ticks /\ x \notin Aborts /\ s \notin Aborts
        BY <1>4, <3>1, <3>2, Classes
      <4>3. /\ x \notin Jobs(Running(h)) /\ s \notin Jobs(Running(h))
            /\ x \in Ends(Running(h)) /\ s \in Ends(Running(h))
        BY <1>4, <3>1, <3>2, Classes
      <4>4. \A i : x \notin Of(i) /\ s \notin Of(i) BY <1>4, <3>1, <3>2, Classes
      <4>5. QED BY <4>1, <4>2, <4>3, <4>4 DEF Alike
    <3>10. Sound((p \o <<s>>) \o t, Running(h), TRUE, Held(h), Turn(h), Clear(h), Ticking(h))
      BY <1>4, <3>1, <3>5, <3>6, <3>9, Swapped
    <3>11. Sound((p \o b) \o t, Running(h), TRUE, Held(h), Turn(h), Clear(h), Ticking(h))
      BY <3>10
    <3> HIDE DEF b
    <3>12. (p \o b) \o t = p \o (b \o t) BY <1>4, <3>5, ConcatAssociative
    <3>13. Sound(RoadOf(co'[h], up'[h], down'[h]), Running(h), co'[h].pc # "dead", Held(h),
                 Turn(h), Clear(h), Ticking(h))
      BY <3>7, <3>8, <3>11, <3>12
    <3>14. QED BY <1>1, <3>13, RoadStep
  <2>9. QED BY <2>6, <2>7, <2>8 DEF Neat
<1>8. QED BY <1>1, <1>6, <1>7 DEF AskJobStop

\* Acknowledged.
LEMMA AcknowledgedNeat ==
  ASSUME CInv, NEW h \in Host, Neat(h), Smooth, Acknowledged(h)
  PROVE  Neat(h)'
<1> DEFINE c == co[h]
           u == up[h]
           d == down[h]
           s == Line("JOB_STOP")
<1>0. /\ c \in CoRec /\ TypeOK /\ u \in Seq(UpLine) /\ d \in Seq(DownLine)
  BY Typing DEF Neat, Spoken
<1>1. /\ UNCHANGED <<dispatcher, down, where>> /\ c.pc = "wait" /\ EndOfJobStop(h)
  <2>1. c.pc = "wait" BY DEF Acknowledged
  <2>2. c.then = "jobStop" BY <2>1 DEF Neat, Coord
  <2>3. QED BY <2>1, <2>2 DEF Acknowledged
<1>2. Known(h) BY <1>1, ActiveKnown DEF Neat
<1>3. s \in Letter /\ s.kind = "JOB_STOP" BY Letters DEF DownKinds, Line
<1>4. Sound(((u \o Mark(c)) \o <<s>>) \o d, Running(h), TRUE, Held(h), Turn(h), Clear(h), Ticking(h))
  <2>1. Sound(RoadOf(c, u, d), Running(h), c.pc # "dead", Held(h), Turn(h), Clear(h), Ticking(h))
    BY DEF Neat, RoadOK, Road
  <2>2. c.pc # "dead" BY <1>1
  <2> DEFINE p == u \o Mark(c)
             b == <<s>>
  <2>3. p \in Seq(Letter) /\ d \in Seq(Letter) /\ Ahead(c, d) = b \o d BY <1>0, <1>1, RoadParts
  <2>4. b \in Seq(Letter) BY <1>3
  <2>5. RoadOf(c, u, d) = p \o (b \o d) BY <2>3 DEF RoadOf
  <2> HIDE DEF p, b, c, u, d, s
  <2>6. (p \o b) \o d = p \o (b \o d) BY <2>3, <2>4, ConcatAssociative
  <2>7. Sound((p \o b) \o d, Running(h), TRUE, Held(h), Turn(h), Clear(h), Ticking(h))
    BY <2>1, <2>2, <2>5, <2>6
  <2>8. QED BY <2>7 DEF p, b
<1>5. Sound(((up[h] \o Mark(co[h])) \o <<s>>) \o d, Running(h), TRUE, Held(h), Turn(h),
            Clear(h), Ticking(h))
  BY <1>4
<1>6. down'[h] = d /\ d = down[h] /\ co[h].pc = "wait" BY <1>1
<1> HIDE DEF c, u, d, s
<1>7. QED BY <1>0, <1>1, <1>2, <1>3, <1>5, <1>6, StopEnds

\* Any step of a coordinator, seen at its own host.
LEMMA CoordinatorNeat ==
  ASSUME CInv, NEW h \in Host, Neat(h), Smooth, Local(h), Coordinator(h) \/ HostCrash(h)
  PROVE  Neat(h)'
<1>1. CASE Boot(h) BY <1>1, BootNeat
<1>2. CASE Registered(h) BY <1>2, RegisteredNeat
<1>3. CASE SetupEnv(h) \/ PutFile(h) \/ GotFile(h) BY <1>3, AnswersNeat
<1>4. CASE TickAnswer(h) BY <1>4, TickNeat
<1>5. CASE BGStart(h) BY <1>5, StartNeat
<1>6. CASE JobStop(h) BY <1>6, JobStopNeat
<1>7. CASE JobAbort(h)
  <2>1. co[h].pc = "select" /\ down[h] # <<>> /\ Head(down[h]).kind = "JOB_ABORT"
    BY <1>7 DEF JobAbort, Reads
  <2>2. QED BY <2>1, NoOrder
<1>8. CASE Acknowledged(h) BY <1>8, AcknowledgedNeat
<1>9. CASE NoAcknowledgement(h)
  <2>1. co[h].pc = "wait" /\ Dies(h, <<>>) /\ UNCHANGED <<dispatcher, down, engine, where>>
    BY <1>9 DEF NoAcknowledgement
  <2>2. QED BY <2>1, DeadNeat
<1>10. CASE SimulationDone(h) BY <1>10, DoneNeat
<1>11. CASE EngineClosed(h) \/ \E r \in Run : EngineConnects(h, r) BY <1>11, SocketNeat
<1>12. CASE HostCrash(h)
  <2>1. /\ co[h].pc \notin {"off", "dead"} /\ Dies(h, <<>>)
        /\ UNCHANGED <<dispatcher, down, engine, where>>
    BY <1>12 DEF HostCrash
  <2>2. QED BY <2>1, DeadNeat
<1>13. QED BY <1>1, <1>2, <1>3, <1>4, <1>5, <1>6, <1>7, <1>8, <1>9, <1>10, <1>11, <1>12
       DEF Coordinator

\* The start command at the head starts a job that has no engine.
LEMMA StartsNew ==
  ASSUME CInv, NEW h \in Host, BGStart(h)
  PROVE  Head(down[h]).job \in Job /\ engine[Head(down[h]).job] = "none"
<1> DEFINE x == Head(down[h])
           j == x.job
<1>1. down[h] # <<>> /\ x.kind = "BG_start" BY DEF BGStart, Reads
<1>2. down[h] \in Seq(Order) BY Typing DEF IInv, Typed
<1>3. x \in Order /\ 1 \in 1 .. Len(down[h]) /\ x = down[h][1] BY <1>1, <1>2
<1> HIDE DEF x
<1>4. j \in Job /\ x = LineOf("BG_start", j) BY <1>1, <1>3 DEF Order, Lines, LineOf
<1> HIDE DEF j
<1>5. Started(down, j) BY <1>3, <1>4 DEF Started, Starts
<1>6. engine[j] = "none" BY <1>4, <1>5, Typing DEF IInv, Places, PlacesWith
<1>7. QED BY <1>4, <1>6 DEF j, x

\* An engine that is over stays so.
LEMMA CoordinatorOnward ==
  ASSUME CInv, NEW h \in Host, Coordinator(h) \/ HostCrash(h)
  PROVE  Onward
<1>0. TypeC BY Typing
<1>1. CASE \/ Boot(h) \/ Registered(h) \/ SetupEnv(h) \/ PutFile(h) \/ GotFile(h)
           \/ TickAnswer(h) \/ NoAcknowledgement(h) \/ EngineClosed(h) \/ HostCrash(h)
  <2>1. engine' = engine
    BY <1>1 DEF Boot, Registered, SetupEnv, PutFile, GotFile, TickAnswer,
                NoAcknowledgement, EngineClosed, HostCrash
  <2>2. QED BY <2>1 DEF Onward, Over
<1>2. CASE BGStart(h)
  <2>1. engine' = [engine EXCEPT ![Head(down[h]).job] = "forked"] BY <1>2 DEF BGStart, Start
  <2>2. QED BY <1>0, <1>2, <2>1, StartsNew DEF Onward, Over, TypeC
<1>3. CASE JobStop(h) \/ JobAbort(h) \/ Acknowledged(h)
  <2>1. \/ engine' = engine \/ engine' = Killed(h) \/ engine' = Signal(h, "up", "paused")
    BY <1>3 DEF JobStop, JobAbort, Acknowledged, AskJobStop, AskAbort, EndOfJobStop, EndOfStop, EndOfAbort
  <2>2. \A r \in Run : engine[r] \in {"ended", "dead"} => engine'[r] \in {"ended", "dead"}
    BY <2>1 DEF Killed, Signal
  <2>3. QED BY <2>2 DEF Onward, Over
<1>4. CASE SimulationDone(h)
  <2>1. engine' = [engine EXCEPT ![co[h].sock] = "ended"] BY <1>4 DEF SimulationDone
  <2>2. QED BY <1>0, <2>1 DEF Onward, Over, TypeC
<1>5. ASSUME NEW r \in Run, EngineConnects(h, r) PROVE Onward
  <2>1. engine[r] = "forked" /\ engine' = [engine EXCEPT ![r] = "up"] BY <1>5 DEF EngineConnects
  <2>2. QED BY <1>0, <2>1 DEF Onward, Over, TypeC
<1>6. QED BY <1>1, <1>2, <1>3, <1>4, <1>5 DEF Coordinator

\* A coordinator's step, seen at every host; an engine's step.
LEMMA HostSteps ==
  ASSUME CInv, \A g \in Host : Neat(g), NEW h \in Host, Coordinator(h) \/ HostCrash(h)
  PROVE  UNCHANGED dispatcher /\ \A g \in Host : Neat(g)'
<1>1. Smooth /\ Local(h) BY CoordinatorMoves DEF CInv
<1>2. Onward BY CoordinatorOnward
<1>3. UNCHANGED dispatcher
  BY DEF Coordinator, HostCrash, BGStart, Boot, Registered, SetupEnv, PutFile, GotFile,
         TickAnswer, JobStop, JobAbort, Acknowledged, NoAcknowledgement, SimulationDone,
         EngineClosed, EngineConnects
<1>4. ASSUME NEW g \in Host, g # h PROVE Neat(g)'
  <2>1. up'[g] = up[g] /\ down'[g] = down[g] /\ co'[g] = co[g] BY <1>1, <1>4 DEF Local
  <2>2. LiveAt(g)' \subseteq LiveAt(g) BY <1>1, <1>4 DEF Local, LiveAt
  <2>3. QED BY <1>1, <1>2, <1>3, <2>1, <2>2, Stays
<1>5. Neat(h)' BY <1>1, CoordinatorNeat
<1>6. QED BY <1>3, <1>4, <1>5

LEMMA EngineSteps ==
  ASSUME CInv, \A g \in Host : Neat(g), NEW r \in Run, EngineDone(r) \/ EngineCrash(r)
  PROVE  UNCHANGED dispatcher /\ \A g \in Host : Neat(g)'
<1>0. TypeC BY Typing
<1>1. UNCHANGED <<dispatcher, up, down, co, where>> BY DEF EngineDone, EngineCrash
<1>2. Smooth BY EngineMoves DEF CInv
<1>3. PICK to \in {"done", "dead"} : engine' = [engine EXCEPT ![r] = to] /\ engine[r] \in Live
  BY DEF EngineDone, EngineCrash, Live
<1>4. \A x \in Run : engine'[x] = IF x = r THEN to ELSE engine[x] BY <1>0, <1>3 DEF TypeC
<1>5. Onward BY <1>3, <1>4 DEF Onward, Over, Live
<1>6. \A g \in Host : LiveAt(g)' \subseteq LiveAt(g) BY <1>1, <1>3, <1>4 DEF LiveAt
<1>7. QED BY <1>1, <1>2, <1>5, <1>6, Stays

-----------------------------------------------------------------------------
(* Roads at a step of the dispatcher.                                      *)

LEMMA ReadOff ==
  ASSUME NEW c \in CoRec, NEW u \in Seq(UpLine), NEW d \in Seq(DownLine), u # <<>>
  PROVE  /\ RoadOf(c, u, d) = <<Head(u)>> \o RoadOf(c, Tail(u), d)
         /\ Head(u) \in UpLine /\ Head(u) \in Letter /\ Tail(u) \in Seq(UpLine)
         /\ RoadOf(c, Tail(u), d) \in Seq(Letter)
<1> DEFINE x == Head(u)
           b == <<x>>
           t == Tail(u)
           m == Mark(c)
           a == Ahead(c, d)
<1>1. x \in UpLine /\ t \in Seq(UpLine) /\ u = b \o t BY WordOf
<1>2. x \in Letter /\ t \in Seq(Letter) BY <1>1, Letters, WordOf
<1>3. m \in Seq(Letter) /\ a \in Seq(Letter) BY RoadParts
<1> HIDE DEF x, t, m, a
<1>4. b \in Seq(Letter) BY <1>2
<1> HIDE DEF b
<1>5. /\ (b \o t) \o m = b \o (t \o m)
      /\ t \o m \in Seq(Letter)
  <2>1. t \in Seq(Letter) BY <1>2
  <2>2. (b \o t) \o m = b \o (t \o m) BY <1>3, <1>4, <2>1, ConcatAssociative, SMTT(40)
  <2>3. QED BY <1>3, <2>1, <2>2, ConcatProperties
<1> DEFINE n == t \o m
<1>6. n \in Seq(Letter) BY <1>5
<1> HIDE DEF n
<1>7. (b \o n) \o a = b \o (n \o a) /\ n \o a \in Seq(Letter)
  BY <1>3, <1>4, <1>6, ConcatAssociative, ConcatProperties, SMTT(40)
<1>8. RoadOf(c, u, d) = b \o RoadOf(c, t, d) /\ RoadOf(c, t, d) \in Seq(Letter)
  BY <1>1, <1>5, <1>7 DEF RoadOf, n, m, a
<1>9. QED BY <1>1, <1>2, <1>8 DEF b, x, t

LEMMA WrittenOn ==
  ASSUME NEW c \in CoRec, NEW u \in Seq(UpLine), NEW d \in Seq(DownLine), NEW l \in DownLine
  PROVE  /\ c.pc # "dead" => RoadOf(c, u, d \o <<l>>) = RoadOf(c, u, d) \o <<l>>
         /\ d \o <<l>> \in Seq(DownLine) /\ l \in Letter
         /\ c.pc = "dead" => \A e \in Seq(DownLine) : RoadOf(c, u, e) = RoadOf(c, u, d)
<1> DEFINE b == <<l>>
           p == u \o Mark(c)
           o == Hold(c)
<1>1. b \in Seq(DownLine) /\ d \o b \in Seq(DownLine) /\ l \in Letter BY Letters
<1>2. b \in Seq(Letter) /\ d \in Seq(Letter) BY <1>1, Letters, WordOf
<1>3. p \in Seq(Letter) /\ Ahead(c, d) \in Seq(Letter) BY RoadParts
<1>4. o \in Seq(Letter)
  <2>1. Line("JOB_STOP") \in Letter BY Letters DEF DownKinds
  <2>2. QED BY <2>1 DEF Hold
<1> HIDE DEF b, p, o
<1>5. ASSUME c.pc # "dead" PROVE RoadOf(c, u, d \o b) = RoadOf(c, u, d) \o b
  <2>1. Ahead(c, d \o b) = o \o (d \o b) /\ Ahead(c, d) = o \o d BY <1>5 DEF Ahead, o
  <2>2. o \o (d \o b) = (o \o d) \o b BY <1>2, <1>4, ConcatAssociative, SMTT(40)
  <2> DEFINE a == o \o d
  <2>3. a \in Seq(Letter) BY <1>3, <2>1
  <2> HIDE DEF a
  <2>a. p \in Seq(Letter) /\ a \in Seq(Letter) /\ b \in Seq(Letter) BY <1>2, <1>3, <2>3
  <2>4. (p \o a) \o b = p \o (a \o b)
    <3>1. \A x, y, z \in Seq(Letter) : (x \o y) \o z = x \o (y \o z) BY ConcatAssociative
    <3>2. QED BY <2>a, <3>1
  <2>5. QED BY <2>1, <2>2, <2>4 DEF RoadOf, p, a
<1>6. c.pc = "dead" => \A e \in Seq(DownLine) : RoadOf(c, u, e) = RoadOf(c, u, d)
  BY DEF RoadOf, Ahead
<1>7. QED BY <1>1, <1>5, <1>6 DEF b

LEMMA SayMoves ==
  ASSUME TypeL, NEW h \in Host, NEW l, Say(h, l)
  PROVE  /\ down'[h] = IF co[h].pc = "dead" THEN down[h] ELSE down[h] \o <<l>>
         /\ \A g \in Host : g # h => down'[g] = down[g]
<1>1. PICK ls : ls = <<l>> OBVIOUS
<1>2. Write(h, ls) BY <1>1 DEF Say
<1>3. /\ down'[h] = IF co[h].pc = "dead" THEN down[h] ELSE down[h] \o ls
      /\ \A g \in Host : g # h => down'[g] = down[g]
  BY <1>2 DEF Write, TypeL
<1>4. QED BY <1>1, <1>3

LEMMA HeardMoves ==
  ASSUME TypeL, NEW h \in Host, Heard(h)
  PROVE  up'[h] = Tail(up[h]) /\ \A g \in Host : g # h => up'[g] = up[g]
BY DEF Heard, TypeL

\* A request of an exchange is written.
LEMMA RiteSaid ==
  ASSUME NEW c \in CoRec, NEW u \in Seq(UpLine), NEW d \in Seq(DownLine), NEW l \in DownLine,
         l \in Rites, NEW e, e = IF c.pc = "dead" THEN d ELSE d \o <<l>>,
         NEW R, NEW turn, NEW clear, NEW asked,
         Sound(RoadOf(c, u, d), R, c.pc # "dead", TRUE, turn, clear, asked)
  PROVE  Sound(RoadOf(c, u, e), R, c.pc # "dead", TRUE, turn, clear, asked)
<1>1. RoadOf(c, u, d) \in Seq(Letter) BY RoadParts
<1>2. CASE c.pc = "dead" BY <1>2
<1>3. CASE c.pc # "dead"
  <2>1. RoadOf(c, u, e) = RoadOf(c, u, d) \o <<l>> /\ l \in Letter BY <1>3, WrittenOn
  <2> DEFINE w == RoadOf(c, u, d)
             live == c.pc # "dead"
  <2>2. w \in Seq(Letter) /\ Sound(w, R, live, TRUE, turn, clear, asked) BY <1>1
  <2> HIDE DEF w, live
  <2>3. Sound(w \o <<l>>, R, live, TRUE, turn, clear, asked) BY <2>1, <2>2, RiteWritten
  <2>4. QED BY <2>1, <2>3 DEF w, live
<1>4. QED BY <1>2, <1>3

\* The road of a host after a step of the dispatcher.
LEMMA RoadIs ==
  ASSUME NEW h, co' = co, NEW R, R = Running(h)',
         NEW held, NEW turn, NEW clear, NEW asked,
         Sound(RoadOf(co[h], up'[h], down'[h]), R, co[h].pc # "dead", held, turn, clear, asked),
         Held(h)' => held, Turn(h)' \in {turn, "none"}, Clear(h)' => clear, asked => Ticking(h)'
  PROVE  RoadOK(h)'
<1>1. PICK w, live, ph, pt, pc, pa :
        /\ w = RoadOf(co[h], up'[h], down'[h]) /\ live = (co[h].pc # "dead")
        /\ ph = Held(h)' /\ pt = Turn(h)' /\ pc = Clear(h)' /\ pa = Ticking(h)'
  OBVIOUS
<1>2. Sound(w, R, live, held, turn, clear, asked) BY <1>1
<1>3. pt = turn \/ pt = "none" BY <1>1
<1>4. (ph => held) /\ (pc => clear) /\ (asked => pa) BY <1>1
<1>5. Sound(w, R, live, ph, pt, pc, pa)
  <2>1. /\ Sound(w, R, live, ph, turn, pc, pa) /\ Sound(w, R, live, ph, "none", pc, pa)
    BY <1>2, <1>4 DEF Sound, Spare
  <2>2. QED BY <1>3, <2>1
<1>6. Sound(RoadOf(co'[h], up'[h], down'[h]), Running(h)', co'[h].pc # "dead", Held(h)', Turn(h)',
            Clear(h)', Ticking(h)')
  BY <1>1, <1>5
<1>7. QED BY <1>6 DEF RoadOK, Road

-----------------------------------------------------------------------------
(* What a step of the dispatcher keeps.                                    *)

\* A host that the dispatcher is not concerned with; a job of it may be
\* taken off the record.
LEMMA Aside ==
  ASSUME CInv, NEW g \in Host, Neat(g), UNCHANGED <<co, engine, where>>,
         up'[g] = up[g], down'[g] = down[g], Known(g)' <=> Known(g), status'[g] = status[g],
         ~Addressed(g), ~Addressed(g)', Clear(g)' => Clear(g),
         NEW j, Running(g)' = Running(g) \ {j}
  PROVE  Neat(g)'
<1>0. co[g] \in CoRec /\ up[g] \in Seq(UpLine) /\ down[g] \in Seq(DownLine)
  BY Typing DEF Neat, Spoken
<1>1. /\ ~Busy(g) /\ ~Putting(g) /\ ~Ticking(g) /\ Turn(g) = "none"
      /\ Held(g) <=> status[g] = "FREE"
  BY DEF Addressed, Busy, Putting, Ticking, Turn, Held, Dispatching
<1>2. /\ ~Busy(g)' /\ ~Putting(g)' /\ ~Ticking(g)' /\ Turn(g)' = "none"
      /\ Held(g)' <=> status'[g] = "FREE"
  BY DEF Addressed, Busy, Putting, Ticking, Turn, Held, Dispatching
<1>3. Spoken(g)' /\ Turned(g)' BY <1>2 DEF Neat, Spoken, Turned
<1>4. Reports(g)'
  <2>1. \A i \in DOMAIN up[g] : up[g][i].kind = "jobFinished" => engine[up[g][i].job] \in {"ended", "dead"}
    BY DEF Neat, Reports, Over
  <2>2. QED BY <2>1 DEF Reports, Over
<1>5. Coord(g)' BY DEF Neat, Coord, LiveAt
<1>6. Fresh(g)' BY DEF Neat, Fresh
<1>7. Files(g)' BY <1>1, <1>2 DEF Neat, Files, Filing, Fed
<1>8. RoadOK(g)'
  <2> DEFINE w == RoadOf(co[g], up[g], down[g])
             live == co[g].pc # "dead"
             held == Held(g)
             clear == Clear(g)
             R == Running(g)
  <2>1. w \in Seq(Letter) BY <1>0, RoadParts
  <2>a. Sound(w, R, live, held, Turn(g), clear, Ticking(g)) BY DEF Neat, RoadOK, Road
  <2>b. Turn(g) = "none" /\ Ticking(g) = FALSE BY <1>1
  <2>2. Sound(w, R, live, held, "none", clear, FALSE)
    <3> HIDE DEF w, R, live, held, clear
    <3>1. QED BY <2>a, <2>b
  <2>3. clear => held BY Holding
  <2> HIDE DEF w, R, live, held, clear
  <2>4. Sound(w, R \ {j}, live, held, "none", clear, FALSE) BY <2>1, <2>2, <2>3, Reclass
  <2>5. PICK S : S = R \ {j} OBVIOUS
  <2>6. S = Running(g)' BY <2>5 DEF R
  <2>7. PICK he, cl : he = held /\ cl = clear OBVIOUS
  <2>8. Sound(RoadOf(co[g], up'[g], down'[g]), S, co[g].pc # "dead", he, "none", cl, FALSE)
    BY <2>4, <2>5, <2>7 DEF w, live
  <2>9. (Held(g)' => he) /\ Turn(g)' \in {"none", "none"} /\ (Clear(g)' => cl)
    BY <1>1, <1>2, <2>7 DEF held, clear
  <2>10. QED BY <2>6, <2>8, <2>9, RoadIs
<1>9. QED BY <1>3, <1>4, <1>5, <1>6, <1>7, <1>8 DEF Neat

\* One line more on the way to a host.
LEMMA FedOn ==
  ASSUME NEW d \in Seq(DownLine), NEW l \in DownLine, NEW p \in BOOLEAN, NEW q \in BOOLEAN, Fed(d, p),
         l.kind = "file" \/ ~p, l.kind = "BG_putFile" => q
  PROVE  Fed(d \o <<l>>, q)
<1> DEFINE e == d \o <<l>>
           n == Len(d)
<1>1. n \in Nat /\ DOMAIN d = 1 .. n OBVIOUS
<1>2. /\ DOMAIN e = 1 .. n + 1 /\ Len(e) = n + 1 /\ e[n + 1] = l
      /\ \A i \in 1 .. n : e[i] = d[i]
  OBVIOUS
<1> HIDE DEF e, n
<1>3. \A i \in 1 .. n : d[i].kind = "BG_putFile" => IF i = n THEN p ELSE d[i + 1].kind = "file"
  BY <1>1 DEF Fed, n
<1> SUFFICES ASSUME NEW i \in 1 .. n + 1, e[i].kind = "BG_putFile"
             PROVE  IF i = n + 1 THEN q ELSE e[i + 1].kind = "file"
  BY <1>2 DEF Fed, e
<1>4. CASE i = n + 1 BY <1>2, <1>4
<1>5. CASE i = n BY <1>1, <1>2, <1>3, <1>5
<1>6. CASE i \in 1 .. n - 1
  <2>1. i + 1 \in 1 .. n /\ i # n /\ i \in 1 .. n BY <1>1, <1>6
  <2>2. QED BY <1>2, <1>3, <2>1
<1>7. QED BY <1>1, <1>4, <1>5, <1>6

\* A host that is served and that the dispatcher reads a line of, or writes a
\* line to.
LEMMA Spoke ==
  ASSUME CInv, NEW h \in Host, Neat(h), UNCHANGED <<co, engine, where>>, Known(h), Known(h)',
         up'[h] = up[h] \/ (up[h] # <<>> /\ up'[h] = Tail(up[h])),
         NEW l \in DownLine,
         \/ down'[h] = down[h] /\ (Putting(h) => Putting(h)' \/ co[h].pc = "dead")
         \/ /\ down'[h] = IF co[h].pc = "dead" THEN down[h] ELSE down[h] \o <<l>>
            /\ l.kind = "file" \/ ~Putting(h)
            /\ l.kind = "BG_putFile" => Putting(h)'
  PROVE  Spoken(h)' /\ Reports(h)' /\ Coord(h)' /\ Fresh(h)' /\ Files(h)'
<1> DEFINE u == up[h]
           d == down[h]
           live == co[h].pc # "dead"
<1>0. u \in Seq(UpLine) /\ d \in Seq(DownLine) BY DEF Neat, Spoken
<1>1. /\ up'[h] \in Seq(UpLine)
      /\ \A i \in DOMAIN up'[h] : \E k \in DOMAIN u : up'[h][i] = u[k]
  <2>1. CASE up'[h] = u BY <1>0, <2>1
  <2>2. CASE u # <<>> /\ up'[h] = Tail(u)
    <3>1. Tail(u) \in Seq(UpLine) /\ \A i \in DOMAIN Tail(u) : i + 1 \in DOMAIN u /\ Tail(u)[i] = u[i + 1]
      BY <1>0, <2>2, WordOf
    <3>2. QED BY <2>2, <3>1
  <2>3. QED BY <2>1, <2>2
<1>a. down'[h] = d \/ (live /\ down'[h] = d \o <<l>>) OBVIOUS
<1>b. d \o <<l>> \in Seq(DownLine) BY <1>0
<1>c. d # <<>> => d \o <<l>> # <<>> /\ Head(d \o <<l>>) = Head(d) BY <1>0
<1>2. /\ down'[h] \in Seq(DownLine)
      /\ d # <<>> => down'[h] # <<>> /\ Head(down'[h]) = Head(d)
  BY <1>0, <1>a, <1>b, <1>c
<1>3. Spoken(h)' BY <1>1, <1>2 DEF Spoken
<1>4. Reports(h)'
  <2>1. \A i \in DOMAIN u : u[i].kind = "jobFinished" => engine[u[i].job] \in {"ended", "dead"}
    BY DEF Neat, Reports, Over
  <2>2. QED BY <1>1, <2>1 DEF Reports, Over
<1>5. Coord(h)' BY DEF Neat, Coord, LiveAt
<1>6. Fresh(h)'
  <2>1. Served(co[h], u, d) BY DEF Neat, Fresh
  <2>2. \A i \in DOMAIN up'[h] : up'[h][i].kind # "register" BY <1>1, <2>1 DEF Served
  <2>3. co[h].pc = "register" => down'[h] # <<>> /\ Head(down'[h]).kind = "OK"
    BY <1>2, <2>1 DEF Served
  <2>4. Served(co'[h], up'[h], down'[h]) BY <2>1, <2>2, <2>3 DEF Served
  <2>5. QED BY <2>4 DEF Fresh
<1>7. Files(h)'
  <2> SUFFICES ASSUME live
               PROVE /\ Fed(down'[h], Putting(h)')
                     /\ co[h].pc = "file" => IF down'[h] = <<>> THEN Putting(h)' ELSE Head(down'[h]).kind = "file"
    BY DEF Files, Filing
  <2>1. PICK p \in BOOLEAN, q \in BOOLEAN : p = Putting(h) /\ q = Putting(h)' BY DEF Putting
  <2>2. /\ Fed(d, p)
        /\ co[h].pc = "file" => IF d = <<>> THEN p ELSE Head(d).kind = "file"
    BY <2>1 DEF Neat, Files, Filing
  <2>3. CASE down'[h] = d /\ (p => q)
    <3>1. Fed(d, q) BY <2>2, <2>3 DEF Fed
    <3>2. QED BY <2>1, <2>2, <2>3, <3>1
  <2>4. CASE down'[h] = d \o <<l>> /\ (l.kind = "file" \/ ~p) /\ (l.kind = "BG_putFile" => q)
    <3>1. Fed(d \o <<l>>, q) BY <1>0, <2>2, <2>4, FedOn
    <3>2. d = <<>> => Head(d \o <<l>>) = l OBVIOUS
    <3>3. d # <<>> => Head(d \o <<l>>) = Head(d) BY <1>0
    <3>4. d \o <<l>> # <<>> BY <1>0
    <3>5. QED BY <2>1, <2>2, <2>4, <3>1, <3>2, <3>3, <3>4
  <2>5. QED BY <2>1, <2>3, <2>4
<1>8. QED BY <1>3, <1>4, <1>5, <1>6, <1>7

\* Jobs on record at a host.
LEMMA RunsOn ==
  ASSUME CInv, coor' = coor, NEW j,
         \/ jobMap' = jobMap
         \/ \E s \in {"none", "WAITING", "FINISHED"} : jobMap' = [jobMap EXCEPT ![j] = s]
  PROVE  \A g \in Host : Running(g)' = Running(g) \/ Running(g)' = Running(g) \ {j}
<1>0. TypeD BY Typing
<1>1. CASE jobMap' = jobMap BY <1>1 DEF Running
<1>2. ASSUME NEW s \in {"none", "WAITING", "FINISHED"}, jobMap' = [jobMap EXCEPT ![j] = s]
      PROVE  \A g \in Host : Running(g)' = Running(g) \ {j}
  <2>1. \A i \in Job : jobMap'[i] = IF i = j THEN s ELSE jobMap[i] BY <1>0, <1>2 DEF TypeD
  <2>2. QED BY <1>2, <2>1 DEF Running
<1>3. QED BY <1>1, <1>2

LEMMA NoneRuns ==
  ASSUME CInv, NEW g PROVE Running(g) = Running(g) \ {None}
BY JobConstants DEF Running

\* What anyFreeHost finds.
LEMMA FreeHostFound ==
  ASSUME CInv
  PROVE  /\ anyFreeHost = None => \A g \in Host : Known(g) => status[g] # "FREE"
         /\ anyFreeHost # None => /\ anyFreeHost \in Host /\ Known(anyFreeHost)
                                  /\ status[anyFreeHost] = "FREE"
<1> DEFINE free == {i \in DOMAIN entry : status[entry[i]] = "FREE"}
           m == CHOOSE i \in free : \A k \in free : i <= k
<1>0. entry \in Seq(Host) /\ None \notin Host BY Typing DEF TypeD
<1>1. CASE free = {}
  <2>1. anyFreeHost = None BY <1>1 DEF anyFreeHost
  <2>2. QED BY <1>1, <2>1 DEF Known
<1>2. CASE free # {}
  <2>1. free \in SUBSET Nat /\ \A i \in DOMAIN entry : entry[i] \in Host BY <1>0
  <2>2. \E n \in free : \A k \in free : n <= k
    <3> HIDE DEF free
    <3>1. QED BY <1>2, <2>1, LeastIndex
  <2>3. m \in free BY <2>2
  <2>4. anyFreeHost = entry[m] BY <1>2 DEF anyFreeHost
  <2> HIDE DEF m
  <2>5. m \in DOMAIN entry /\ status[entry[m]] = "FREE" BY <2>3
  <2>6. QED BY <1>0, <2>1, <2>4, <2>5 DEF Known
<1>3. QED BY <1>1, <1>2

-----------------------------------------------------------------------------
(* Steps of the dispatcher at select that begin no exchange.               *)

\* The books, when a job that is on record ceases to run.
LEMMA BooksKept ==
  ASSUME CInv, Filed, Settled, UNCHANGED <<queue, disp, submitted>>, NEW j,
         \/ jobMap' = jobMap
         \/ /\ j \in Job /\ jobMap[j] # "none"
            /\ \E s \in {"none", "WAITING", "FINISHED"} : jobMap' = [jobMap EXCEPT ![j] = s]
  PROVE  Filed' /\ Settled'
<1>0. TypeD BY Typing
<1>1. \A i \in Job : /\ jobMap'[i] # "none" => jobMap[i] # "none"
                     /\ jobMap'[i] = "RUNNING" => jobMap[i] = "RUNNING"
  BY <1>0 DEF TypeD
<1>2. Filed' BY <1>1 DEF Filed, Member
<1>3. Settled' BY <1>1 DEF Settled, Member, Loading, Dispatching
<1>4. QED BY <1>2, <1>3

LEMMA HeardKnown ==
  ASSUME CInv, NEW h \in Host, Neat(h), up[h] # <<>>, Head(up[h]).kind # "register"
  PROVE  Known(h)
<1>1. \A l : Head(<<l>>) = l OBVIOUS
<1>2. Line("register").kind = "register" BY DEF Line
<1>3. QED BY <1>1, <1>2 DEF Neat, Fresh, Young, Gone

LEMMA FreeKnown ==
  ASSUME NEW h \in Host, Neat(h), status[h] = "FREE" \/ Addressed(h)
  PROVE  Known(h)
BY DEF Neat, Fresh

\* At select no host is addressed.
LEMMA AtRest ==
  ASSUME disp.pc = "select", NEW g
  PROVE  /\ ~Addressed(g) /\ ~Busy(g) /\ ~Putting(g) /\ Turn(g) = "none" /\ Ticking(g) = FALSE
         /\ Held(g) <=> status[g] = "FREE"
BY DEF Addressed, Busy, Putting, Turn, Ticking, Held, Dispatching

\* A step at select that concerns no host.
LEMMA RestAside ==
  ASSUME CInv, NEW g \in Host, Neat(g), UNCHANGED <<co, engine, where, disp, entry, queue>>,
         up'[g] = up[g], down'[g] = down[g], status'[g] = status[g], disp.pc = "select",
         NEW j, Running(g)' = Running(g) \/ Running(g)' = Running(g) \ {j}
  PROVE  Neat(g)'
<1>1. ~Addressed(g) /\ ~Addressed(g)' BY DEF Addressed
<1>2. (Known(g)' <=> Known(g)) /\ (Clear(g)' => Clear(g)) BY DEF Known, Clear
<1>3. Running(g)' = Running(g) \ {j} \/ Running(g)' = Running(g) \ {None} BY NoneRuns
<1>4. QED BY <1>1, <1>2, <1>3, Aside

\* A line is read that says nothing of a job that runs.
LEMMA ReadDrops ==
  ASSUME CInv, NEW h \in Host, Neat(h), disp.pc = "select", up[h] # <<>>,
         UNCHANGED <<co, engine, where, disp, entry, queue, down, status>>, Heard(h),
         Head(up[h]).kind # "register", NEW j, Running(h)' = Running(h) \ {j},
         Head(up[h]) \notin Jobs(Running(h) \ {j})
  PROVE  Neat(h)'
<1> DEFINE u == up[h]
           d == down[h]
           c == co[h]
           x == Head(u)
           v == RoadOf(c, Tail(u), d)
           live == c.pc # "dead"
           held == Held(h)
           clear == Clear(h)
           R == Running(h)
<1>0. TypeL /\ c \in CoRec /\ u \in Seq(UpLine) /\ d \in Seq(DownLine)
  BY Typing DEF Neat, Spoken
<1>1. up'[h] = Tail(u) BY <1>0, HeardMoves
<1>2. Known(h) /\ Known(h)' BY HeardKnown DEF Known
<1>3. Line("OK") \in DownLine BY DownLines DEF DownKinds
<1>4. Putting(h)' = Putting(h) BY DEF Putting
<1>5. Spoken(h)' /\ Reports(h)' /\ Coord(h)' /\ Fresh(h)' /\ Files(h)'
  BY <1>1, <1>2, <1>3, <1>4, Spoke
<1>6. Turned(h)' BY DEF Neat, Turned, Busy, Dispatching
<1>7. RoadOK(h)'
  <2>1. RoadOf(c, u, d) = <<x>> \o v /\ x \in Letter /\ v \in Seq(Letter) BY <1>0, ReadOff
  <2>2. Turn(h) = "none" /\ Ticking(h) = FALSE BY AtRest
  <2>3. Sound(RoadOf(c, u, d), R, live, held, Turn(h), clear, Ticking(h))
    BY DEF Neat, RoadOK, Road
  <2>4. (clear => held) /\ x \notin Jobs(R \ {j}) BY Holding
  <2> DEFINE w == <<x>> \o v
  <2>5. w \in Seq(Letter) BY <2>1
  <2>6. RoadOf(c, u, d) = w BY <2>1
  <2> HIDE DEF w, R, live, held, clear, v, x
  <2>7. Sound(w, R, live, held, "none", clear, FALSE) BY <2>2, <2>3, <2>6
  <2>8. Sound(w, R \ {j}, live, held, "none", clear, FALSE) BY <2>4, <2>5, <2>7, Reclass
  <2>9. PICK S : S = R \ {j} OBVIOUS
  <2>10. Sound(<<x>> \o v, S, live, held, "none", clear, FALSE) BY <2>8, <2>9 DEF w
  <2>11. Sound(v, S, live, held, "none", clear, FALSE) BY <2>1, <2>4, <2>9, <2>10, Dropped
  <2>12. PICK he, cl : he = held /\ cl = clear OBVIOUS
  <2>13. Sound(RoadOf(co[h], up'[h], down'[h]), S, co[h].pc # "dead", he, "none", cl, FALSE)
    BY <1>1, <2>11, <2>12 DEF v, live
  <2>14. (Held(h)' => he) /\ Turn(h)' \in {"none", "none"} /\ (Clear(h)' => cl)
    <3>1. (Held(h)' => Held(h)) /\ Turn(h)' = Turn(h) /\ (Clear(h)' => Clear(h))
      BY DEF Held, Turn, Clear, Busy, Dispatching
    <3>2. QED BY <2>2, <2>12, <3>1 DEF held, clear
  <2>15. S = Running(h)' BY <2>9 DEF R
  <2>16. QED BY <2>13, <2>14, <2>15, RoadIs
<1>8. QED BY <1>5, <1>6, <1>7 DEF Neat

LEMMA JobFinishedAll ==
  ASSUME CInv, All, NEW h \in Host, JobFinished(h)
  PROVE  All'
<1> DEFINE x == Head(up[h])
           j == x.job
<1>0. TypeD /\ TypeL /\ Neat(h) BY Typing DEF All
<1>1. /\ disp.pc = "select" /\ up[h] # <<>> /\ x.kind = "jobFinished" /\ Heard(h)
      /\ UNCHANGED <<queue, coor, entry, status, disp, down, co, engine, where, submitted>>
      /\ jobMap' = IF jobMap[j] = "none" THEN jobMap ELSE [jobMap EXCEPT ![j] = "FINISHED"]
  BY DEF JobFinished
<1>2. x \in UpLine /\ x \in Letter
  <2>1. up[h] \in Seq(UpLine) BY <1>0 DEF Neat, Spoken
  <2>2. QED BY <1>1, <2>1, WordOf, Letters
<1>3. j \in Job BY <1>1, <1>2 DEF UpLine
<1>4. \A g \in Host : Running(g)' = Running(g) \ {j}
  <2>1. CASE jobMap[j] = "none"
    <3>1. jobMap' = jobMap BY <1>1, <2>1
    <3>2. QED BY <1>1, <2>1, <3>1 DEF Running
  <2>2. CASE jobMap[j] # "none"
    <3>1. \A i \in Job : jobMap'[i] = IF i = j THEN "FINISHED" ELSE jobMap[i]
      BY <1>0, <1>1, <2>2 DEF TypeD
    <3>2. QED BY <1>1, <3>1 DEF Running
  <2>3. QED BY <2>1, <2>2
<1>5. Filed' /\ Settled' BY <1>1, <1>3, BooksKept DEF All
<1>6. Placed' BY <1>1 DEF All, Placed
<1>7. ASSUME NEW g \in Host, g # h PROVE Neat(g)'
  <2>1. up'[g] = up[g] BY <1>0, <1>1, <1>7, HeardMoves
  <2>2. Neat(g) BY DEF All
  <2>3. QED BY <1>1, <1>4, <2>1, <2>2, RestAside
<1>8. Neat(h)'
  <2>1. x \notin Jobs(Running(h) \ {j})
    <3>1. PICK S : S = Running(h) \ {j} OBVIOUS
    <3>2. x.job \notin S /\ x.kind = "jobFinished" BY <1>1, <3>1
    <3> HIDE DEF x, j
    <3>3. x \notin Jobs(S) BY <1>2, <3>2, Classes
    <3>4. QED BY <3>1, <3>3
  <2>2. x.kind # "register" BY <1>1
  <2> HIDE DEF x, j
  <2>3. QED BY <1>0, <1>1, <1>4, <2>1, <2>2, ReadDrops DEF x
<1>9. QED BY <1>5, <1>6, <1>7, <1>8 DEF All

LEMMA IgnoreLineAll ==
  ASSUME CInv, All, NEW h \in Host, IgnoreLine(h)
  PROVE  All'
<1> DEFINE x == Head(up[h])
<1>0. TypeD /\ TypeL /\ Neat(h) BY Typing DEF All
<1>1. /\ disp.pc = "select" /\ up[h] # <<>> /\ x.kind \notin {"register", "FREE", "jobFinished"}
      /\ Heard(h)
      /\ UNCHANGED <<queue, coor, entry, status, disp, down, co, engine, where, submitted, jobMap>>
  BY DEF IgnoreLine, dispatcher
<1>2. x \in UpLine /\ x \in Letter
  <2>1. up[h] \in Seq(UpLine) BY <1>0 DEF Neat, Spoken
  <2>2. QED BY <1>1, <2>1, WordOf, Letters
<1>4. \A g \in Host : Running(g)' = Running(g) BY <1>1 DEF Running
<1>5. Filed' /\ Settled' BY <1>1, BooksKept DEF All
<1>6. Placed' BY <1>1 DEF All, Placed
<1>7. ASSUME NEW g \in Host, g # h PROVE Neat(g)'
  <2>1. up'[g] = up[g] BY <1>0, <1>1, <1>7, HeardMoves
  <2>2. Neat(g) BY DEF All
  <2>3. QED BY <1>1, <1>4, <2>1, <2>2, RestAside
<1>8. Neat(h)'
  <2>1. x \notin Jobs(Running(h) \ {None})
    <3>1. x.kind \notin {"session", "BG_start"} BY <1>2 DEF UpLine, UpKinds
    <3>2. QED BY <1>1, <1>2, <3>1, Classes
  <2>2. x.kind # "register" BY <1>1
  <2>3. Running(h)' = Running(h) \ {None} BY <1>4, NoneRuns
  <2> HIDE DEF x
  <2>4. QED BY <1>0, <1>1, <2>1, <2>2, <2>3, ReadDrops DEF x
<1>9. QED BY <1>5, <1>6, <1>7, <1>8 DEF All

\* Users who delete, abort or stop a job.
LEMMA DeleteAll ==
  ASSUME CInv, All, NEW j \in Job, disp.pc = "select", jobMap[j] # "none",
         NEW s \in {"none", "FINISHED"}, jobMap' = jobMap \/ jobMap' = [jobMap EXCEPT ![j] = s],
         UNCHANGED <<queue, coor, entry, status, disp, up, down, co, engine, where, submitted>>
  PROVE  All'
<1>1. Filed' /\ Settled' BY BooksKept DEF All
<1>2. Placed' BY DEF All, Placed
<1>3. ASSUME NEW g \in Host PROVE Neat(g)'
  <2>1. Running(g)' = Running(g) \/ Running(g)' = Running(g) \ {j} BY RunsOn
  <2>2. Neat(g) BY DEF All
  <2>3. QED BY <2>1, <2>2, RestAside
<1>4. QED BY <1>1, <1>2, <1>3 DEF All

LEMMA AbortAll ==
  ASSUME CInv, All, NEW j \in Job, AbortJob(j), JobsKept'
  PROVE  All'
<1> DEFINE l == LineOf("JOB_ABORT", j)
<1>1. /\ disp.pc = "select" /\ jobMap[j] # "none" /\ Command(j, l, "none")
      /\ UNCHANGED <<queue, coor, entry, status, disp, up, co, engine, where, submitted>>
  BY DEF AbortJob
<1>2. l.kind = "JOB_ABORT" /\ ~misled' BY DEF LineOf, JobsKept
<1> HIDE DEF l
<1>3. down' = down /\ jobMap' = [jobMap EXCEPT ![j] = "none"] BY <1>1, <1>2, Commanded
<1>4. QED BY <1>1, <1>3, DeleteAll

LEMMA StopAll ==
  ASSUME CInv, All, NEW j \in Job, StopJob(j), JobsKept'
  PROVE  All'
<1> DEFINE l == LineOf("JOB_STOP", j)
<1>h. PICK h : h = coor[j] OBVIOUS
<1>0. TypeD /\ TypeL BY Typing
<1>1. /\ disp.pc = "select" /\ jobMap[j] # "none"
      /\ UNCHANGED <<queue, coor, entry, status, disp, up, co, engine, where, submitted>>
      /\ \/ down' = down /\ (jobMap' = jobMap \/ jobMap' = [jobMap EXCEPT ![j] = "FINISHED"])
         \/ /\ jobMap[j] = "RUNNING" /\ Say(h, l) /\ h # None /\ Known(h)
            /\ jobMap' = [jobMap EXCEPT ![j] = "FINISHED"]
  <2>1. Command(j, l, "FINISHED") /\ ~misled' BY DEF StopJob, JobsKept
  <2>2. None \notin Host BY JobConstants
  <2>3. /\ disp.pc = "select" /\ jobMap[j] # "none"
        /\ UNCHANGED <<queue, coor, entry, status, disp, up, co, engine, where, submitted>>
    BY DEF StopJob
  <2> HIDE DEF l
  <2>4. \/ jobMap[j] # "RUNNING" /\ down' = down /\ jobMap' = [jobMap EXCEPT ![j] = "FINISHED"]
        \/ down' = down /\ (jobMap' = jobMap \/ jobMap' = [jobMap EXCEPT ![j] = "FINISHED"])
        \/ /\ jobMap[j] = "RUNNING" /\ jobMap' = [jobMap EXCEPT ![j] = "FINISHED"]
           /\ \E g \in Host : Known(g) /\ Say(g, l) /\ g = coor[j]
    BY <2>1, Commanded
  <2>5. ASSUME NEW g \in Host, Known(g), Say(g, l), g = coor[j]
        PROVE  Say(h, l) /\ h # None /\ Known(h)
    BY <1>h, <2>2, <2>5
  <2>6. QED BY <2>3, <2>4, <2>5
<1>2. CASE down' = down /\ (jobMap' = jobMap \/ jobMap' = [jobMap EXCEPT ![j] = "FINISHED"])
  BY <1>1, <1>2, DeleteAll
<1>3. CASE /\ jobMap[j] = "RUNNING" /\ Say(h, l) /\ h # None /\ Known(h)
           /\ jobMap' = [jobMap EXCEPT ![j] = "FINISHED"]
  <2>0. h \in Host /\ j \in Running(h) BY <1>h, <1>0, <1>3 DEF TypeD, Running
  <2>1. Filed' /\ Settled' BY <1>1, <1>3, BooksKept DEF All
  <2>2. Placed' BY <1>1 DEF All, Placed
  <2>3. /\ down'[h] = IF co[h].pc = "dead" THEN down[h] ELSE down[h] \o <<l>>
        /\ \A g \in Host : g # h => down'[g] = down[g]
    BY <1>0, <1>3, <2>0, SayMoves
  <2>4. \A g \in Host : Running(g)' = Running(g) \ {j}
    <3>1. \A i \in Job : jobMap'[i] = IF i = j THEN "FINISHED" ELSE jobMap[i]
      BY <1>0, <1>3 DEF TypeD
    <3>2. QED BY <1>1, <3>1 DEF Running
  <2>5. ASSUME NEW g \in Host, g # h PROVE Neat(g)'
    <3>1. Neat(g) BY DEF All
    <3>2. QED BY <1>1, <2>3, <2>4, <2>5, <3>1, RestAside
  <2>6. Neat(h)'
    <3>0. Neat(h) /\ co[h] \in CoRec /\ l \in DownLine /\ l.kind = "JOB_STOP"
      BY <2>0, Typing, DownLines DEF All, DownKinds, LineOf
    <3>1. up[h] \in Seq(UpLine) /\ down[h] \in Seq(DownLine) BY <3>0 DEF Neat, Spoken
    <3> HIDE DEF l
    <3>2. ~Putting(h) /\ Turn(h) = "none" /\ Ticking(h) = FALSE BY <1>1, AtRest
    <3>3. Known(h)' BY <1>1, <1>3 DEF Known
    <3>4. Spoken(h)' /\ Reports(h)' /\ Coord(h)' /\ Fresh(h)' /\ Files(h)'
      BY <1>1, <1>3, <2>0, <2>3, <3>0, <3>2, <3>3, Spoke
    <3>5. Turned(h)' BY <1>1, <3>0 DEF Neat, Turned, Busy, Dispatching
    <3>6. RoadOK(h)'
      <4> DEFINE w == RoadOf(co[h], up[h], down[h])
                 live == co[h].pc # "dead"
                 held == Held(h)
                 clear == Clear(h)
                 R == Running(h)
      <4>1. Sound(w, R, live, held, Turn(h), clear, Ticking(h)) BY <3>0 DEF Neat, RoadOK, Road
      <4>2. w \in Seq(Letter) BY <3>0, <3>1, RoadParts
      <4>3. (clear => held) /\ j \in R BY <2>0, Holding
      <4>4. /\ l \in Letter /\ live => RoadOf(co[h], up[h], down[h] \o <<l>>) = w \o <<l>>
        BY <3>0, <3>1, WrittenOn
      <4>5. l \in Letter BY <3>0, <3>1, WrittenOn
      <4> DEFINE z == RoadOf(co[h], up'[h], down'[h])
      <4>6. live => z = w \o <<l>>
        <5>1. up'[h] = up[h] BY <1>1
        <5>2. live => RoadOf(co[h], up[h], down[h] \o <<l>>) = w \o <<l>> BY <3>0, <3>1, WrittenOn
        <5>3. QED BY <2>3, <5>1, <5>2
      <4>7. ~live => z = w BY <1>1, <2>3
      <4>8. PICK he, cl, S, li : he = held /\ cl = clear /\ S = R \ {j} /\ li = live OBVIOUS
      <4>9. (Held(h)' => he) /\ Turn(h)' \in {"none", "none"} /\ (Clear(h)' => cl)
        <5>1. (Held(h)' => Held(h)) /\ Turn(h)' = Turn(h) /\ (Clear(h)' => Clear(h))
          BY <1>1 DEF Held, Turn, Clear, Busy, Dispatching
        <5>2. QED BY <3>2, <4>8, <5>1
      <4>10. S = Running(h)' BY <2>0, <2>4, <4>8
      <4>11. li = (co[h].pc # "dead") BY <4>8
      <4> HIDE DEF w, R, live, held, clear, z
      <4>12. Sound(w, R, live, held, "none", clear, FALSE) BY <3>2, <4>1
      <4>13. Sound(z, S, li, he, "none", cl, FALSE)
        <5>1. CASE live
          <6>1. Sound(w, R, TRUE, held, "none", clear, FALSE)
            BY <4>12, <5>1 DEF live
          <6>2. Sound(w \o <<l>>, R \ {j}, TRUE, held, "none", clear, FALSE)
            BY <3>0, <4>2, <4>3, <4>5, <6>1, StopWritten
          <6>3. live = TRUE BY <5>1 DEF live
          <6>4. QED BY <4>6, <4>8, <5>1, <6>2, <6>3
        <5>2. CASE ~live
          <6>1. Sound(w, R \ {j}, live, held, "none", clear, FALSE) BY <4>2, <4>3, <4>12, Reclass
          <6>2. QED BY <4>7, <4>8, <5>2, <6>1
        <5>3. QED BY <5>1, <5>2
      <4>14. Sound(RoadOf(co[h], up'[h], down'[h]), S, co[h].pc # "dead", he, "none", cl, FALSE)
        BY <4>11, <4>13 DEF z
      <4>15. co' = co BY <1>1
      <4>16. QED BY <4>9, <4>10, <4>14, <4>15, RoadIs
    <3>7. QED BY <3>4, <3>5, <3>6 DEF Neat
  <2>7. QED BY <2>1, <2>2, <2>5, <2>6 DEF All
<1>4. QED BY <1>1, <1>2, <1>3

\* A coordinator that is gone is taken off the list.
LEMMA RemoveHostAll ==
  ASSUME CInv, All, NEW h \in Host, RemoveHost(h)
  PROVE  All'
<1>0. TypeD /\ TypeL /\ Neat(h) BY Typing DEF All
<1>1. /\ disp.pc = "select" /\ up[h] = <<>> /\ co[h].pc = "dead"
      /\ status' = [status EXCEPT ![h] = "BUSY"]
      /\ UNCHANGED <<queue, coor, disp, up, down, co, engine, where, submitted, jobMap>>
  BY DEF RemoveHost
<1>2. PICK i \in DOMAIN entry : /\ entry[i] = h
        /\ entry' = SubSeq(entry, 1, i - 1) \o SubSeq(entry, i + 1, Len(entry))
  BY DEF RemoveHost
<1>3. ASSUME NEW g \in Host, g # h PROVE Known(g)' <=> Known(g)
  <2> DEFINE a == SubSeq(entry, 1, i - 1)
             b == SubSeq(entry, i + 1, Len(entry))
             n == Len(entry)
  <2>0. entry \in Seq(Host) /\ n \in Nat /\ i \in 1 .. n /\ DOMAIN entry = 1 .. n
    BY <1>0 DEF TypeD
  <2>1. a \in Seq(Host) /\ Len(a) = i - 1 /\ \A k \in 1 .. i - 1 : a[k] = entry[k]
    BY <2>0
  <2>2. b \in Seq(Host) /\ Len(b) = n - i /\ \A k \in 1 .. n - i : b[k] = entry[i + k]
    BY <2>0
  <2> HIDE DEF a, b, n
  <2>3. /\ DOMAIN (a \o b) = 1 .. n - 1
        /\ \A k \in 1 .. n - 1 : (a \o b)[k] = IF k <= i - 1 THEN a[k] ELSE b[k - (i - 1)]
    BY <2>0, <2>1, <2>2
  <2>4. \A k \in 1 .. n - 1 : (a \o b)[k] = IF k <= i - 1 THEN entry[k] ELSE entry[k + 1]
    <3> TAKE k \in 1 .. n - 1
    <3>1. CASE k <= i - 1 BY <2>0, <2>1, <2>3, <3>1
    <3>2. CASE ~(k <= i - 1)
      <4>1. k - (i - 1) \in 1 .. n - i /\ i + (k - (i - 1)) = k + 1 BY <2>0, <3>2
      <4>2. QED BY <2>2, <2>3, <3>2, <4>1
    <3>3. QED BY <3>1, <3>2
  <2>5. entry' = a \o b BY <1>2 DEF a, b, n
  <2>6. Known(g)' => Known(g)
    <3> SUFFICES ASSUME NEW k \in 1 .. n - 1, (a \o b)[k] = g PROVE Known(g)
      BY <2>3, <2>5 DEF Known
    <3>1. k \in DOMAIN entry /\ k + 1 \in DOMAIN entry BY <2>0
    <3>2. QED BY <2>4, <3>1 DEF Known
  <2>7. Known(g) => Known(g)'
    <3> SUFFICES ASSUME NEW k \in 1 .. n, entry[k] = g PROVE Known(g)'
      BY <2>0 DEF Known
    <3>1. k # i BY <1>2, <1>3
    <3>2. CASE k < i
      <4>1. k \in 1 .. n - 1 /\ k <= i - 1 BY <2>0, <3>2
      <4>2. (a \o b)[k] = g BY <2>4, <4>1
      <4>3. QED BY <2>3, <2>5, <4>1, <4>2 DEF Known
    <3>3. CASE k > i
      <4>1. k - 1 \in 1 .. n - 1 /\ ~(k - 1 <= i - 1) /\ (k - 1) + 1 = k BY <2>0, <3>3
      <4>2. (a \o b)[k - 1] = g BY <2>4, <4>1
      <4>3. QED BY <2>3, <2>5, <4>1, <4>2 DEF Known
    <3>4. QED BY <2>0, <3>1, <3>2, <3>3
  <2>8. QED BY <2>6, <2>7
<1>4. Filed' /\ Settled' BY <1>1, BooksKept DEF All
<1>5. Placed' BY <1>1 DEF All, Placed
<1>6. \A g \in Host : Running(g)' = Running(g) BY <1>1 DEF Running
<1>7. \A g \in Host : status'[g] = IF g = h THEN "BUSY" ELSE status[g] BY <1>0, <1>1 DEF TypeD
<1>8. ASSUME NEW g \in Host, g # h PROVE Neat(g)'
  <2>1. Neat(g) BY DEF All
  <2>2. ~Addressed(g) /\ ~Addressed(g)' BY <1>1 DEF Addressed
  <2>3. Clear(g)' => Clear(g) BY <1>1, <1>7, <1>8 DEF Clear
  <2>4. Running(g)' = Running(g) \ {None} BY <1>6, NoneRuns
  <2>5. status'[g] = status[g] BY <1>7, <1>8
  <2>6. QED BY <1>1, <1>3, <1>8, <2>1, <2>2, <2>3, <2>4, <2>5, Aside
<1>9. Neat(h)'
  <2>0. Turn(h) = "none" /\ Ticking(h) = FALSE /\ ~Busy(h) /\ ~Putting(h) BY <1>1, AtRest
  <2>1. ~Held(h)' /\ Turn(h)' = "none" /\ ~Clear(h)' /\ ~Busy(h)' /\ ~Addressed(h)'
    BY <1>1, <1>7 DEF Held, Turn, Clear, Busy, Dispatching, Addressed
  <2>2. Known(h) BY <1>2 DEF Known
  <2>3. Spoken(h)' /\ Turned(h)' BY <1>0, <1>1, <2>1 DEF Neat, Spoken, Turned
  <2>4. Reports(h)'
    <3>1. \A k \in DOMAIN up[h] : up[h][k].kind = "jobFinished" => engine[up[h][k].job] \in {"ended", "dead"}
      BY <1>0 DEF Neat, Reports, Over
    <3>2. QED BY <1>1, <3>1 DEF Reports, Over
  <2>5. Coord(h)' BY <1>0, <1>1 DEF Neat, Coord, LiveAt
  <2>6. Fresh(h)'
    <3>1. Served(co[h], up[h], down[h])' BY <1>0, <1>1, <2>2 DEF Neat, Fresh, Served
    <3>2. status'[h] = "BUSY" BY <1>7
    <3>3. Gone(co[h], up[h])' BY <1>1 DEF Gone
    <3>4. QED BY <2>1, <3>1, <3>2, <3>3 DEF Fresh
  <2>7. Files(h)' BY <1>1 DEF Files, Filing
  <2>8. RoadOK(h)'
    <3>1. Sound(RoadOf(co[h], up[h], down[h]), Running(h), co[h].pc # "dead", Held(h), Turn(h),
                Clear(h), Ticking(h))
      BY <1>0 DEF Neat, RoadOK, Road
    <3>2. PICK R, he, cl : R = Running(h) /\ he = Held(h) /\ cl = Clear(h) OBVIOUS
    <3>3. Sound(RoadOf(co[h], up'[h], down'[h]), R, co[h].pc # "dead", he, "none", cl, FALSE)
      BY <1>1, <2>0, <3>1, <3>2
    <3>4. R = Running(h)' /\ co' = co /\ Turn(h)' \in {"none", "none"} BY <1>1, <1>6, <2>1, <3>2
    <3>5. QED BY <2>1, <3>3, <3>4, RoadIs
  <2>9. QED BY <2>3, <2>4, <2>5, <2>6, <2>7, <2>8 DEF Neat
<1>10. QED BY <1>4, <1>5, <1>8, <1>9 DEF All

-----------------------------------------------------------------------------
(* Steps of an exchange.                                                   *)

LEMMA BooksSame ==
  ASSUME CInv, Filed, Settled, UNCHANGED <<queue, jobMap, submitted>>,
         \A j \in Job : Loading(j)' => Loading(j)
  PROVE  Filed' /\ Settled'
<1>1. Filed' BY DEF Filed, Member
<1>2. Settled' BY DEF Settled, Member
<1>3. QED BY <1>1, <1>2

LEMMA Idles ==
  ASSUME disp' = AtSelect
  PROVE  /\ \A j : ~Loading(j)'
         /\ \A g : ~Addressed(g)' /\ ~Busy(g)' /\ ~Putting(g)' /\ Turn(g)' = "none" /\ ~Ticking(g)'
         /\ \A g : Held(g)' <=> status'[g] = "FREE"
         /\ Placed'
BY DEF AtSelect, Loading, Addressed, Busy, Putting, Turn, Held, Ticking, Dispatching, Placed

\* The host of an exchange is one the dispatcher knows.
LEMMA Partner ==
  ASSUME CInv, All, disp.pc \in {"env", "put", "get", "tick", "setup"}
  PROVE  /\ disp.host \in Host /\ Neat(disp.host) /\ Known(disp.host)
         /\ up[disp.host] \in Seq(UpLine) /\ down[disp.host] \in Seq(DownLine)
         /\ co[disp.host] \in CoRec
         /\ \A g \in Host : g # disp.host => ~Addressed(g)
         /\ up[disp.host] # <<>> => Head(up[disp.host]).kind \in UpKinds \ {"register"}
<1>1. disp.host \in Host BY DEF All, Placed
<1>2. Neat(disp.host) BY <1>1 DEF All
<1>3. Addressed(disp.host) BY DEF Addressed
<1>4. Known(disp.host) BY <1>1, <1>2, <1>3, FreeKnown
<1>5. up[disp.host] \in Seq(UpLine) /\ down[disp.host] \in Seq(DownLine)
  BY <1>2 DEF Neat, Spoken
<1>6. ASSUME up[disp.host] # <<>> PROVE Head(up[disp.host]).kind \in UpKinds \ {"register"}
  <2>1. Head(up[disp.host]) \in UpLine /\ Head(up[disp.host]) = up[disp.host][1] /\ 1 \in DOMAIN up[disp.host]
    BY <1>5, <1>6, WordOf
  <2>2. Served(co[disp.host], up[disp.host], down[disp.host]) BY <1>2, <1>4 DEF Neat, Fresh
  <2>3. Head(up[disp.host]).kind # "register" BY <2>1, <2>2 DEF Served
  <2>4. QED BY <2>1, <2>3 DEF UpLine
<1>7. co[disp.host] \in CoRec BY <1>1, Typing
<1>8. QED BY <1>1, <1>2, <1>4, <1>5, <1>6, <1>7 DEF Addressed

\* An answer is read, the next request is written.
LEMMA AnswerAll ==
  ASSUME CInv, All, NEW pc, NEW next, NEW request,
         <<pc, next, request>> \in {<<"env", "put", "BG_putFile">>, <<"put", "get", "file">>},
         DispatchAnswer(pc, next, request)
  PROVE  All'
<1> DEFINE l == Line(request)
<1>h. PICK h : h = disp.host OBVIOUS
<1>0. TypeL /\ disp \in DispRec BY Typing DEF TypeD
<1>1. /\ disp.pc = pc /\ up[h] # <<>> /\ Heard(h) /\ Say(h, l)
      /\ disp' = [disp EXCEPT !.pc = next]
      /\ UNCHANGED <<queue, jobMap, coor, entry, status, co, engine, where, submitted>>
  BY <1>h DEF DispatchAnswer
<1>2. disp'.pc = next /\ disp'.host = h /\ disp'.caller = disp.caller /\ disp'.run = disp.run
  BY <1>h, <1>0, <1>1 DEF DispRec
<1>3. /\ h \in Host /\ Neat(h) /\ Known(h)
      /\ up[h] \in Seq(UpLine) /\ down[h] \in Seq(DownLine) /\ co[h] \in CoRec
      /\ \A g \in Host : g # h => ~Addressed(g)
      /\ Head(up[h]).kind \in UpKinds \ {"register"}
  BY <1>h, <1>1, Partner
<1>4. l \in DownLine /\ l \in Letter /\ l \in Rites /\ l.kind = request
  <2>1. l \in DownLine /\ l.kind = request BY DownLines DEF DownKinds, Line
  <2>2. l \in Letter BY <2>1, Letters
  <2> HIDE DEF l
  <2>3. QED BY <2>1, <2>2, Classes
<1> HIDE DEF l
<1>5. up'[h] = Tail(up[h]) /\ \A g \in Host : g # h => up'[g] = up[g]
  BY <1>0, <1>1, <1>3, HeardMoves
<1>6. /\ down'[h] = IF co[h].pc = "dead" THEN down[h] ELSE down[h] \o <<l>>
      /\ \A g \in Host : g # h => down'[g] = down[g]
  BY <1>0, <1>1, <1>3, SayMoves
<1>7. Filed' /\ Settled'
  <2>1. \A j \in Job : Loading(j)' => Loading(j) BY <1>1, <1>2 DEF Loading, Dispatching
  <2>2. QED BY <1>1, <2>1, BooksSame DEF All
<1>8. Placed' BY <1>2, <1>3 DEF Placed
<1>9. \A g \in Host : Running(g)' = Running(g) BY <1>1 DEF Running
<1>10. ASSUME NEW g \in Host, g # h PROVE Neat(g)'
  <2>1. Neat(g) BY DEF All
  <2>2. ~Addressed(g) /\ ~Addressed(g)' BY <1>2, <1>3, <1>10 DEF Addressed
  <2>3. (Known(g)' <=> Known(g)) /\ (Clear(g)' => Clear(g)) BY <1>1 DEF Known, Clear
  <2>4. Running(g)' = Running(g) \ {None} BY <1>9, NoneRuns
  <2>5. QED BY <1>1, <1>5, <1>6, <1>10, <2>1, <2>2, <2>3, <2>4, Aside
<1>11. Neat(h)'
  <2>1. Known(h)' BY <1>1, <1>3 DEF Known
  <2>2. (l.kind = "file" \/ ~Putting(h)) /\ (l.kind = "BG_putFile" => Putting(h)')
    BY <1>1, <1>2, <1>4 DEF Putting
  <2>3. Spoken(h)' /\ Reports(h)' /\ Coord(h)' /\ Fresh(h)' /\ Files(h)'
    BY <1>1, <1>3, <1>4, <1>5, <1>6, <2>1, <2>2, Spoke
  <2>4. Busy(h) /\ Busy(h)' BY <1>h, <1>1, <1>2 DEF Busy, Dispatching
  <2>5. Turned(h)' BY <1>1, <1>2, <1>3, <2>4 DEF Neat, Turned
  <2>6. RoadOK(h)'
    <3> DEFINE t == Tail(up[h])
               x == Head(up[h])
    <3>1. PICK v, R, live, turn, clear, nt :
            /\ v = RoadOf(co[h], t, down[h]) /\ R = Running(h) /\ live = (co[h].pc # "dead")
            /\ turn = Turn(h) /\ clear = Clear(h) /\ nt = IF turn = "none" THEN "none" ELSE next
      OBVIOUS
    <3>2. /\ RoadOf(co[h], up[h], down[h]) = <<x>> \o v /\ x \in Letter /\ t \in Seq(UpLine)
          /\ v \in Seq(Letter)
      BY <1>1, <1>3, <3>1, ReadOff
    <3>3. Sound(RoadOf(co[h], up[h], down[h]), Running(h), co[h].pc # "dead", Held(h), Turn(h),
                Clear(h), Ticking(h))
      BY <1>3 DEF Neat, RoadOK, Road
    <3>4. Held(h) = TRUE /\ Ticking(h) = FALSE BY <1>1, <2>4 DEF Held, Ticking, Busy, Dispatching
    <3>5. Sound(<<x>> \o v, R, live, TRUE, turn, clear, FALSE) BY <3>1, <3>2, <3>3, <3>4
    <3>6. turn \in {pc, "none"} BY <1>1, <3>1 DEF Turn
    <3> HIDE DEF x
    <3>7. /\ Sound(v, R, live, TRUE, "none", clear, FALSE)
          /\ turn = "env" => Sound(v, R, live, TRUE, "put", clear, FALSE)
          /\ turn = "put" => Sound(v, R, live, TRUE, "get", clear, FALSE)
      BY <1>3, <3>2, <3>5, AnswerRead DEF x
    <3>8. Sound(v, R, live, TRUE, nt, clear, FALSE) BY <3>1, <3>6, <3>7
    <3>9. PICK e : e = IF co[h].pc = "dead" THEN down[h] ELSE down[h] \o <<l>> OBVIOUS
    <3>10. Sound(RoadOf(co[h], t, e), R, co[h].pc # "dead", TRUE, nt, clear, FALSE)
      <4>1. Sound(RoadOf(co[h], t, down[h]), R, co[h].pc # "dead", TRUE, nt, clear, FALSE)
        BY <3>1, <3>8
      <4> HIDE DEF t
      <4>2. QED BY <1>3, <1>4, <3>2, <3>9, <4>1, RiteSaid
    <3>11. Sound(RoadOf(co[h], up'[h], down'[h]), R, co[h].pc # "dead", TRUE, nt, clear, FALSE)
      BY <1>5, <1>6, <3>9, <3>10
    <3>12. R = Running(h)' /\ co' = co BY <1>1, <1>3, <1>9, <3>1
    <3>13. Turn(h)' \in {nt, "none"}
      <4>1. Turn(h) = IF disp.caller = "setStatus" THEN pc ELSE "none" BY <1>1, <2>4 DEF Turn
      <4>2. Turn(h)' = IF disp.caller = "setStatus" THEN next ELSE "none" BY <1>2, <2>4 DEF Turn
      <4>3. pc # "none" OBVIOUS
      <4>4. QED BY <3>1, <4>1, <4>2, <4>3
    <3>14. Clear(h)' => clear BY <1>1, <3>1 DEF Clear
    <3>15. QED BY <3>11, <3>12, <3>13, <3>14, RoadIs
  <2>7. QED BY <2>3, <2>5, <2>6 DEF Neat
<1>12. QED BY <1>3, <1>7, <1>8, <1>10, <1>11 DEF All

\* What a caller makes of the result concerns its own host.
LEMMA StatusMoves ==
  ASSUME CInv, NEW h \in Host, NEW caller, NEW r, status' = StatusAfter(status, h, caller, r)
  PROVE  /\ \A g \in Host : g # h => status'[g] = status[g]
         /\ r = "neg" => status'[h] = IF caller = "setStatus" THEN "FREE" ELSE status[h]
         /\ r = "nonneg" => status'[h] = IF caller = "registServer" THEN "BUSY" ELSE status[h]
BY Typing DEF StatusAfter, TypeD

\* The job is started.
LEMMA DispatchedAll ==
  ASSUME CInv, All, Dispatched, JobsKept'
  PROVE  All'
<1>h. PICK h, j, l : h = disp.host /\ j = disp.run /\ l = LineOf("BG_start", j) OBVIOUS
<1>0. TypeL /\ TypeD /\ TypeOK BY Typing
<1>1. /\ disp.pc = "get" /\ up[h] # <<>> /\ Head(up[h]).kind = "File get" /\ Heard(h) /\ Say(h, l)
      /\ jobMap' = [jobMap EXCEPT ![j] = "RUNNING"] /\ coor' = [coor EXCEPT ![j] = h]
      /\ disp' = AtSelect
      /\ UNCHANGED <<queue, entry, co, engine, where, submitted>>
  BY <1>h DEF Dispatched
<1>2. status' = StatusAfter(status, h, disp.caller, "nonneg")
  <2>1. \E r : misled' = (misled \/ status' # StatusAfter(status, h, disp.caller, "nonneg"))
    BY <1>h DEF Dispatched
  <2>2. ~misled' BY DEF JobsKept
  <2>3. QED BY <2>1, <2>2
<1>3. /\ h \in Host /\ Neat(h) /\ Known(h)
      /\ up[h] \in Seq(UpLine) /\ down[h] \in Seq(DownLine) /\ co[h] \in CoRec
      /\ \A g \in Host : g # h => ~Addressed(g)
  BY <1>h, <1>1, Partner
<1>4. j \in Job /\ Loading(j)
  <2>1. Dispatching BY <1>1 DEF Dispatching
  <2>2. QED BY <1>h, <2>1, Typing DEF IInv, Typed, Loading
<1>5. Member(submitted, j) /\ ~Member(queue, j) BY <1>4, Typing DEF IInv, Places, PlacesWith
<1>6. l \in DownLine /\ l \in Letter /\ l.kind = "BG_start" /\ l.job = j
  <2>1. l \in DownLine BY <1>h, <1>4, DownLines DEF DownKinds
  <2>2. QED BY <1>h, <2>1, Letters DEF LineOf
<1>7. up'[h] = Tail(up[h]) /\ \A g \in Host : g # h => up'[g] = up[g]
  BY <1>0, <1>1, <1>3, HeardMoves
<1>8. /\ down'[h] = IF co[h].pc = "dead" THEN down[h] ELSE down[h] \o <<l>>
      /\ \A g \in Host : g # h => down'[g] = down[g]
  BY <1>0, <1>1, <1>3, SayMoves
<1>9. /\ \A i \in Job : jobMap'[i] = IF i = j THEN "RUNNING" ELSE jobMap[i]
      /\ \A i \in Job : coor'[i] = IF i = j THEN h ELSE coor[i]
  BY <1>0, <1>1, <1>4 DEF TypeD
<1>10. Filed'
  <2>1. \A i \in Job : jobMap'[i] # "none" => i = j \/ jobMap[i] # "none" BY <1>9
  <2>2. QED BY <1>1, <1>5, <2>1 DEF All, Filed, Member
<1>11. Settled'
  <2>1. \A i \in Job : jobMap'[i] = "RUNNING" => i = j \/ jobMap[i] = "RUNNING" BY <1>9
  <2>2. \A i \in Job : jobMap'[i] = "RUNNING" => ~Member(queue, i) BY <1>5, <2>1 DEF All, Settled
  <2>3. QED BY <1>1, <2>2, Idles DEF Settled, Member
<1>12. Placed' BY <1>1, Idles
<1>13. /\ \A g \in Host : g # h => status'[g] = status[g]
       /\ status'[h] = IF disp.caller = "registServer" THEN "BUSY" ELSE status[h]
  BY <1>2, <1>3, StatusMoves
<1>14. ASSUME NEW g \in Host, g # h PROVE Neat(g)'
  <2>1. Neat(g) BY DEF All
  <2>2. ~Addressed(g) /\ ~Addressed(g)' BY <1>1, <1>3, <1>14, Idles
  <2>3. (Known(g)' <=> Known(g)) /\ (Clear(g)' => Clear(g)) BY <1>1, <1>13, <1>14 DEF Known, Clear
  <2>4. Running(g)' = Running(g) \ {j} BY <1>9, <1>14 DEF Running
  <2>5. status'[g] = status[g] BY <1>13, <1>14
  <2>6. QED BY <1>1, <1>7, <1>8, <1>14, <2>1, <2>2, <2>3, <2>4, <2>5, Aside
<1>15. Neat(h)'
  <2>1. Known(h)' BY <1>1, <1>3 DEF Known
  <2>2. ~Putting(h) BY <1>1 DEF Putting
  <2>3. Spoken(h)' /\ Reports(h)' /\ Coord(h)' /\ Fresh(h)' /\ Files(h)'
    BY <1>1, <1>3, <1>6, <1>7, <1>8, <2>1, <2>2, Spoke
  <2>4. Busy(h) BY <1>h, <1>1 DEF Busy, Dispatching
  <2>5. Turned(h)' BY <1>1, Idles DEF Turned
  <2>6. status'[h] = "BUSY" BY <1>3, <1>13, <2>4 DEF Neat, Turned
  <2>7. ~Held(h)' /\ ~Clear(h)' /\ Turn(h)' = "none" BY <1>1, <2>6, Idles DEF Clear
  <2>8. RoadOK(h)'
    <3> DEFINE t == Tail(up[h])
               x == Head(up[h])
    <3>1. PICK v, R, live, turn, clear, S :
            /\ v = RoadOf(co[h], t, down[h]) /\ R = Running(h) /\ live = (co[h].pc # "dead")
            /\ turn = Turn(h) /\ clear = Clear(h) /\ S = R \cup {j}
      OBVIOUS
    <3>2. /\ RoadOf(co[h], up[h], down[h]) = <<x>> \o v /\ x \in Letter /\ t \in Seq(UpLine)
          /\ v \in Seq(Letter)
      BY <1>1, <1>3, <3>1, ReadOff
    <3>3. Sound(RoadOf(co[h], up[h], down[h]), Running(h), co[h].pc # "dead", Held(h), Turn(h),
                Clear(h), Ticking(h))
      BY <1>3 DEF Neat, RoadOK, Road
    <3>4. Held(h) = TRUE /\ Ticking(h) = FALSE BY <1>1, <2>4 DEF Held, Ticking, Busy, Dispatching
    <3>5. Sound(<<x>> \o v, R, live, TRUE, turn, clear, FALSE) BY <3>1, <3>2, <3>3, <3>4
    <3>6. x \in Rites BY <1>1, <3>2, Classes
    <3> HIDE DEF x
    <3>7. /\ Sound(v, R \cup {j}, FALSE, FALSE, "none", FALSE, FALSE)
          /\ live => Sound(v \o <<l>>, R \cup {j}, TRUE, FALSE, "none", FALSE, FALSE)
      <4>1. v \in Seq(Letter) /\ x \in Letter /\ x \in Rites /\ l \in Letter BY <1>6, <3>2, <3>6
      <4>2. l.kind = "BG_start" /\ l.job = j BY <1>6
      <4>3. ASSUME live PROVE Sound(v \o <<l>>, R \cup {j}, TRUE, FALSE, "none", FALSE, FALSE)
        BY <3>5, <4>1, <4>2, <4>3, StartWritten
      <4>4. Sound(v, R \cup {j}, FALSE, FALSE, "none", FALSE, FALSE)
        BY <3>5, <4>1, <4>2, StartWritten
      <4>5. QED BY <4>3, <4>4
    <3>8. PICK w : w = RoadOf(co[h], up'[h], down'[h]) OBVIOUS
    <3>9. CASE co[h].pc = "dead"
      <4>1. w = v BY <1>7, <1>8, <3>1, <3>8, <3>9
      <4>2. (co[h].pc # "dead") = FALSE BY <3>9
      <4>3. Sound(w, S, co[h].pc # "dead", FALSE, "none", FALSE, FALSE) BY <3>1, <3>7, <4>1, <4>2
      <4>4. S = Running(h)' BY <1>3, <1>4, <1>9, <3>1 DEF Running
      <4>5. QED BY <1>1, <2>7, <3>8, <4>3, <4>4, RoadIs
    <3>10. CASE co[h].pc # "dead"
      <4>1. w = v \o <<l>>
        <5>1. RoadOf(co[h], t, down[h] \o <<l>>) = RoadOf(co[h], t, down[h]) \o <<l>>
          <6> HIDE DEF t
          <6>1. QED BY <1>3, <1>6, <3>2, <3>10, WrittenOn
        <5>2. QED BY <1>7, <1>8, <3>1, <3>8, <3>10, <5>1
      <4>2. (co[h].pc # "dead") = TRUE /\ live BY <3>1, <3>10
      <4>3. Sound(w, S, co[h].pc # "dead", FALSE, "none", FALSE, FALSE) BY <3>1, <3>7, <4>1, <4>2
      <4>4. S = Running(h)' BY <1>3, <1>4, <1>9, <3>1 DEF Running
      <4>5. QED BY <1>1, <2>7, <3>8, <4>3, <4>4, RoadIs
    <3>11. QED BY <3>9, <3>10
  <2>9. QED BY <2>3, <2>5, <2>8 DEF Neat
<1>16. QED BY <1>10, <1>11, <1>12, <1>14, <1>15 DEF All

\* The books and the other hosts at a step that ends an exchange, or that
\* begins one that loads no job.
LEMMA OtherHosts ==
  ASSUME CInv, All, NEW h \in Host, UNCHANGED <<queue, jobMap, coor, entry, co, engine, where, submitted>>,
         \A j \in Job : ~Loading(j)',
         \A g \in Host : g # h =>
           /\ up'[g] = up[g] /\ down'[g] = down[g] /\ status'[g] = status[g]
           /\ ~Addressed(g) /\ ~Addressed(g)'
  PROVE  /\ Filed' /\ Settled' /\ \A g \in Host : g # h => Neat(g)'
         /\ \A g \in Host : Running(g)' = Running(g) /\ (Known(g)' <=> Known(g))
<1>1. Filed' /\ Settled' BY BooksSame DEF All
<1>2. \A g \in Host : Running(g)' = Running(g) /\ (Known(g)' <=> Known(g)) BY DEF Running, Known
<1>3. ASSUME NEW g \in Host, g # h PROVE Neat(g)'
  <2>1. Neat(g) BY DEF All
  <2>2. Clear(g)' => Clear(g) BY <1>3 DEF Clear
  <2>3. Running(g)' = Running(g) \ {None} BY <1>2, NoneRuns
  <2>4. QED BY <1>2, <1>3, <2>1, <2>2, <2>3, Aside
<1>4. QED BY <1>1, <1>2, <1>3

\* The last answer is not the one that was expected.
LEMMA FailedAll ==
  ASSUME CInv, All, DispatchFailed
  PROVE  All'
<1>h. PICK h : h = disp.host OBVIOUS
<1>0. TypeL BY Typing
<1>1. /\ disp.pc = "get" /\ up[h] # <<>> /\ Heard(h) /\ disp' = AtSelect
      /\ status' = StatusAfter(status, h, disp.caller, "neg")
      /\ UNCHANGED <<queue, jobMap, coor, entry, down, co, engine, where, submitted>>
  BY <1>h DEF DispatchFailed
<1>3. /\ h \in Host /\ Neat(h) /\ Known(h)
      /\ up[h] \in Seq(UpLine) /\ down[h] \in Seq(DownLine) /\ co[h] \in CoRec
      /\ \A g \in Host : g # h => ~Addressed(g)
      /\ Head(up[h]).kind \in UpKinds \ {"register"}
  BY <1>h, <1>1, Partner
<1>5. up'[h] = Tail(up[h]) /\ \A g \in Host : g # h => up'[g] = up[g]
  BY <1>0, <1>1, <1>3, HeardMoves
<1>6. /\ \A g \in Host : g # h => status'[g] = status[g]
      /\ status'[h] = IF disp.caller = "setStatus" THEN "FREE" ELSE status[h]
  BY <1>1, <1>3, StatusMoves
<1>7. /\ Filed' /\ Settled' /\ \A g \in Host : g # h => Neat(g)'
      /\ \A g \in Host : Running(g)' = Running(g) /\ (Known(g)' <=> Known(g))
  BY <1>1, <1>3, <1>5, <1>6, Idles, OtherHosts
<1>8. Placed' BY <1>1, Idles
<1>9. Neat(h)'
  <2>1. Known(h)' BY <1>3, <1>7
  <2>2. ~Putting(h) /\ Line("OK") \in DownLine BY <1>1, DownLines DEF Putting, DownKinds
  <2>3. Spoken(h)' /\ Reports(h)' /\ Coord(h)' /\ Fresh(h)' /\ Files(h)'
    BY <1>1, <1>3, <1>5, <2>1, <2>2, Spoke
  <2>4. Busy(h) BY <1>h, <1>1 DEF Busy, Dispatching
  <2>5. Turned(h)' BY <1>1, Idles DEF Turned
  <2>6. RoadOK(h)'
    <3> DEFINE t == Tail(up[h])
               x == Head(up[h])
    <3>1. PICK v, R, live, turn, clear, nc :
            /\ v = RoadOf(co[h], t, down[h]) /\ R = Running(h) /\ live = (co[h].pc # "dead")
            /\ turn = Turn(h) /\ clear = Clear(h) /\ nc = IF turn = "get" THEN TRUE ELSE clear
      OBVIOUS
    <3>2. /\ RoadOf(co[h], up[h], down[h]) = <<x>> \o v /\ x \in Letter /\ t \in Seq(UpLine)
          /\ v \in Seq(Letter)
      BY <1>1, <1>3, <3>1, ReadOff
    <3>3. Sound(RoadOf(co[h], up[h], down[h]), Running(h), co[h].pc # "dead", Held(h), Turn(h),
                Clear(h), Ticking(h))
      BY <1>3 DEF Neat, RoadOK, Road
    <3>4. Held(h) = TRUE /\ Ticking(h) = FALSE BY <1>1, <2>4 DEF Held, Ticking, Busy, Dispatching
    <3>5. Sound(<<x>> \o v, R, live, TRUE, turn, clear, FALSE) BY <3>1, <3>2, <3>3, <3>4
    <3> HIDE DEF x
    <3>7. /\ Sound(v, R, live, TRUE, "none", clear, FALSE)
          /\ turn = "get" => Sound(v, R, live, TRUE, "none", TRUE, FALSE)
      BY <1>3, <3>2, <3>5, AnswerRead DEF x
    <3>8. Sound(v, R, live, TRUE, "none", nc, FALSE) BY <3>1, <3>7
    <3>9. Sound(RoadOf(co[h], up'[h], down'[h]), R, co[h].pc # "dead", TRUE, "none", nc, FALSE)
      BY <1>1, <1>5, <3>1, <3>8
    <3>10. R = Running(h)' /\ co' = co BY <1>1, <1>3, <1>7, <3>1
    <3>11. Turn(h)' \in {"none", "none"} BY <1>1, Idles
    <3>12. Clear(h)' => nc
      <4>1. CASE disp.caller = "setStatus"
        <5>1. turn = "get" BY <1>1, <2>4, <3>1, <4>1 DEF Turn
        <5>2. QED BY <3>1, <5>1
      <4>2. CASE disp.caller # "setStatus"
        <5>1. Clear(h)' => Clear(h) BY <1>1, <1>6, <4>2 DEF Clear
        <5>2. turn = "none" BY <3>1, <4>2 DEF Turn
        <5>3. QED BY <3>1, <5>1, <5>2
      <4>3. QED BY <4>1, <4>2
    <3>13. QED BY <3>9, <3>10, <3>11, <3>12, RoadIs
  <2>7. QED BY <2>3, <2>5, <2>6 DEF Neat
<1>10. QED BY <1>3, <1>7, <1>8, <1>9 DEF All

\* What is left on the road of a host that died and has said everything.
LEMMA LastWord ==
  ASSUME CInv, NEW h \in Host, Neat(h), co[h].pc = "dead", up[h] = <<>>
  PROVE  /\ RoadOf(co[h], up[h], down[h]) \in Seq(Letter)
         /\ \A i \in DOMAIN RoadOf(co[h], up[h], down[h]) :
              RoadOf(co[h], up[h], down[h])[i].kind = "session"
         /\ Held(h) => RoadOf(co[h], up[h], down[h]) = <<>>
<1> DEFINE c == co[h]
           m == Mark(c)
<1>1. c \in CoRec /\ up[h] \in Seq(UpLine) /\ down[h] \in Seq(DownLine)
  BY Typing DEF Neat, Spoken
<1>2. RoadOf(c, up[h], down[h]) = up[h] \o m /\ m \in Seq(Letter) BY <1>1, RoadParts
<1>3. up[h] \o m = m
  <2> HIDE DEF m
  <2>1. QED BY <1>2
<1>4. RoadOf(c, up[h], down[h]) = m BY <1>2, <1>3
<1>5. \A i \in DOMAIN m : m[i].kind = "session"
  <2>1. CASE c.session = None BY <2>1 DEF Mark
  <2>2. CASE c.session # None
    <3>1. PICK s : s = LineOf("session", c.session) OBVIOUS
    <3>2. m = <<s>> /\ s.kind = "session" BY <2>2, <3>1 DEF Mark, LineOf
    <3> HIDE DEF m
    <3>3. \A i \in DOMAIN m : m[i] = s BY <3>2
    <3>4. QED BY <3>2, <3>3
  <2>3. QED BY <2>1, <2>2
<1>6. ASSUME Held(h) PROVE m = <<>>
  <2>1. Idle(m, Running(h)) BY <1>4, <1>6 DEF Neat, RoadOK, Road, Sound
  <2>2. ASSUME c.session # None PROVE FALSE
    <3>1. PICK s : s = LineOf("session", c.session) OBVIOUS
    <3>2. m = <<s>> /\ s.kind = "session" BY <2>2, <3>1 DEF Mark, LineOf
    <3>3. s \in Letter BY <1>1, <2>2, <3>1, RoadParts
    <3> HIDE DEF m
    <3>4. s \in Jobs(Running(h)) BY <3>2, <3>3, Classes
    <3>5. Some(m, Jobs(Running(h))) BY <3>2, <3>4, LoneWord
    <3>6. QED BY <2>1, <3>5 DEF Idle
  <2>3. QED BY <2>2 DEF Mark
<1> HIDE DEF c, m
<1>7. QED BY <1>2, <1>4, <1>5, <1>6 DEF c

LEMMA BrokenAll ==
  ASSUME CInv, All, DispatchBroken
  PROVE  All'
<1>h. PICK h : h = disp.host OBVIOUS
<1>1. /\ Dispatching /\ up[h] = <<>> /\ co[h].pc = "dead" /\ disp' = AtSelect
      /\ status' = StatusAfter(status, h, disp.caller, "neg")
      /\ UNCHANGED <<queue, jobMap, coor, entry, up, down, co, engine, where, submitted>>
  BY <1>h DEF DispatchBroken
<1>3. /\ h \in Host /\ Neat(h) /\ Known(h)
      /\ \A g \in Host : g # h => ~Addressed(g)
  BY <1>h, <1>1, Partner DEF Dispatching
<1>6. \A g \in Host : g # h => status'[g] = status[g]
  BY <1>1, <1>3, StatusMoves
<1>7. /\ Filed' /\ Settled' /\ \A g \in Host : g # h => Neat(g)'
      /\ \A g \in Host : Running(g)' = Running(g) /\ (Known(g)' <=> Known(g))
  BY <1>1, <1>3, <1>6, Idles, OtherHosts
<1>8. Placed' BY <1>1, Idles
<1>9. Neat(h)'
  <2>1. Known(h)' BY <1>3, <1>7
  <2>2. Line("OK") \in DownLine BY DownLines DEF DownKinds
  <2>3. Spoken(h)' /\ Reports(h)' /\ Coord(h)' /\ Fresh(h)' /\ Files(h)'
    BY <1>1, <1>3, <2>1, <2>2, Spoke
  <2>4. Held(h) BY <1>h, <1>1 DEF Held, Busy
  <2>5. Turned(h)' BY <1>1, Idles DEF Turned
  <2>6. RoadOK(h)'
    <3>1. PICK v, R : v = RoadOf(co[h], up[h], down[h]) /\ R = Running(h) OBVIOUS
    <3>2. v = <<>> BY <1>1, <1>3, <2>4, <3>1, LastWord
    <3>3. v \in Seq(Letter) /\ \A i \in DOMAIN v : v[i].kind \in {"register", "OK", "setupEnv"}
      BY <3>2
    <3>4. Sound(v, R, FALSE, TRUE, "none", TRUE, FALSE) BY <3>3, Blank
    <3>5. (co[h].pc # "dead") = FALSE BY <1>1
    <3>6. Sound(RoadOf(co[h], up'[h], down'[h]), R, co[h].pc # "dead", TRUE, "none", TRUE, FALSE)
      BY <1>1, <3>1, <3>4, <3>5
    <3>7. R = Running(h)' /\ co' = co BY <1>1, <1>3, <1>7, <3>1
    <3>8. Turn(h)' \in {"none", "none"} BY <1>1, Idles
    <3>9. QED BY <3>6, <3>7, <3>8, RoadIs
  <2>7. QED BY <2>3, <2>5, <2>6 DEF Neat
<1>10. QED BY <1>3, <1>7, <1>8, <1>9 DEF All

-----------------------------------------------------------------------------
(* Questions to a host that runs a job, and requests of clients.           *)

LEMMA GetTickAll ==
  ASSUME CInv, All, NEW j \in Job, GetTick(j), JobsKept'
  PROVE  All'
<1> DEFINE l == Line("getTick")
<1>h. PICK h : h = coor[j] OBVIOUS
<1>0. TypeL /\ TypeD BY Typing
<1>1. /\ disp.pc = "select" /\ Known(h) /\ Say(h, l)
      /\ disp' = [AtSelect EXCEPT !.pc = "tick", !.host = h, !.run = j]
      /\ UNCHANGED <<queue, jobMap, coor, entry, status, up, co, engine, where, submitted>>
  <2>1. PICK g \in getHost(coor[j]) \cap Host :
          /\ Say(g, l) /\ disp' = [AtSelect EXCEPT !.pc = "tick", !.host = g, !.run = j]
          /\ misled' = (misled \/ g # coor[j])
    BY DEF GetTick
  <2>2. g = h BY <1>h, <2>1 DEF JobsKept
  <2>3. None \notin Host /\ Known(g) BY <2>1, JobConstants DEF getHost
  <2>4. disp.pc = "select"
        /\ UNCHANGED <<queue, jobMap, coor, entry, status, up, co, engine, where, submitted>>
    BY DEF GetTick
  <2> HIDE DEF l
  <2>5. QED BY <2>1, <2>2, <2>3, <2>4
<1>2. disp'.pc = "tick" /\ disp'.host = h BY <1>1 DEF AtSelect
<1>3. h \in Host BY <1>0, <1>1 DEF Known, TypeD
<1>4. Neat(h) /\ co[h] \in CoRec /\ up[h] \in Seq(UpLine) /\ down[h] \in Seq(DownLine)
  BY <1>3, Typing DEF All, Neat, Spoken
<1>5. l \in DownLine /\ l \in Letter /\ l.kind = "getTick"
  <2>1. l \in DownLine BY DownLines DEF DownKinds
  <2>2. QED BY <2>1, Letters DEF Line
<1> HIDE DEF l
<1>6. /\ down'[h] = IF co[h].pc = "dead" THEN down[h] ELSE down[h] \o <<l>>
      /\ \A g \in Host : g # h => down'[g] = down[g]
  BY <1>0, <1>1, <1>3, SayMoves
<1>7. /\ Filed' /\ Settled' /\ \A g \in Host : g # h => Neat(g)'
      /\ \A g \in Host : Running(g)' = Running(g) /\ (Known(g)' <=> Known(g))
  <2>1. \A i \in Job : ~Loading(i)' BY <1>2 DEF Loading, Dispatching
  <2>2. \A g \in Host : g # h => ~Addressed(g) /\ ~Addressed(g)' BY <1>1, <1>2 DEF Addressed
  <2>3. QED BY <1>1, <1>3, <1>6, <2>1, <2>2, OtherHosts
<1>8. Placed' BY <1>2, <1>3 DEF Placed
<1>9. Neat(h)'
  <2>1. Known(h)' BY <1>1, <1>3, <1>7
  <2>2. ~Putting(h) /\ Turn(h) = "none" /\ Ticking(h) = FALSE BY <1>1, AtRest
  <2>3. Spoken(h)' /\ Reports(h)' /\ Coord(h)' /\ Fresh(h)' /\ Files(h)'
    BY <1>1, <1>3, <1>4, <1>5, <1>6, <2>1, <2>2, Spoke
  <2>5. Turned(h)' BY <1>2 DEF Turned, Busy, Dispatching
  <2>6. RoadOK(h)'
    <3>1. PICK v, R, live, held, clear :
            /\ v = RoadOf(co[h], up[h], down[h]) /\ R = Running(h) /\ live = (co[h].pc # "dead")
            /\ held = Held(h) /\ clear = Clear(h)
      OBVIOUS
    <3>2. Sound(RoadOf(co[h], up[h], down[h]), Running(h), co[h].pc # "dead", Held(h), Turn(h),
                Clear(h), Ticking(h))
      BY <1>4 DEF Neat, RoadOK, Road
    <3>3. Sound(v, R, live, held, "none", clear, FALSE) BY <2>2, <3>1, <3>2
    <3>4. v \in Seq(Letter) BY <1>4, <3>1, RoadParts
    <3>5. ~Some(v, Ticks) BY <3>3 DEF Sound
    <3>6. Sound(v, R, live, held, "none", clear, TRUE) BY <3>3 DEF Sound
    <3>7. Sound(v \o <<l>>, R, live, held, "none", clear, TRUE)
      <4> DEFINE e == <<>>
                 z == v \o <<l>>
      <4>1. e \in Seq(Letter) /\ v \o e = v BY <3>4
      <4>2. z \in Seq(Letter) /\ z \o e = z BY <1>5, <3>4
      <4> HIDE DEF e
      <4>z. PICK yes : yes = TRUE OBVIOUS
      <4>3. Sound(v \o e, R, live, held, "none", clear, yes) BY <3>6, <4>1, <4>z
      <4>4. l \in Ticks => yes /\ ~Some(v \o e, Ticks) BY <3>5, <4>1, <4>z
      <4>5. l.kind \in {"register", "OK", "tick", "getTick"} BY <1>5
      <4>6. Sound((v \o <<l>>) \o e, R, live, held, "none", clear, yes)
        <5>1. v \in Seq(Letter) /\ e \in Seq(Letter) /\ l \in Letter BY <1>5, <3>4, <4>1
        <5>2. QED BY <5>1, <4>3, <4>4, <4>5, Inserted
      <4>7. QED BY <4>2, <4>6, <4>z
    <3>8. PICK w : w = RoadOf(co[h], up'[h], down'[h]) OBVIOUS
    <3>9. w = v \/ w = v \o <<l>>
      <4>1. CASE co[h].pc = "dead" BY <1>1, <1>6, <3>1, <3>8, <4>1
      <4>2. CASE co[h].pc # "dead"
        <5>1. RoadOf(co[h], up[h], down[h] \o <<l>>) = RoadOf(co[h], up[h], down[h]) \o <<l>>
          BY <1>4, <1>5, <4>2, WrittenOn
        <5>2. QED BY <1>1, <1>6, <3>1, <3>8, <4>2, <5>1
      <4>3. QED BY <4>1, <4>2
    <3>10. Sound(w, R, live, held, "none", clear, TRUE) BY <3>6, <3>7, <3>9
    <3>11. Sound(RoadOf(co[h], up'[h], down'[h]), R, co[h].pc # "dead", held, "none", clear, TRUE)
      BY <3>1, <3>8, <3>10
    <3>12. R = Running(h)' /\ co' = co BY <1>1, <1>3, <1>7, <3>1
    <3>13. Turn(h)' \in {"none", "none"} /\ Ticking(h)' BY <1>2 DEF Turn, Busy, Dispatching, Ticking
    <3>14. (Held(h)' => held) /\ (Clear(h)' => clear)
      <4>1. Held(h)' => Held(h) BY <1>1, <1>2 DEF Held, Busy, Dispatching
      <4>2. Clear(h)' => Clear(h) BY <1>1 DEF Clear
      <4>3. QED BY <3>1, <4>1, <4>2
    <3>15. QED BY <3>11, <3>12, <3>13, <3>14, RoadIs
  <2>7. QED BY <2>3, <2>5, <2>6 DEF Neat
<1>10. QED BY <1>3, <1>7, <1>8, <1>9 DEF All

\* The question is answered.
LEMMA TickReadAll ==
  ASSUME CInv, All, TickRead, JobsKept'
  PROVE  All'
<1>h. PICK h : h = disp.host OBVIOUS
<1>0. TypeL BY Typing
<1>1. /\ disp.pc = "tick" /\ up[h] # <<>> /\ Heard(h)
      /\ Head(up[h]).kind \notin {"EnvOK", "please", "File get"} => disp' = AtSelect
      /\ misled' = (misled \/ Head(up[h]).kind # "tick")
      /\ UNCHANGED <<queue, jobMap, coor, entry, status, down, co, engine, where, submitted>>
  BY <1>h DEF TickRead
<1>2. Head(up[h]).kind = "tick" /\ disp' = AtSelect
  <2>1. ~misled' BY DEF JobsKept
  <2>2. QED BY <1>1, <2>1
<1>3. /\ h \in Host /\ Neat(h) /\ Known(h)
      /\ up[h] \in Seq(UpLine) /\ down[h] \in Seq(DownLine) /\ co[h] \in CoRec
      /\ \A g \in Host : g # h => ~Addressed(g)
  BY <1>h, <1>1, Partner
<1>5. up'[h] = Tail(up[h]) /\ \A g \in Host : g # h => up'[g] = up[g]
  BY <1>0, <1>1, <1>3, HeardMoves
<1>7. /\ Filed' /\ Settled' /\ \A g \in Host : g # h => Neat(g)'
      /\ \A g \in Host : Running(g)' = Running(g) /\ (Known(g)' <=> Known(g))
  BY <1>1, <1>2, <1>3, <1>5, Idles, OtherHosts
<1>8. Placed' BY <1>2, Idles
<1>9. Neat(h)'
  <2>1. Known(h)' BY <1>3, <1>7
  <2>2. ~Putting(h) /\ Line("OK") \in DownLine BY <1>1, DownLines DEF Putting, DownKinds
  <2>3. Spoken(h)' /\ Reports(h)' /\ Coord(h)' /\ Fresh(h)' /\ Files(h)'
    BY <1>1, <1>3, <1>5, <2>1, <2>2, Spoke
  <2>5. Turned(h)' BY <1>2, Idles DEF Turned
  <2>6. RoadOK(h)'
    <3> DEFINE t == Tail(up[h])
               x == Head(up[h])
    <3>1. PICK v, R, live, held, turn, clear, asked :
            /\ v = RoadOf(co[h], t, down[h]) /\ R = Running(h) /\ live = (co[h].pc # "dead")
            /\ held = Held(h) /\ turn = Turn(h) /\ clear = Clear(h) /\ asked = Ticking(h)
      OBVIOUS
    <3>2. /\ RoadOf(co[h], up[h], down[h]) = <<x>> \o v /\ x \in Letter /\ t \in Seq(UpLine)
          /\ v \in Seq(Letter)
      BY <1>1, <1>3, <3>1, ReadOff
    <3>3. Sound(RoadOf(co[h], up[h], down[h]), Running(h), co[h].pc # "dead", Held(h), Turn(h),
                Clear(h), Ticking(h))
      BY <1>3 DEF Neat, RoadOK, Road
    <3>4. Sound(<<x>> \o v, R, live, held, turn, clear, asked) BY <3>1, <3>2, <3>3
    <3>5. x \in Ticks /\ x \notin Jobs(R) BY <1>2, <3>2, Classes
    <3> HIDE DEF x
    <3>6. Sound(v, R, live, held, turn, clear, FALSE) BY <3>2, <3>4, <3>5, Dropped
    <3>7. Sound(RoadOf(co[h], up'[h], down'[h]), R, co[h].pc # "dead", held, turn, clear, FALSE)
      BY <1>1, <1>5, <3>1, <3>6
    <3>8. R = Running(h)' /\ co' = co BY <1>1, <1>3, <1>7, <3>1
    <3>9. Turn(h)' \in {turn, "none"} BY <1>2, Idles
    <3>10. (Held(h)' => held) /\ (Clear(h)' => clear)
      <4>1. Held(h)' => Held(h) BY <1>1, <1>2, Idles DEF Held
      <4>2. Clear(h)' => Clear(h) BY <1>1 DEF Clear
      <4>3. QED BY <3>1, <4>1, <4>2
    <3>11. QED BY <3>7, <3>8, <3>9, <3>10, RoadIs
  <2>7. QED BY <2>3, <2>5, <2>6 DEF Neat
<1>10. QED BY <1>3, <1>7, <1>8, <1>9 DEF All

LEMMA AnswerBrokenAll ==
  ASSUME CInv, All, AnswerBroken, JobsKept'
  PROVE  All'
<1>h. PICK h : h = disp.host OBVIOUS
<1>1. /\ disp.pc \in {"setup", "tick"} /\ up[h] = <<>> /\ co[h].pc = "dead" /\ disp' = AtSelect
      /\ UNCHANGED <<queue, jobMap, coor, entry, status, up, down, co, engine, where, submitted>>
      /\ disp.pc = "setup" => gui' = [gui EXCEPT ![disp.run] = "unanswered"]
  BY <1>h DEF AnswerBroken
<1>2. disp.pc = "tick"
  <2> SUFFICES ASSUME disp.pc = "setup" PROVE FALSE BY <1>1
  <2>1. disp.run \in Client BY Typing DEF News
  <2>2. gui'[disp.run] = "unanswered" BY <1>1, <2>1, Typing DEF TypeC
  <2>3. QED BY <2>1, <2>2 DEF JobsKept
<1>3. /\ h \in Host /\ Neat(h) /\ Known(h)
      /\ \A g \in Host : g # h => ~Addressed(g)
  BY <1>h, <1>1, Partner
<1>7. /\ Filed' /\ Settled' /\ \A g \in Host : g # h => Neat(g)'
      /\ \A g \in Host : Running(g)' = Running(g) /\ (Known(g)' <=> Known(g))
  BY <1>1, <1>3, Idles, OtherHosts
<1>8. Placed' BY <1>1, Idles
<1>9. Neat(h)'
  <2>1. Known(h)' BY <1>3, <1>7
  <2>2. Line("OK") \in DownLine BY DownLines DEF DownKinds
  <2>3. Spoken(h)' /\ Reports(h)' /\ Coord(h)' /\ Fresh(h)' /\ Files(h)'
    BY <1>1, <1>3, <2>1, <2>2, Spoke
  <2>5. Turned(h)' BY <1>1, Idles DEF Turned
  <2>6. RoadOK(h)'
    <3>1. PICK v, R, live, held, turn, clear, asked :
            /\ v = RoadOf(co[h], up[h], down[h]) /\ R = Running(h) /\ live = (co[h].pc # "dead")
            /\ held = Held(h) /\ turn = Turn(h) /\ clear = Clear(h) /\ asked = Ticking(h)
      OBVIOUS
    <3>2. Sound(v, R, live, held, turn, clear, asked) BY <1>3, <3>1 DEF Neat, RoadOK, Road
    <3>3. v \in Seq(Letter) /\ \A i \in DOMAIN v : v[i].kind = "session" BY <1>1, <1>3, <3>1, LastWord
    <3>4. ~Some(v, Ticks)
      <4> SUFFICES ASSUME NEW i \in DOMAIN v, v[i] \in Ticks PROVE FALSE BY DEF Some
      <4>1. v[i] \in Letter BY <3>3
      <4>2. QED BY <3>3, <4>1, Classes
    <3>5. Sound(v, R, live, held, turn, clear, FALSE) BY <3>2, <3>4, Looser
    <3>6. Sound(RoadOf(co[h], up'[h], down'[h]), R, co[h].pc # "dead", held, turn, clear, FALSE)
      BY <1>1, <3>1, <3>5
    <3>8. R = Running(h)' /\ co' = co BY <1>1, <1>3, <1>7, <3>1
    <3>9. Turn(h)' \in {turn, "none"} BY <1>1, Idles
    <3>10. (Held(h)' => held) /\ (Clear(h)' => clear)
      <4>1. Held(h)' => Held(h) BY <1>1, Idles DEF Held
      <4>2. Clear(h)' => Clear(h) BY <1>1 DEF Clear
      <4>3. QED BY <3>1, <4>1, <4>2
    <3>11. QED BY <3>6, <3>8, <3>9, <3>10, RoadIs
  <2>7. QED BY <2>3, <2>5, <2>6 DEF Neat
<1>10. QED BY <1>3, <1>7, <1>8, <1>9 DEF All

\* No client is answered as long as all of them are new.
LEMMA NoEnvAnswer ==
  ASSUME CInv, EnvAnswer, JobsKept'
  PROVE  FALSE
<1>1. disp.pc = "setup" /\ \E k \in {"invited", "unanswered"} : gui' = [gui EXCEPT ![disp.run] = k]
  BY DEF EnvAnswer
<1>2. disp.run \in Client BY <1>1, Typing DEF News
<1>3. gui'[disp.run] \in {"invited", "unanswered"} BY <1>1, <1>2, Typing DEF TypeC
<1>4. QED BY <1>2, <1>3 DEF JobsKept

\* A free host is prepared for a client.
LEMMA ServRequestAll ==
  ASSUME CInv, All, NEW c \in Client, ServRequest(c)
  PROVE  All'
<1> DEFINE l == Line("setupEnv")
<1>0. TypeL /\ TypeD BY Typing
<1>1. PICK h \in Host :
        /\ disp.pc = "select" /\ Known(h) /\ status[h] = "FREE" /\ Say(h, l)
        /\ status' = [status EXCEPT ![h] = "BUSY"]
        /\ \E q : disp' = [AtSelect EXCEPT !.pc = "setup", !.host = h, !.run = c, !.clean = q]
        /\ UNCHANGED <<queue, jobMap, coor, entry, up, co, engine, where, submitted>>
  BY DEF ServRequest
<1>2. disp'.pc = "setup" /\ disp'.host = h BY <1>1 DEF AtSelect
<1>3. h \in Host /\ Known(h) /\ status[h] = "FREE" BY <1>1
<1>4. Neat(h) /\ co[h] \in CoRec /\ up[h] \in Seq(UpLine) /\ down[h] \in Seq(DownLine)
  BY <1>3, Typing DEF All, Neat, Spoken
<1>5. l \in DownLine /\ l \in Letter /\ l.kind = "setupEnv" /\ l \in Rites
  <2>1. l \in DownLine /\ l.kind = "setupEnv" BY DownLines DEF DownKinds, Line
  <2>2. l \in Letter BY <2>1, Letters
  <2> HIDE DEF l
  <2>3. QED BY <2>1, <2>2, Classes
<1> HIDE DEF l
<1>6. /\ down'[h] = IF co[h].pc = "dead" THEN down[h] ELSE down[h] \o <<l>>
      /\ \A g \in Host : g # h => down'[g] = down[g]
  BY <1>0, <1>1, <1>3, SayMoves
<1>a. \A g \in Host : status'[g] = IF g = h THEN "BUSY" ELSE status[g]
  BY <1>0, <1>1 DEF TypeD
<1>7. /\ Filed' /\ Settled' /\ \A g \in Host : g # h => Neat(g)'
      /\ \A g \in Host : Running(g)' = Running(g) /\ (Known(g)' <=> Known(g))
  <2>1. \A i \in Job : ~Loading(i)' BY <1>2 DEF Loading, Dispatching
  <2>2. \A g \in Host : g # h => ~Addressed(g) /\ ~Addressed(g)' BY <1>1, <1>2 DEF Addressed
  <2>3. QED BY <1>1, <1>3, <1>6, <1>a, <2>1, <2>2, OtherHosts
<1>8. Placed' BY <1>2, <1>3 DEF Placed
<1>9. Neat(h)'
  <2>1. Known(h)' BY <1>3, <1>7
  <2>2. ~Putting(h) /\ Turn(h) = "none" /\ Ticking(h) = FALSE BY <1>1, AtRest
  <2>3. Spoken(h)' /\ Reports(h)' /\ Coord(h)' /\ Fresh(h)' /\ Files(h)'
    BY <1>1, <1>3, <1>4, <1>5, <1>6, <2>1, <2>2, Spoke
  <2>5. Turned(h)' BY <1>2 DEF Turned, Busy, Dispatching
  <2>6. RoadOK(h)'
    <3>1. PICK R, clear : R = Running(h) /\ clear = Clear(h) OBVIOUS
    <3>2. Sound(RoadOf(co[h], up[h], down[h]), Running(h), co[h].pc # "dead", Held(h), Turn(h),
                Clear(h), Ticking(h))
      BY <1>4 DEF Neat, RoadOK, Road
    <3>3. Held(h) = TRUE BY <1>3 DEF Held
    <3>4. Sound(RoadOf(co[h], up[h], down[h]), R, co[h].pc # "dead", TRUE, "none", clear, FALSE)
      BY <2>2, <3>1, <3>2, <3>3
    <3>5. PICK e : e = IF co[h].pc = "dead" THEN down[h] ELSE down[h] \o <<l>> OBVIOUS
    <3>6. Sound(RoadOf(co[h], up[h], e), R, co[h].pc # "dead", TRUE, "none", clear, FALSE)
      BY <1>4, <1>5, <3>4, <3>5, RiteSaid, ZenonT(60)
    <3>7. Sound(RoadOf(co[h], up'[h], down'[h]), R, co[h].pc # "dead", TRUE, "none", clear, FALSE)
      BY <1>1, <1>6, <3>5, <3>6
    <3>8. R = Running(h)' /\ co' = co BY <1>1, <1>3, <1>7, <3>1
    <3>9. Turn(h)' \in {"none", "none"} BY <1>2 DEF Turn, Busy, Dispatching
    <3>10. Clear(h)' => clear BY <1>3, <1>a DEF Clear
    <3>11. QED BY <3>7, <3>8, <3>9, <3>10, RoadIs
  <2>7. QED BY <2>3, <2>5, <2>6 DEF Neat
<1>10. QED BY <1>3, <1>7, <1>8, <1>9 DEF All

-----------------------------------------------------------------------------
(* Steps at select that may begin an exchange.                             *)

\* dispatchJob up to the first answer it waits for.
LEMMA Begun ==
  ASSUME CInv, NEW h \in Host, NEW q \in Seq(Job), NEW caller, NEW st, NEW line, NEW first,
         DispatchJob(h, caller, q, st, line, first), caller # "none"
  PROVE  /\ q = <<>> => /\ queue' = <<>> /\ disp' = AtSelect /\ Write(h, first)
                        /\ status' = StatusAfter(st, h, caller, "neg")
         /\ q # <<>> => /\ queue' = Tail(q) /\ status' = st
                        /\ disp'.pc = "env" /\ disp'.host = h /\ disp'.caller = caller
                        /\ disp'.run = Head(q) /\ Busy(h)'
                        /\ Write(h, first \o <<Line("setupEnv")>>)
         /\ \A i \in Job : Member(queue', i) \/ Loading(i)' => Member(q, i)
         /\ queue' # <<>> => q # <<>> /\ Tail(q) # <<>>
         /\ \A g \in Host : g # h => ~Addressed(g)'
         /\ Placed' /\ ~Putting(h)' /\ ~Ticking(h)' /\ disp'.pc # "setup"
         /\ disp'.pc \in {"select", "env"}
<1>1. CASE q = <<>>
  <2>1. /\ queue' = <<>> /\ disp' = AtSelect /\ Write(h, first)
        /\ status' = StatusAfter(st, h, caller, "neg")
    BY <1>1 DEF DispatchJob
  <2>2. disp'.pc = "select" BY <2>1 DEF AtSelect
  <2>3. \A i \in Job : ~Member(queue', i) BY <2>1 DEF Member
  <2>4. QED BY <1>1, <2>1, <2>2, <2>3, Idles
<1>2. CASE q # <<>>
  <2>1. /\ queue' = Tail(q) /\ status' = st /\ Write(h, first \o <<Line("setupEnv")>>)
        /\ disp'.pc = "env" /\ disp'.host = h /\ disp'.caller = caller /\ disp'.run = Head(q)
    BY <1>2 DEF DispatchJob, getJob
  <2>2. Busy(h)' /\ ~Putting(h)' /\ ~Ticking(h)'
    BY <2>1 DEF Busy, Dispatching, Putting, Ticking
  <2>3. \A i : Loading(i)' => i = Head(q) BY <2>1 DEF Loading
  <2>4. /\ Head(q) = q[1] /\ 1 \in DOMAIN q
        /\ \A i \in DOMAIN Tail(q) : i + 1 \in DOMAIN q /\ Tail(q)[i] = q[i + 1]
    BY <1>2, WordOf
  <2>5. \A i \in Job : Member(queue', i) \/ Loading(i)' => Member(q, i)
    BY <2>1, <2>3, <2>4 DEF Member
  <2>6. (\A g \in Host : g # h => ~Addressed(g)') /\ Placed' BY <2>1 DEF Addressed, Placed
  <2>7. QED BY <1>2, <2>1, <2>2, <2>5, <2>6
<1>3. QED BY <1>1, <1>2

\* What is written to a host that lives.
LEMMA WriteMoves ==
  ASSUME TypeL, NEW h \in Host, NEW ls, Write(h, ls)
  PROVE  /\ down'[h] = IF co[h].pc = "dead" THEN down[h] ELSE down[h] \o ls
         /\ \A g \in Host : g # h => down'[g] = down[g]
         /\ ls = <<>> => down'[h] = down[h]
<1>1. /\ down'[h] = IF co[h].pc = "dead" THEN down[h] ELSE down[h] \o ls
      /\ \A g \in Host : g # h => down'[g] = down[g]
  BY DEF Write, TypeL
<1>2. down[h] \in Seq(Lines) BY DEF TypeL
<1>3. down[h] \o <<>> = down[h] BY <1>2, WordOf
<1>4. QED BY <1>1, <1>3

LEMMA SetupLine ==
  LET l == Line("setupEnv") IN
    /\ l \in DownLine /\ l \in Letter /\ l.kind = "setupEnv" /\ l \in Rites
    /\ <<>> \o <<l>> = <<l>>
<1> DEFINE l == Line("setupEnv")
<1>1. l \in DownLine /\ l.kind = "setupEnv" BY DownLines DEF DownKinds, Line
<1>2. l \in Letter BY <1>1, Letters
<1> HIDE DEF l
<1>3. l \in Rites BY <1>1, <1>2, Classes
<1>4. <<>> \o <<l>> = <<l>> OBVIOUS
<1>5. QED BY <1>1, <1>2, <1>3, <1>4 DEF l

\* A host reports itself free.
LEMMA SetStatusAll ==
  ASSUME CInv, All, NEW h \in Host, SetStatus(h)
  PROVE  All'
<1>l. PICK l : l = Line("setupEnv") OBVIOUS
<1>e. PICK ln, no : ln = Tail(up[h]) /\ no = <<>> OBVIOUS
<1>0. TypeL /\ TypeD /\ Neat(h) /\ queue \in Seq(Job) /\ co[h] \in CoRec BY Typing DEF All, TypeD
<1>1. /\ disp.pc = "select" /\ up[h] # <<>> /\ Head(up[h]).kind = "FREE" /\ Heard(h)
      /\ DispatchJob(h, "setStatus", queue, status, ln, no)
      /\ UNCHANGED <<jobMap, coor, entry, co, engine, where, submitted>>
  BY <1>e DEF SetStatus
<1>2. Known(h) /\ up[h] \in Seq(UpLine) /\ down[h] \in Seq(DownLine)
  BY <1>0, <1>1, HeardKnown DEF Neat, Spoken
<1>3. up'[h] = Tail(up[h]) /\ \A g \in Host : g # h => up'[g] = up[g]
  BY <1>0, <1>1, HeardMoves
<1>4. /\ queue = <<>> => /\ queue' = <<>> /\ disp' = AtSelect /\ Write(h, no)
                         /\ status' = StatusAfter(status, h, "setStatus", "neg")
      /\ queue # <<>> => /\ queue' = Tail(queue) /\ status' = status
                         /\ disp'.pc = "env" /\ disp'.host = h /\ disp'.caller = "setStatus"
                         /\ Busy(h)' /\ Write(h, no \o <<Line("setupEnv")>>)
      /\ \A i \in Job : Member(queue', i) \/ Loading(i)' => Member(queue, i)
      /\ queue' # <<>> => queue # <<>>
      /\ \A g \in Host : g # h => ~Addressed(g)'
      /\ Placed' /\ ~Putting(h)' /\ ~Ticking(h)' /\ disp'.pc # "setup"
  BY <1>0, <1>1, Begun
<1>5. l \in DownLine /\ l \in Letter /\ l.kind = "setupEnv" /\ l \in Rites /\ no \o <<Line("setupEnv")>> = <<l>>
  BY <1>l, <1>e, SetupLine
<1>6. /\ queue = <<>> => down'[h] = down[h]
      /\ queue # <<>> => down'[h] = IF co[h].pc = "dead" THEN down[h] ELSE down[h] \o <<l>>
      /\ \A g \in Host : g # h => down'[g] = down[g]
  <2>1. CASE queue = <<>> BY <1>0, <1>4, <1>e, <2>1, WriteMoves
  <2>2. CASE queue # <<>>
    <3>1. PICK ls : ls = no \o <<Line("setupEnv")>> OBVIOUS
    <3>2. Write(h, ls) BY <1>4, <2>2, <3>1
    <3>3. /\ down'[h] = IF co[h].pc = "dead" THEN down[h] ELSE down[h] \o ls
          /\ \A g \in Host : g # h => down'[g] = down[g]
      BY <1>0, <3>2, WriteMoves
    <3>4. QED BY <1>5, <2>2, <3>1, <3>3
  <2>3. QED BY <2>1, <2>2
<1>7. /\ \A g \in Host : g # h => status'[g] = status[g]
      /\ queue # <<>> => status'[h] = status[h]
  <2>1. CASE queue = <<>> BY <1>4, <2>1, StatusMoves
  <2>2. CASE queue # <<>> BY <1>4, <2>2
  <2>3. QED BY <2>1, <2>2
<1>8. Filed' BY <1>1 DEF All, Filed, Member
<1>9. Settled' BY <1>1, <1>4 DEF All, Settled
<1>10. \A g \in Host : Running(g)' = Running(g) /\ (Known(g)' <=> Known(g)) BY <1>1 DEF Running, Known
<1>11. ASSUME NEW g \in Host, g # h PROVE Neat(g)'
  <2>1. Neat(g) BY DEF All
  <2>2. ~Addressed(g) /\ ~Addressed(g)' BY <1>1, <1>4, <1>11 DEF Addressed
  <2>3. Clear(g)' => Clear(g) BY <1>4, <1>7, <1>11 DEF Clear
  <2>4. Running(g)' = Running(g) \ {None} BY <1>10, NoneRuns
  <2>5. QED BY <1>1, <1>3, <1>6, <1>7, <1>10, <1>11, <2>1, <2>2, <2>3, <2>4, Aside
<1>12. Neat(h)'
  <2> DEFINE t == Tail(up[h])
             x == Head(up[h])
  <2>1. Known(h)' /\ ~Putting(h) BY <1>1, <1>2, <1>10 DEF Putting
  <2>2. Spoken(h)' /\ Reports(h)' /\ Coord(h)' /\ Fresh(h)' /\ Files(h)'
    <3>1. CASE queue = <<>> BY <1>0, <1>1, <1>2, <1>3, <1>5, <1>6, <2>1, <3>1, Spoke
    <3>2. CASE queue # <<>>
      <4>1. /\ l.kind = "file" \/ ~Putting(h)
            /\ l.kind = "BG_putFile" => Putting(h)'
        BY <1>5, <2>1
      <4>2. QED BY <1>0, <1>1, <1>2, <1>3, <1>5, <1>6, <2>1, <3>2, <4>1, Spoke
    <3>3. QED BY <3>1, <3>2
  <2>3. PICK v, R, live, held, turn, clear, asked :
          /\ v = RoadOf(co[h], t, down[h]) /\ R = Running(h) /\ live = (co[h].pc # "dead")
          /\ held = Held(h) /\ turn = Turn(h) /\ clear = Clear(h) /\ asked = Ticking(h)
    OBVIOUS
  <2>4. /\ RoadOf(co[h], up[h], down[h]) = <<x>> \o v /\ x \in Letter /\ t \in Seq(UpLine)
        /\ v \in Seq(Letter)
    BY <1>0, <1>1, <1>2, <2>3, ReadOff
  <2>5. Sound(RoadOf(co[h], up[h], down[h]), Running(h), co[h].pc # "dead", Held(h), Turn(h),
              Clear(h), Ticking(h))
    BY <1>0 DEF Neat, RoadOK, Road
  <2>6. Sound(<<x>> \o v, R, live, held, turn, clear, asked) BY <2>3, <2>4, <2>5
  <2>7. x.kind = "FREE" BY <1>1
  <2> HIDE DEF x
  <2>8. ~clear /\ Sound(v, R, live, TRUE, "env", FALSE, asked)
    BY <2>4, <2>6, <2>7, FreeRead
  <2>9. asked = FALSE BY <1>1, <2>3, AtRest
  <2>10. Sound(RoadOf(co[h], t, down[h]), R, co[h].pc # "dead", TRUE, "env", FALSE, FALSE)
    BY <2>3, <2>8, <2>9
  <2>11. R = Running(h)' /\ co' = co BY <1>1, <1>10, <2>3
  <2>12. CASE queue = <<>>
    <3>1. Turned(h)' BY <1>4, <2>12, Idles DEF Turned
    <3>2. Sound(RoadOf(co[h], up'[h], down'[h]), R, co[h].pc # "dead", TRUE, "env", FALSE, FALSE)
      BY <1>3, <1>6, <2>10, <2>12
    <3>3. Turn(h)' \in {"env", "none"} /\ ~Clear(h)' BY <1>4, <2>12, Idles DEF Clear
    <3>4. RoadOK(h)' BY <2>11, <3>2, <3>3, RoadIs
    <3>5. QED BY <2>2, <3>1, <3>4 DEF Neat
  <2>13. CASE queue # <<>>
    <3>1. status[h] = "BUSY"
      <4>1. ~Clear(h) BY <2>3, <2>8
      <4>2. status[h] \in {"FREE", "BUSY"} BY <1>0 DEF TypeD
      <4>3. QED BY <2>13, <4>1, <4>2 DEF Clear
    <3>2. status'[h] = "BUSY" BY <1>7, <2>13, <3>1
    <3>3. Turned(h)' BY <1>4, <2>13, <3>2 DEF Turned
    <3>4. PICK e : e = IF co[h].pc = "dead" THEN down[h] ELSE down[h] \o <<l>> OBVIOUS
    <3>5. Sound(RoadOf(co[h], t, e), R, co[h].pc # "dead", TRUE, "env", FALSE, FALSE)
      <4>1. PICK f : f = FALSE OBVIOUS
      <4>2. Sound(RoadOf(co[h], t, down[h]), R, co[h].pc # "dead", TRUE, "env", f, f)
        BY <2>10, <4>1
      <4> HIDE DEF t
      <4>3. t \in Seq(UpLine) /\ co[h] \in CoRec /\ down[h] \in Seq(DownLine) BY <1>0, <1>2, <2>4
      <4>4. Sound(RoadOf(co[h], t, e), R, co[h].pc # "dead", TRUE, "env", f, f)
        BY <1>5, <3>4, <4>2, <4>3, RiteSaid
      <4>5. QED BY <4>1, <4>4
    <3>6. Sound(RoadOf(co[h], up'[h], down'[h]), R, co[h].pc # "dead", TRUE, "env", FALSE, FALSE)
      BY <1>3, <1>6, <2>13, <3>4, <3>5
    <3>7. Turn(h)' \in {"env", "none"} /\ ~Clear(h)' BY <1>4, <2>13, <3>2 DEF Clear, Turn
    <3>8. RoadOK(h)' BY <2>11, <3>6, <3>7, RoadIs
    <3>9. QED BY <2>2, <3>3, <3>8 DEF Neat
  <2>14. QED BY <2>12, <2>13
<1>13. QED BY <1>4, <1>8, <1>9, <1>11, <1>12 DEF All

-----------------------------------------------------------------------------
\* A job is submitted.
LEMMA SubmitAll ==
  ASSUME CInv, All, NEW j \in Job, Submit(j)
  PROVE  All'
<1>l. PICK l, h, q, s2 : /\ l = Line("setupEnv") /\ h = anyFreeHost /\ q = Append(queue, j)
                         /\ s2 = [status EXCEPT ![h] = "BUSY"]
  OBVIOUS
<1>e. PICK ln, no : ln = up[h] /\ no = <<>> OBVIOUS
<1>0. TypeL /\ TypeD /\ queue \in Seq(Job) /\ submitted \in Seq(Job) BY Typing DEF TypeD
<1>1. /\ disp.pc = "select" /\ ~Member(submitted, j)
      /\ jobMap' = [jobMap EXCEPT ![j] = "WAITING"] /\ submitted' = Append(submitted, j)
      /\ UNCHANGED <<coor, entry, up, co, engine, where>>
      /\ h = None => queue' = q /\ UNCHANGED <<status, disp, down>>
      /\ h # None => DispatchJob(h, "backGndJob", q, s2, ln, no)
  BY <1>l, <1>e DEF Submit, Member
<1>2. q \in Seq(Job) /\ q # <<>> /\ (Tail(q) # <<>> => queue # <<>>)
  <2>1. q \in Seq(Job) /\ Len(q) = Len(queue) + 1 BY <1>0, <1>l
  <2>2. Len(Tail(q)) = Len(q) - 1 BY <1>0, <1>l, <2>1
  <2>3. queue = <<>> => Len(Tail(q)) = 0 BY <2>1, <2>2
  <2>4. Tail(q) \in Seq(Job) BY <1>0, <1>l, <2>1
  <2>5. QED BY <1>0, <2>1, <2>3, <2>4
<1>3. \A i : (Member(q, i) <=> Member(queue, i) \/ i = j)
             /\ (Member(submitted', i) <=> Member(submitted, i) \/ i = j)
  <2>1. \A s \in Seq(Job) : /\ DOMAIN Append(s, j) = 1 .. Len(s) + 1 /\ DOMAIN s = 1 .. Len(s)
                            /\ Append(s, j)[Len(s) + 1] = j /\ Len(s) + 1 \in 1 .. Len(s) + 1
                            /\ \A i \in 1 .. Len(s) : Append(s, j)[i] = s[i] /\ i \in 1 .. Len(s) + 1
                            /\ \A i \in 1 .. Len(s) + 1 : i \in 1 .. Len(s) \/ i = Len(s) + 1
    OBVIOUS
  <2>2. \A s \in Seq(Job) : \A i : Member(Append(s, j), i) <=> Member(s, i) \/ i = j
    <3> TAKE s \in Seq(Job)
    <3> TAKE i
    <3>1. DOMAIN s = 1 .. Len(s) BY <2>1
    <3>2. PICK z, n : z = Append(s, j) /\ n = Len(s) OBVIOUS
    <3>3. /\ DOMAIN z = 1 .. n + 1 /\ z[n + 1] = j /\ n + 1 \in 1 .. n + 1
          /\ \A k \in 1 .. n : z[k] = s[k] /\ k \in 1 .. n + 1
          /\ \A k \in 1 .. n + 1 : k \in 1 .. n \/ k = n + 1
      BY <2>1, <3>2
    <3>4. Member(z, i) <=> Member(s, i) \/ i = j BY <3>1, <3>2, <3>3 DEF Member
    <3>5. QED BY <3>2, <3>4
  <2>3. QED BY <1>0, <1>1, <1>l, <2>2
<1>4. jobMap[j] = "none" BY <1>1 DEF All, Filed
<1>5. \A i \in Job : jobMap'[i] = IF i = j THEN "WAITING" ELSE jobMap[i]
  BY <1>0, <1>1 DEF TypeD
<1>6. \A g \in Host : Running(g)' = Running(g) \ {j} /\ (Known(g)' <=> Known(g))
  BY <1>1, <1>5 DEF Running, Known
<1>7. Filed'
  <2>1. \A i \in Job : jobMap'[i] # "none" => i = j \/ jobMap[i] # "none" BY <1>5
  <2>2. QED BY <1>3, <2>1 DEF All, Filed
<1>8. ASSUME \A i \in Job : Member(queue', i) \/ Loading(i)' => Member(q, i) PROVE Settled'
  <2>1. \A i \in Job : jobMap'[i] = "RUNNING" => i # j /\ jobMap[i] = "RUNNING" BY <1>5
  <2>2. QED BY <1>3, <1>8, <2>1 DEF All, Settled
<1>9. CASE h = None
  <2>1. queue' = q /\ UNCHANGED <<status, disp, down>> BY <1>1, <1>9
  <2>2. Settled'
    <3>1. \A i : ~Loading(i)' BY <1>1, <2>1 DEF Loading, Dispatching
    <3>2. QED BY <1>8, <2>1, <3>1
  <2>3. Placed' BY <2>1 DEF All, Placed
  <2>4. ASSUME NEW g \in Host PROVE Neat(g)'
    <3>1. Neat(g) BY DEF All
    <3>2. ~Addressed(g) /\ ~Addressed(g)' BY <1>1, <2>1 DEF Addressed
    <3>3. ~Clear(g)'
      <4>1. status[g] = "FREE" => Known(g) BY <3>1, FreeKnown
      <4>2. status[g] # "FREE" BY <1>l, <1>9, <4>1, FreeHostFound
      <4>3. QED BY <2>1, <4>2 DEF Clear
    <3>4. QED BY <1>1, <1>6, <2>1, <3>1, <3>2, <3>3, Aside
  <2>5. QED BY <1>7, <2>2, <2>3, <2>4 DEF All
<1>10. CASE h # None
  <2>1. h \in Host /\ Known(h) /\ status[h] = "FREE" BY <1>l, <1>10, FreeHostFound
  <2>2. /\ queue' = Tail(q) /\ status' = s2
        /\ disp'.pc = "env" /\ disp'.host = h /\ disp'.caller = "backGndJob"
        /\ Busy(h)' /\ Write(h, no \o <<Line("setupEnv")>>)
        /\ \A i \in Job : Member(queue', i) \/ Loading(i)' => Member(q, i)
        /\ \A g \in Host : g # h => ~Addressed(g)'
        /\ Placed' /\ ~Putting(h)' /\ ~Ticking(h)' /\ disp'.pc # "setup"
    BY <1>1, <1>2, <1>10, <2>1, Begun
  <2>3. Settled' BY <1>8, <2>2
  <2>4. l \in DownLine /\ l \in Letter /\ l.kind = "setupEnv" /\ l \in Rites
        /\ no \o <<Line("setupEnv")>> = <<l>>
    BY <1>l, <1>e, SetupLine
  <2>5. /\ down'[h] = IF co[h].pc = "dead" THEN down[h] ELSE down[h] \o <<l>>
        /\ \A g \in Host : g # h => down'[g] = down[g]
    <3>1. PICK ls : ls = no \o <<Line("setupEnv")>> OBVIOUS
    <3>2. Write(h, ls) BY <2>2, <3>1
    <3>3. /\ down'[h] = IF co[h].pc = "dead" THEN down[h] ELSE down[h] \o ls
          /\ \A g \in Host : g # h => down'[g] = down[g]
      BY <1>0, <2>1, <3>2, WriteMoves
    <3>4. QED BY <2>4, <3>1, <3>3
  <2>6. \A g \in Host : status'[g] = IF g = h THEN "BUSY" ELSE status[g]
    BY <1>0, <1>l, <2>1, <2>2 DEF TypeD
  <2>7. ASSUME NEW g \in Host, g # h PROVE Neat(g)'
    <3>1. Neat(g) BY DEF All
    <3>2. ~Addressed(g) /\ ~Addressed(g)' BY <1>1, <2>2, <2>7 DEF Addressed
    <3>3. Clear(g)' => Clear(g) BY <1>2, <2>2, <2>6, <2>7 DEF Clear
    <3>4. QED BY <1>1, <1>6, <2>5, <2>6, <2>7, <3>1, <3>2, <3>3, Aside
  <2>8. Neat(h)'
    <3>0. Neat(h) /\ co[h] \in CoRec /\ up[h] \in Seq(UpLine) /\ down[h] \in Seq(DownLine)
      BY <2>1, Typing DEF All, Neat, Spoken
    <3>1. Known(h)' /\ ~Putting(h) /\ Turn(h) = "none" /\ Ticking(h) = FALSE
      BY <1>1, <1>6, <2>1, AtRest
    <3>2. Spoken(h)' /\ Reports(h)' /\ Coord(h)' /\ Fresh(h)' /\ Files(h)'
      <4>1. /\ l.kind = "file" \/ ~Putting(h)
            /\ l.kind = "BG_putFile" => Putting(h)'
        BY <2>4, <3>1
      <4>2. up'[h] = up[h] BY <1>1
      <4>3. QED BY <1>1, <2>1, <2>4, <2>5, <3>0, <3>1, <4>1, <4>2, Spoke
    <3>3. Turned(h)' BY <2>1, <2>2, <2>6 DEF Turned
    <3>4. RoadOK(h)'
      <4>1. PICK w, R, S, live, clear :
              /\ w = RoadOf(co[h], up[h], down[h]) /\ R = Running(h) /\ S = R \ {j}
              /\ live = (co[h].pc # "dead") /\ clear = Clear(h)
        OBVIOUS
      <4>2. Sound(RoadOf(co[h], up[h], down[h]), Running(h), co[h].pc # "dead", Held(h), Turn(h),
                  Clear(h), Ticking(h))
        BY <3>0 DEF Neat, RoadOK, Road
      <4>3. Held(h) = TRUE BY <2>1 DEF Held
      <4>4. Sound(w, R, live, TRUE, "none", clear, FALSE) BY <3>1, <4>1, <4>2, <4>3
      <4>5. w \in Seq(Letter) BY <3>0, <4>1, RoadParts
      <4>6. Sound(w, R \ {j}, live, TRUE, "none", clear, FALSE) BY <4>4, <4>5, Reclass
      <4>7. Sound(RoadOf(co[h], up[h], down[h]), S, co[h].pc # "dead", TRUE, "none", clear, FALSE)
        BY <4>1, <4>6
      <4>8. PICK e : e = IF co[h].pc = "dead" THEN down[h] ELSE down[h] \o <<l>> OBVIOUS
      <4>9. Sound(RoadOf(co[h], up[h], e), S, co[h].pc # "dead", TRUE, "none", clear, FALSE)
        BY <2>4, <3>0, <4>7, <4>8, RiteSaid
      <4>10. Sound(RoadOf(co[h], up'[h], down'[h]), S, co[h].pc # "dead", TRUE, "none", clear, FALSE)
        BY <1>1, <2>5, <4>8, <4>9
      <4>11. S = Running(h)' /\ co' = co BY <1>1, <1>6, <2>1, <4>1
      <4>12. Turn(h)' \in {"none", "none"} /\ ~Clear(h)' BY <2>1, <2>2, <2>6 DEF Turn, Clear
      <4>13. QED BY <4>10, <4>11, <4>12, RoadIs
    <3>5. QED BY <3>2, <3>3, <3>4 DEF Neat
  <2>9. QED BY <1>7, <2>2, <2>3, <2>7, <2>8 DEF All
<1>11. QED BY <1>9, <1>10

-----------------------------------------------------------------------------
\* A host registers.
LEMMA RegisterAll ==
  ASSUME CInv, All, NEW h \in Host, Register(h)
  PROVE  All'
<1>l. PICK l, ok, st : /\ l = Line("setupEnv") /\ ok = Line("OK")
                       /\ st = [status EXCEPT ![h] = "FREE"]
  OBVIOUS
<1>e. PICK ln, first : ln = Tail(up[h]) /\ first = <<ok>> OBVIOUS
<1>0. TypeL /\ TypeD /\ Neat(h) /\ queue \in Seq(Job) /\ co[h] \in CoRec BY Typing DEF All, TypeD
<1>1. /\ disp.pc = "select" /\ up[h] # <<>> /\ Head(up[h]).kind = "register" /\ Heard(h)
      /\ entry' = Append(entry, h) /\ DispatchJob(h, "registServer", queue, st, ln, first)
      /\ UNCHANGED <<jobMap, coor, co, engine, where, submitted>>
  BY <1>l, <1>e DEF Register
<1>2. up[h] \in Seq(UpLine) /\ down[h] \in Seq(DownLine) BY <1>0 DEF Neat, Spoken
<1>3. up'[h] = Tail(up[h]) /\ \A g \in Host : g # h => up'[g] = up[g]
  BY <1>0, <1>1, HeardMoves
<1>4. ~Known(h) /\ Young(co[h], up[h], down[h])
  <2>1. Head(up[h]) = up[h][1] /\ 1 \in DOMAIN up[h] BY <1>1, <1>2, WordOf
  <2>2. ~Served(co[h], up[h], down[h]) BY <1>1, <2>1 DEF Served
  <2>3. QED BY <1>0, <1>1, <2>2 DEF Neat, Fresh, Gone
<1>5. /\ co[h].pc \in {"register", "dead"} /\ co[h].session = None /\ down[h] = <<>>
      /\ up[h] = <<Line("register")>> /\ up'[h] = <<>>
  <2>1. \A x : Tail(<<x>>) = <<>> OBVIOUS
  <2>2. QED BY <1>1, <1>3, <1>4, <2>1 DEF Young
<1>6. /\ queue = <<>> => /\ queue' = <<>> /\ disp' = AtSelect /\ Write(h, first)
                         /\ status' = StatusAfter(st, h, "registServer", "neg")
      /\ queue # <<>> => /\ queue' = Tail(queue) /\ status' = st
                         /\ disp'.pc = "env" /\ disp'.host = h /\ disp'.caller = "registServer"
                         /\ Busy(h)' /\ Write(h, first \o <<Line("setupEnv")>>)
      /\ \A i \in Job : Member(queue', i) \/ Loading(i)' => Member(queue, i)
      /\ queue' # <<>> => queue # <<>>
      /\ \A g \in Host : g # h => ~Addressed(g)'
      /\ Placed' /\ ~Putting(h)' /\ ~Ticking(h)' /\ disp'.pc # "setup"
  BY <1>0, <1>1, Begun
<1>7. l \in DownLine /\ ok \in DownLine /\ l.kind = "setupEnv" /\ ok.kind = "OK"
  BY <1>l, DownLines DEF DownKinds, Line
<1>8. /\ co[h].pc = "dead" => down'[h] = <<>>
      /\ co[h].pc # "dead" => down'[h] \in {<<ok>>, <<ok, l>>}
      /\ \A g \in Host : g # h => down'[g] = down[g]
  <2>2. PICK ks : ks \in {first, first \o <<Line("setupEnv")>>} /\ Write(h, ks) BY <1>6
  <2>3. first \o <<l>> = <<ok, l>>
    <3>1. PICK z, a, b : z = a \o b /\ a = <<ok>> /\ b = <<l>> OBVIOUS
    <3>2. /\ a \in Seq(DownLine) /\ b \in Seq(DownLine)
          /\ Len(a) = 1 /\ Len(b) = 1 /\ a[1] = ok /\ b[1] = l
      BY <1>7, <3>1
    <3>3. \A x, y \in Seq(DownLine) :
             /\ x \o y \in Seq(DownLine) /\ Len(x \o y) = Len(x) + Len(y)
             /\ \A k \in 1 .. Len(x) : (x \o y)[k] = x[k]
             /\ \A k \in 1 .. Len(y) : (x \o y)[Len(x) + k] = y[k]
      OBVIOUS
    <3>4. z \in Seq(DownLine) /\ Len(z) = 2 /\ z[1] = ok /\ z[2] = l
      <4>1. 1 \in 1 .. Len(a) /\ 1 \in 1 .. Len(b) BY <3>2
      <4>2. /\ a \o b \in Seq(DownLine) /\ Len(a \o b) = Len(a) + Len(b)
            /\ \A k \in 1 .. Len(a) : (a \o b)[k] = a[k]
            /\ \A k \in 1 .. Len(b) : (a \o b)[Len(a) + k] = b[k]
        BY <3>2, <3>3
      <4>3. (a \o b)[1] = a[1] /\ (a \o b)[Len(a) + 1] = b[1] BY <4>1, <4>2
      <4>4. PICK y : y = a \o b OBVIOUS
      <4>5. z = y /\ y \in Seq(DownLine) /\ Len(y) = 1 + 1 /\ y[1] = ok /\ y[1 + 1] = l
        BY <3>1, <3>2, <4>2, <4>3, <4>4
      <4>6. QED BY <4>5
    <3>5. <<ok, l>> \in Seq(DownLine) /\ Len(<<ok, l>>) = 2 BY <1>7
    <3>6. z = <<ok, l>> BY <3>4, <3>5
    <3>7. QED BY <1>e, <3>1, <3>6
  <2>4. ks \in {<<ok>>, <<ok, l>>} BY <1>l, <1>e, <2>2, <2>3
  <2>5. /\ down'[h] = IF co[h].pc = "dead" THEN down[h] ELSE down[h] \o ks
        /\ \A g \in Host : g # h => down'[g] = down[g]
    BY <1>0, <2>2, WriteMoves
  <2>6. <<>> \o <<ok>> = <<ok>> /\ <<>> \o <<ok, l>> = <<ok, l>> OBVIOUS
  <2>7. <<>> \o ks = ks BY <2>4, <2>6
  <2>8. QED BY <1>5, <2>4, <2>5, <2>7
<1>9. \A g \in Host : status'[g] = IF g = h THEN "FREE" ELSE status[g]
  <2>1. status' = st
    <3>1. CASE queue = <<>> BY <1>6, <3>1 DEF StatusAfter
    <3>2. CASE queue # <<>> BY <1>6, <3>2
    <3>3. QED BY <3>1, <3>2
  <2>2. QED BY <1>0, <1>l, <2>1 DEF TypeD
<1>10. Filed' BY <1>1 DEF All, Filed, Member
<1>11. Settled' BY <1>1, <1>6 DEF All, Settled
<1>12. \A g \in Host : Running(g)' = Running(g) BY <1>1 DEF Running
<1>13. Known(h)' /\ \A g \in Host : g # h => (Known(g)' <=> Known(g))
  <2>1. PICK z, n : z = Append(entry, h) /\ n = Len(entry) OBVIOUS
  <2>2. /\ DOMAIN z = 1 .. n + 1 /\ z[n + 1] = h /\ DOMAIN entry = 1 .. n /\ n \in Nat
        /\ \A k \in 1 .. n : z[k] = entry[k]
    BY <1>0, <2>1 DEF TypeD
  <2>3. /\ n + 1 \in 1 .. n + 1
        /\ \A k \in 1 .. n : k \in 1 .. n + 1
        /\ \A k \in 1 .. n + 1 : k \in 1 .. n \/ k = n + 1
    BY <2>2
  <2>4. entry' = z BY <1>1, <2>1
  <2>5. QED BY <2>2, <2>3, <2>4 DEF Known
<1>14. ASSUME NEW g \in Host, g # h PROVE Neat(g)'
  <2>1. Neat(g) BY DEF All
  <2>2. ~Addressed(g) /\ ~Addressed(g)' BY <1>1, <1>6, <1>14 DEF Addressed
  <2>3. Clear(g)' => Clear(g) BY <1>6, <1>9, <1>14 DEF Clear
  <2>4. Running(g)' = Running(g) \ {None} BY <1>12, NoneRuns
  <2>5. QED BY <1>1, <1>3, <1>8, <1>9, <1>13, <1>14, <2>1, <2>2, <2>3, <2>4, Aside
<1>15. Neat(h)'
  <2>1. PICK d : d = down'[h] OBVIOUS
  <2>2. /\ d \in Seq(DownLine)
        /\ \A i \in DOMAIN d : d[i].kind \in {"OK", "setupEnv"}
        /\ co[h].pc # "dead" => d # <<>> /\ Head(d).kind = "OK"
    <3>1. CASE d = <<>> /\ co[h].pc = "dead" BY <3>1
    <3>2. CASE d = <<ok>>
      <4>1. DOMAIN d = {1} /\ d[1] = ok BY <3>2
      <4>2. d \in Seq(DownLine) /\ d # <<>> /\ Head(d) = ok BY <1>7, <3>2
      <4>3. QED BY <1>7, <4>1, <4>2
    <3>3. CASE d = <<ok, l>>
      <4>1. DOMAIN d = {1, 2} /\ d[1] = ok /\ d[2] = l BY <3>3
      <4>2. d \in Seq(DownLine) /\ d # <<>> /\ Head(d) = ok BY <1>7, <3>3
      <4>3. QED BY <1>7, <4>1, <4>2
    <3>4. QED BY <1>8, <2>1, <3>1, <3>2, <3>3
  <2>3. Spoken(h)' BY <1>5, <2>1, <2>2 DEF Spoken
  <2>4. Reports(h)' BY <1>5 DEF Reports
  <2>5. Coord(h)' BY <1>0, <1>1 DEF Neat, Coord, LiveAt
  <2>6. Fresh(h)'
    <3>1. \A i \in DOMAIN up'[h] : up'[h][i].kind # "register" BY <1>5
    <3>2. Served(co'[h], up'[h], down'[h])
      BY <1>1, <1>5, <2>1, <2>2, <3>1 DEF Served
    <3>3. QED BY <1>13, <3>2 DEF Fresh
  <2>7. Files(h)'
    <3>1. co'[h].pc # "file" BY <1>1, <1>5
    <3>2. \A i \in DOMAIN d : d[i].kind # "BG_putFile" BY <2>2
    <3>3. QED BY <2>1, <3>1, <3>2 DEF Files, Filing, Fed
  <2>8. Turned(h)'
    <3>1. CASE queue = <<>> BY <1>6, <3>1, Idles DEF Turned
    <3>2. CASE queue # <<>> BY <1>6, <3>2 DEF Turned
    <3>3. QED BY <3>1, <3>2
  <2>9. RoadOK(h)'
    <3>1. PICK R, live : R = Running(h) /\ live = (co[h].pc # "dead") OBVIOUS
    <3>2. live => R = {}
      <4>1. Sound(RoadOf(co[h], up[h], down[h]), R, live, Held(h), Turn(h), Clear(h), Ticking(h))
        BY <1>0, <3>1 DEF Neat, RoadOK, Road
      <4>2. live => Owned(RoadOf(co[h], up[h], down[h]), R) BY <4>1 DEF Sound
      <4>3. PICK x : x = Line("register") OBVIOUS
      <4>4. x.kind = "register" /\ x \in Letter BY <4>3, Letters DEF Line, UpKinds
      <4>5. live => RoadOf(co[h], up[h], down[h]) = up[h] \o down[h]
        <5>1. /\ up[h] \o Mark(co[h]) = up[h]
              /\ live => Ahead(co[h], down[h]) = down[h]
          BY <1>0, <1>2, <1>5, <3>1, RoadParts
        <5>2. QED BY <5>1 DEF RoadOf
      <4>6. up[h] \o down[h] = <<x>> BY <1>5, <4>3
      <4>7. live => \A j \in R : Some(<<x>>, Of(j)) BY <4>2, <4>5, <4>6 DEF Owned
      <4>8. \A j : ~Some(<<x>>, Of(j)) BY <4>4, LoneWord, Classes
      <4>9. QED BY <4>7, <4>8
    <3>3. PICK w : w = RoadOf(co[h], up'[h], d) OBVIOUS
    <3>4. w = IF live THEN d ELSE <<>>
      <4>1. <<>> \in Seq(UpLine) OBVIOUS
      <4>2. /\ <<>> \o Mark(co[h]) = <<>>
            /\ live => Ahead(co[h], d) = d
            /\ ~live => Ahead(co[h], d) = <<>>
        <5>1. Mark(co[h]) = <<>> BY <1>5 DEF Mark
        <5>2. live => Ahead(co[h], d) = d BY <1>0, <1>5, <2>2, <3>1, <4>1, RoadParts
        <5>3. ~live => Ahead(co[h], d) = <<>> BY <3>1 DEF Ahead
        <5>4. <<>> \o <<>> = <<>> OBVIOUS
        <5>5. QED BY <5>1, <5>2, <5>3, <5>4
      <4>3. <<>> \o d = d /\ <<>> \o <<>> = <<>> BY <2>2, WordOf
      <4>4. QED BY <1>5, <3>3, <4>2, <4>3 DEF RoadOf
    <3>5. w \in Seq(Letter) /\ \A i \in DOMAIN w : w[i].kind \in {"register", "OK", "setupEnv"}
      <4>1. d \in Seq(Letter) BY <2>2, Letters, WordOf
      <4>2. CASE live BY <2>2, <3>4, <4>1, <4>2
      <4>3. CASE ~live BY <3>4, <4>3
      <4>4. QED BY <4>2, <4>3
    <3>6. PICK turn, yes : turn = Turn(h)' /\ yes = TRUE OBVIOUS
    <3>7. PICK no : no = FALSE OBVIOUS
    <3>8. Sound(w, R, live, yes, turn, yes, no) BY <3>2, <3>5, Blank
    <3>9. Sound(RoadOf(co[h], up'[h], down'[h]), R, co[h].pc # "dead", yes, turn, yes, no)
      BY <2>1, <3>1, <3>3, <3>8
    <3>10. R = Running(h)' /\ co' = co BY <1>1, <1>12, <3>1
    <3>11. Turn(h)' \in {turn, "none"} BY <3>6
    <3>a. (Held(h)' => yes) /\ (Clear(h)' => yes) /\ (no => Ticking(h)') BY <3>6, <3>7
    <3>12. QED BY <3>9, <3>10, <3>11, <3>a, RoadIs
  <2>10. QED BY <2>3, <2>4, <2>5, <2>6, <2>7, <2>8, <2>9 DEF Neat
<1>16. QED BY <1>6, <1>10, <1>11, <1>14, <1>15 DEF All

-----------------------------------------------------------------------------
(* The invariant as a whole.                                               *)

LEMMA ReadsAll ==
  ASSUME CInv, All, DispatcherReads, JobsKept'
  PROVE  All'
<1>1. ASSUME NEW h \in Host,
             Register(h) \/ SetStatus(h) \/ JobFinished(h) \/ IgnoreLine(h) \/ RemoveHost(h)
      PROVE  All'
  BY <1>1, RegisterAll, SetStatusAll, JobFinishedAll, IgnoreLineAll, RemoveHostAll
<1>2. CASE DispatchAnswer("env", "put", "BG_putFile") BY <1>2, AnswerAll
<1>3. CASE DispatchAnswer("put", "get", "file") BY <1>3, AnswerAll
<1>4. CASE Dispatched \/ DispatchFailed \/ DispatchBroken
  BY <1>4, DispatchedAll, FailedAll, BrokenAll
<1>5. CASE TickRead \/ EnvAnswer \/ AnswerBroken
  BY <1>5, TickReadAll, NoEnvAnswer, AnswerBrokenAll
<1>6. QED BY <1>1, <1>2, <1>3, <1>4, <1>5 DEF DispatcherReads

LEMMA UsersAll ==
  ASSUME CInv, All, Users, JobsKept'
  PROVE  All'
<1>1. ASSUME NEW j \in Job, Submit(j) \/ StopJob(j) \/ AbortJob(j) \/ GetTick(j)
      PROVE  All'
  BY <1>1, SubmitAll, StopAll, AbortAll, GetTickAll
<1>2. ASSUME NEW j \in Job, DeleteJob(j) PROVE All'
  <2>1. /\ disp.pc = "select" /\ jobMap[j] # "none" /\ jobMap' = [jobMap EXCEPT ![j] = "none"]
        /\ UNCHANGED <<queue, coor, entry, status, disp, up, down, co, engine, where, submitted>>
    BY <1>2 DEF DeleteJob
  <2>2. QED BY <2>1, DeleteAll
<1>3. ASSUME NEW c \in Client, ServRequest(c) PROVE All' BY <1>3, ServRequestAll
<1>4. QED BY <1>1, <1>2, <1>3 DEF Users

\* No client does anything as long as all of them are new.
LEMMA NoClients == ASSUME JobsKept, Clients PROVE FALSE
BY DEF JobsKept, Clients, InitClient, StartSimulation, StopSimulation, PauseSimulation,
       ResumeSimulation, AbortSimulation, HangUp, ClientEnd

LEMMA DispatcherStill ==
  ASSUME All, UNCHANGED dispatcher
  PROVE  Filed' /\ Settled' /\ Placed'
<1>1. UNCHANGED <<queue, jobMap, disp, submitted>> BY DEF dispatcher
<1>2. Filed' BY <1>1 DEF All, Filed, Member
<1>3. Settled' BY <1>1 DEF All, Settled, Member, Loading, Dispatching
<1>4. Placed' BY <1>1 DEF All, Placed
<1>5. QED BY <1>2, <1>3, <1>4

LEMMA NextAll ==
  ASSUME CInv, JobsKept, All, Next, JobsKept'
  PROVE  All'
<1>1. CASE DispatcherReads BY <1>1, ReadsAll
<1>2. CASE Users BY <1>2, UsersAll
<1>3. CASE Engines
  <2>1. PICK r \in Run : EngineDone(r) \/ EngineCrash(r) BY <1>3 DEF Engines
  <2>2. UNCHANGED dispatcher /\ \A g \in Host : Neat(g)' BY <2>1, EngineSteps DEF All
  <2>3. QED BY <2>2, DispatcherStill DEF All
<1>4. CASE Clients BY <1>4, NoClients
<1>5. ASSUME NEW h \in Host, Coordinator(h) \/ HostCrash(h) PROVE All'
  <2>1. UNCHANGED dispatcher /\ \A g \in Host : Neat(g)' BY <1>5, HostSteps DEF All
  <2>2. QED BY <2>1, DispatcherStill DEF All
<1>6. QED BY <1>1, <1>2, <1>3, <1>4, <1>5 DEF Next

\* Nothing changes.
LEMMA StillAll ==
  ASSUME UNCHANGED vars
  PROVE  (JobsKept => JobsKept') /\ (JobsKept' => JobsKept) /\ (All => All')
<1>1. UNCHANGED <<queue, jobMap, coor, entry, status, disp, up, down,
                  co, engine, where, gui, submitted, misled>>
  BY DEF vars
<1>2. (JobsKept <=> JobsKept')
  BY <1>1 DEF JobsKept
<1>3. Filed = Filed' /\ Settled = Settled' /\ Placed = Placed'
  BY <1>1 DEF Filed, Settled, Placed, Member, Loading, Dispatching
<1>4. ASSUME NEW h \in Host, Neat(h) PROVE Neat(h)'
  <2>1. Spoken(h)' /\ Coord(h)' /\ Turned(h)'
    BY <1>1, <1>4 DEF Neat, Spoken, Coord, LiveAt, Turned, Busy, Dispatching
  <2>2. Reports(h)'
    <3>1. \A k \in DOMAIN up[h] : up[h][k].kind = "jobFinished" => engine[up[h][k].job] \in {"ended", "dead"}
      BY <1>4 DEF Neat, Reports, Over
    <3>2. QED BY <1>1, <3>1 DEF Reports, Over
  <2>3. Fresh(h)' BY <1>1, <1>4 DEF Neat, Fresh, Known, Addressed
  <2>4. Files(h)' BY <1>1, <1>4 DEF Neat, Files, Filing, Putting
  <2>5. RoadOK(h)'
    BY <1>1, <1>4 DEF Neat, RoadOK, Road, Running, Held, Turn, Clear, Ticking, Busy, Dispatching
  <2>6. QED BY <2>1, <2>2, <2>3, <2>4, <2>5 DEF Neat
<1>5. QED BY <1>2, <1>3, <1>4 DEF All

-----------------------------------------------------------------------------
(* The invariant holds as long as everything is kept.                      *)
\* Engines, clients and coordinators change nothing the dispatcher keeps.
LEMMA OthersStill ==
  ASSUME Engines \/ Clients \/ \E h \in Host : Coordinator(h) \/ HostCrash(h)
  PROVE  UNCHANGED dispatcher
<1>1. ASSUME Engines PROVE UNCHANGED dispatcher
  BY <1>1 DEF Engines, EngineDone, EngineCrash
<1>2. ASSUME Clients PROVE UNCHANGED dispatcher
  BY <1>2 DEF Clients, InitClient, StartSimulation, StopSimulation, PauseSimulation,
              ResumeSimulation, AbortSimulation, HangUp, ClientEnd
<1>3. ASSUME NEW h \in Host, Coordinator(h) \/ HostCrash(h) PROVE UNCHANGED dispatcher
  BY <1>3 DEF Coordinator, HostCrash, BGStart, Boot, Registered, SetupEnv, PutFile, GotFile,
              TickAnswer, JobStop, JobAbort, Acknowledged, NoAcknowledgement, SimulationDone,
              EngineClosed, EngineConnects
<1>4. QED BY <1>1, <1>2, <1>3

\* A state in which everything is kept is reached through such states only.
LEMMA KeptBefore ==
  ASSUME CInv, Next, JobsKept'
  PROVE  JobsKept
<1>0. TypeD /\ TypeOK /\ Socks /\ News /\ Talk BY Typing DEF CInv
<1>2. ~misled /\ Smooth
  <2>1. CASE DispatcherReads
    <3>1. ASSUME NEW h \in Host,
                 Register(h) \/ SetStatus(h) \/ JobFinished(h) \/ IgnoreLine(h) \/ RemoveHost(h)
          PROVE  misled' = misled /\ Smooth
      BY <1>0, <3>1, ServerTalk
      DEF Register, SetStatus, JobFinished, IgnoreLine, RemoveHost, dispatcher
    <3>2. CASE DispatchAnswer("env", "put", "BG_putFile")
      BY <1>0, <3>2, AnswerTalk DEF DispatchAnswer, JobsKept
    <3>3. CASE DispatchAnswer("put", "get", "file")
      BY <1>0, <3>3, AnswerTalk DEF DispatchAnswer, JobsKept
    <3>4. CASE \/ Dispatched \/ DispatchFailed \/ DispatchBroken
               \/ TickRead \/ EnvAnswer \/ AnswerBroken
      <4>1. Smooth BY <1>0, <3>4, ReadTalk
      <4>2. misled' = misled \/ \E b : misled' = (misled \/ b)
        BY <3>4 DEF Dispatched, DispatchFailed, DispatchBroken, TickRead, EnvAnswer, AnswerBroken
      <4>3. ~misled BY <4>2 DEF JobsKept
      <4>4. QED BY <4>1, <4>3
    <3>5. QED BY <2>1, <3>1, <3>2, <3>3, <3>4 DEF DispatcherReads, JobsKept
  <2>2. CASE Users
    <3>1. Smooth BY <1>0, <2>2, UserTalk
    <3>2. ASSUME NEW j \in Job, Submit(j) \/ StopJob(j) \/ AbortJob(j) \/ DeleteJob(j) \/ GetTick(j)
          PROVE  misled => misled'
      <4>1. CASE StopJob(j) \/ AbortJob(j) BY <4>1, Controlled
      <4>2. CASE Submit(j) \/ DeleteJob(j) BY <4>2 DEF Submit, DeleteJob
      <4>3. CASE GetTick(j) BY <4>3 DEF GetTick
      <4>4. QED BY <3>2, <4>1, <4>2, <4>3
    <3>3. ASSUME NEW c \in Client, ServRequest(c) PROVE misled' = misled
      BY <3>3 DEF ServRequest
    <3>4. misled => misled' BY <2>2, <3>2, <3>3 DEF Users
    <3>5. QED BY <3>1, <3>4 DEF JobsKept
  <2>3. CASE Engines
    <3>1. PICK r \in Run : EngineDone(r) \/ EngineCrash(r) BY <2>3 DEF Engines
    <3>2. Smooth BY <1>0, <3>1, EngineMoves
    <3>3. misled' = misled BY <3>1 DEF EngineDone, EngineCrash, dispatcher
    <3>4. QED BY <3>2, <3>3 DEF JobsKept
  <2>4. CASE Clients
    <3>1. PICK c \in Client :
            \/ InitClient(c) \/ StartSimulation(c) \/ StopSimulation(c) \/ PauseSimulation(c)
            \/ ResumeSimulation(c) \/ AbortSimulation(c) \/ HangUp(c) \/ ClientEnd(c)
      BY <2>4 DEF Clients
    <3>2. Smooth BY <1>0, <3>1, ClientMoves
    <3>3. misled' = misled
      BY <3>1 DEF InitClient, StartSimulation, StopSimulation, PauseSimulation,
                  ResumeSimulation, AbortSimulation, HangUp, ClientEnd, dispatcher
    <3>4. QED BY <3>2, <3>3 DEF JobsKept
  <2>5. ASSUME NEW h \in Host, Coordinator(h) \/ HostCrash(h) PROVE ~misled /\ Smooth
    <3>1. Smooth /\ Local(h) BY <1>0, <2>5, CoordinatorMoves DEF CInv
    <3>2. misled' = misled
      BY <2>5 DEF Coordinator, HostCrash, BGStart, Boot, Registered, SetupEnv, PutFile,
                  GotFile, TickAnswer, JobStop, JobAbort, Acknowledged, NoAcknowledgement,
                  SimulationDone, EngineClosed, EngineConnects, dispatcher
    <3>3. QED BY <3>1, <3>2 DEF JobsKept
  <2>6. QED BY <2>1, <2>2, <2>3, <2>4, <2>5 DEF Next
<1>3. \A c \in Client : gui[c] = "new" BY <1>2 DEF JobsKept, Smooth
<1>4. QED BY <1>2, <1>3 DEF JobsKept

LEMMA InitAll == Init => All
<1> SUFFICES ASSUME Init PROVE All OBVIOUS
<1>1. Filed /\ Settled /\ Placed BY DEF Init, Filed, Settled, Placed, AtSelect
<1>2. ASSUME NEW h \in Host PROVE Neat(h)
  <2>1. /\ up[h] = <<>> /\ down[h] = <<>> /\ entry = <<>> /\ status[h] = "BUSY" /\ disp.pc = "select"
        /\ co[h].pc = "off" /\ co[h].session = None /\ co[h].pid = None /\ co[h].sock = None
        /\ co[h].active = None
        /\ \A r \in Run : engine[r] = "none"
        /\ \A j \in Job : jobMap[j] = "none"
    BY <1>2, JobConstants DEF Init, AtSelect, Run
  <2>2. ~Busy(h) /\ ~Putting(h) /\ ~Addressed(h) /\ Turn(h) = "none"
    BY <2>1 DEF Busy, Dispatching, Putting, Addressed, Turn
  <2>3. Spoken(h) /\ Reports(h) BY <2>1 DEF Spoken, Reports
  <2>4. Coord(h)
    <3>1. LiveAt(h) = {} BY <2>1 DEF LiveAt, Live
    <3>2. QED BY <2>1, <3>1 DEF Coord
  <2>5. Fresh(h)
    <3>1. Young(co[h], up[h], down[h]) BY <2>1 DEF Young
    <3>2. ~Known(h) BY <2>1 DEF Known
    <3>3. QED BY <2>1, <2>2, <3>1, <3>2 DEF Fresh
  <2>6. Files(h) BY <2>1 DEF Files, Filing, Fed
  <2>7. RoadOK(h)
    <3>1. Road(h) = <<>> BY <2>1 DEF Road, RoadOf, Mark, Ahead, Hold
    <3>2. Running(h) = {} BY <2>1 DEF Running
    <3>3. PICK w, R, live, held, clear, asked :
            /\ w = Road(h) /\ R = Running(h) /\ live = (co[h].pc # "dead") /\ held = Held(h)
            /\ clear = Clear(h) /\ asked = Ticking(h)
      OBVIOUS
    <3>4. w \in Seq(Letter) /\ DOMAIN w = {} BY <3>1, <3>3
    <3>5. Sound(w, R, live, held, "none", clear, asked) BY <3>2, <3>3, <3>4, Blank
    <3>6. QED BY <2>2, <3>3, <3>5 DEF RoadOK
  <2>8. Turned(h) BY <2>2 DEF Turned
  <2>9. QED BY <2>3, <2>4, <2>5, <2>6, <2>7, <2>8 DEF Neat
<1>3. QED BY <1>1, <1>2 DEF All

(* The inductive invariant: the roads are sound as long as all is kept.    *)
KInv == CInv /\ (JobsKept => All)

LEMMA KInvInit == Init => KInv
BY CInvInit, InitAll DEF KInv

LEMMA KInvNext == KInv /\ [Next]_vars => KInv'
<1> SUFFICES ASSUME CInv, JobsKept => All, [Next]_vars PROVE KInv' BY DEF KInv
<1>1. CInv' BY CInvNext
<1>2. ASSUME Next, JobsKept' PROVE All'
  <2>1. JobsKept BY <1>2, KeptBefore
  <2>2. QED BY <1>2, <2>1, NextAll
<1>3. ASSUME UNCHANGED vars, JobsKept' PROVE All' BY <1>3, StillAll
<1>4. QED BY <1>1, <1>2, <1>3 DEF KInv

(* What the dispatcher relies on when it hands a host the next job: a      *)
(* registered host whose status is FREE runs no engine, and its            *)
(* coordinator keeps no session, as long as no client used a host          *)
(* interactively, no running job was aborted, and neither dispatchJob's    *)
(* result nor a line of or for another host misled the dispatcher.         *)
(* Submissions, stops, deletions, listings, reports, the ends of engines   *)
(* and crashes may cross on the way: none of them may free a host that a   *)
(* job still holds.                                                        *)
THEOREM FreeHostsAreIdle == Spec => []FreeIsIdle
<1>1. KInv => FreeIsIdle
  <2> SUFFICES ASSUME KInv, JobsKept, NEW h \in Host, Known(h), status[h] = "FREE"
               PROVE  LiveAt(h) = {} /\ co[h].session = None
    BY DEF FreeIsIdle
  <2>0. CInv /\ TypeOK BY Typing DEF KInv
  <2>1. All BY DEF KInv
  <2>2. Neat(h) /\ co[h] \in CoRec /\ None \notin Run BY <2>0, <2>1, Typing DEF All
  <2>3. up[h] \in Seq(UpLine) /\ down[h] \in Seq(DownLine) BY <2>2 DEF Neat, Spoken
  <2>4. Idle(Road(h), Running(h)) BY <2>2 DEF Neat, RoadOK, Sound, Held
  <2>5. co[h].session = None
    <3> SUFFICES ASSUME co[h].session # None PROVE FALSE OBVIOUS
    <3> DEFINE u == up[h]
               m == LineOf("session", co[h].session)
               a == Ahead(co[h], down[h])
               R == Running(h)
    <3>1. u \in Seq(Letter) /\ a \in Seq(Letter) /\ m \in Letter /\ Road(h) = (u \o <<m>>) \o a
      BY <2>2, <2>3, RoadParts DEF Road, RoadOf
    <3>2. m.kind = "session" BY DEF LineOf
    <3> HIDE DEF u, m, a, R
    <3>3. m \in Jobs(R) BY <3>1, <3>2, Classes
    <3> DEFINE p == u \o <<m>>
    <3>4. p \in Seq(Letter) /\ Some(p, Jobs(R)) BY <3>1, <3>3, AddOne
    <3> HIDE DEF p
    <3>5. Some(p \o a, Jobs(R)) BY <3>1, <3>4, Cat
    <3>6. QED BY <2>4, <3>1, <3>5 DEF Idle, p, R
  <2>6. LiveAt(h) \subseteq {None} /\ LiveAt(h) \subseteq Run BY <2>2, <2>5 DEF Neat, Coord, LiveAt
  <2>7. QED BY <2>2, <2>5, <2>6
<1>2. QED BY <1>1, KInvInit, KInvNext, PTL DEF Spec

(* And on the same conditions no host simulates two jobs: what lives there *)
(* is the process whose id its coordinator keeps (engine_pid), or kept     *)
(* when it died, so that a stop command reaches the engine it is meant for.*)
THEOREM OneJobAtATime == Spec => []OneAtATime
<1>1. KInv => OneAtATime
  <2> SUFFICES ASSUME KInv, JobsKept, NEW h \in Host, NEW r \in LiveAt(h)
               PROVE  r = co[h].pid
    BY DEF OneAtATime
  <2>0. CInv /\ TypeOK BY Typing DEF KInv
  <2>1. All BY DEF KInv
  <2>2. Coord(h) BY <2>1 DEF All, Neat
  <2>3. r = co[h].session /\ r \in Run /\ None \notin Run BY <2>0, <2>2, Typing DEF Coord, LiveAt
  <2>4. QED BY <2>2, <2>3 DEF Coord
<1>2. QED BY <1>1, KInvInit, KInvNext, PTL DEF Spec

-----------------------------------------------------------------------------
(* Jobs that are FINISHED.                                                 *)
\* Every job that is FINISHED has had an engine, which has ended or died.
Ended == \A j \in Job : jobMap[j] = "FINISHED" => Over(j)

\* No step revives an engine.
LEMMA StepOnward ==
  ASSUME CInv, All, JobsKept, Next, JobsKept'
  PROVE  Onward
<1>0. TypeD /\ TypeC BY Typing
<1>1. CASE DispatcherReads
  <2>1. ASSUME EnvAnswer PROVE FALSE BY <2>1, NoEnvAnswer
  <2>2. engine' = engine
    BY <1>1, <2>1
    DEF DispatcherReads, Register, SetStatus, JobFinished, IgnoreLine, RemoveHost, DispatchAnswer,
        Dispatched, DispatchFailed, DispatchBroken, TickRead, AnswerBroken
  <2>3. QED BY <2>2 DEF Onward, Over
<1>2. CASE Users
  <2>1. engine' = engine
    BY <1>2, Controlled DEF Users, Submit, DeleteJob, GetTick, ServRequest
  <2>2. QED BY <2>1 DEF Onward, Over
<1>3. CASE Engines
  <2>1. PICK r \in Run : EngineDone(r) \/ EngineCrash(r) BY <1>3 DEF Engines
  <2>2. engine[r] \in {"forked", "up"} /\ \E s : engine' = [engine EXCEPT ![r] = s]
    BY <2>1 DEF EngineDone, EngineCrash
  <2>3. QED BY <1>0, <2>2 DEF Onward, Over, TypeC
<1>4. CASE Clients BY <1>4, NoClients
<1>5. ASSUME NEW h \in Host, Coordinator(h) PROVE Onward BY <1>5, CoordinatorOnward DEF All
<1>6. ASSUME NEW h \in Host, HostCrash(h) PROVE Onward BY <1>6 DEF HostCrash, Onward, Over
<1>7. QED BY <1>1, <1>2, <1>3, <1>4, <1>5, <1>6 DEF Next

\* Only a line jobFinished, or a user who stops the job, makes a job FINISHED.
LEMMA FinishedBy ==
  ASSUME CInv, Next, "stop" \notin Ops, NEW j \in Job, jobMap'[j] = "FINISHED", jobMap[j] # "FINISHED"
  PROVE  \E h \in Host : /\ up[h] # <<>> /\ Head(up[h]).kind = "jobFinished" /\ Head(up[h]).job = j
<1>0. TypeD BY Typing
<1>1. CASE UNCHANGED jobMap BY <1>1
<1>2. ASSUME NEW i, NEW s, s # "FINISHED", jobMap' = [jobMap EXCEPT ![i] = s] PROVE FALSE
  BY <1>0, <1>2 DEF TypeD
<1>3. CASE DispatcherReads
  <2>1. ASSUME NEW h \in Host, Register(h) \/ SetStatus(h) \/ IgnoreLine(h) \/ RemoveHost(h)
        PROVE  UNCHANGED jobMap
    BY <2>1 DEF Register, SetStatus, IgnoreLine, RemoveHost, dispatcher
  <2>2. ASSUME NEW h \in Host, JobFinished(h)
        PROVE  up[h] # <<>> /\ Head(up[h]).kind = "jobFinished" /\ Head(up[h]).job = j
    <3>1. PICK i : i = Head(up[h]).job OBVIOUS
    <3>2. /\ up[h] # <<>> /\ Head(up[h]).kind = "jobFinished"
          /\ jobMap' = IF jobMap[i] = "none" THEN jobMap ELSE [jobMap EXCEPT ![i] = "FINISHED"]
      BY <2>2, <3>1 DEF JobFinished
    <3>3. i = j BY <1>0, <3>2 DEF TypeD
    <3>4. QED BY <3>1, <3>2, <3>3
  <2>3. CASE \/ DispatchAnswer("env", "put", "BG_putFile") \/ DispatchAnswer("put", "get", "file")
             \/ DispatchFailed \/ DispatchBroken \/ TickRead \/ EnvAnswer \/ AnswerBroken
    <3>1. UNCHANGED jobMap
      BY <2>3 DEF DispatchAnswer, DispatchFailed, DispatchBroken, TickRead, EnvAnswer, AnswerBroken
    <3>2. QED BY <1>1, <3>1
  <2>4. CASE Dispatched
    <3>1. jobMap' = [jobMap EXCEPT ![disp.run] = "RUNNING"] BY <2>4 DEF Dispatched
    <3>2. QED BY <1>2, <3>1
  <2>5. QED BY <1>1, <1>3, <2>1, <2>2, <2>3, <2>4 DEF DispatcherReads
<1>4. CASE Users
  <2>1. ASSUME NEW i \in Job, Submit(i) \/ StopJob(i) \/ AbortJob(i) \/ DeleteJob(i) \/ GetTick(i)
        PROVE  FALSE
    <3>1. CASE Submit(i)
      <4>1. jobMap' = [jobMap EXCEPT ![i] = "WAITING"] BY <3>1 DEF Submit
      <4>2. QED BY <1>2, <4>1
    <3>2. CASE AbortJob(i) \/ DeleteJob(i)
      <4>1. jobMap' = jobMap \/ jobMap' = [jobMap EXCEPT ![i] = "none"]
        BY <3>2, Commanded DEF AbortJob, DeleteJob
      <4>2. QED BY <1>2, <4>1
    <3>3. CASE StopJob(i) BY <3>3 DEF StopJob
    <3>4. CASE GetTick(i)
      <4>1. UNCHANGED jobMap BY <3>4 DEF GetTick
      <4>2. QED BY <4>1
    <3>5. QED BY <2>1, <3>1, <3>2, <3>3, <3>4
  <2>2. ASSUME NEW c \in Client, ServRequest(c) PROVE UNCHANGED jobMap BY <2>2 DEF ServRequest
  <2>3. QED BY <1>1, <1>4, <2>1, <2>2 DEF Users
<1>5. CASE Engines \/ Clients \/ \E h \in Host : Coordinator(h) \/ HostCrash(h)
  <2>1. UNCHANGED dispatcher BY <1>5, OthersStill
  <2>2. QED BY <1>1, <2>1 DEF dispatcher
<1>6. QED BY <1>3, <1>4, <1>5 DEF Next

\* The invariant with the jobs that are over.
EInv == KInv /\ (JobsKept => Ended)

LEMMA EInvInit == Init => EInv
BY KInvInit DEF EInv, Ended, Init

LEMMA EInvNext == "stop" \notin Ops => (EInv /\ [Next]_vars => EInv')
<1> SUFFICES ASSUME "stop" \notin Ops, EInv, [Next]_vars PROVE EInv' OBVIOUS
<1>1. CInv /\ KInv /\ KInv' BY KInvNext DEF EInv, KInv
<1>2. ASSUME Next, JobsKept' PROVE Ended'
  <2>1. JobsKept BY <1>1, <1>2, KeptBefore
  <2>2. All /\ Ended BY <1>1, <2>1 DEF EInv, KInv
  <2>3. Onward BY <1>1, <1>2, <2>1, <2>2, StepOnward
  <2>4. ASSUME NEW j \in Job, jobMap'[j] = "FINISHED" PROVE Over(j)
    <3>1. CASE jobMap[j] = "FINISHED" BY <2>2, <3>1 DEF Ended
    <3>2. CASE jobMap[j] # "FINISHED"
      <4>1. PICK h \in Host : up[h] # <<>> /\ Head(up[h]).kind = "jobFinished" /\ Head(up[h]).job = j
        BY <1>1, <1>2, <2>4, <3>2, FinishedBy
      <4>2. up[h] \in Seq(UpLine) /\ Reports(h) BY <2>2 DEF All, Neat, Spoken
      <4>3. Head(up[h]) = up[h][1] /\ 1 \in DOMAIN up[h] BY <4>1, <4>2, WordOf
      <4>4. QED BY <4>1, <4>2, <4>3 DEF Reports
    <3>3. QED BY <3>1, <3>2
  <2>5. QED BY <1>1, <2>3, <2>4, Typing DEF Ended, Onward
<1>3. ASSUME UNCHANGED vars, JobsKept' PROVE Ended'
  <2>1. JobsKept BY <1>3, StillAll
  <2>2. UNCHANGED <<jobMap, engine>> BY <1>3 DEF vars
  <2>3. QED BY <2>1, <2>2 DEF EInv, Ended, Over
<1>4. QED BY <1>1, <1>2, <1>3 DEF EInv

LEMMA KeptIsOver == EInv => (JobsKept => FinishedIsOver)
BY DEF EInv, Ended, Over, FinishedIsOver, Live

\* With these users and this return value everything is kept.
QuietService == /\ Ops \cap {"stop", "abort", "list", "gui"} = {} /\ Returned = {"nonneg"}

Undisturbed == /\ ~misled /\ (\A c \in Client : gui[c] = "new")
               /\ disp.pc \notin {"tick", "setup"}

LEMMA UndisturbedNext ==
  ASSUME QuietService, CInv, Undisturbed, [Next]_vars
  PROVE  Undisturbed'
<1>0. TypeD BY Typing
<1>1. CASE UNCHANGED vars BY <1>1 DEF vars, Undisturbed
<1>2. CASE DispatcherReads
  <2>1. ASSUME NEW h \in Host, Register(h) \/ SetStatus(h) PROVE Undisturbed'
    <3>1. /\ UNCHANGED <<gui, misled>>
          /\ \E caller, st, line, first : DispatchJob(h, caller, queue, st, line, first)
      BY <2>1 DEF Register, SetStatus
    <3>2. disp'.pc \in {"select", "env"} BY <3>1 DEF DispatchJob, AtSelect
    <3>3. QED BY <3>1, <3>2 DEF Undisturbed
  <2>2. ASSUME NEW h \in Host, JobFinished(h) \/ IgnoreLine(h) \/ RemoveHost(h) PROVE Undisturbed'
    BY <2>2 DEF JobFinished, IgnoreLine, RemoveHost, dispatcher, Undisturbed
  <2>3. CASE DispatchAnswer("env", "put", "BG_putFile") \/ DispatchAnswer("put", "get", "file")
    <3>1. UNCHANGED <<gui, misled>> /\ \E pc \in {"put", "get"} : disp' = [disp EXCEPT !.pc = pc]
      BY <2>3 DEF DispatchAnswer
    <3>2. disp'.pc \in {"put", "get"} BY <1>0, <3>1 DEF TypeD, DispRec
    <3>3. QED BY <3>1, <3>2 DEF Undisturbed
  <2>4. CASE Dispatched
    <3>1. /\ gui' = gui /\ disp' = AtSelect
          /\ misled' = (misled \/ status' # status')
      BY <2>4 DEF Dispatched, QuietService
    <3>2. QED BY <3>1 DEF Undisturbed, AtSelect
  <2>5. CASE DispatchFailed \/ DispatchBroken
    <3>1. UNCHANGED <<gui, misled>> /\ disp' = AtSelect
      BY <2>5 DEF DispatchFailed, DispatchBroken
    <3>2. QED BY <3>1 DEF Undisturbed, AtSelect
  <2>6. CASE TickRead \/ EnvAnswer \/ AnswerBroken
    BY <2>6 DEF TickRead, EnvAnswer, AnswerBroken, Undisturbed
  <2>7. QED BY <1>2, <2>1, <2>2, <2>3, <2>4, <2>5, <2>6 DEF DispatcherReads
<1>3. CASE Users
  <2>1. ASSUME NEW j \in Job, Submit(j) PROVE Undisturbed'
    <3>1. /\ UNCHANGED <<gui, misled>>
          /\ \/ disp' = disp
             \/ \E h, caller, q, st, line, first : DispatchJob(h, caller, q, st, line, first)
      BY <2>1 DEF Submit
    <3>2. disp' = disp \/ disp'.pc \in {"select", "env"} BY <3>1 DEF DispatchJob, AtSelect
    <3>3. QED BY <3>1, <3>2 DEF Undisturbed
  <2>2. ASSUME NEW j \in Job, StopJob(j) \/ AbortJob(j) \/ DeleteJob(j) \/ GetTick(j)
        PROVE  Undisturbed'
    <3>1. ~StopJob(j) /\ ~AbortJob(j) /\ ~GetTick(j)
      BY DEF StopJob, AbortJob, GetTick, QuietService
    <3>2. QED BY <2>2, <3>1 DEF DeleteJob, Undisturbed
  <2>3. ASSUME NEW c \in Client, ServRequest(c) PROVE FALSE
    BY <2>3 DEF ServRequest, QuietService
  <2>4. QED BY <1>3, <2>1, <2>2, <2>3 DEF Users
<1>4. CASE Engines BY <1>4 DEF Engines, EngineDone, EngineCrash, dispatcher, Undisturbed
<1>5. CASE Clients
  BY <1>5 DEF Undisturbed, Clients, InitClient, StartSimulation, StopSimulation, PauseSimulation,
       ResumeSimulation, AbortSimulation, HangUp, ClientEnd
<1>6. ASSUME NEW h \in Host, Coordinator(h) \/ HostCrash(h) PROVE Undisturbed'
  <2>1. UNCHANGED dispatcher BY <1>6, OthersStill
  <2>2. Smooth /\ Local(h) BY <1>6, CoordinatorMoves DEF CInv
  <2>3. QED BY <2>1, <2>2 DEF dispatcher, Undisturbed, Local
<1>7. QED BY <1>1, <1>2, <1>3, <1>4, <1>5, <1>6 DEF Next

LEMMA UndisturbedInit == Init => Undisturbed
BY DEF Init, Undisturbed, AtSelect

(* A job becomes FINISHED by a jobFinished line, which its coordinator     *)
(* writes when the engine has exited, died or was stopped, or by a stop    *)
(* request.  Where nobody stops a job its engine has ended or died by      *)
(* then, as long as all is kept: no jobFinished line names a job that      *)
(* lives, however reports, crashes and new jobs of its host interleave.    *)
THEOREM FinishedWhileKept == "stop" \notin Ops => (Spec => [](JobsKept => FinishedIsOver))
<1> SUFFICES ASSUME "stop" \notin Ops PROVE Spec => [](JobsKept => FinishedIsOver) OBVIOUS
<1>1. EInv /\ [Next]_vars => EInv' BY EInvNext
<1>2. QED BY <1>1, EInvInit, KeptIsOver, PTL DEF Spec

(* Where jobs are submitted and deleted only, dispatchJob returns what     *)
(* happened, and engines and hosts may still die, all is always kept: what *)
(* the dispatcher calls FINISHED runs no more.                             *)
THEOREM FinishedJobsAreOver == QuietService => (Spec => []FinishedIsOver)
<1> SUFFICES ASSUME QuietService PROVE Spec => []FinishedIsOver OBVIOUS
<1>1. EInv /\ [Next]_vars => EInv'
  <2>1. "stop" \notin Ops BY DEF QuietService
  <2>2. QED BY <2>1, EInvNext
<1>2. EInv /\ Undisturbed /\ [Next]_vars => Undisturbed'
  <2>1. EInv => CInv BY DEF EInv, KInv
  <2>2. QED BY <2>1, UndisturbedNext
<1>3. EInv /\ Undisturbed => FinishedIsOver
  <2>1. Undisturbed => JobsKept BY DEF QuietService, Undisturbed, JobsKept
  <2>2. QED BY <2>1, KeptIsOver
<1>4. QED BY <1>1, <1>2, <1>3, EInvInit, UndisturbedInit, PTL DEF Spec
=============================================================================
