----------------------------- MODULE JobService -----------------------------
(***************************************************************************)
(* The job service: one dispatcher (src/dispatcher), a coordinator per     *)
(* simulation host (src/coordinator) and the simulation engines the        *)
(* coordinators fork.  A dispatcher and a coordinator exchange lines over  *)
(* one TCP connection; both are single threads around select(), and both   *)
(* block while they wait for an answer.  Left out: passwords and quotas    *)
(* (a refused request changes nothing), the data connections, sessions a   *)
(* GUI detaches from and returns to, warnings of the engine, and a         *)
(* coordinator's return after its death.                                   *)
(***************************************************************************)
EXTENDS Naturals, Sequences, FiniteSets

CONSTANTS Host, Job, Client, None,
          Ops,        \* what users do besides submitting jobs
          Returned,   \* what dispatchJob, which has no return statement on its
                      \* successful path, gives its caller: "neg" and/or "nonneg"
          MaxLines    \* bound: no more lines of a coordinator are under way
                      \* when the end of a client adds to them, and fewer
                      \* to and from it when a client aborts

ASSUME JobConstants ==
  /\ IsFiniteSet(Host) /\ IsFiniteSet(Job) /\ IsFiniteSet(Client)
  /\ Job \cap Client = {} /\ None \notin Host \cup Job \cup Client
  /\ Ops \subseteq {"stop", "abort", "delete", "list", "gui", "pause", "crash"}
  /\ Returned \subseteq {"neg", "nonneg"} /\ Returned # {}
  /\ MaxLines \in Nat

Run == Job \cup Client              \* an engine is named by what it simulates

VARIABLES queue,     \* jobQueue: jobs waiting for a host
          jobMap,    \* status of a job in jobMap, "none" when it has no entry
          coor,      \* coor_ip of a job
          entry,     \* hosts in order of registration
          status,    \* FREE or BUSY, as the dispatcher believes
          disp,      \* what the dispatcher waits for
          up, down,  \* lines under way to and from the dispatcher
          co,        \* per host: the coordinator
          engine,    \* state of an engine process
          where,     \* the host a job or client was given
          gui,       \* state of an interactive client
          submitted, \* history: jobs in order of submission
          misled     \* history: a caller took dispatchJob's success for a failure,
                     \* getJobList another line for the tick it asked for, a line
                     \* for a lost host went to another, or a running job was aborted

dispatcher == <<queue, jobMap, coor, entry, status, disp, submitted, misled>>
vars == <<queue, jobMap, coor, entry, status, disp, up, down,
          co, engine, where, gui, submitted, misled>>

Live == {"forked", "up", "paused", "done"}

Line(k) == [kind |-> k, job |-> None]
LineOf(k, j) == [kind |-> k, job |-> j]
FREE == Line("FREE")

AtSelect == [pc |-> "select", host |-> None, run |-> None, caller |-> "none", clean |-> FALSE]

Init == /\ queue = <<>> /\ entry = <<>> /\ disp = AtSelect
        /\ jobMap = [j \in Job |-> "none"]
        /\ coor = [j \in Job |-> None]
        /\ status = [h \in Host |-> "BUSY"]
        /\ up = [h \in Host |-> <<>>] /\ down = [h \in Host |-> <<>>]
        /\ co = [h \in Host |-> [pc |-> "off", session |-> None, pid |-> None,
                                 sock |-> None, active |-> None, then |-> "none"]]
        /\ engine = [r \in Run |-> "none"] /\ where = [r \in Run |-> None]
        /\ gui = [c \in Client |-> "new"]
        /\ submitted = <<>> /\ misled = FALSE

-----------------------------------------------------------------------------
(* The dispatcher. *)

(* What is written to a process that has died is gone. *)
Write(h, ls) == down' = [down EXCEPT ![h] = IF co[h].pc = "dead" THEN @ ELSE @ \o ls]
Say(h, l) == Write(h, <<l>>)
Heard(h) == up' = [up EXCEPT ![h] = Tail(@)]

anyFreeHost == LET free == {i \in DOMAIN entry : status[entry[i]] = "FREE"}
               IN  IF free = {} THEN None
                   ELSE entry[CHOOSE i \in free : \A k \in free : i <= k]

StatusAfter_Always(st, h, caller, result) ==
  IF caller = "setStatus" THEN [st EXCEPT ![h] = "FREE"] ELSE st

(* What the caller of dispatchJob makes of its result. *)
StatusAfter(st, h, caller, result) ==
  CASE caller = "setStatus" /\ result = "neg"       -> [st EXCEPT ![h] = "FREE"]
    [] caller = "registServer" /\ result = "nonneg" -> [st EXCEPT ![h] = "BUSY"]
    [] OTHER                                        -> st

(* Nothing the dispatcher has not asked for can arrive from h. *)
Quiet(h, line) == /\ line = <<>> /\ down[h] = <<>> /\ co[h].pc \in {"select", "register"}
                  /\ \A r \in Run : where[r] = h => r \in Job /\ engine[r] \notin Live

getJob_Kept(q) == [job |-> Head(q), rest |-> q]

(* JobQueue::getJob takes the oldest job off the queue. *)
getJob(q) == [job |-> Head(q), rest |-> Tail(q)]

(* dispatchJob up to the first answer it waits for.  A clean start is      *)
(* noted, for the properties: nothing else is under way.                   *)
DispatchJob(h, caller, q, st, line, first) ==
  IF q = <<>>
  THEN /\ queue' = q /\ status' = StatusAfter(st, h, caller, "neg")
       /\ disp' = AtSelect
       /\ Write(h, first)
  ELSE /\ queue' = getJob(q).rest /\ status' = st
       /\ disp' = [pc |-> "env", host |-> h, run |-> getJob(q).job, caller |-> caller,
                   clean |-> Quiet(h, line)]
       /\ Write(h, first \o <<Line("setupEnv")>>)

(* backGndJob *)
Submit(j) ==
  /\ disp.pc = "select" /\ \A i \in DOMAIN submitted : submitted[i] # j
  /\ jobMap' = [jobMap EXCEPT ![j] = "WAITING"]
  /\ submitted' = Append(submitted, j)
  /\ LET h == anyFreeHost IN
       IF h = None THEN queue' = Append(queue, j) /\ UNCHANGED <<status, disp, down>>
       ELSE DispatchJob(h, "backGndJob", Append(queue, j),
                        [status EXCEPT ![h] = "BUSY"], up[h], <<>>)
  /\ UNCHANGED <<coor, entry, up, co, engine, where, gui, misled>>

(* handleServer, do_Server: one line of a coordinator. *)
Register(h) ==
  /\ disp.pc = "select" /\ up[h] # <<>> /\ Head(up[h]).kind = "register"
  /\ Heard(h) /\ entry' = Append(entry, h)
  /\ DispatchJob(h, "registServer", queue, [status EXCEPT ![h] = "FREE"],
                 Tail(up[h]), <<Line("OK")>>)
  /\ UNCHANGED <<jobMap, coor, co, engine, where, gui, submitted, misled>>

SetStatus(h) ==
  /\ disp.pc = "select" /\ up[h] # <<>> /\ Head(up[h]).kind = "FREE"
  /\ Heard(h)
  /\ DispatchJob(h, "setStatus", queue, status, Tail(up[h]), <<>>)
  /\ UNCHANGED <<jobMap, coor, entry, co, engine, where, gui, submitted, misled>>

JobFinished(h) ==
  /\ disp.pc = "select" /\ up[h] # <<>> /\ Head(up[h]).kind = "jobFinished"
  /\ Heard(h)
  /\ LET j == Head(up[h]).job IN
       jobMap' = IF jobMap[j] = "none" THEN jobMap ELSE [jobMap EXCEPT ![j] = "FINISHED"]
  /\ UNCHANGED <<queue, coor, entry, status, disp, down, co, engine, where, gui, submitted, misled>>

IgnoreLine(h) ==
  /\ disp.pc = "select" /\ up[h] # <<>>
  /\ Head(up[h]).kind \notin {"register", "FREE", "jobFinished"}
  /\ Heard(h)
  /\ UNCHANGED <<dispatcher, down, co, engine, where, gui>>

RemoveHost(h) ==
  /\ disp.pc = "select" /\ up[h] = <<>> /\ co[h].pc = "dead"
  /\ \E i \in DOMAIN entry :
       /\ entry[i] = h
       /\ entry' = SubSeq(entry, 1, i - 1) \o SubSeq(entry, i + 1, Len(entry))
  /\ status' = [status EXCEPT ![h] = "BUSY"]
  /\ UNCHANGED <<queue, jobMap, coor, disp, up, down, co, engine, where, gui, submitted, misled>>

(* dispatchJob: an answer is read, the next request is written. *)
Dispatching == disp.pc \in {"env", "put", "get"}

DispatchAnswer(pc, next, request) ==
  /\ disp.pc = pc /\ up[disp.host] # <<>>
  /\ Heard(disp.host) /\ Say(disp.host, Line(request))
  /\ disp' = [disp EXCEPT !.pc = next]
  /\ UNCHANGED <<queue, jobMap, coor, entry, status, co, engine, where, gui, submitted, misled>>

Dispatched ==
  /\ disp.pc = "get" /\ up[disp.host] # <<>>
  /\ Head(up[disp.host]).kind = "File get"
  /\ Heard(disp.host) /\ Say(disp.host, LineOf("BG_start", disp.run))
  /\ jobMap' = [jobMap EXCEPT ![disp.run] = "RUNNING"]
  /\ coor' = [coor EXCEPT ![disp.run] = disp.host]
  /\ \E r \in Returned :
       /\ status' = StatusAfter(status, disp.host, disp.caller, r)
       /\ misled' = (misled \/ status' # StatusAfter(status, disp.host, disp.caller, "nonneg"))
  /\ disp' = AtSelect
  /\ UNCHANGED <<queue, entry, co, engine, where, gui, submitted>>

DispatchFailed ==
  /\ disp.pc = "get" /\ up[disp.host] # <<>>
  /\ Head(up[disp.host]).kind # "File get"
  /\ Heard(disp.host)
  /\ status' = StatusAfter(status, disp.host, disp.caller, "neg")
  /\ disp' = AtSelect
  /\ UNCHANGED <<queue, jobMap, coor, entry, down, co, engine, where, gui, submitted, misled>>

DispatchBroken ==
  /\ Dispatching /\ up[disp.host] = <<>> /\ co[disp.host].pc = "dead"
  /\ status' = StatusAfter(status, disp.host, disp.caller, "neg")
  /\ disp' = AtSelect
  /\ UNCHANGED <<queue, jobMap, coor, entry, up, down, co, engine, where, gui, submitted, misled>>

(* BG_Control: what users do with a job they know.                         *)
(* getHost: a host that is not in serverMap any more gets a new record     *)
(* whose opened_fd nobody set: another host gets the line, or it is lost,  *)
(* or cannot be written, and then the job keeps its status.                *)
Known(h) == \E i \in DOMAIN entry : entry[i] = h
getHost(ip) == IF ip \in Host /\ Known(ip) THEN {ip} ELSE {h \in Host : Known(h)} \cup {None}

Tell(h, l) == IF h \in Host THEN Say(h, l) ELSE UNCHANGED down

(* A running job's host is told what becomes of it. *)
Command(j, l, st) ==
  LET told == [jobMap EXCEPT ![j] = st] IN
  IF jobMap[j] # "RUNNING" THEN jobMap' = told /\ UNCHANGED <<down, misled>>
  ELSE \E h \in getHost(coor[j]) :
         /\ Tell(h, l)
         /\ misled' = (misled \/ l.kind = "JOB_ABORT" \/ h \notin {coor[j], None})
         /\ jobMap' = told \/ (h = None /\ jobMap' = jobMap)

StopJob(j) ==
  /\ "stop" \in Ops /\ disp.pc = "select" /\ jobMap[j] # "none"
  /\ Command(j, LineOf("JOB_STOP", j), "FINISHED")
  /\ UNCHANGED <<queue, coor, entry, status, disp, up, co, engine, where, gui, submitted>>

AbortJob(j) ==
  /\ "abort" \in Ops /\ disp.pc = "select" /\ jobMap[j] # "none"
  /\ Command(j, LineOf("JOB_ABORT", j), "none")
  /\ UNCHANGED <<queue, coor, entry, status, disp, up, co, engine, where, gui, submitted>>

DeleteJob(j) ==
  /\ "delete" \in Ops /\ disp.pc = "select" /\ jobMap[j] # "none"
  /\ jobMap' = [jobMap EXCEPT ![j] = "none"]
  /\ UNCHANGED <<queue, coor, entry, status, disp, up, down, co, engine, where, gui, submitted, misled>>

(* getJobList asks the host of a running job how far it is. *)
GetTick(j) ==
  /\ "list" \in Ops /\ disp.pc = "select" /\ jobMap[j] = "RUNNING"
  /\ \E h \in getHost(coor[j]) \cap Host :
       /\ Say(h, Line("getTick"))
       /\ disp' = [AtSelect EXCEPT !.pc = "tick", !.host = h, !.run = j]
       /\ misled' = (misled \/ h # coor[j])
  /\ UNCHANGED <<queue, jobMap, coor, entry, status, up, co, engine, where, gui, submitted>>

(* The number is the second word of the line: strtoull follows a null      *)
(* pointer when the line has one word.                                     *)
TickRead ==
  /\ disp.pc = "tick" /\ up[disp.host] # <<>>
  /\ Heard(disp.host)
  /\ disp' = IF Head(up[disp.host]).kind \in {"EnvOK", "please", "File get"}
             THEN [AtSelect EXCEPT !.pc = "dead"] ELSE AtSelect
  /\ misled' = (misled \/ Head(up[disp.host]).kind # "tick")
  /\ UNCHANGED <<queue, jobMap, coor, entry, status, down, co, engine, where, gui, submitted>>

(* servRequest, setupSimEnv: a host for an interactive client.  It may     *)
(* name the one it wants (findFreeHost), or else gets anyFreeHost.         *)
ServRequest(c) ==
  /\ "gui" \in Ops /\ disp.pc = "select" /\ gui[c] = "new"
  /\ \E h \in {g \in Host : Known(g) /\ status[g] = "FREE"} :
       /\ status' = [status EXCEPT ![h] = "BUSY"]
       /\ Say(h, Line("setupEnv"))
       /\ disp' = [AtSelect EXCEPT !.pc = "setup", !.host = h, !.run = c,
                                   !.clean = Quiet(h, up[h])]
  /\ UNCHANGED <<queue, jobMap, coor, entry, up, co, engine, where, gui, submitted, misled>>

EnvAnswer ==
  /\ disp.pc = "setup" /\ up[disp.host] # <<>>
  /\ Heard(disp.host)
  /\ LET ok == Head(up[disp.host]).kind = "EnvOK" IN
       /\ gui' = [gui EXCEPT ![disp.run] = IF ok THEN "invited" ELSE "unanswered"]
       /\ where' = IF ok THEN [where EXCEPT ![disp.run] = disp.host] ELSE where
  /\ disp' = AtSelect
  /\ UNCHANGED <<queue, jobMap, coor, entry, status, down, co, engine, submitted, misled>>

(* The connection ended while the dispatcher waited for a line. *)
AnswerBroken ==
  /\ disp.pc \in {"setup", "tick"} /\ up[disp.host] = <<>> /\ co[disp.host].pc = "dead"
  /\ gui' = IF disp.pc = "setup" THEN [gui EXCEPT ![disp.run] = "unanswered"] ELSE gui
  /\ disp' = AtSelect
  /\ UNCHANGED <<queue, jobMap, coor, entry, status, up, down, co, engine, where, submitted, misled>>

DispatcherReads ==
  \/ \E h \in Host : \/ Register(h) \/ SetStatus(h) \/ JobFinished(h)
                     \/ IgnoreLine(h) \/ RemoveHost(h)
  \/ DispatchAnswer("env", "put", "BG_putFile")
  \/ DispatchAnswer("put", "get", "file")
  \/ Dispatched \/ DispatchFailed \/ DispatchBroken
  \/ TickRead \/ EnvAnswer \/ AnswerBroken

Users == \/ \E j \in Job : \/ Submit(j) \/ StopJob(j) \/ AbortJob(j)
                           \/ DeleteJob(j) \/ GetTick(j)
         \/ \E c \in Client : ServRequest(c)

-----------------------------------------------------------------------------
(* The coordinator of host h. *)

Answer(h, rec, lines) == /\ co' = [co EXCEPT ![h] = rec]
                         /\ up' = [up EXCEPT ![h] = @ \o lines]
Dies(h, lines) == Answer(h, [co[h] EXCEPT !.pc = "dead"], lines)
Take(h) == down' = [down EXCEPT ![h] = Tail(@)]
Reads(h, k) == co[h].pc = "select" /\ down[h] # <<>> /\ Head(down[h]).kind = k

(* A program that follows clientList's pointer when there is no client may *)
(* die or go on.                                                           *)
NoClient(h) == co[h].active = None

Boot(h) == /\ co[h].pc = "off"
           /\ Answer(h, [co[h] EXCEPT !.pc = "register"], <<Line("register")>>)
           /\ UNCHANGED <<dispatcher, down, engine, where, gui>>

Registered_Reports(h) == /\ co[h].pc = "register" /\ down[h] # <<>>
                         /\ Take(h) /\ Answer(h, [co[h] EXCEPT !.pc = "select"], <<FREE>>)
                         /\ UNCHANGED <<dispatcher, engine, where, gui>>

Registered(h) == /\ co[h].pc = "register" /\ down[h] # <<>>
                 /\ Take(h) /\ Answer(h, [co[h] EXCEPT !.pc = "select"], <<>>)
                 /\ UNCHANGED <<dispatcher, engine, where, gui>>

SetupEnv_Free(h) == /\ Reads(h, "setupEnv") /\ Take(h)
                    /\ Answer(h, [co[h] EXCEPT !.session = None], <<Line("EnvOK"), FREE>>)
                    /\ UNCHANGED <<dispatcher, engine, where, gui>>

SetupEnv(h) == /\ Reads(h, "setupEnv") /\ Take(h)
               /\ Answer(h, [co[h] EXCEPT !.session = None], <<Line("EnvOK")>>)
               /\ UNCHANGED <<dispatcher, engine, where, gui>>

PutFile(h) == /\ Reads(h, "BG_putFile") /\ Take(h)
              /\ Answer(h, [co[h] EXCEPT !.pc = "file"], <<Line("please")>>)
              /\ UNCHANGED <<dispatcher, engine, where, gui>>

GotFile(h) == /\ co[h].pc = "file" /\ down[h] # <<>> /\ Take(h)
              /\ Answer(h, [co[h] EXCEPT !.pc = "select"], <<Line("File get")>>)
              /\ UNCHANGED <<dispatcher, engine, where, gui>>

TickAnswer_Running(h) == /\ Reads(h, "getTick") /\ Take(h)
                         /\ Answer(h, co[h], IF co[h].session = None THEN <<>> ELSE <<Line("tick")>>)
                         /\ UNCHANGED <<dispatcher, engine, where, gui>>

TickAnswer(h) == /\ Reads(h, "getTick") /\ Take(h)
                 /\ Answer(h, co[h], <<Line("tick")>>)
                 /\ UNCHANGED <<dispatcher, engine, where, gui>>

(* startSimulation: engine_pid is overwritten, an older engine runs on. *)
Start(h, r, session) ==
  /\ engine' = [engine EXCEPT ![r] = "forked"]
  /\ where' = [where EXCEPT ![r] = h]
  /\ Answer(h, [co[h] EXCEPT !.session = session, !.pid = r], <<>>)

BGStart(h) == /\ Reads(h, "BG_start") /\ Take(h)
              /\ Start(h, Head(down[h]).job, Head(down[h]).job)
              /\ UNCHANGED <<dispatcher, gui>>

(* kill(engine_pid, SIGKILL); engine_pid is -1 once an engine was killed,  *)
(* and kill(-1) reaches every process of the host.                         *)
Killed(h) == [r \in Run |-> IF /\ where[r] = h /\ engine[r] \in Live
                               /\ co[h].pid \in {r, None}
                            THEN "dead" ELSE engine[r]]

(* stopSimulation for JOB_STOP after the engine's acknowledgement, then    *)
(* becomeFree and simulationFinished (which becomes free once more).       *)
EndOfJobStop(h) ==
  /\ engine' = Killed(h)
  /\ LET end == [co[h] EXCEPT !.pc = "select", !.then = "none", !.pid = None,
                              !.session = None, !.sock = None] IN
       \/ /\ co[h].session # None
          /\ Answer(h, end, <<FREE, LineOf("jobFinished", co[h].session), FREE>>)
       \/ co[h].session = None /\ Answer(h, end, <<FREE, FREE>>)
       \/ co[h].session = None /\ NoClient(h) /\ Dies(h, <<>>)
  /\ UNCHANGED gui

(* stopSimulation on behalf of a client: the host stays busy. *)
EndOfStop(h) ==
  /\ engine' = Killed(h)
  /\ LET end == [co[h] EXCEPT !.pc = "select", !.then = "none", !.pid = None] IN
       \/ Answer(h, end, <<>>)
       \/ co[h].session = None /\ NoClient(h) /\ Dies(h, <<>>)
  /\ UNCHANGED gui

(* abortSimulation after the acknowledgement: the client it closes is the  *)
(* active one.                                                             *)
EndOfAbort(h, kills) ==
  /\ engine' = IF kills THEN Killed(h) ELSE engine
  /\ LET end == [co[h] EXCEPT !.pc = "select", !.then = "none", !.sock = None,
                              !.pid = IF kills THEN None ELSE @,
                              !.active = IF co[h].session = None THEN None ELSE @] IN
       \/ /\ Answer(h, end, <<FREE>>)
          /\ gui' = [c \in Client |-> IF co[h].session = None /\ c = co[h].active
                                      THEN "closed" ELSE gui[c]]
       \/ co[h].session = None /\ NoClient(h) /\ Dies(h, <<>>) /\ UNCHANGED gui

Wait(h, then) == Answer(h, [co[h] EXCEPT !.pc = "wait", !.then = then], <<>>)

AskJobStop(h) == IF co[h].sock = None THEN EndOfJobStop(h)
                 ELSE Wait(h, "jobStop") /\ UNCHANGED <<engine, gui>>
AskAbort(h) == IF co[h].pid = None \/ co[h].sock = None THEN EndOfAbort(h, FALSE)
               ELSE Wait(h, "abort") /\ UNCHANGED <<engine, gui>>
AskStop(h) == IF co[h].sock = None THEN EndOfStop(h)
              ELSE Wait(h, "stop") /\ UNCHANGED <<engine, gui>>

JobStop(h) == /\ Reads(h, "JOB_STOP") /\ Take(h) /\ AskJobStop(h)
              /\ UNCHANGED <<dispatcher, where>>
JobAbort(h) == /\ Reads(h, "JOB_ABORT") /\ Take(h) /\ AskAbort(h)
               /\ UNCHANGED <<dispatcher, where>>

(* readlnSE returned: the engine whose socket is open has acknowledged. *)
Signal(h, from, to) == [r \in Run |-> IF r = co[h].pid /\ engine[r] = from THEN to ELSE engine[r]]

Acknowledged(h) ==
  /\ co[h].pc = "wait" /\ engine[co[h].sock] = "up"
  /\ \/ co[h].then = "jobStop" /\ EndOfJobStop(h)
     \/ co[h].then = "abort"   /\ EndOfAbort(h, TRUE)
     \/ co[h].then = "stop"    /\ EndOfStop(h)
     \/ /\ co[h].then \in {"pause", "resume"}
        /\ engine' = IF co[h].then = "pause" THEN Signal(h, "up", "paused") ELSE engine
        /\ Answer(h, [co[h] EXCEPT !.pc = "select", !.then = "none"], <<>>)
        /\ UNCHANGED gui
  /\ UNCHANGED <<dispatcher, down, where>>

(* The engine closed its socket before it acknowledged: readlnSE makes a   *)
(* string of a null pointer.                                               *)
NoAcknowledgement(h) ==
  /\ co[h].pc = "wait" /\ engine[co[h].sock] \in {"done", "dead"}
  /\ Dies(h, <<>>)
  /\ UNCHANGED <<dispatcher, down, engine, where, gui>>

(* A new engine connects; its socket takes the place of an older one. *)
EngineConnects(h, r) ==
  /\ co[h].pc = "select" /\ where[r] = h /\ engine[r] = "forked"
  /\ engine' = [engine EXCEPT ![r] = "up"]
  /\ Answer(h, [co[h] EXCEPT !.sock = r], <<>>)
  /\ UNCHANGED <<dispatcher, down, where, gui>>

(* handleUnix: simulationDone, then simulationFinished. *)
SimulationFinished(h) ==
  LET c == co[h]
      end == [c EXCEPT !.session = None, !.sock = None]
  IN \/ c.session # None /\ Answer(h, end, <<LineOf("jobFinished", c.session), FREE>>)
     \/ c.session = None /\ Answer(h, end, <<FREE>>)
     \/ c.session = None /\ NoClient(h) /\ Dies(h, <<>>)

SimulationDone(h) ==
  /\ co[h].pc = "select" /\ co[h].sock # None /\ engine[co[h].sock] = "done"
  /\ engine' = [engine EXCEPT ![co[h].sock] = "ended"]
  /\ SimulationFinished(h)
  /\ UNCHANGED <<dispatcher, down, where, gui>>

EngineClosed(h) ==
  /\ co[h].pc = "select" /\ co[h].sock # None /\ engine[co[h].sock] = "dead"
  /\ Answer(h, [co[h] EXCEPT !.sock = None], <<>>)
  /\ UNCHANGED <<dispatcher, down, engine, where, gui>>

(* An engine ends its simulation, or dies. *)
EngineDone(r) == /\ engine[r] = "up"
                 /\ engine' = [engine EXCEPT ![r] = "done"]
                 /\ UNCHANGED <<dispatcher, up, down, co, where, gui>>

EngineCrash(r) == /\ "crash" \in Ops /\ engine[r] \in {"forked", "up"}
                  /\ engine' = [engine EXCEPT ![r] = "dead"]
                  /\ UNCHANGED <<dispatcher, up, down, co, where, gui>>

HostCrash(h) == /\ "crash" \in Ops /\ co[h].pc \notin {"off", "dead"}
                /\ Dies(h, <<>>)
                /\ UNCHANGED <<dispatcher, down, engine, where, gui>>

-----------------------------------------------------------------------------
(* The coordinator of its host, and an interactive client's connection. *)

Serves(c) == where[c] # None /\ co[where[c]].pc = "select"

InitClient(c) ==
  /\ Serves(c) /\ gui[c] = "invited"
  /\ gui' = [gui EXCEPT ![c] = "connected"]
  /\ Answer(where[c], [co[where[c]] EXCEPT !.active = c], <<>>)
  /\ UNCHANGED <<dispatcher, down, engine, where>>

StartSimulation(c) ==
  /\ Serves(c) /\ gui[c] = "connected" /\ engine[c] = "none"
  /\ Start(where[c], c, None)
  /\ UNCHANGED <<dispatcher, down, gui>>

StopSimulation(c) ==
  /\ Serves(c) /\ gui[c] = "connected" /\ engine[c] \in Live
  /\ AskStop(where[c])
  /\ UNCHANGED <<dispatcher, down, where>>

PauseSimulation(c) ==
  /\ "pause" \in Ops /\ Serves(c) /\ gui[c] = "connected" /\ engine[c] = "up"
  /\ co[where[c]].sock # None
  /\ Wait(where[c], "pause") /\ UNCHANGED engine
  /\ UNCHANGED <<dispatcher, down, where, gui>>

ResumeSimulation(c) ==
  /\ Serves(c) /\ gui[c] = "connected" /\ engine[c] = "paused"
  /\ co[where[c]].sock # None
  /\ engine' = Signal(where[c], "paused", "up")
  /\ Wait(where[c], "resume")
  /\ UNCHANGED <<dispatcher, down, where, gui>>

AbortSimulation(c) ==
  /\ Serves(c) /\ gui[c] = "connected" /\ Len(up[where[c]] \o down[where[c]]) < MaxLines
  /\ AskAbort(where[c])
  /\ UNCHANGED <<dispatcher, down, where>>

HangUp(c) ==
  /\ where[c] # None /\ gui[c] = "connected"
  /\ gui' = [gui EXCEPT ![c] = "hungup"]
  /\ UNCHANGED <<dispatcher, up, down, co, engine, where>>

(* handleCommand at the end of a client's connection.  A connection that   *)
(* is not the active client's stays in the select list and ends again.     *)
ClientEnd(c) ==
  /\ Serves(c) /\ gui[c] = "hungup" /\ Len(up[where[c]]) <= MaxLines
  /\ LET h == where[c] IN
       IF co[h].session = None THEN AskAbort(h)
       ELSE /\ UNCHANGED engine
            /\ \/ /\ Answer(h, [co[h] EXCEPT !.active = None], <<>>)
                  /\ gui' = [d \in Client |-> IF d = co[h].active THEN "closed" ELSE gui[d]]
               \/ NoClient(h) /\ Dies(h, <<>>) /\ UNCHANGED gui
  /\ UNCHANGED <<dispatcher, down, where>>

Coordinator(h) ==
  \/ Boot(h) \/ Registered(h) \/ SetupEnv(h) \/ PutFile(h) \/ GotFile(h)
  \/ TickAnswer(h) \/ BGStart(h) \/ JobStop(h) \/ JobAbort(h)
  \/ Acknowledged(h) \/ NoAcknowledgement(h)
  \/ SimulationDone(h) \/ EngineClosed(h)
  \/ \E r \in Run : EngineConnects(h, r)

Engines == \E r \in Run : EngineDone(r) \/ EngineCrash(r)

Clients == \E c \in Client : \/ InitClient(c) \/ StartSimulation(c) \/ StopSimulation(c)
                             \/ PauseSimulation(c) \/ ResumeSimulation(c)
                             \/ AbortSimulation(c) \/ HangUp(c) \/ ClientEnd(c)

Next == \/ DispatcherReads \/ Users \/ Engines \/ Clients
        \/ \E h \in Host : Coordinator(h) \/ HostCrash(h)

Spec == Init /\ [][Next]_vars

(* Both programs and the engines run on; users owe nothing. *)
Fairness == /\ WF_vars(DispatcherReads)
            /\ \A h \in Host : WF_vars(Coordinator(h))
            /\ \A r \in Run : WF_vars(EngineDone(r))
            /\ \A c \in Client : WF_vars(ClientEnd(c))

FairSpec == Spec /\ Fairness

-----------------------------------------------------------------------------
(* Properties. *)

Lines == [kind : {"register", "FREE", "jobFinished", "EnvOK", "please", "File get", "tick",
                  "OK", "setupEnv", "BG_putFile", "file", "BG_start", "JOB_STOP",
                  "JOB_ABORT", "getTick"}, job : Job \cup {None}]

(* Every field keeps its type. *)
TypeOK ==
  /\ queue \in Seq(Job) /\ submitted \in Seq(Job) /\ entry \in Seq(Host)
  /\ misled \in BOOLEAN
  /\ jobMap \in [Job -> {"none", "WAITING", "RUNNING", "FINISHED"}]
  /\ coor \in [Job -> Host \cup {None}]
  /\ status \in [Host -> {"FREE", "BUSY"}]
  /\ disp \in [pc : {"select", "env", "put", "get", "tick", "setup", "dead"},
               host : Host \cup {None}, run : Run \cup {None}, clean : BOOLEAN,
               caller : {"none", "backGndJob", "setStatus", "registServer"}]
  /\ up \in [Host -> Seq(Lines)] /\ down \in [Host -> Seq(Lines)]
  /\ co \in [Host -> [pc : {"off", "register", "select", "file", "wait", "dead"},
                      session : Job \cup {None}, pid : Run \cup {None},
                      sock : Run \cup {None}, active : Client \cup {None},
                      then : {"none", "jobStop", "abort", "stop", "pause", "resume"}]]
  /\ engine \in [Run -> {"none", "ended", "dead"} \cup Live]
  /\ where \in [Run -> Host \cup {None}]
  /\ gui \in [Client -> {"new", "unanswered", "invited", "connected", "hungup", "closed"}]

InQueue(j) == \E i \in DOMAIN queue : queue[i] = j
Loading(j) == Dispatching /\ disp.run = j
StartAt(h, j) == \E i \in DOMAIN down[h] : down[h][i] = LineOf("BG_start", j)
LiveAt(h) == {r \in Run : where[r] = h /\ engine[r] \in Live}

(* The queue holds the jobs submitted last, in order: jobs are taken from  *)
(* it in the order of submission, whatever is stopped, deleted or lost.    *)
QueueInOrder == \E n \in 0 .. Len(submitted) : queue = SubSeq(submitted, n + 1, Len(submitted))

(* A job is started at most once: a job whose start command is under way   *)
(* has no engine, is not queued and not being dispatched, and there is no  *)
(* second start command, on any connection.                                *)
StartedOnce == \A j \in Job : \A h \in Host : \A i \in DOMAIN down[h] :
  down[h][i] = LineOf("BG_start", j) =>
    /\ engine[j] = "none" /\ ~InQueue(j) /\ ~Loading(j)
    /\ \A g \in Host : \A k \in DOMAIN down[g] :
         down[g][k] = LineOf("BG_start", j) => g = h /\ k = i

(* A job the dispatcher calls RUNNING has been started, or its start       *)
(* command is under way, or its host died.                                 *)
RunningStarted == \A j \in Job : jobMap[j] = "RUNNING" =>
  \/ StartAt(coor[j], j) \/ co[coor[j]].pc = "dead"
  \/ engine[j] # "none" /\ where[j] = coor[j]

(* When nothing was under way from or to a host that the dispatcher turns  *)
(* to, every line it reads is the answer to its last request: dispatchJob  *)
(* and setupSimEnv cannot fail there.                                      *)
CleanDispatch == disp.clean /\ up[disp.host] # <<>> =>
  Head(up[disp.host]).kind = CASE disp.pc \in {"env", "setup"} -> "EnvOK"
                               [] disp.pc = "put" -> "please"
                               [] disp.pc = "get" -> "File get"

(* The dispatcher never waits in vain: a line it has not read, or a request *)
(* that will be answered, is under way, whatever lines crossed and however *)
(* far it is off by, or the host died.                                     *)
Asks == {"setupEnv", "BG_putFile", "file", "getTick"}
AnswerOwed == disp.pc \notin {"select", "dead"} =>
  \/ up[disp.host] # <<>> \/ co[disp.host].pc = "dead"
  \/ \E i \in DOMAIN down[disp.host] : down[disp.host][i].kind \in Asks

(* A job is in the service's hands until it has been started.              *)
InHand(j) == \/ InQueue(j) \/ Loading(j) \/ engine[j] # "none"
           \/ \E h \in Host : StartAt(h, j) /\ co[h].pc # "dead"

(* A job that its owner did not delete leaves them, and an interactive     *)
(* client is left without an answer, only where the dispatcher turned to a *)
(* host with something under way, or where the host died.                  *)
LostOnlyIfCrossed == [][
  /\ \A j \in Job : InHand(j) /\ ~InHand(j)' /\ jobMap'[j] # "none" =>
       \/ Loading(j) /\ (~disp.clean \/ co[disp.host].pc = "dead")
       \/ \E h \in Host : StartAt(h, j) /\ co'[h].pc = "dead"
  /\ \A c \in Client : gui[c] = "new" /\ gui'[c] = "unanswered" =>
       ~disp.clean \/ co[disp.host].pc = "dead"]_vars

(* Nobody used a host interactively, no running job was aborted,           *)
(* dispatchJob returned what happened, and every line the dispatcher sent  *)
(* or read was for or from the host it meant.  Jobs may be stopped and     *)
(* deleted, jobs that wait aborted, and anything may crash.  The rest is   *)
(* excluded because the code loses track: an abort, or the end of a        *)
(* client's connection, that comes before the engine has connected leaves  *)
(* it running on a host reported free; a jobFinished line taken for a tick *)
(* leaves a job RUNNING whose later stop makes an idle host report FREE    *)
(* twice over.                                                             *)
JobsKept == ~misled /\ \A c \in Client : gui[c] = "new"

(* Then a host the dispatcher calls FREE simulates nothing and has no      *)
(* session.                                                                *)
FreeIsIdle == JobsKept => \A h \in Host : Known(h) /\ status[h] = "FREE" =>
                LiveAt(h) = {} /\ co[h].session = None

(* And a host simulates one job at a time, the one whose process id the    *)
(* coordinator keeps, or kept when it died.                                *)
OneAtATime == JobsKept => \A h \in Host : LiveAt(h) \subseteq {co[h].pid}

(* A job that is FINISHED for its owner has no engine any more. *)
FinishedIsOver == \A j \in Job : jobMap[j] = "FINISHED" => engine[j] \notin Live

(* What dispatchJob reads into "ignore", "to store replies that we can     *)
(* ignore", are the replies to its requests.                               *)
IgnoredAreReplies == Dispatching /\ up[disp.host] # <<>> =>
  /\ disp.pc = "env" => Head(up[disp.host]).kind = "EnvOK"
  /\ disp.pc = "put" => Head(up[disp.host]).kind = "please"

(* readLine: "check if the file descriptor is not readable, return with    *)
(* io exception thrown" after five seconds: a coordinator that waits for   *)
(* its engine returns to select().                                         *)
ReadsReturn == \A h \in Host : (co[h].pc = "wait") ~> (co[h].pc # "wait")

(* The service keeps the promises of JobBoard. *)
placeOf == [j \in Job |->
  IF engine[j] \in Live THEN where[j]
  ELSE IF engine[j] # "none" THEN "over"
  ELSE IF \E h \in Host : StartAt(h, j) THEN CHOOSE h \in Host : StartAt(h, j)
  ELSE IF \E i \in DOMAIN submitted : submitted[i] = j THEN "waiting" ELSE "new"]

Board == INSTANCE JobBoard WITH
           waiting <- (IF Dispatching THEN <<disp.run>> ELSE <<>>) \o queue, place <- placeOf
BoardSpec == Board!Spec
=============================================================================
