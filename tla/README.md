# NCTUns 6.0 in TLA+

TLA+ modules, TLC runs and TLAPS proofs for the NCTUns 6.0 network simulator.
Paths are relative to `src/NCTUns-6.0/src/` unless they start with `tools/` or
`lib/`.

## 1. The system

NCTUns runs a network simulation as a job on one of several hosts.

| Part | Where | State it keeps | Operations |
|---|---|---|---|
| dispatcher | `dispatcher/` | server list (BUSY / FREE per host), job queue, background progress, disconnected sessions | accepts coordinators and GUI clients, gives a simulation to a free host, queues background jobs and starts them when a host becomes free |
| coordinator | `coordinator/` | its host's status, pid of the engine, sockets to dispatcher, GUI and engine | forks the engine, relays pause / stop / resume, reports FREE / BUSY, disconnects and reconnects sessions |
| simulation engine: scheduler | `nctuns/scheduler.cc`, `timer.cc`, `heap.cc`, `event.cc` | the virtual clock, event heap, timer list, event tunnel | executes one event or timer after another |
| simulation engine: packet plumbing | `nctuns/mbinder.cc`, `object.cc`, `packet.cc`, `nctuns_api.cc`, `maptable.cc` | the module binders' queues and upcalls, packet buffers | moves packets through the chain of modules of a node |
| simulation engine: kernel interface | `nctuns/tun_mmap.cc`, `dispatcher.cc`, `sysrt.cc` | shared queue lengths of tunnels and descriptors to poll | polls descriptors, drains tunnels |
| simulation engine: set-up and control | `nctuns/tclObject.cc`, `tclBinder.cc`, `init.cc`, `app_init.cc`, `gbind.cc`, `regcom.cc`, `command_server.cc`, `commun_gui.cc`, `agent.cc` | module graph, registered variables, agent requests | builds the modules from a script, answers GUI and agents |
| protocol modules | `nctuns/module/` | one state machine each: MACs, ARP, switches, queues, routing daemons, WiMAX, GPRS, satellite, optical | `init`, `send`, `recv`, timers |
| applications | `tools/`, `lib/librtp` | routing daemons, traffic generators, RTP | ordinary processes on the simulated kernel |

How they interact.  Module code runs only when the scheduler calls it: an event
of the heap (`deqheap`), a timer (`deqtimer`), or a binder served afterwards
(`executeEvent`'s MBH loop); it schedules further events and starts, pauses,
resumes and cancels timers.  The modified kernel writes requests into the event
tunnel at any time, stamped in microseconds; the engine reads them between two
events.  The packet path of a node is a chain of modules joined by binders
(`MBinder`): a send goes down by calls, is stored in a binder when the module
below is busy, and goes on when that module is polled or calls back.  The
coordinator talks to the dispatcher over one TCP connection on which commands,
status reports and answers share the stream.

What is hard.  The engine is one thread, so nothing interleaves inside it; its
difficulty is ORDER: two queues and a tunnel feed one clock, timers are paused,
resumed and restarted from call-outs of other timers, and an event that falls
behind the clock ends the process.  In the packet path it is REENTRANCY: a binder calls
an upcall that enqueues into the same binder.  In the job service it is
CONCURRENCY: dispatcher, coordinators and clients are processes that exchange
lines over sockets, wait for each other synchronously, disconnect at any time
and share no state but messages.

What makes each part correct.

- Event heap: heap order, no event lost, duplicated or invented, an earliest
  one dequeued.
- Timer list: sorted, no cycle, a timer linked exactly while it runs, time left
  conserved over pauses.
- Scheduler: nothing pending behind the clock, none of the exits reached,
  everything due executed before the end, and the end reached.
- Packet path: no packet lost unless a queue is full, order kept, no packet
  stuck while the way down is free.
- Job service: a host marked FREE runs nothing, one job per host, no job lost,
  every waiting job eventually started while hosts become free, and nobody
  waits for ever for an answer.
- Switch: one entry per station, none pointing to the wrong port for long, and
  a spanning tree without circles that forms again after failures.
- Ad hoc routing: no circular routes, a repair that ends, every packet either
  delivered or dropped, once.
- 802.11 MAC: no assertion fails in any order of frames and timers, slots are
  counted on an idle medium only, a packet is taken for delivered only if it
  was, and passed up only once.

## 2. Plan

Done, in this order:

1. `EventQueue`, `EventHeap`: the heap, and the agenda it implements.
2. `TimerSeq`, `TimerQueue`, `TimerList`: the timer list, pointers against
   sequence.
3. `Scheduler`: clock, heap, timers and event tunnel; `SchedulerProofs`.
4. `Mac8023`, `Ethernet`: the packet path of a station (FIFO interface queue,
   module binder, half-duplex MAC) and stations on one collision domain;
   `EthernetProofs`.
5. `Arp`: address resolution between nodes; `ArpProofs`.
6. `JobBoard`, `JobService`: dispatcher, coordinators, engines and their
   channels, against what users are promised.
7. `Switch`: the learning switch; `SpanningTree`: its protocol on a network.
8. `Aodv`: ad hoc routing on a network whose links come and go.
9. `SwitchProofs`, `SpanningTreeProofs`, `JobServiceProofs`, and the question
   kept in `ArpProofs`, the attempts counted in `EthernetProofs`.
10. `Mac80211`, `Wireless`: the DCF MAC of mobile nodes on one channel.

11. Proofs of what the runs check: packets kept (`EthernetProofs`, `ArpProofs`, `AodvProofs`),
   order kept (`ArpProofs`), exchanges answered (`JobServiceProofs`), and the first theorems
   about ad hoc routing (`AodvProofs`) and the 802.11 MAC (`WirelessProofs`).
12. Proofs of the two refinements of the engine, the pointers of the timer list and the
   sifting loops of the heap (`SchedulerProofs`), of what the dispatcher's books say
   about hosts and jobs (`JobServiceProofs`), and of what an acknowledgement of the
   802.11 MAC says (`WirelessProofs`).

What would come next: sessions of the job service (disconnect, reconnect) and a
coordinator that comes back; fragmentation and promiscuous reception in
`Mac80211`; a proof that `JobService` implements `JobBoard` where nobody stops or aborts.

## 3. The modules

| Module | Models | Used by |
|---|---|---|
| `EventQueue` | what the heap promises: a count of every event, an earliest one is dequeued | `EventHeap` refines it |
| `EventHeap` | `heap.cc` | |
| `TimerSeq` | the timer list as a sorted sequence (operators only) | `TimerQueue`, `Scheduler` |
| `TimerQueue` | what the list promises | `TimerList` refines it |
| `TimerList` | `schedule_timer`, `cancel_timer`, `dequeue_timer` on `next_ep` pointers | |
| `Scheduler` | `scheduler.cc`, `timer.cc` | |
| `Mac8023` | `mac8023.cc`, `fifo.cc`, `MBinder`, `NslObject::put` of one station | `Ethernet` |
| `Ethernet` | stations joined by `phy.cc` and `hub.cc` | |
| `Arp` | `arp.cc` of the nodes of a network | |
| `JobBoard` | what the job service promises: jobs begin in order, one per host | `JobService` refines it |
| `JobService` | `dispatcher/`, `coordinator/` | |
| `Switch` | tables, forwarding and flush of `sw.cc` | |
| `SpanningTree` | the spanning tree protocol of `sw.cc`, several switches | |
| `Aodv` | `module/route/aodv` on the nodes of a network | |
| `Mac80211` | `mac-802_11-dcf.cc` of one station | `Wireless` |
| `Wireless` | stations joined by `wphy.cc` and `cm.cc` | |
| `SchedulerProofs`, `EthernetProofs`, `ArpProofs`, `SwitchProofs`, `SpanningTreeProofs`, `JobServiceProofs`, `AodvProofs`, `WirelessProofs` | theorems, each about the module it is named after | |
| `MCEventHeap`, `MCScheduler`, `MCEthernet`, `MCArp`, `MCJobService`, `MCSwitch`, `MCSpanningTree`, `MCAodv`, `MCWireless` | values, networks and symmetries for TLC | |

Definitions named `X_Y` beside a definition `X` (for instance
`Later_Ties` beside `Later`) are plausible bugs: each property is known to fail
when `X` is replaced by one of them.

### EventHeap

`heap` is `eventHeap_[1 .. numEvent_]`, `curtime` the clock the caller compares
with, `status` becomes `exit` where the code prints an error and calls
`exit(0)`.  `insertEvent` and `dequeueEvent` are one action each.  `Lineage[i]` is
slot i with the slots above it, up to the root: the path the hole takes in both
sifting loops.  Upwards it stops at the first slot of the path where the
loop's test says so (`Stays`, `InsertSlot`).  Downwards it gets to a slot if at
every slot before it the loop goes on (`Settles`) and takes that turn (`Sinks`),
and `DequeueSlot` is where it stops.  `SiftUp` and `SiftDown` give the array after
the loop, in which the slots of the path have moved by one; the tests have the loops' own tie
rules (`StopsBelow`, `StopsAbove`, `Child`).

### TimerList and TimerSeq

In `TimerList` the state is `timerHead_` and the `next_ep` of each event, which
is written exactly where the code writes it; linking at the end of the list
does not clear `next_ep`, so it depends on what unlinking left there.  `Chain` is
the list as the loops walk it from `timerHead_`.  `TimerSeq` says the same with a sequence, and `Scheduler` uses that.

### Scheduler

`now` is `currentTime_[0]`; `heapq` is the heap as the set it was shown to
implement; `list`, `expire`, `perio`, `busy`, `paused`, `rtime` are the timer
list and the fields of each `timerObj`; `t0e` is the event tunnel.  `phase`
says where the engine is: start-up (`init`), before choosing (`poll`), in module
code (`module`), in kernel code (`kernel`), after the loop (`done`) or in one of
its exits (`exit`).

| Action | Code |
|---|---|
| `ScheduleEvent` | `setEvent` from `SET_FUNC_EVENT`, `SET_OBJ_EVENT` |
| `start`, `cancel`, `pause`, `resume`, `resumeNow` | the methods of `timerObj` |
| `run` | `scheduler::run` |
| `KernelRequest` | external: the patched kernel writes into the tunnel |
| `readt0e` | one entry of `readt0e`'s loop |
| `deqheap`, `deqtimer`, `drained` | the three branches of `executeEvent` |
| `endStep` | the loop's condition |

`simulateTime_` has no initial value in the code and is arbitrary until `run`.
`left` is a history: the ticks each timer still has to run, counted from what
`start` and `resume` were given and not from the code's own bookkeeping.
Modules pause a timer only when it is busy and not paused, as the MACs that use
`pause` do.

### Mac8023 and Ethernet

A station is a record of the fields of `mac8023`, `fifo` and `MBinder`; every
handler is an operator from the station it finds to the one it leaves, so calls
of one handler by another are compositions.  A timer is `Off` or the ticks
left.  A failed assertion, or the exit of `put` on a full binder, sets `fault`.
`Ethernet` has one action for each thing the engine executes for a station: a packet from above
(`UpperSend`), an arrival (`Arrival`, possibly lost), the expiry of each of the
four timers, and `Tick`.  Each of them ends with the poll of the station's binder,
as `executeEvent` does after every event.  A collision domain is a set of
frame copies in `air`, each for one station.  Random numbers (backoff,
`DELAYRATIO`) are choices.  Arrivals are events of the heap and so precede
timers of the same tick.  Timers that expire at one tick are taken in any order.

### Arp

`table[n]` is node n's `arpTable` as a set of entries `[ip, mac, pkt, life]`:
`life` is the time stamp less the clock, `pkt` the one-packet buffer, `mac =
NoMac` stands for `ETHER_NULLADDR`.  `arp::send` is three actions
(`SendKnown`, `SendWaits`, `SendUnknown`), `arp::recv` five (`RecvData`,
`RecvIgnored`, `RecvOverheard`, `RecvRequest`, `RecvReply`), one for each way
through the code.  `flushArpTbl` is the flush timer.  `crashed` is set where
`resumeSend` would follow a null pointer.  Between two nodes `net` keeps order,
as queues, MACs and wires below do; `Lose` takes any frame away.  The histories
`dropped`, `lost`, `early` and `unasked` record what became of packets and
questions.

### JobService

`queue` is `jobQueue`, `jobMap` and `coor` the fields of the job map, `entry` and
`status` the server list, in order of registration.  `up[h]` and `down[h]` are
the lines under way between the dispatcher and the coordinator of host h; a
line is a kind and the job it names.  Both programs are single threads around
`select`, so a handler is one action up to the point where it waits for a line;
`disp.pc` and `co[h].pc` say what is waited for, and while it is not `"select"` the
program reads nothing else.  `DispatchJob` is entered from three callers
(`Submit`, `SetStatus`, `Register`), and `DispatchAnswer`, `Dispatched`,
`DispatchFailed` and `DispatchBroken` are its continuation.  `dispatchJob` has no
`return` on its successful path: what the caller sees is any member of
`Returned` (`StatusAfter`).  A command for a running job goes to the host `getHost`
finds.  For a host that has left `serverMap` it returns a record whose descriptor
nobody set (`ServerList.C:72`): the line goes to any other host, to nobody, or the write fails
and the job keeps its status (`Command`), and `getTick` likewise (`GetTick`).  An interactive
client gets any free host, since it may name the one it wants (`findFreeHost`,
`ServRequest`).

`co[h]` keeps a coordinator's `session` (the background job), `pid` and `sock` of
its engine and `active`, the interactive client.  The methods of `JobControl`
that ask the engine first (stop, abort, pause, resume) end in `pc = "wait"`;
`Acknowledged` is `readlnSE` returning, `NoAcknowledgement` the null pointer it
follows if the engine closed.  An interactive client may ask for the abort
itself (`AbortSimulation`) or hang up.  `MaxLines` keeps the lines under way finite
where a client could add to them without end.  `engine[r]` is what `r` simulates: forked, up,
paused by a signal, done, ended or dead.  `HostCrash` and `EngineCrash` end a
process anywhere; what is written to a dead process is gone, and its end of
the connection reads as no bytes.

### Switch and SpanningTree

`Switch` is one switch.  `Learnt` and `Added` are `addSwTbl` on either table, with
the lookups' side effect of deleting an entry for another port; `Egress` is the
choice of ports in `send`.  The tree appears as what it does to forwarding
(`TreeChange`, `TopologyChange`).  `seen`, `since`, `heard` and `took` are histories of where
stations really are.

`SpanningTree` has all switches of a network.  Their timers start together with
the same period (all switches are made when the simulation is set up), so time is a
round of parts (`phase`); in each the switches act in turn.  `own[b]` is
`SpanTreeTbl0`, `rec[p]` and `age[p]` the entry of a port, `open`
its `PortState`; `chan[p]` carries announcements and topology changes.
`GetSpanTreePacket` is the whole handler: record, follow, elect.  `LinkChanges` is
`phy.cc` switching a link off or on at both ends.  It may happen between any two steps,
with frames under way: a frame that was sent before the failure is freed by `phy::recv`
when it arrives at a link that is still down (`Freed`), and taken if the link is back.

### Aodv

`st[n]` is a node: `rt` the routing table with its own entry first, `seen` the request
cache, `ctrl` and `repair` the two tables of buffers, `air` what has left the module
and `rd` the module's queue.  `sendToQueue` looks at the binder to the module below: if that
holds nothing the packet goes down, else it waits in `rd`, with no handler set.  The layers
below take one frame and `Below - 1` more before one stays in the binder.  (Over the usual
interface queue, which takes whatever comes, the binder is always empty and `rd` unused.)
Handlers (`recvRREQ`, `recvRREP`, `recvHello`,
`recvRERR`, `recvData`, `LinkLayerCall`) are functions from a node to a node;
`Broadcast`, `Unicast` and `Fails` are the three ends of a frame: heard by some of
the neighbours, by the one it is for, or given back by the layer below, which
calls `LinkLayerCall` for the packets that were sent with a handler.  `Packet::copy` copies the
handler (`packet.cc:142`), so a packet that waited in `rd` on its way carries the object of an earlier
hop: `caught` is the node whose handler a packet has, and `Fails` runs
`LinkLayerCall` on that node.  `Complain` sends an error for each pair of a
lost destination and a precursor, as the two loops do.  `RREQ_retry`,
`RepairFails` (the timer of `local_repair_table`), `RTTimer` and `sendHello` are the
timers.  Times are left out: a timer fires when the air is quiet, or at any
time if `Early`.  Where the code reads `rreq_dst_seqno` without having set it the value
is any member of `Unset`.  The rate limits, the counting of failures before the
fourth, and sequence numbers in error messages, which the receiver ignores,
are left out; the binder below holds whatever is put into it.

### Mac80211 and Wireless

Built like `Mac8023` and `Ethernet`.  A station is the record of the fields of
`mac802_11dcf`: `txs`, `rxs` are `tx_state`, `rx_state`; `ctrl`, `rts`, `tx`, `rx` what `epktCTRL`,
`epktRTS`, `epktTx` or `epktBEACON`, and `epktRx` hold; `nav` both the NAV and its
timer.  Timers are in microseconds.  `SetTx`, `SetRx` include
`CHECK_BACKOFF_TIMER`, as the macros do.  `check_own` is `check_pktRTS`,
`check_pktBEACON` and `check_pktTx` in the order both handlers call them.  A
handler leaves the frame it transmits in `out` and the packet it passes up in
`up`; `Wireless` takes both away.  `recvACK` and the end of a broadcast read the type
of a frame after they freed it, and choose the space of the next backoff by
it: the model takes either.  Random numbers are choices.

`Wireless` has one action for each thing the engine executes: a packet from
above (`Offer`), the begin of an arrival (`Arrive`, whole, spoilt or lost) and the
expiry of each of the six timers; each ends with the poll of the station's
binder.  `Leap` moves the clock to the next instant at which something is due,
so microseconds cost no states.  `chan` says who senses and who decodes whom: what
the powers and thresholds of `wphy.cc` and `cm.cc` come to.  A frame is sensed
`Prop` after it was sent and is received as a whole after its air time.
`fate` and `got` are histories of what senders think of their packets and what
receivers passed up.

## 4. The runs

| Run | States | What it shows |
|---|---|---|
| `heap` | 59,183 | both sifting loops, for every shape of up to six events, the full array included, make the array an agenda: no event lost, doubled or invented, an earliest one dequeued (`IsAgenda`) |
| `heap_priority` | violation | the finding below |
| `timer_list` | 1,426 | no unlinked event points into the list (`UnlinkedPointNowhere`); the pointers implement the ordered queue (`IsQueue`) |
| `scheduler` | 432,730 | no exit is reached (`NoExit`), flags and list agree (`FlagsMatchList`), pauses conserve time (`DelayConserved`), everything due is executed (`AllDueExecuted`), and the loop ends (`Terminates`) |
| `ethernet` | 135,561 | no assertion fails (`NoFault`), packets are conserved and kept in order (`PacketsConserved`), none waits without a timer (`NeverStuck`), attempts are counted right (`AttemptsCounted`), only one path strands a packet in the MAC (`StrandedByReceptionOnly`), and the binder drains (`BinderDrains`) |
| `arp` | 1,972,826 | the null pointer is not followed (`NoCrash`), entries expire in time (`NoStaleEntry`), packets are conserved (`PacketsConserved`) and overtaken in one situation only (`OvertakenOnlyIfEarly`), and every question is answered or was lost (`WaitsForAnswer`) |
| `job_quiet` | 60,956 | two hosts, three jobs: the service implements `JobBoard` (`BoardSpec`): jobs begin in order, one per host, and none is lost |
| `job` | 2,961,031 | whatever is stopped, aborted, deleted, listed or paused, and whoever dies: a job starts at most once (`StartedOnce`); an exchange that begins with nothing under way succeeds (`CleanDispatch`); the dispatcher never waits for a line nobody owes it, whatever crossed (`AnswerOwed`); it loses a job, or a client's answer, only where a line was under way when it turned to the host, or the host died (`LostOnlyIfCrossed`); and a host it calls FREE is idle (`FreeIsIdle`), under the conditions `JobsKept` |
| `switch` | 679,743 | a wrong entry is gone within two flush intervals, even one a full table refused to correct (`StaleBounded`), and frames for a known station go to it alone (`Directed`) |
| `stp` | 156,067 | four switches: no circle carries data while links stay as they are (`NoLoop`), nobody believes a path shorter than the links that have worked so far allow (`NeverTooClose`), and a tree forms again after links fail and return at any moment (`Settles`) |
| `aodv` | 115,016 | routes, requests and answers lead on while nothing fails (`LeadsOn`), repairs are known to the table that ends them (`RepairGuarded`), each packet is in one place (`PacketOnce`), arrives when nothing fails (`Arrives`) and never stays for ever (`Ends`) |
| `wireless` | 1,155,252 | no assertion of the MAC fails (`NoFault`), slots are counted on an idle medium only (`BackoffFrozen`), an acknowledged packet was passed up (`AckTruthful`), none is passed up twice (`PassedOnce`), and only a refused CTS leaves a packet without a timer (`StuckByRefusedCTSOnly`) |

`JobsKept` says that no client has used a host interactively, that no running job was
aborted, and that nothing `misled` the dispatcher: the result of `dispatchJob`, a listing that
read another line than its answer, or a line meant for a host that is gone.  Jobs may be stopped
and deleted, waiting jobs aborted, and anything may crash.  Each exception is one the code
needs: an abort, or the end of a client's connection (which aborts), may come
before the engine has connected; the coordinator then reports FREE and the engine
goes on.

Further configurations, checked beside the runs.  Those marked V end in a
counterexample, which is what they are for.

| Configuration (module) | Checks | |
|---|---|---|
| `EthernetSense` (`MCEthernet`) | `CarrierSense` | V: a frame that arrives in the front two thirds of the interframe space is freed and the space restarted (`mac8023.cc:439`); nothing remembers that the medium is busy |
| `ArpLive` (`MCArp`) | `Delivered` | in a network that loses nothing every packet is delivered or replaced by a newer one; 7,852 states |
| `JobEither` (`MCJobService`) | `TypeOK`, `QueueInOrder`, `StartedOnce`, `RunningStarted`, `CleanDispatch`, `FreeIsIdle`, `OneAtATime` | `dispatchJob` may return anything; 1,243,353 states |
| `JobIgnored` (`MCJobService`) | `IgnoredAreReplies` | V: `JOB_STOP` reports FREE, and jobFinished and FREE again (`coordinator/Mediator.C:115`); `dispatchJob`, started by the first report, takes the others for the replies it ignores |
| `JobTimeout` (`MCJobService`) | `ReadsReturn` | V: `readLine` does not notice a time-out (`coordinator/IOStream.C:51`); a coordinator that stops a paused simulation waits for ever |
| `SwitchPermanent` (`MCSwitch`) | `PermanentIsCurrent` | V: a station found in the learnt table ends `addSwTbl` before the permanent table is corrected (`sw.cc:175`) |
| `StpGrid` (`MCSpanningTree`) | `NoLoop`, `Converges` | six switches in two circles that share a link; 18,447 states |
| `StpRing7` (`MCSpanningTree`) | `NoLoop` | V: switches call the tree stable after `MaxAge` rounds of their own silence (`sw.cc:1110`); in a ring of seven, data circulates |
| `AodvAged` (`MCAodv`) | `LoopFree` | V: `RTTimer` makes a route invalid and leaves its number (`AODV.cc:216`); the node asks again, a neighbour that still routes through it answers with the same number, and an invalid route takes any answer |
| `AodvLoop` (`MCAodv`) | `LoopFree` | V: a repaired route keeps the number the repair raised (`AODV.cc:729`), and two nodes route through each other |
| `AodvMoved` (`MCAodv`) | `ShorterPasses` | V: the request cache takes a newer id and keeps the hop count of the older request (`AODV.cc:688`) |
| `WirelessWrap` (`MCWireless`) | `AckTruthful` | V: entries of the duplicate cache age only when it is full, so when sequence numbers wrap (here at once, in the code after 4096) a new packet that had to be sent again is acknowledged and thrown away |
| `WirelessLive` (`MCWireless`) | `Disposed` | every packet is acknowledged, sent or given up in the end, with two packets of one station; 699 states |

Bounds, and why they are enough.

- `heap`: `MaxEvent = 7`, that is six events, gives a heap of three levels: a
  node with two children that have children, with one child, and none.  Two
  priorities, since the loops only compare them; five stamps, one of them past
  the end of the simulation.
- `timer_list`: three timers make the first, middle and last place of a list
  distinct; stamps 0 to 3 allow ties and all orders.
- `scheduler`: two timers and two event structures, so that heads of both
  queues tie, precede and follow each other; a simulation of 3 ticks with an
  IPC check every 2 and 2 ticks per microsecond, so that a microsecond is both
  under way and over.  `MaxCalls = 3` bounds calls of modules and requests of the
  kernel, not the engine: start, pause and resume, with a request in place of any.
- `ethernet`: three stations, since a collision during a reception needs a
  receiver and two senders; `IFS = 3` has a front and a back part; frames last
  longer than the interframe space; two attempts per packet, so that a packet
  can be given up; the fifo holds one packet and three are made, so that it
  overflows.
- `arp`: two nodes that resolve each other and a third with a fixed table;
  `Talks` says who sends to whom; packets enough that one waits, one replaces
  it and one follows; `FlushInterval = 2`, so that an entry is renewed, becomes
  old and is flushed with frames under way; tables of the size
  `TableLargeEnough` asks for.
- `job_quiet`, `job`: two hosts for the questions about choosing one, one host
  where the question is about a connection; two or three jobs, so that one
  runs, one is being dispatched and one waits.  `Ops` chooses what users do
  besides submitting; each process dies at most once.  `MaxLines` bounds only what a client can
  repeat: the end of its connection is handled with at most that many lines of the
  coordinator under way, and it aborts with fewer.
- `switch`: `Modes` has the three ways the switch is configured (learning, a
  table known in advance, the spanning tree).  A table of two entries for two stations and
  those an access point announces is full and not full.  `FlushInterval = 1` and
  three ticks hold two flush intervals and a move between.
- `stp`: `Cases` are the complete network of four switches, one link of which
  changes, all networks that are left of it when links are missing from the start, and a
  triangle two links of which change; `Hops` are the distances in what is left, up to 3.
  Links change at any moment.  `MaxAge = 3` rounds, in which news crosses these
  networks and `StpGrid`'s, but
  not a ring of seven (`StpRing7`).
- `aodv`: five nodes, a triangle with a tail of two, so that a
  route is three hops long and has a detour.  `Troubles` are the failures of one behaviour: a link that breaks or comes, a lost frame, an ageing
  route, a hello, a timer that fires early.  Two packets in opposite
  directions, so that both requests meet; a queue and buffers of two, which
  fill, and `Below = 1`, so that the second of two packets sent in a row goes down and
  the third waits.
- `wireless`: `Cases` are channels with loads.  Two nodes hidden from each
  other, with a long packet (RTS/CTS) that meets two short ones, one of them of its
  receiver; all in range, with a beacon and two short packets; and a packet
  between the two thresholds beside a long one on all three channels.  Times are those
  of 11 Mbit/s with 192 microseconds of preamble.  `Offsets` 0 and 210 and
  `Rand` 0 and 20 let frames collide, follow and cross an RTS; one frame is
  lost or spoilt; two short and one long retry, so that packets are given up.
  At the middle node one drowns the other, so that both `capture` and `collision` happen.

Symmetry is used in safety runs only, over sets of values no definition tells
apart.  Deadlock is not checked where the system may stop: the heap after an
exit, the engine after its loop, a network with nothing to do.  Type invariants
are stated in every module; the runs leave them out where an invariant with
the same content is proved or checked by another configuration.

Fairness.

- `Scheduler`: weak fairness of `Engine`, the loop of `executeEvent`, which
  blocks on nothing.  Modules and kernel are not fair; they ask for finitely
  much.
- `Ethernet`: weak fairness of `Engine`: the scheduler goes on while an event or
  timer is pending, as `Terminates` shows.
- `Arp`: weak fairness of `Time`, for the same reason, and of `Receive` for each
  pair of nodes: in `ArpLive` nothing is lost and frames arrive before the
  clock moves on (`Prompt`), since a reply slower than the flush interval may find
  its packet dropped with the entry.  `Lossy` and not `Prompt` is what the run
  checks.
- `JobService`: weak fairness of the dispatcher's reading, of each coordinator, of
  engines coming to an end and of the closing of a client's connection: loops around `select`.
  Users owe nothing, and nothing makes a paused engine go on.
- `SpanningTree`: weak fairness of timers and frames, that is, virtual time goes on.
- `Aodv`: the scheduler goes on as long as a frame is on the air or a buffer waits
  (`Due`): then infinitely many steps of nodes happen.  This is weaker than fairness
  of each timer, and enough: what else a node may do is bounded.
- `Wireless`: weak fairness of `Next`: the engine goes on while anything is
  pending.

Finding.  `heap_priority`: `dequeueEvent` goes to the right child whenever the stamps
of the two children are equal (`heap.cc:176`), so the branch that compares
their priorities is dead, and an event of lower priority can leave the heap
first.  The comments at `heap.cc:129-134` say that priorities decide.

More that the models make precise without a document that says otherwise:

- A packet whose backoff ends during a reception that then collides stays in
  the Ethernet MAC until some other event of the station
  (`StrandedByReceptionOnly`).
- ARP lets later packets overtake the one in the buffer when a request of the
  awaited node resolves the entry before its reply (`OvertakenOnlyIfEarly`).
- The 802.11 sender compares the payload with `aRTSThreshold`
  (`mac-802_11-dcf.cc:1425`), the receiver the whole packet (`:1974`): a packet
  between the two is sent without RTS, refused by its receiver as not
  announced, and given up after all retries (size `edge`).
- `retransmitRTS` resets `ssrc` alone when it gives up, so the long retry count
  goes on with the next long packet; `recvDATA` resets `ssrc` and `cw` for the data it
  was announced, whatever the station's own packet had counted.
- A valid AODV route need not get better towards its destination: `RouteBack` may
  put a longer route in the place of a shorter one.  What holds while no link changes, no
  frame is lost and no route ages is `LeadsOn`: the next hop of a valid route has a
  route itself.  After a route aged not even circles are excluded (`AodvAged`).
- A 802.11 packet whose deferral `recvRTS` cancels is left without a timer when
  `deferHandler` then drops the CTS on a busy medium and returns
  (`mac-802_11-dcf.cc:1243`); `StuckByRefusedCTSOnly` says that this is the only way.
- A host's FREE line that `getJobList` takes for a number leaves the dispatcher with a wrong
  picture of that host, and so do an abort before the engine connected, the end of an
  interactive client's connection, and a command for a host that is gone; `FreeIsIdle`
  excepts all of them (`JobsKept`).
- With a full duplicate cache the entry of a packet may be thrown out while its
  sender still repeats it.

## 5. The proofs

Everything proved holds for every value of the constants that satisfies the
named assumptions.

`SchedulerProofs`, from `SchedulerConstants` (`IpcInterval` and `TicksPerMicro`
are not zero): `Typed`, `NothingMissed`, `TimerListSound`, `DelaysConserved`,
`Completeness`.  The inductive invariant `IInv` is the conjunction of the
invariants the run checks with `PhaseClock`.  None is inductive alone: no exit
is reached because nothing is behind the clock; advancing the clock to the head
of the list keeps that only because the head is the minimum of a sorted list;
linking keeps the list sorted and finite only because a linked timer is not
linked again, which the flags guarantee; a resumed timer is not in the past
because the time it has left is what the pause stored.  What `schedule_timer`
and `cancel_timer` do to a list of any length (members, no repetition, order)
are lemmas at its beginning.  `Completeness` needs to know
of every phase how the clock stands to the end of the simulation.

The same module proves of `TimerList`, from `TimerListConstants` (finitely many
timers, none of them the null pointer): `PointersTyped`, `UnlinkedEventsClean`,
`ListIsQueue`.  The invariant (`ListInv`) is that there is a sequence without
repetition which the pointers follow (`Path`): the head points to its first
event, each event to the next, the last one and all outside it to nothing.  The part about the events
outside is what linking at the end relies on, and it is inductive only because
unlinking clears the pointer it leaves.  `Chain` finds that sequence (`ChainIs`), so
a list of any length has a name before and after each step, and every way
to link and unlink is shown to insert into it or remove from it
(`InsertPath`, `RemovePath`) just where `TimerSeq` does; that is the step of `TimerQueue` which
`ListIsQueue` asks for.  The abstract state is a function of the concrete
one, so no history is needed.

And of `EventHeap`, from `HeapConstants`, for an array of any size: `HeapTyped` and `HeapIsAgenda`.
The invariant (`HeapInv`) is that no event is earlier than the one above it and
none is behind the clock.  Priorities have no part in it: with them the order would
not be kept, which is the finding below `PriorityOrder`.  The lineage of a slot is a recursive
function; what is needed of it (it is a line from the slot to the root, each
slot half of the one below) follows by looking at the least slot for which it would fail, as the
library's induction theorems cannot be used.  From this the loops are shown to stop, at one slot (`InsertSlotFound`,
`DequeueSlotFound`), and their results to be in order (`SiftUpOrder`,
`SiftDownOrder`).  That no event is lost or doubled is a bijection: each loop moves slots
along a line and leaves the others, so slots with a given event before and after have the same
number but for the one inserted or taken out (`Moved`, `SiftUpTally`,
`SiftDownTally`).  The root is an earliest event (`RootEarliest`), which makes a dequeue a `Dequeue` of `EventQueue`.

`EthernetProofs`, from `MacConstants` and `EthernetConstants`: `AssertionsHold`,
`TimersSound`, `TurnsKept`, `NoneForgotten`, `ReceptionsStrand`,
`AttemptsAreCounted`, `PacketsKept`.  The invariant is that every
station is `Sound`, and it speaks of one station at a time, because stations
influence each other only by frames, which may arrive at any moment.  Each
handler has a lemma: it takes a sound station with one timer just reset to a
`Settled` one (the timers match the state), and polling makes a settled station
sound again (queues in turn, a timer ahead of every waiting packet).  Attempts
are counted by a second invariant beside it, `Counted`: while a packet is at
hand, `retxCnt` is one more than the collisions it has had, or just as many
while its backoff runs, and 1 when there is none.  The two cases are why it is
inductive: a collision is counted when its backoff ends, not when it happens.
`ReceptionsStrand` is an action property: the same lemmas say of each handler that it
leaves a timer to the packet it keeps, all but the collision of a reception.
`PacketsKept` needs the books of a station: what the MAC, the binder and the fifo
hold, in this order, is a `Stock` to whose end the layers above add and from whose head
the wire takes, so every handler leaves the stock or takes its head, and the
invariant (`Accounted`) speaks of one list and not of three: its packets are in
order, it and what has left are all that were made, and nothing that left, unless it was refused
at the full queue, is newer than what is held.

`ArpProofs`, from `ArpConstants` and `TableLargeEnough` (the table has room for
all other nodes; `ARP_TBL_MAX_ENTRYS` is 65536): `TablesStaySound`,
`PointerNeverNull`, `StaleForgotten`, `QuestionsKept`, `PacketsKept`, `OnlyEarlyOvertaken`.  The invariant has three parts: tables are
sound and fresh, each judged by itself with the packets its node has made;
frames under way carry their sender's true addresses and never go from a node
to itself; nothing crashed.  Soundness is what makes the room argument work:
entries of a table have different addresses, none of them the node's own, so a
table without an entry for some node has at most `Cardinality(Node) - 2` entries and accepts
another.  That is why `resumeSend` finds its entry even after a flush.
`QuestionsKept` adds that whoever waits has asked (`WInv`): a request is among
the frames of one channel or its reply among those of the other, or `unasked`
holds the pair; a channel gives up its head only to a handler, which answers
it or resolves the entry.  `PacketsKept` follows a packet through five places, the
channel, the buffer of an entry, delivered, dropped and lost (`Placed`): a packet that was made is
in one of them, and each excludes those behind it.  It needs that a buffer holds the
newest packet for its address, so that what goes into the channel is new there.
`OnlyEarlyOvertaken` says of each pair of nodes outside `early` that the
packets in the channel are in order and newer than those delivered (`Line`), and that
a buffer with a packet belongs to an entry that still waits (`HoldsWaiting`):
only then nothing was sent since.

`SwitchProofs`, from `SwitchConstants`: `OneEntryEach`, `StaleGone`,
`FramesDirected`.  The bound on wrong entries is not inductive: it needs where
the flush stands.  `Timely` says that the next flush is at most an interval
away, that no entry expires later than an interval from now, and that a wrong
one expires within an interval of the station's move; together they give two
intervals.  `Remembered` says that a station learnt less than an interval ago
has exactly the entry it was given, which is what early flushes threaten.

`SpanningTreeProofs`, from `SpanningTreeConstants` and `HopsAssumption` (`Hops`, for each set of links that never
worked, are distances in what is left: zero at home and at most one longer at a neighbour): `Typed`,
`NeverBelievesTooMuch`.  What a switch believes was
announced, carried and recorded before, and each of the three places is judged
by itself: an announcement on a link, or in a record, costs at least the
distance of the switch that sent it over all links that have worked so far (`failures.never` holds the
others).  Old news may outlive its link, so present distances would not do; this set of links only
grows, its distances only shrink, and so what was true when it was said stays true.

`JobServiceProofs`, from `JobConstants`: `NoSecondStart`, `TypeCorrect`, `ExchangesAnswered`,
`FreeHostsAreIdle`, `OneJobAtATime`, `FinishedWhileKept`, `FinishedJobsAreOver`.  A job that was
submitted is in one of four places: the queue, the dispatcher's hands, a start
command under way, an engine.  The invariant `Places` says that each place
excludes those behind it, that the queue holds no job twice and the channels no
two start commands for one job.  Channels only lose lines at the head, gain
other lines at the tail or are cut off, so handlers that start nothing
have one lemma (`Older`); each handler that moves a job is looked at by itself.

`ExchangesAnswered` (`CleanDispatch`) describes the talk of an exchange that began with
nothing under way: a request is on its way, its answer is, or the
host is about to give it, and nothing else is in either direction (`Talk`).  What makes this
inductive is that nobody else can speak: the host runs nothing that could report
(`Alone`), a socket belongs to an engine of its host (`Socks`), and a client
that has no host runs nothing (`News`).  `TypeCorrect` comes first because it
bounds what a line can be.

`FreeHostsAreIdle` (`FreeIsIdle`) is about lines in an order nobody wrote down.  A host says FREE more
than once for a stop, its reports may stand before or behind answers, and the dispatcher takes
whatever comes for what it waits for.  What decides is the `Road` of a host: all that was
said to the dispatcher and not read, the report its session still owes, the stop its
engine has not acknowledged, and the orders under way to it, as one word in the order in which they
will come true.  `RoadOK` says which letters may stand behind which (`Tidy`, `Idle`,
`Spare`, `Owned`): a start or a session never before a FREE that is not about to be read in
its place, two starts never on one road, no engine but that of the job on the road.  Each handler takes
a letter off, turns one into another or puts one in, and there is a lemma for each of these ways
(`Swapped`, `Removed`, `Inserted`, `CutOff`, `Dropped`), so that the forty handlers only have to say
which it is.  The invariant (`KInv`) holds the rest (`All`) as long as nobody gave a host
back behind the dispatcher's back (`Kept`, which is `JobsKept`), the condition both properties name:
the theorem covers stops, deletions, aborts of waiting jobs and all crashes, and says nothing once a
client used a host, a running job was aborted or the dispatcher was misled.
`LostStays` and `KeptBefore` say that `Kept`, once lost, does not return.  `OneJobAtATime` is read
off from the same words.

`FinishedWhileKept` adds that a job the job map calls finished has no engine, no
session and no letter on a road (`Ended`); only a stop makes a host report a job's end
before it ended, so the hypothesis is that stops are not among `Ops`.  `FinishedJobsAreOver`
(`FinishedIsOver`) is that for a service where jobs are only submitted and deleted and where
`dispatchJob` returns what its callers expect (`QuietService`), the constants of
`job_quiet`: then nothing disturbs the books (`Undisturbed`) and `Kept` always holds.

`WirelessProofs`, from `RadioConstants` and `ChannelConstants`: `Invariance`, `NothingAsserted`,
`BackoffFreezes`, `OnlyRefusalsStrand`, `RoomyPassesOnce`, `AcknowledgedArePassedUp`
(`ChannelConstants` says, among others, that `Broadcast` is no station's address).  As for Ethernet the
invariant is that every station is sound, here with the frames on the air as
their senders made them (`Channel`), the packets as the load has them
(`Traffic`: beacons go to everybody, as `GenerateBeacon` of `qosAP.cc` makes them) and no arrival left
at the instant a broadcast ends (`Hushed`).  Soundness ties the state of sender and
receiver to the timers and the backoff to the medium; `BackoffFrozen` and the absence
of failed assertions are parts of it, and `OnlyRefusalsStrand` is read off from what
each handler does to the packet at hand.  `RoomyPassesOnce` has the
hypothesis that the duplicate cache is never full (`[]Roomy`): a full one drops an entry
or refuses one, and then a packet that is repeated may be passed up again, in the code as in the
model.  Its invariant (`Scene`) says of each packet (`Once`) what its
number, its sender's state, the copies on the air and the receiver's cache have to do with each other: before it is
sent nobody knows its number; while its sender may repeat it, whoever passed it up
has it in the cache; and when its sender has let go of it the copies that are left end
before a new packet can use the number, for any numbers that wrap.

`AcknowledgedArePassedUp` (`AckTruthful`) is about `recvACK`, which looks at the state of the MAC and at nothing
in the frame: that the ACK is the one for the packet at hand is a matter of time.  An exchange of a station is
at one of five stages (`Stage`): the frame is on the air, it is heard, its receiver owes the ACK, the ACK is on
the air, the sender is told.  The invariant (`Reliable`) says that at most one stage of each station is
under way, that the ACK comes before the sender gives up or sends another frame (`Early`), and that
while the sender waits the stage is about the packet it waits with (`Concerns`) and a
receiver that has its number has passed it up (`Remembered`).  `Measured` gives the timers the bounds this needs:
no wait is longer than `AckWindow`, no answer is deferred for more than SIFS.  The theorem has two hypotheses.
`ShortHops`, about constants: the way to a station and back takes less than `AckWindow` and than
the shortest frame, as it does over the distances where 802.11 works at all (1 tick against 223 in `Wireless.cfg`).
`Unspent`, about every state: the number a station gives next is not the present one, and no cache holds it.
It holds in all states of `wireless`, and is what the finding `WirelessWrap` takes away: there a number
that is given again is in the cache, and the theorem shows that nothing else can make an ACK untrue.

`AodvProofs`, from `AodvConstants` and `NoneIsNone`: `TypeCorrect`,
`RepairsGuarded`, `WaysLeadOn`, `PacketsKept`.  Handlers are functions of one node, so the
invariant judges nodes one at a time.  `Fit` gives a node its types and says that the buffers of a
destination hold packets for it only, that a route under repair has its entry and its
buffer, and that a node's own entry stays.  As long as no link changed, no frame was lost and
no route aged (`Calm`), every node is `Straight`: its valid routes, its
requests and answers and the packets it sends go to neighbours that are the destination or have a valid route
themselves (`Lead`), and it repairs nothing.  This holds for each node relative to
what the others have, and stays because no handler gives up a valid route in this
time (`Keeps`): what a node relied on yesterday is there today.

`PacketsKept` (`PacketOnce`) counts how often a node has a packet (`Total`): on the air, in the module's
queue, in the two buffers of its destination, passed up, dropped.  Each handler is
shown to leave the count of every packet as it was (`Saves`) or to bring one more (`Takes`), whatever it does in
between: flush two buffers into a queue that has no room for all of them, put a packet back for a
repair, give up a buffer.  It suffices to tell none, one and more apart (`Count`), and a
handler needs to keep the count only of packets the node has at most once, which is what
the invariant (`Single`) grants: a packet that was sent is at one node, once.  `Fit` is
needed for it: were a packet in the buffer of another destination, nothing would count it.

Only model-checked: the liveness properties (`Terminates`, `BinderDrains`,
`Settles`, `Arrives`, `Ends`, and `Delivered`, `Converges`, `Disposed` of the
further configurations), which are out of the
prover's reach; the refinement `BoardSpec`, which promises liveness too; `AnswerOwed` and
`LostOnlyIfCrossed`; and `NoLoop`, which depends on how many rounds news needs.
`OneEntryPerMac`, `OneAtATime` and `FinishedIsOver` are proved and no run repeats them.
`AckTruthful` is proved as far as it is true, and fails
where sequence numbers wrap (`WirelessWrap`).

## 6. Not modelled

`PROJECT.json` lists every component with the reason.  The repository is large
because it holds many protocol stacks beside each other, most of which share no state with the
rest: the models cover the engine every simulation runs on, the job service, and one protocol of
each kind (wired and wireless MAC, address resolution, bridging, routing).  In
short: set-up code, accessors, logging and the GUI connection do not take part
in the order of events; channel models compute with reals; WiMAX, GPRS,
satellite, optical, mesh, 802.11a/e/p and the other routing protocols are
protocol stacks of their own; the kernel patch is compressed, so only its
requests in the event tunnel appear, as an external action; Tcl, librtp and the
binaries are not this program's.  In the job service, detached sessions and the
return of a coordinator after its death are left out; in the 802.11 MAC,
fragmentation, which no caller reaches, and promiscuous reception.

Hazards no property covers: what the code does there is in the models, and no
document says what it should do, so no property forbids it.

- A job that is deleted or stopped while it waits stays in the queue and runs later, once
  (`JobQueue.C:76`, `BackGndJob.C:436`).
- With a negative result of `dispatchJob` (`BackGndJob.C:274`) a busy host is given the next job; `JobEither`
  checks what still holds.
- A stop or an abort that crosses the engine's `simulationDone` ends the coordinator (`RunTime.C:71`).
- The request cache of AODV (`AODV.cc:688`); `AodvMoved` shows it.

And others that are not reachable in the models or outside them:

- `~timerObj` frees its event without unlinking it (`nctuns/timer.cc:59`): a
  busy timer that is destroyed leaves the list with a freed event.  The engine
  destroys no module while it runs.
- `random() % (retime / DELAYRATIO)` divides by zero for a frame shorter than
  ten ticks (`module/mac/mac.cc:152`), and a full-duplex frame that begins
  exactly when the previous one ends is refused when its arrival is executed
  first (`mac.cc:219`): the full-duplex link is not modelled.
- The time spent behind the real clock (`scheduler.cc:430`) is real time.
- In the coordinator `kill` may be given -1; hosts are removed from the dispatcher's
  list by address, so two coordinators at one address would be confused; jobs are named by
  the second they came in.
- A switch with a table known in advance and the spanning tree at once drops
  every frame: nothing in the code asks for both.
