------------------------------ MODULE Ethernet ------------------------------
(***************************************************************************)
(* Stations (module Mac8023) on one collision domain: their phys joined by *)
(* links and hubs (phy.cc, hub.cc).  A frame sent reaches every other      *)
(* station Prop ticks later.  Time passes in ticks; at one tick the engine *)
(* executes arrivals, which are events of its heap, before timers (module  *)
(* Scheduler, HeapFirst).  Timers that expire together are taken in any    *)
(* order, more orders than the timer list gives.  After each of its events *)
(* the binder of a station is polled.                                      *)
(***************************************************************************)
EXTENDS Mac8023, FiniteSets, Functions

CONSTANTS Station,
          TxTime,      \* transmission times, random delay included, in ticks
          Prop,        \* propagation delay between two stations, in ticks
          MaxPackets   \* bound: packets the layers above the stations send

ASSUME EthernetConstants == /\ TxTime \subseteq Nat \ {0} /\ TxTime # {}
                            /\ Prop \in Nat \ {0} /\ MaxPackets \in Nat

VARIABLES st,     \* the stations
          air,    \* copies of frames on their way: [to, from, dur, left]
          made,   \* packets the layers above have sent, per station
          hits,   \* history: collisions of the packet the MAC holds
          gone    \* history: what became of the packets that left the station

vars == <<st, air, made, hits, gone>>

Fate == {"sent", "full", "given up"}

Init == /\ st = [s \in Station |-> Station0]
        /\ air = {}
        /\ made = [s \in Station |-> 0]
        /\ hits = [s \in Station |-> 0]
        /\ gone = [s \in Station |-> <<>>]

-----------------------------------------------------------------------------
(* The event leaves station s as m; then its binder is polled. *)
Becomes(s, m) == st' = [st EXCEPT ![s] = poll(m)]

Leaves(s, p, fate) == gone' = [gone EXCEPT ![s] = Append(@, <<p, fate>>)]

Total == FoldFunction(+, 0, made)

(* The layers above s have a packet to send.  (A fifo that drops it frees  *)
(* the newest packet, the one just made.)                                  *)
UpperSend(s) ==
  LET p == made[s] + 1
  IN  /\ Total < MaxPackets
      /\ made' = [made EXCEPT ![s] = p]
      /\ Becomes(s, fifoSend(st[s], p))
      /\ IF Drops(st[s]) THEN Leaves(s, p, "full") ELSE UNCHANGED gone
      /\ UNCHANGED <<air, hits>>

(* phy::recv; a failed link (LinkFailFlag) loses the frame, otherwise the  *)
(* MAC gets it.                                                            *)
Lost(f) == air' = air \ {f} /\ Becomes(f.to, st[f.to]) /\ UNCHANGED <<made, hits, gone>>

Arrive(f, r) ==
  LET s == f.to
      m == st[s]
      cut == m.mac = "SEND"     \* it collides with the station's own frame
  IN  /\ f.left = 0
      /\ air' = air \ {f}
      /\ r \in IF cut /\ ~GivesUp(m) THEN Backoff(m) ELSE {0}
      /\ Becomes(s, recv(m, f.dur, r))
      /\ IF cut /\ GivesUp(m)
         THEN Leaves(s, m.pktRetx, "given up") /\ hits' = [hits EXCEPT ![s] = 0]
         ELSE /\ hits' = IF cut THEN [hits EXCEPT ![s] = @ + 1] ELSE hits
              /\ UNCHANGED gone
      /\ UNCHANGED made

Arrival == \E f \in air : /\ f.left = 0
                          /\ Lost(f) \/ \E r \in 0 .. 2 ^ BLIMIT - 1 : Arrive(f, r)

(* Timers wait for the arrivals of their tick. *)
Quiet == \A f \in air : f.left > 0

(* The interframe space is over: phy::send puts a copy of the frame on its *)
(* way to every other station.                                             *)
IFSExpires(s, d) ==
  /\ Quiet /\ st[s].ifs = 0
  /\ Becomes(s, IFSHandler([st[s] EXCEPT !.ifs = Off], d))
  /\ air' = air \cup {[to |-> u, from |-> s, dur |-> d, left |-> Prop] :
                        u \in Station \ {s}}
  /\ UNCHANGED <<made, hits, gone>>

TxExpires(s) == /\ Quiet /\ st[s].tx = 0
                /\ Becomes(s, txHandler([st[s] EXCEPT !.tx = Off]))
                /\ Leaves(s, st[s].pktRetx, "sent")
                /\ hits' = [hits EXCEPT ![s] = 0]
                /\ UNCHANGED <<air, made>>

RetxExpires(s) == /\ Quiet /\ st[s].retx = 0
                  /\ Becomes(s, retxHandler([st[s] EXCEPT !.retx = Off]))
                  /\ UNCHANGED <<air, made, hits, gone>>

(* The frame has arrived as a whole; the layers above may answer it.       *)
RxExpires(s, answer) ==
  LET p == IF answer THEN made[s] + 1 ELSE 0
  IN  /\ Quiet /\ st[s].rx = 0
      /\ answer => Total < MaxPackets
      /\ made' = [made EXCEPT ![s] = IF answer THEN p ELSE @]
      /\ Becomes(s, rxHandler([st[s] EXCEPT !.rx = Off], p))
      /\ IF answer /\ Drops(st[s]) THEN Leaves(s, p, "full") ELSE UNCHANGED gone
      /\ UNCHANGED <<air, hits>>

Expiry(s) == \/ TxExpires(s) \/ RetxExpires(s)
             \/ \E d \in TxTime : IFSExpires(s, d)
             \/ \E answer \in BOOLEAN : RxExpires(s, answer)

-----------------------------------------------------------------------------
Timers(m) == {m.tx, m.rx, m.retx, m.ifs}

Elapse(x) == IF x = Off THEN Off ELSE x - 1

(* The clock moves on when nothing is due. *)
Tick == /\ Quiet
        /\ \A s \in Station : 0 \notin Timers(st[s])
        /\ (air # {} \/ \E s \in Station : Timers(st[s]) # {Off})
        /\ st' = [s \in Station |->
                    [st[s] EXCEPT !.tx = Elapse(@), !.rx = Elapse(@),
                                  !.retx = Elapse(@), !.ifs = Elapse(@)]]
        /\ air' = {[f EXCEPT !.left = @ - 1] : f \in air}
        /\ UNCHANGED <<made, hits, gone>>

Engine == Arrival \/ Tick \/ \E s \in Station : Expiry(s)

Next == Engine \/ \E s \in Station : UpperSend(s)

Spec == Init /\ [][Next]_vars

(* The engine goes on as long as anything is pending. *)
FairSpec == Spec /\ WF_vars(Engine)

-----------------------------------------------------------------------------
Ticks == Nat \cup {Off}

(* Every field of a station and of a frame keeps its type. *)
TypeOK ==
  /\ \A s \in Station :
       /\ st[s].mac \in MacState
       /\ {st[s].busy, st[s].pktRx, st[s].fault} \subseteq BOOLEAN
       /\ st[s].retxCnt \in 1 .. ALIMIT
       /\ Timers(st[s]) \subseteq Ticks
       /\ st[s].pktRetx \in 0 .. made[s]
       /\ Len(st[s].mbq) <= MbqMaxLen /\ Len(st[s].ifq) <= IfqMaxLen
       /\ made[s] \in 0 .. MaxPackets /\ hits[s] \in 0 .. ALIMIT
  /\ \A f \in air : f.to # f.from /\ f.dur \in TxTime /\ f.left \in 0 .. Prop

(* None of the assertions of mac8023.cc and fifo.cc fails, nor does put    *)
(* find a full binder, in whatever order frames arrive, timers expire and  *)
(* packets come from above.                                                *)
NoFault == \A s \in Station : ~st[s].fault

(* The state of the MAC tells which of its timers runs, and busy tells     *)
(* whether it is sending, spacing or backing off.                          *)
TimersMatch(m) ==
  /\ m.mac = "SEND" <=> m.tx # Off
  /\ m.mac = "IFS" <=> m.ifs # Off
  /\ m.mac = "RECV" <=> m.rx # Off
  /\ m.pktRx <=> m.rx # Off
  /\ m.busy <=> (m.tx # Off \/ m.ifs # Off \/ m.retx # Off)
  /\ m.tx # Off \/ m.ifs # Off \/ m.retx # Off => m.pktRetx # 0
  /\ m.retx # Off => m.mac \in {"IDLE", "RECV"}

(* No handler leaves a timer, a flag or a buffer behind that a later one   *)
(* would run into.                                                         *)
TimersMatchState == \A s \in Station : TimersMatch(st[s])

(* The packets of station s that are still in it, oldest first. *)
Held(s) == LET m == st[s]
           IN  (IF m.pktRetx = 0 THEN <<>> ELSE <<m.pktRetx>>) \o m.mbq \o m.ifq

(* No packet is lost, duplicated or overtaken between the fifo and the     *)
(* wire: what left the station and what it holds are all the packets made, *)
(* and the packets leave in order except those the full queue refused.     *)
PacketsConserved ==
  \A s \in Station :
    LET out == {gone[s][i][1] : i \in DOMAIN gone[s]}
    IN  /\ out \cup {Held(s)[i] : i \in DOMAIN Held(s)} = 1 .. made[s]
        /\ Len(gone[s]) + Len(Held(s)) = made[s]
        /\ \A i, j \in DOMAIN Held(s) : i < j => Held(s)[i] < Held(s)[j]
        /\ \A i \in DOMAIN gone[s] : gone[s][i][2] # "full" =>
             \A j \in DOMAIN Held(s) : gone[s][i][1] < Held(s)[j]

(* The fifo holds packets back only while the binder is full, and the      *)
(* binder only while the MAC holds a packet.                               *)
InTurn(m) == /\ m.ifq # <<>> => m.mbq # <<>>
             /\ m.mbq # <<>> => m.pktRetx # 0

QueuesWaitInTurn == \A s \in Station : InTurn(st[s])

(* A packet waiting in the binder is never forgotten: some timer of the    *)
(* station runs whose expiry goes on with the packet ahead of it.          *)
NeverStuck == \A s \in Station : st[s].mbq # <<>> => Timers(st[s]) # {Off}

(* retxCnt counts the attempts of the packet at hand, across receptions,   *)
(* restarted interframe spaces and backoffs: a packet is given up after    *)
(* ALIMIT collisions, never earlier and never later.                       *)
AttemptsCounted ==
  \A s \in Station :
    /\ st[s].pktRetx # 0 => st[s].retxCnt = hits[s] + (IF st[s].retx # Off THEN 0 ELSE 1)
    /\ st[s].pktRetx = 0 => st[s].retxCnt = 1 /\ hits[s] = 0

(* The MAC holds a packet and no timer of the station runs. *)
Stranded(m) == m.pktRetx # 0 /\ Timers(m) = {Off}

(* Only a collision during a reception (collision, case MAC_RECV, which     *)
(* does not resume) leaves the MAC with a packet and nothing that would    *)
(* send it: every other handler goes on with the packet.                   *)
StrandedByReceptionOnly ==
  [][\A s \in Station :
       ~Stranded(st[s]) /\ Stranded(st[s])' =>
         st[s].mac = "RECV" /\ \E f \in air : f.to = s /\ f.left = 0]_vars

(* The comment on collision's case MAC_IFS: a frame sensed in the front    *)
(* two thirds of the interframe space sends the station back to carrier    *)
(* sense; so it does not start to send while that frame lasts.             *)
CarrierSense ==
  [][\A f \in air \ air' :
       LET before == st[f.to]
           after  == st'[f.to]
       IN  f.left = 0 /\ before.mac = "IFS" /\ after.ifs # before.ifs =>
             after.ifs = Off \/ after.ifs >= f.dur]_vars

(* Under a finite load, what waits in the binder reaches the MAC in the    *)
(* end: scheduler::executeEvent polls the binders only of the node whose   *)
(* event it executed, and that is often enough.                            *)
BinderDrains == \A s \in Station : st[s].mbq # <<>> ~> st[s].mbq = <<>>

=============================================================================
