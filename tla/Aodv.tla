-------------------------------- MODULE Aodv --------------------------------
(***************************************************************************)
(* The ad hoc on-demand distance vector routing of the mobile nodes        *)
(* (module/route/aodv).  Each node keeps its state in st[n]; a handler is  *)
(* a function from the state s of node n to its next one.  A node's frames *)
(* go on the air one after another, and whoever hears a frame handles it   *)
(* at once.  Times are not counted: a flood is over in milliseconds, the   *)
(* timeouts are a second and more, so timers fire when the air is quiet.   *)
(* What disturbs that is counted in trouble: links that come and go,       *)
(* frames lost, routes ageing, greetings, timers beside frames on the air. *)
(***************************************************************************)
EXTENDS Integers, FiniteSets, Sequences, SequencesExt, FiniteSetsExt

CONSTANTS Node,
          Packet,      \* packets the nodes' kernels may send
          Src, Dst,    \* where a packet is sent, and its destination
          LinkAtStart, \* pairs of nodes that hear each other
          MayMove,     \* the links that come and go
          None,
          RetryMax,    \* RREQ_RETRIES
          Diameter,    \* NET_DIAMETER
          Ttl,         \* time to live of a packet when it is sent
          QueueMax,    \* qmax_
          Below,       \* frames the layers below take before the binder holds one
          BufferMax,   \* AODV_MAXQUEUELEN
          Unset,       \* what an unset rreq_dst_seqno may hold
          Troubles,    \* kinds of trouble that happen
          MaxTrouble   \* bound: all troubles together

ASSUME AodvConstants ==
  /\ Src \in [Packet -> Node] /\ Dst \in [Packet -> Node]
  /\ \A p \in Packet : Src[p] # Dst[p]
  /\ LinkAtStart \subseteq SUBSET Node /\ MayMove \subseteq SUBSET Node
  /\ IsFiniteSet(Node) /\ None \notin Node
  /\ {RetryMax, QueueMax, MaxTrouble} \subseteq Nat
  /\ Troubles \subseteq {"moved", "lost", "aged", "greeted", "early"}
  /\ {Diameter, Ttl, BufferMax, Below} \subseteq Nat \ {0}
  /\ Unset \subseteq Nat /\ Unset # {}

VARIABLES st,          \* state of a node, see State
          link,        \* pairs of nodes in range of each other
          sent,        \* packets the kernels have sent
          trouble      \* how often each kind of trouble happened

vars == <<st, link, sent, trouble>>

NoTrouble == [k \in {"moved", "lost", "aged", "greeted", "early"} |-> 0]
Troubled == MapThenSumSet(LAMBDA k : trouble[k], Troubles)
Happens(k, n) == /\ n > 0 => k \in Troubles
                 /\ Troubled + n <= MaxTrouble
                 /\ trouble' = [trouble EXCEPT ![k] = @ + n]

Flag == {"invalid", "valid", "repaired"}
Route == [flag : Flag, known : BOOLEAN, seqno : Nat, hops : Nat,
          next : Node, prec : SUBSET Node]
RouteVia(k, seq, h) ==
  [flag |-> "valid", known |-> TRUE, seqno |-> seq, hops |-> h, next |-> k, prec |-> {}]

(* A packet's failure is reported to the node in caught, the last one that *)
(* set the handler; copies keep the handler from hop to hop.               *)
Bundle == {b \in [id : Packet, ttl : Nat, caught : Node \cup {None}] : b.caught # Dst[b.id]}
Waiting == [pkts : Seq(Bundle), retries : Nat]
Repairing == [pkts : Seq(Bundle), broken : Node \cup {None}]
Request == [id : Nat, hops : Nat]
ASSUME NoneIsNone == None \notin Route \cup Waiting \cup Repairing \cup Request

(* rt is rtable, whose first entry is the node's own; seen is bcache; ctrl *)
(* and repair are ctrl_table and local_repair_table; air is what the       *)
(* layers below have, rd the module's queue in front of them; up and       *)
(* dropped are the packets that ended here.                                *)
Start(n) ==
  [rt |-> [d \in Node |-> IF d = n THEN RouteVia(n, 1, 0) ELSE None],
   seen |-> [o \in Node |-> None], rreqId |-> 0,
   ctrl |-> [d \in Node |-> None], repair |-> [d \in Node |-> None],
   air |-> <<>>, rd |-> <<>>, up |-> {}, dropped |-> {}]

Init ==
  /\ st = [n \in Node |-> Start(n)]
  /\ link = LinkAtStart
  /\ sent = {} /\ trouble = NoTrouble

-----------------------------------------------------------------------------
(* Frames. *)
RREQ(o, d, id, hops, sseq, u, dseq, ttl) ==
  [type |-> "rreq", to |-> None, orig |-> o, dst |-> d, id |-> id, hops |-> hops,
   sseq |-> sseq, U |-> u, dseq |-> dseq, ttl |-> ttl]
RREP(to, d, o, hops, seq, ttl) ==
  [type |-> "rrep", to |-> to, dst |-> d, orig |-> o, hops |-> hops, seq |-> seq, ttl |-> ttl]
HELLO(seq) == [type |-> "hello", to |-> None, seq |-> seq]
RERR(to, ds) == [type |-> "rerr", to |-> to, dsts |-> ds]
DATA(to, b) == [type |-> "data", to |-> to, pkt |-> b]

RREQs == [type : {"rreq"}, to : {None}, orig : Node, dst : Node, id : Nat, hops : Nat,
          sseq : Nat, U : BOOLEAN, dseq : Nat, ttl : Int]
RREPs == [type : {"rrep"}, to : Node, dst : Node, orig : Node, hops : Nat, seq : Nat,
          ttl : Int]
HELLOs == [type : {"hello"}, to : {None}, seq : Nat]
RERRs == [type : {"rerr"}, to : Node \cup {None}, dsts : SUBSET Node]
DATAs == [type : {"data"}, to : Node, pkt : Bundle]
Frame == RREQs \cup RREPs \cup HELLOs \cup RERRs \cup DATAs

State == [rt : [Node -> Route \cup {None}], seen : [Node -> Request \cup {None}],
          rreqId : Nat, ctrl : [Node -> Waiting \cup {None}],
          repair : [Node -> Repairing \cup {None}],
          air : Seq(Frame), rd : Seq(DATAs), up : SUBSET Packet, dropped : SUBSET Packet]

Carried(p, ttl, caught) == [id |-> p, ttl |-> ttl, caught |-> caught]

-----------------------------------------------------------------------------
(* Looking up and changing routes. *)
Has(s, d) == s.rt[d] # None
Valid(s, d) == Has(s, d) /\ s.rt[d].flag = "valid"
Seqno(s, n) == s.rt[n].seqno
Put(s, f) == [s EXCEPT !.air = Append(@, f)]
Drop(s, b) == [s EXCEPT !.dropped = @ \cup {b.id}]

updatePrecursorList(s, d, k) ==
  IF Has(s, d) THEN [s EXCEPT !.rt[d].prec = @ \cup {k}] ELSE s

(* The sender of a routing message is a neighbour; its number stays. *)
updateSimpleRRoute(s, k) ==
  [s EXCEPT !.rt[k] =
     IF @ = None THEN [RouteVia(k, 0, 1) EXCEPT !.known = FALSE]
     ELSE [@ EXCEPT !.flag = "valid", !.next = k, !.hops = 1]]

(* A fresh route keeps the precursors of the entry it replaces. *)
SetRoute(s, d, k, seq, h) ==
  [s EXCEPT !.rt[d] = [RouteVia(k, seq, h) EXCEPT !.prec = IF Has(s, d) THEN s.rt[d].prec ELSE {}]]

(* A packet goes down at once if the binder holds nothing, and only then   *)
(* gets the failure handler of this node; otherwise it waits in the        *)
(* module's queue.                                                         *)
sendToQueue(s, n, b, k) ==
  IF Len(s.air) <= Below THEN Put(s, DATA(k, [b EXCEPT !.caught = n]))
  ELSE IF Len(s.rd) < QueueMax THEN [s EXCEPT !.rd = Append(@, DATA(k, b))]
  ELSE Drop(s, b)

(* Packets sent in a row: so many go down at once, so many wait, and those *)
(* for which the queue has no room are dropped.                            *)
sendAll(s, n, bs, k) ==
  LET now  == Min({Max({Below + 1 - Len(s.air), 0}), Len(bs)})
      room == Min({QueueMax - Len(s.rd), Len(bs) - now})
  IN  [s EXCEPT !.air = @ \o [i \in 1 .. now |-> DATA(k, [bs[i] EXCEPT !.caught = n])],
                !.rd = @ \o [i \in 1 .. room |-> DATA(k, bs[now + i])],
                !.dropped = @ \cup {bs[i].id : i \in now + room + 1 .. Len(bs)}]

Buffered(e) == IF e = None THEN <<>> ELSE e.pkts

\* mutant: the packets are sent and stay in the control entry
processBuffered_Keep(s, n, d) ==
  IF ~Valid(s, d) THEN s
  ELSE [sendAll(s, n, Buffered(s.ctrl[d]) \o Buffered(s.repair[d]), s.rt[d].next)
          EXCEPT !.repair[d] = None]

\* mutant: a repair is over although there is no route
processBuffered_Over(s, n, d) ==
  IF ~Valid(s, d) THEN [s EXCEPT !.repair[d] = None]
  ELSE [sendAll(s, n, Buffered(s.ctrl[d]) \o Buffered(s.repair[d]), s.rt[d].next)
          EXCEPT !.ctrl[d] = None, !.repair[d] = None]

(* What waited for a route to d is sent, unless the route is not valid. *)
processBuffered(s, n, d) ==
  IF ~Valid(s, d) THEN s
  ELSE [sendAll(s, n, Buffered(s.ctrl[d]) \o Buffered(s.repair[d]), s.rt[d].next)
          EXCEPT !.ctrl[d] = None, !.repair[d] = None]

-----------------------------------------------------------------------------
(* A request for d: it asks for at least the number known; the originator  *)
(* does not raise its own.                                                 *)
sendRREQ(s, n, d, ttl, unset) ==
  LET known == Has(s, d) /\ s.rt[d].known
  IN  [Put(s, RREQ(n, d, s.rreqId + 1, 0, Seqno(s, n), ~known,
                   IF known THEN Seqno(s, d) ELSE unset, ttl))
         EXCEPT !.rreqId = @ + 1]

\* mutant: every copy of the latest request passes
Fresh_Any(s, f) == s.seen[f.orig] # None => s.seen[f.orig].id <= f.id

(* bcache: whether a request is new, and what is remembered of it. *)
Fresh(s, f) ==
  LET b == s.seen[f.orig]
  IN  b # None => \/ b.id < f.id
                  \/ b.id = f.id /\ f.hops < b.hops

Remembered(s, f) ==
  LET b == s.seen[f.orig]
  IN  IF b = None THEN [id |-> f.id, hops |-> f.hops]
      ELSE IF b.id = f.id THEN [b EXCEPT !.hops = f.hops]
      ELSE [b EXCEPT !.id = f.id]

(* The route back to the originator: always by the frame's sender. *)
RouteBack(s, k, f) ==
  SetRoute(s, f.orig, k,
           IF Has(s, f.orig) /\ s.rt[f.orig].known /\ Seqno(s, f.orig) > f.sseq
             THEN Seqno(s, f.orig) ELSE f.sseq,
           f.hops + 1)

(* The destination catches up with a node that repairs a route to it. *)
CaughtUp(s, n, f) ==
  IF ~f.U /\ f.dseq = Seqno(s, n) + 1 THEN [s EXCEPT !.rt[n].seqno = @ + 1] ELSE s

Knows(s, f) == Valid(s, f.dst) /\ s.rt[f.dst].known /\ Seqno(s, f.dst) >= f.dseq

(* One's own request came back. *)
Own(n, f) == f.orig = n

recvRREQ(s, n, k, f) ==
  LET s1 == updateSimpleRRoute(s, k)
      s2 == [s1 EXCEPT !.seen[f.orig] = Remembered(s1, f)]
      s3 == processBuffered(processBuffered(RouteBack(s2, k, f), n, f.orig), n, k)
  IN  IF Own(n, f) \/ ~Fresh(s1, f) THEN s1
      ELSE IF f.dst = n
      THEN LET s4 == CaughtUp(s3, n, f)
           IN  Put(s4, RREP(k, n, f.orig, 0, Seqno(s4, n), Diameter))
      ELSE IF Knows(s3, f)
      THEN LET r  == s3.rt[f.dst]
               s4 == updatePrecursorList(updatePrecursorList(s3, f.dst, k), f.orig, r.next)
           IN  Put(s4, RREP(k, f.dst, f.orig, r.hops, r.seqno, Diameter))
      ELSE IF f.ttl = 1 THEN s3
      ELSE Put(s3, [f EXCEPT !.hops = @ + 1, !.ttl = @ - 1])

-----------------------------------------------------------------------------
(* An answer is worth taking: no number known, a newer one, or the same    *)
(* with no valid route or fewer hops.                                      *)
Better(s, f) ==
  Has(s, f.dst) =>
    LET r == s.rt[f.dst]
    IN  \/ ~r.known \/ f.seq > r.seqno
        \/ f.seq = r.seqno /\ (r.flag # "valid" \/ f.hops + 1 < r.hops)

\* mutant: an answer sends what waits for its sender only
recvRREP_NoFlush(s, n, k, f) ==
  LET s1 == updateSimpleRRoute(s, k)
      s2 == IF Better(s1, f) THEN SetRoute(s1, f.dst, k, f.seq, f.hops + 1) ELSE s1
      s3 == processBuffered(s2, n, k)
  IN  IF f.orig = n \/ ~Has(s3, f.orig) THEN s3
      ELSE IF f.ttl > 1 /\ Valid(s3, f.orig)
           THEN Put(s3, [f EXCEPT !.to = s3.rt[f.orig].next, !.hops = @ + 1, !.ttl = @ - 1])
           ELSE s3

\* mutant: only the node that asked takes the route
recvRREP_OnlyAsker(s, n, k, f) ==
  LET s1 == updateSimpleRRoute(s, k)
      s2 == IF f.orig = n /\ Better(s1, f) THEN SetRoute(s1, f.dst, k, f.seq, f.hops + 1) ELSE s1
      s3 == processBuffered(processBuffered(s2, n, f.dst), n, k)
  IN  IF f.orig = n \/ ~Has(s3, f.orig) THEN s3
      ELSE IF f.ttl > 1 /\ Valid(s3, f.orig)
           THEN Put(s3, [f EXCEPT !.to = s3.rt[f.orig].next, !.hops = @ + 1, !.ttl = @ - 1])
           ELSE s3

(* An answer: the route to its destination, and on to the originator. *)
recvRREP(s, n, k, f) ==
  LET s1 == updateSimpleRRoute(s, k)
      s2 == IF Better(s1, f) THEN SetRoute(s1, f.dst, k, f.seq, f.hops + 1) ELSE s1
      s3 == processBuffered(processBuffered(s2, n, f.dst), n, k)
  IN  IF f.orig = n \/ ~Has(s3, f.orig) THEN s3
      ELSE LET to == s3.rt[f.orig].next
               s4 == updatePrecursorList(updatePrecursorList(s3, f.dst, to), k, to)
           IN  IF f.ttl > 1 /\ Valid(s4, f.orig)
                 THEN Put(s4, [f EXCEPT !.to = to, !.hops = @ + 1, !.ttl = @ - 1])
                 ELSE s4

(* A greeting replaces whatever is known of its sender. *)
recvHello(s, k, f) == SetRoute(s, k, k, f.seq, 1)

(* One error message to every precursor of every destination in ds. *)
Complain(s, ds, told) ==
  LET pairs == UNION {{d} \X s.rt[d].prec : d \in {e \in ds : Has(s, e)}}
      ps    == SetToSeq(pairs)
  IN  [s EXCEPT !.air = @ \o [i \in DOMAIN ps |-> RERR(ps[i][2], told)]]

(* Routes by the sender of the error are not valid any more; the sequence  *)
(* numbers in the message are not looked at.                               *)
recvRERR(s, k, f) ==
  LET ds == {d \in f.dsts : Has(s, d) /\ s.rt[d].next = k}
  IN  Complain([s EXCEPT !.rt = [d \in Node |->
                  IF d \in ds THEN [s.rt[d] EXCEPT !.flag = "invalid"] ELSE s.rt[d]]], ds, ds)

-----------------------------------------------------------------------------
(* attachPkt. *)
attachRepair(s, d, b) ==
  IF Len(s.repair[d].pkts) < BufferMax
    THEN [s EXCEPT !.repair[d].pkts = Append(@, b)] ELSE Drop(s, b)

(* A packet of another node. *)
recvData(s, n, b) ==
  LET d == Dst[b.id]
      c == [b EXCEPT !.ttl = @ - 1]
      r == s.rt[d]
  IN  IF d = n THEN [s EXCEPT !.up = @ \cup {b.id}]
      ELSE IF b.ttl <= 1 \/ ~Has(s, d) THEN Drop(s, b)
      ELSE IF r.flag = "valid" THEN sendToQueue(s, n, c, r.next)
      ELSE IF r.flag = "invalid" THEN Drop(Complain(s, {d}, {d}), b)
      ELSE attachRepair(IF s.repair[d] = None
                          THEN [s EXCEPT !.repair[d] = [pkts |-> <<>>, broken |-> None]]
                          ELSE s, d, c)

recv(s, n, k, f) ==
  CASE f.type = "rreq"  -> recvRREQ(s, n, k, f)
    [] f.type = "rrep"  -> recvRREP(s, n, k, f)
    [] f.type = "hello" -> recvHello(s, k, f)
    [] f.type = "rerr"  -> recvRERR(s, k, f)
    [] f.type = "data"  -> recvData(s, n, f.pkt)

(* The layer below gives a packet back to the node whose handler it has:   *)
(* the link to k broke.  The route is repaired from there, once.           *)
LinkLayerCall(s, n, k, b, unset) ==
  LET d  == Dst[b.id]
      s1 == attachRepair(IF s.repair[d] = None
                           THEN [s EXCEPT !.repair[d] = [pkts |-> <<>>, broken |-> k]]
                           ELSE s, d, b)
  IN  IF s.repair[d] = None /\ Has(s, d) /\ s.rt[d].flag # "repaired"
      THEN sendRREQ([s1 EXCEPT !.rt[d].flag = "repaired", !.rt[d].seqno = @ + 1], n, d,
                    s.rt[d].hops, unset)
      ELSE s1

-----------------------------------------------------------------------------
Quiet == \A n \in Node : st[n].air = <<>>
Neighbours(n) == {k \in Node \ {n} : {n, k} \in link}

(* The kernel sends a packet: by its route, or it waits for one. *)
Send(p) ==
  LET n == Src[p]
      d == Dst[p]
      s == st[n]
      b == Carried(p, Ttl, None)
  IN  /\ p \notin sent /\ sent' = sent \cup {p}
      /\ \E u \in Unset :
           st' = [st EXCEPT ![n] =
             IF Valid(s, d) THEN sendToQueue(s, n, b, s.rt[d].next)
             ELSE IF s.ctrl[d] = None
             THEN sendRREQ([s EXCEPT !.ctrl[d] = [pkts |-> <<b>>, retries |-> 0]],
                           n, d, Diameter, u)
             ELSE IF Len(s.ctrl[d].pkts) < BufferMax
             THEN [s EXCEPT !.ctrl[d].pkts = Append(@, b)] ELSE Drop(s, b)]
      /\ UNCHANGED <<link, trouble>>

(* The frame is off the air; when the binder holds nothing more, the next  *)
(* of the module's queue follows.                                          *)
Sent(s) ==
  LET left == Tail(s.air)
  IN  IF Len(left) <= Below /\ s.rd # <<>>
        THEN [s EXCEPT !.air = Append(left, Head(s.rd)), !.rd = Tail(@)]
        ELSE [s EXCEPT !.air = left]

(* The head of a node's frames is heard by those in got. *)
Heard(n, got) ==
  LET f == Head(st[n].air)
  IN  [k \in Node |-> IF k = n THEN Sent(st[n])
                      ELSE IF k \in got THEN recv(st[k], k, n, f) ELSE st[k]]

(* A frame to everybody: neighbours may miss it. *)
Broadcast(n) ==
  /\ st[n].air # <<>> /\ Head(st[n].air).to = None
  /\ \E got \in SUBSET Neighbours(n) :
       /\ Happens("lost", Cardinality(Neighbours(n) \ got))
       /\ st' = Heard(n, got)
  /\ UNCHANGED <<link, sent>>

(* A frame to one node arrives. *)
Unicast(n) ==
  /\ st[n].air # <<>> /\ Head(st[n].air).to \in Neighbours(n)
  /\ st' = Heard(n, {Head(st[n].air).to})
  /\ UNCHANGED <<link, sent, trouble>>

(* The layer below gives up: a packet goes to the node whose handler it    *)
(* has, routing messages are lost in silence.                              *)
Fails(n) ==
  /\ st[n].air # <<>>
  /\ LET f == Head(st[n].air)
         b == f.pkt
         h == b.caught
         s == Sent(st[n])
     IN  /\ f.to # None
         /\ Happens("lost", IF f.to \in Neighbours(n) THEN 1 ELSE 0)
         /\ IF f.type # "data" THEN st' = [st EXCEPT ![n] = s]
            ELSE IF h = None THEN st' = [st EXCEPT ![n] = Drop(s, b)]
            ELSE \E u \in Unset :
                   LET t == [st EXCEPT ![n] = s]
                   IN  st' = [t EXCEPT ![h] = LinkLayerCall(t[h], h, f.to, b, u)]
  /\ UNCHANGED <<link, sent>>

-----------------------------------------------------------------------------
\* mutant: packets given up are forgotten
DropAll_Forget(s, bs) == s

DropAll(s, bs) == [s EXCEPT !.dropped = @ \cup {bs[i].id : i \in DOMAIN bs}]

(* A timer fires. *)
Expires == Happens("early", IF Quiet THEN 0 ELSE 1)

(* A request is not answered in time: again, or the packets are given up. *)
RREQ_retry(n, d) ==
  /\ st[n].ctrl[d] # None /\ Expires
  /\ LET s == st[n]
         c == s.ctrl[d]
     IN  \E u \in Unset :
           st' = [st EXCEPT ![n] =
             IF c.retries < RetryMax
             THEN sendRREQ([s EXCEPT !.ctrl[d].retries = @ + 1], n, d, Diameter, u)
             ELSE DropAll([s EXCEPT !.ctrl[d] = None], c.pkts)]
  /\ UNCHANGED <<link, sent>>

(* The route a repair did not restore: its number goes back. *)
Unrepaired(s, d) ==
  IF Has(s, d) THEN [s EXCEPT !.rt[d].flag = "invalid",
                              !.rt[d].seqno = IF s.rt[d].known THEN @ - 1 ELSE @]
  ELSE s

(* Every route by the broken link ends, and the neighbours are told. *)
Broken(s, k) ==
  LET ds == {d \in Node : Has(s, d) /\ s.rt[d].next = k}
  IN  Put([s EXCEPT !.rt = [d \in Node |->
             IF d \in ds /\ Valid(s, d)
               THEN [s.rt[d] EXCEPT !.flag = "invalid", !.seqno = @ + 1] ELSE s.rt[d]]],
          RERR(None, ds))

(* A repair is not done in time. *)
RepairFails(n, d) ==
  /\ st[n].repair[d] # None /\ Expires
  /\ LET e == st[n].repair[d]
         s == DropAll([Unrepaired(st[n], d) EXCEPT !.repair[d] = None], e.pkts)
     IN  st' = [st EXCEPT ![n] = IF e.broken = None THEN s ELSE Broken(s, e.broken)]
  /\ UNCHANGED <<link, sent>>

(* A route not used for its lifetime ends, and later goes. *)
RTTimer(n, d) ==
  /\ n # d /\ Has(st[n], d) /\ st[n].rt[d].flag # "repaired"
  /\ Quiet /\ Happens("aged", 1)
  /\ st' = [st EXCEPT ![n].rt[d] = IF @.flag = "valid" THEN [@ EXCEPT !.flag = "invalid"] ELSE None]
  /\ UNCHANGED <<link, sent>>

(* A node with a route of two hops or more greets its neighbours. *)
sendHello(n) ==
  /\ st[n].air = <<>> /\ Happens("greeted", 1)
  /\ \E d \in Node : Valid(st[n], d) /\ st[n].rt[d].hops >= 2
  /\ st' = [st EXCEPT ![n] = Put(@, HELLO(Seqno(@, n)))]
  /\ UNCHANGED <<link, sent>>

(* Nodes move into and out of each other's range. *)
Move(e) ==
  /\ e \in MayMove /\ Happens("moved", 1)
  /\ link' = IF e \in link THEN link \ {e} ELSE link \cup {e}
  /\ UNCHANGED <<st, sent>>

Transmit(n) == Broadcast(n) \/ Unicast(n) \/ Fails(n)

Next ==
  \/ \E p \in Packet : Send(p)
  \/ \E n \in Node : Transmit(n) \/ sendHello(n)
  \/ \E n, d \in Node : RREQ_retry(n, d) \/ RepairFails(n, d) \/ RTTimer(n, d)
  \/ \E e \in MayMove : Move(e)

Spec == Init /\ [][Next]_vars

(* The scheduler goes on: as long as a frame is on the air or a buffer     *)
(* waits, some node transmits or some timer fires.  This is the weak       *)
(* fairness of these steps, with Due for their being enabled; the other    *)
(* steps that change st are bounded.                                       *)
Due == \/ \E n \in Node : st[n].air # <<>>
       \/ \E n, d \in Node : st[n].ctrl[d] # None \/ st[n].repair[d] # None

FairSpec == Spec /\ ([]<>~Due \/ []<><<TRUE>>_st)

-----------------------------------------------------------------------------
(* Every handler keeps the tables and queues within their limits. *)
TypeOK ==
  /\ st \in [Node -> State] /\ link \subseteq SUBSET Node
  /\ \A n, d \in Node :
       /\ Len(Buffered(st[n].ctrl[d])) <= BufferMax
       /\ Len(Buffered(st[n].repair[d])) <= BufferMax
  /\ \A n \in Node : Len(st[n].rd) <= QueueMax
  /\ sent \subseteq Packet /\ trouble \in [DOMAIN NoTrouble -> Nat]

(* RTTimer leaves a route that is being repaired alone: its entry in       *)
(* local_repair_table is what ends the repair, and knows the broken link.  *)
RepairGuarded ==
  \A n, d \in Node :
    /\ Has(st[n], d) /\ st[n].rt[d].flag = "repaired" => st[n].repair[d] # None
    /\ st[n].repair[d] # None => st[n].repair[d].broken # None

(* Where in a node packet p is: with the layers below, in the module's      *)
(* queue, in the buffers for its destination, or at its end.               *)
Holds(f, p) == f.type = "data" /\ f.pkt.id = p
Places(s, p) ==
  LET waiting == Buffered(s.ctrl[Dst[p]])
      saved   == Buffered(s.repair[Dst[p]])
  IN  {<<"air", i>> : i \in {j \in DOMAIN s.air : Holds(s.air[j], p)}}
      \cup {<<"rd", i>> : i \in {j \in DOMAIN s.rd : Holds(s.rd[j], p)}}
      \cup {<<"ctrl", i>> : i \in {j \in DOMAIN waiting : waiting[j].id = p}}
      \cup {<<"repair", i>> : i \in {j \in DOMAIN saved : saved[j].id = p}}
      \cup {<<"up", 0>> : b \in {p} \cap s.up} \cup {<<"dropped", 0>> : b \in {p} \cap s.dropped}

(* A packet the kernel sent is in one place: in a buffer, on its way, at   *)
(* the destination, or dropped.                                            *)
PacketOnce ==
  \A p \in Packet :
    Cardinality(UNION {{<<n, x>> : x \in Places(st[n], p)} : n \in Node})
      = IF p \in sent THEN 1 ELSE 0

(* The nodes a packet for d at n would visit next: none if n has no route. *)
NextHop(n, d) == IF n # d /\ Valid(st[n], d) THEN st[n].rt[d].next ELSE d
Hop[i \in Nat] == [n, d \in Node |-> IF i = 0 THEN n ELSE NextHop(Hop[i - 1][n, d], d)]

(* Valid routes never form a circle. *)
LoopFree == \A n, d \in Node : Hop[Cardinality(Node)][n, d] = d

(* As long as no link changed, no frame was lost and no route aged, nothing *)
(* runs into a node without a route: a valid route leads to its destination *)
(* or to a node with a valid route, and an answer is on the way to the node *)
(* that asked or to one with a valid route to it.  Every handler installs   *)
(* its own route before it lets the next node know of one.                  *)
LeadsOn ==
  trouble.moved = 0 /\ trouble.lost = 0 /\ trouble.aged = 0 =>
    \A n \in Node :
      /\ \A d \in Node \ {n} : Valid(st[n], d) =>
           LET k == st[n].rt[d].next IN k = d \/ Valid(st[k], d)
      /\ \A i \in DOMAIN st[n].air : LET f == st[n].air[i]
           IN  f.type = "rrep" => f.to = f.orig \/ Valid(st[f.to], f.orig)

(* Of one request only a copy with fewer hops than the one already taken   *)
(* passes, and makes the route back shorter.                               *)
ShorterPasses ==
  [][\A n, o \in Node :
       /\ st[n].seen[o] # None /\ st'[n].seen[o].id = st[n].seen[o].id
       /\ st'[n].seen[o].hops # st[n].seen[o].hops
       /\ Valid(st[n], o)
       => st'[n].rt[o].hops < st[n].rt[o].hops]_vars

(* No packet stays for ever where it is. *)
Ends == \A p \in Packet : p \in sent ~> \E n \in Node : p \in st[n].up \cup st[n].dropped

(* Without trouble every packet arrives. *)
Arrives == [](trouble = NoTrouble) => \A p \in Packet : p \in sent ~> p \in st[Dst[p]].up
=============================================================================
