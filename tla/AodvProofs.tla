----------------------------- MODULE AodvProofs -----------------------------
(***************************************************************************)
(* Ad hoc routing on any network of nodes, with any packets, limits and    *)
(* troubles: the types, what guards a repair, that routes and answers lead *)
(* on as long as nothing fails, and that every packet is in one place.     *)
(* Handlers are functions from a node's state to its next one, so each has *)
(* lemmas about one node.                                                  *)
(***************************************************************************)
EXTENDS Aodv, SequenceTheorems, FiniteSetTheorems, TLAPS

(* The frames node n sends: numbers start at 1, and nobody sends packets   *)
(* that have arrived.                                                      *)
Proper(f, n) == /\ f \in Frame
                /\ f.type = "hello" => f.seq > 0
                /\ f.type = "rreq" => f.sseq > 0
                /\ f.type = "data" => Dst[f.pkt.id] # n

Queues(s, n) == /\ \A i \in DOMAIN s.air : Proper(s.air[i], n)
                /\ \A i \in DOMAIN s.rd : Proper(s.rd[i], n)

(* The buffers of d hold packets for d only. *)
For(bs, d) == \A i \in DOMAIN bs : Dst[bs[i].id] = d
Filed(s, n) == /\ s.ctrl[n] = None /\ s.repair[n] = None
               /\ \A d \in Node : For(Buffered(s.ctrl[d]), d) /\ For(Buffered(s.repair[d]), d)

(* A route is repaired as long as there is an entry for it, and the number *)
(* that goes back when the repair fails was raised before.                 *)
Guard(s, d) ==
  /\ Has(s, d) /\ s.rt[d].flag = "repaired" => s.repair[d] # None
  /\ s.repair[d] # None => /\ s.repair[d].broken # None
                           /\ Has(s, d) /\ s.rt[d].known => s.rt[d].seqno > 0

(* A node always knows its own number. *)
Rooted(s, n) == Has(s, n) /\ s.rt[n].known /\ s.rt[n].seqno > 0

Within(s) == /\ \A d \in Node : /\ Len(Buffered(s.ctrl[d])) <= BufferMax
                                /\ Len(Buffered(s.repair[d])) <= BufferMax
             /\ Len(s.rd) <= QueueMax

(* In the middle of a handler the routes to X may be in the making. *)
FitBut(s, n, X) == /\ s \in State /\ Queues(s, n) /\ Filed(s, n) /\ Within(s)
                   /\ \A d \in Node \ X : Guard(s, d)
                   /\ Rooted(s, n)
Fit(s, n) == FitBut(s, n, {})

-----------------------------------------------------------------------------
(* What changes, seen from the state before. *)
SameTables(x, s) == x.rt = s.rt /\ x.ctrl = s.ctrl /\ x.repair = s.repair
SameWay(x, s) == x.air = s.air /\ x.rd = s.rd
SameBuffers(x, s) == x.ctrl = s.ctrl /\ x.repair = s.repair

LEMMA Constants ==
  /\ Src \in [Packet -> Node] /\ Dst \in [Packet -> Node] /\ \A p \in Packet : Src[p] # Dst[p]
  /\ None \notin Node /\ IsFiniteSet(Node)
  /\ RetryMax \in Nat /\ QueueMax \in Nat /\ MaxTrouble \in Nat
  /\ Diameter \in Nat /\ Ttl \in Nat /\ BufferMax \in Nat \ {0} /\ Below \in Nat
  /\ Unset \subseteq Nat
  BY AodvConstants

LEMMA NoneOf ==
  /\ \A r \in Route : r # None
  /\ \A r \in Waiting : r # None
  /\ \A r \in Repairing : r # None
  /\ \A r \in Request : r # None
  BY NoneIsNone

LEMMA Fields ==
  ASSUME NEW s \in State
  PROVE  /\ s.rt \in [Node -> Route \cup {None}] /\ s.seen \in [Node -> Request \cup {None}]
         /\ s.rreqId \in Nat /\ s.ctrl \in [Node -> Waiting \cup {None}]
         /\ s.repair \in [Node -> Repairing \cup {None}]
         /\ s.air \in Seq(Frame) /\ s.rd \in Seq(DATAs)
         /\ s.up \in SUBSET Packet /\ s.dropped \in SUBSET Packet
  BY DEF State

LEMMA RouteViaType ==
  ASSUME NEW k \in Node, NEW seq \in Nat, NEW h \in Nat
  PROVE  LET r == RouteVia(k, seq, h)
         IN  /\ r \in Route /\ r # None /\ r.flag = "valid" /\ r.known /\ r.seqno = seq
             /\ r.next = k /\ r.hops = h
<1>1. RouteVia(k, seq, h) \in Route
  BY DEF RouteVia, Route, Flag
<1> QED
  BY <1>1, NoneOf DEF RouteVia

(* A frame more on its way down. *)
LEMMA PutFrame ==
  ASSUME NEW s \in State, NEW f \in Frame
  PROVE  LET x == Put(s, f)
         IN  /\ x \in State /\ SameTables(x, s) /\ x.rd = s.rd /\ x.seen = s.seen
             /\ x.rreqId = s.rreqId /\ x.up = s.up /\ x.dropped = s.dropped
             /\ x.air = Append(s.air, f) /\ x.air \in Seq(Frame)
<1>1. s.air \in Seq(Frame)
  BY Fields
<1>2. Append(s.air, f) \in Seq(Frame)
  BY <1>1
<1> DEFINE a == Append(s.air, f)
<1> HIDE DEF a
<1>3. a \in Seq(Frame)
  BY <1>2 DEF a
<1>4. [s EXCEPT !.air = a] \in State
  BY <1>3 DEF State
<1>5. Put(s, f) = [s EXCEPT !.air = a]
  BY DEF Put, a
<1> QED
  BY <1>3, <1>4, <1>5 DEF SameTables, State, a

LEMMA PutFit ==
  ASSUME NEW n \in Node, NEW X, NEW s, FitBut(s, n, X), NEW f, Proper(f, n)
  PROVE  FitBut(Put(s, f), n, X)
<1> DEFINE x == Put(s, f)
<1>1. /\ x \in State /\ SameTables(x, s) /\ x.rd = s.rd /\ x.air = Append(s.air, f)
      /\ s.air \in Seq(Frame)
  BY PutFrame, Fields DEF FitBut, Proper
<1> HIDE DEF x
<1>2. \A i \in DOMAIN Append(s.air, f) : i \in DOMAIN s.air \/ Append(s.air, f)[i] = f
  BY <1>1
<1>3. \A i \in DOMAIN Append(s.air, f) : i \in DOMAIN s.air => Append(s.air, f)[i] = s.air[i]
  BY <1>1
<1>4. Queues(x, n)
  BY <1>1, <1>2, <1>3 DEF Queues, FitBut
<1>5. Filed(x, n) /\ Within(x) /\ (\A d \in Node \ X : Guard(x, d)) /\ Rooted(x, n)
  BY <1>1 DEF SameTables, Filed, Within, Guard, Rooted, Has, FitBut
<1> QED
  BY <1>1, <1>4, <1>5 DEF FitBut, x

LEMMA SameFit ==
  ASSUME NEW n \in Node, NEW X, NEW s, FitBut(s, n, X), NEW x \in State, SameTables(x, s), Queues(x, n),
         Len(x.rd) <= QueueMax
  PROVE  FitBut(x, n, X)
  BY DEF SameTables, Filed, Within, Guard, Rooted, Has, FitBut

LEMMA BundleIs ==
  ASSUME NEW b \in Bundle
  PROVE  b.id \in Packet /\ b.ttl \in Nat /\ b.caught \in Node \cup {None} /\ b.caught # Dst[b.id]
  BY DEF Bundle

LEMMA DropType ==
  ASSUME NEW s \in State, NEW b \in Bundle
  PROVE  LET x == Drop(s, b)
         IN  /\ x \in State /\ SameTables(x, s) /\ SameWay(x, s) /\ x.seen = s.seen
             /\ x.rreqId = s.rreqId /\ x.up = s.up /\ x.dropped = s.dropped \cup {b.id}
<1>1. b.id \in Packet /\ s.dropped \in SUBSET Packet
  BY Fields, BundleIs
<1> DEFINE a == s.dropped \cup {b.id}
<1>2. a \in SUBSET Packet
  BY <1>1
<1> HIDE DEF a
<1>3. [s EXCEPT !.dropped = a] \in State
  BY <1>2 DEF State
<1>4. Drop(s, b) = [s EXCEPT !.dropped = a]
  BY DEF Drop, a
<1> QED
  BY <1>3, <1>4 DEF SameTables, SameWay, State, a

LEMMA DropFit ==
  ASSUME NEW n \in Node, NEW X, NEW s, FitBut(s, n, X), NEW b \in Bundle
  PROVE  FitBut(Drop(s, b), n, X)
<1>1. Drop(s, b) \in State /\ SameTables(Drop(s, b), s) /\ SameWay(Drop(s, b), s)
  BY DropType DEF FitBut
<1> QED
  BY <1>1, SameFit DEF FitBut, Queues, SameWay, Within

LEMMA DataFrame ==
  ASSUME NEW k \in Node, NEW b \in Bundle
  PROVE  /\ DATA(k, b) \in DATAs /\ DATA(k, b) \in Frame
         /\ DATA(k, b).type = "data" /\ DATA(k, b).pkt = b /\ DATA(k, b).to = k
  BY DEF DATA, DATAs, Frame

LEMMA DataProper ==
  ASSUME NEW n \in Node, NEW k \in Node, NEW b \in Bundle, Dst[b.id] # n
  PROVE  Proper(DATA(k, b), n)
  BY DataFrame DEF Proper

(* Caught now, it is the same packet. *)
LEMMA Caught ==
  ASSUME NEW b \in Bundle, NEW n \in Node, Dst[b.id] # n
  PROVE  LET c == [b EXCEPT !.caught = n] IN c \in Bundle /\ c.id = b.id /\ c.ttl = b.ttl
<1> DEFINE c == [b EXCEPT !.caught = n]
<1>1. b \in [id : Packet, ttl : Nat, caught : Node \cup {None}]
  BY DEF Bundle
<1>2. /\ c \in [id : Packet, ttl : Nat, caught : Node \cup {None}]
      /\ c.id = b.id /\ c.ttl = b.ttl /\ c.caught = n
  BY <1>1
<1> HIDE DEF c
<1>3. c \in Bundle
  BY <1>2 DEF Bundle
<1> QED
  BY <1>2, <1>3 DEF c

(* One hop further, it is the same packet. *)
LEMMA Older ==
  ASSUME NEW b \in Bundle, ~(b.ttl <= 1)
  PROVE  LET c == [b EXCEPT !.ttl = @ - 1] IN c \in Bundle /\ c.id = b.id
<1> DEFINE c == [b EXCEPT !.ttl = @ - 1]
<1>1. b \in [id : Packet, ttl : Nat, caught : Node \cup {None}] /\ b.caught # Dst[b.id]
  BY DEF Bundle
<1>2. b.ttl - 1 \in Nat
  BY <1>1
<1>3. /\ c \in [id : Packet, ttl : Nat, caught : Node \cup {None}]
      /\ c.id = b.id /\ c.caught = b.caught
  BY <1>1, <1>2
<1> HIDE DEF c
<1>4. c \in Bundle
  BY <1>1, <1>3 DEF Bundle
<1> QED
  BY <1>3, <1>4 DEF c

(* More frames behind those of q. *)
LEMMA Joined ==
  ASSUME NEW S, NEW q \in Seq(S), NEW m \in Nat, NEW more \in [1 .. m -> S]
  PROVE  LET w == q \o more
         IN  /\ w \in Seq(S) /\ Len(w) = Len(q) + m /\ more \in Seq(S) /\ Len(more) = m
             /\ \A i \in DOMAIN w : \/ i \in DOMAIN q /\ w[i] = q[i]
                                    \/ \E j \in 1 .. m : w[i] = more[j]
<1> DEFINE w == q \o more
<1>1. more \in Seq(S) /\ Len(more) = m /\ \A i \in 1 .. m : more[i] \in S
  OBVIOUS
<1>4. /\ w \in Seq(S) /\ Len(w) = Len(q) + Len(more)
      /\ \A i \in 1 .. Len(q) + Len(more) : w[i] = IF i <= Len(q) THEN q[i] ELSE more[i - Len(q)]
  BY <1>1, ConcatProperties
<1> HIDE DEF w
<1>2. /\ w \in Seq(S) /\ Len(w) = Len(q) + m /\ Len(q) \in Nat
      /\ \A i \in 1 .. Len(q) + m : w[i] = IF i <= Len(q) THEN q[i] ELSE more[i - Len(q)]
  BY <1>1, <1>4
<1>3. ASSUME NEW i \in DOMAIN w
      PROVE  \/ i \in DOMAIN q /\ w[i] = q[i]
             \/ \E j \in 1 .. m : w[i] = more[j]
  <2>1. i \in 1 .. Len(q) + m
    BY <1>2
  <2>2. CASE i <= Len(q)
    BY <1>2, <2>1, <2>2
  <2>3. CASE ~(i <= Len(q))
    <3>1. i - Len(q) \in 1 .. m
      BY <1>2, <2>1, <2>3
    <3> QED
      BY <1>2, <2>1, <2>3, <3>1
  <2> QED
    BY <2>2, <2>3
<1> QED
  BY <1>1, <1>2, <1>3 DEF w

(* The three fates of a packet on its way out. *)
LEMMA SentToQueue ==
  ASSUME NEW n \in Node, NEW s \in State, NEW b \in Bundle, Dst[b.id] # n, NEW k \in Node
  PROVE  LET x == sendToQueue(s, n, b, k)
         IN  /\ x \in State /\ SameTables(x, s) /\ x.seen = s.seen /\ x.rreqId = s.rreqId
             /\ x.up = s.up
             /\ \/ /\ Len(s.air) <= Below /\ x.air = Append(s.air, DATA(k, [b EXCEPT !.caught = n]))
                   /\ x.rd = s.rd /\ x.dropped = s.dropped
                \/ /\ ~(Len(s.air) <= Below) /\ Len(s.rd) < QueueMax /\ x.air = s.air
                   /\ x.rd = Append(s.rd, DATA(k, b)) /\ x.dropped = s.dropped
                \/ /\ ~(Len(s.air) <= Below) /\ ~(Len(s.rd) < QueueMax) /\ SameWay(x, s)
                   /\ x.dropped = s.dropped \cup {b.id}
<1>1. CASE Len(s.air) <= Below
  <2> DEFINE f == DATA(k, [b EXCEPT !.caught = n])
  <2>1. f \in Frame
    BY Caught, DataFrame
  <2> HIDE DEF f
  <2>2. sendToQueue(s, n, b, k) = Put(s, f)
    BY <1>1 DEF sendToQueue, f
  <2>4. LET x == Put(s, f)
        IN  /\ x \in State /\ SameTables(x, s) /\ x.rd = s.rd /\ x.seen = s.seen
            /\ x.rreqId = s.rreqId /\ x.up = s.up /\ x.dropped = s.dropped
            /\ x.air = Append(s.air, f)
    BY <2>1, PutFrame
  <2> QED
    BY <1>1, <2>2, <2>4 DEF f
<1>2. CASE ~(Len(s.air) <= Below) /\ Len(s.rd) < QueueMax
  <2> DEFINE r == Append(s.rd, DATA(k, b))
  <2>1. r \in Seq(DATAs)
    BY Fields, DataFrame
  <2> HIDE DEF r
  <2>2. sendToQueue(s, n, b, k) = [s EXCEPT !.rd = r]
    BY <1>2 DEF sendToQueue, r
  <2>3. [s EXCEPT !.rd = r] \in State
    BY <2>1 DEF State
  <2> QED
    BY <1>2, <2>1, <2>2, <2>3 DEF SameTables, State, r
<1>3. CASE ~(Len(s.air) <= Below) /\ ~(Len(s.rd) < QueueMax)
  <2>1. sendToQueue(s, n, b, k) = Drop(s, b)
    BY <1>3 DEF sendToQueue
  <2> QED
    BY <1>3, <2>1, DropType
<1> QED
  BY <1>1, <1>2, <1>3

LEMMA SentFit ==
  ASSUME NEW n \in Node, NEW X, NEW s, FitBut(s, n, X), NEW b \in Bundle, Dst[b.id] # n, NEW k \in Node
  PROVE  FitBut(sendToQueue(s, n, b, k), n, X)
<1> DEFINE x == sendToQueue(s, n, b, k)
           f == DATA(k, [b EXCEPT !.caught = n])
<1>1. /\ s \in State /\ Queues(s, n) /\ Len(s.rd) <= QueueMax /\ s.rd \in Seq(DATAs)
      /\ s.air \in Seq(Frame)
  BY Fields DEF FitBut, Within
<1>2. x \in State /\ SameTables(x, s)
  BY <1>1, SentToQueue
<1>3. Proper(f, n) /\ Proper(DATA(k, b), n)
  BY Caught, DataProper
<1>7. \/ x.air = Append(s.air, f) /\ x.rd = s.rd
      \/ x.air = s.air /\ Len(s.rd) < QueueMax /\ x.rd = Append(s.rd, DATA(k, b))
      \/ SameWay(x, s)
  BY <1>1, SentToQueue, SMTT(40)
<1> HIDE DEF x, f
<1>4. CASE x.air = Append(s.air, f) /\ x.rd = s.rd
  <2>1. f \in Frame
    BY <1>3 DEF Proper
  <2>2. \A i \in DOMAIN Append(s.air, f) : \/ i \in DOMAIN s.air /\ Append(s.air, f)[i] = s.air[i]
                                           \/ Append(s.air, f)[i] = f
    BY <1>1, <2>1
  <2>3. \A i \in DOMAIN x.air : Proper(x.air[i], n)
    BY <1>1, <1>3, <1>4, <2>2 DEF Queues
  <2>4. Queues(x, n)
    BY <1>1, <1>4, <2>3 DEF Queues
  <2> QED
    BY <1>1, <1>2, <1>4, <2>4, SameFit DEF x
<1>5. CASE x.air = s.air /\ Len(s.rd) < QueueMax /\ x.rd = Append(s.rd, DATA(k, b))
  <2>1. Len(x.rd) <= QueueMax
    BY <1>1, <1>5, Constants
  <2>2. \A i \in DOMAIN x.rd : Proper(x.rd[i], n)
    BY <1>1, <1>3, <1>5 DEF Queues
  <2>3. \A i \in DOMAIN x.air : Proper(x.air[i], n)
    BY <1>1, <1>5 DEF Queues
  <2>4. Queues(x, n)
    BY <2>2, <2>3 DEF Queues
  <2> QED
    BY <1>2, <2>1, <2>4, SameFit DEF x
<1>6. CASE SameWay(x, s)
  <2>1. Queues(x, n) /\ Len(x.rd) <= QueueMax
    BY <1>1, <1>6 DEF Queues, SameWay
  <2> QED
    BY <1>2, <2>1, SameFit DEF x
<1> QED
  BY <1>4, <1>5, <1>6, <1>7 DEF x

LEMMA Least ==
  ASSUME NEW a \in Nat, NEW b \in Nat
  PROVE  LET m == Min({a, b}) IN m \in Nat /\ m <= a /\ m <= b /\ m \in {a, b}
<1>1. \E m \in {a, b} : \A y \in {a, b} : m =< y
  OBVIOUS
<1> QED
  BY <1>1 DEF Min

LEMMA Greatest ==
  ASSUME NEW a \in Int
  PROVE  Max({a, 0}) \in Nat
<1>1. \E m \in {a, 0} : \A y \in {a, 0} : m >= y
  OBVIOUS
<1>2. Max({a, 0}) \in {a, 0} /\ \A y \in {a, 0} : Max({a, 0}) >= y
  BY <1>1 DEF Max
<1> QED
  BY <1>2

(* A row of packets to k: the first now of them are on their way, the next *)
(* m wait in the queue, the others are dropped.                            *)
Rowed(x, s, n, bs, k, now, m) ==
  /\ now + m <= Len(bs)
  /\ x.air = s.air \o [i \in 1 .. now |-> DATA(k, [bs[i] EXCEPT !.caught = n])]
  /\ x.rd = s.rd \o [i \in 1 .. m |-> DATA(k, bs[now + i])]
  /\ x.dropped = s.dropped \cup {bs[i].id : i \in now + m + 1 .. Len(bs)}
  /\ Len(x.rd) <= QueueMax

(* The packets of a row, and the frames they are sent in. *)
LEMMA RowFrames ==
  ASSUME NEW n \in Node, NEW bs \in Seq(Bundle), \A i \in DOMAIN bs : Dst[bs[i].id] # n, NEW k \in Node,
         NEW now \in Nat, NEW m \in Nat, now + m <= Len(bs)
  PROVE  /\ \A i \in 1 .. now : LET f == DATA(k, [bs[i] EXCEPT !.caught = n])
                                IN  f \in Frame /\ Proper(f, n) /\ f.type = "data" /\ f.to = k
                                    /\ f.pkt.id = bs[i].id
         /\ \A i \in 1 .. m : LET f == DATA(k, bs[now + i])
                              IN  f \in DATAs /\ Proper(f, n) /\ f.type = "data" /\ f.to = k
                                  /\ f.pkt.id = bs[now + i].id
         /\ [i \in 1 .. now |-> DATA(k, [bs[i] EXCEPT !.caught = n])] \in [1 .. now -> Frame]
         /\ [i \in 1 .. m |-> DATA(k, bs[now + i])] \in [1 .. m -> DATAs]
<1>1. \A i \in 1 .. Len(bs) : bs[i] \in Bundle /\ Dst[bs[i].id] # n
  OBVIOUS
<1>2. ASSUME NEW i \in 1 .. now
      PROVE  LET f == DATA(k, [bs[i] EXCEPT !.caught = n])
             IN  f \in Frame /\ Proper(f, n) /\ f.type = "data" /\ f.to = k /\ f.pkt.id = bs[i].id
  <2> DEFINE b == bs[i]
             c == [b EXCEPT !.caught = n]
  <2>1. i \in 1 .. Len(bs)
    OBVIOUS
  <2>2. b \in Bundle /\ Dst[b.id] # n
    BY <1>1, <2>1
  <2> HIDE DEF b
  <2>3. c \in Bundle /\ c.id = b.id
    BY <2>2, Caught
  <2> HIDE DEF c
  <2>4. DATA(k, c) \in Frame /\ Proper(DATA(k, c), n) /\ DATA(k, c).type = "data" /\ DATA(k, c).to = k
        /\ DATA(k, c).pkt.id = b.id
    BY <2>2, <2>3, DataFrame, DataProper
  <2> QED
    BY <2>4 DEF b, c
<1>3. ASSUME NEW i \in 1 .. m
      PROVE  LET f == DATA(k, bs[now + i])
             IN  f \in DATAs /\ Proper(f, n) /\ f.type = "data" /\ f.to = k /\ f.pkt.id = bs[now + i].id
  <2>1. now + i \in 1 .. Len(bs)
    OBVIOUS
  <2> QED
    BY <1>1, <2>1, DataFrame, DataProper
<1>4. [i \in 1 .. now |-> DATA(k, [bs[i] EXCEPT !.caught = n])] \in [1 .. now -> Frame]
  BY <1>2
<1>5. [i \in 1 .. m |-> DATA(k, bs[now + i])] \in [1 .. m -> DATAs]
  BY <1>3
<1> QED
  BY <1>2, <1>3, <1>4, <1>5

LEMMA RowDown ==
  ASSUME NEW n \in Node, NEW bs \in Seq(Bundle), \A i \in DOMAIN bs : Dst[bs[i].id] # n, NEW k \in Node,
         NEW now \in Nat, NEW m \in Nat, now + m <= Len(bs)
  PROVE  LET down == [i \in 1 .. now |-> DATA(k, [bs[i] EXCEPT !.caught = n])]
         IN  /\ down \in [1 .. now -> Frame]
             /\ \A i \in 1 .. now : down[i].type = "data" /\ down[i].pkt.id = bs[i].id
<1> DEFINE down == [i \in 1 .. now |-> DATA(k, [bs[i] EXCEPT !.caught = n])]
<1>1. down \in [1 .. now -> Frame]
  BY RowFrames
<1>2. ASSUME NEW i \in 1 .. now
      PROVE  down[i].type = "data" /\ down[i].pkt.id = bs[i].id
  <2>1. down[i] = DATA(k, [bs[i] EXCEPT !.caught = n])
    OBVIOUS
  <2>2. LET f == DATA(k, [bs[i] EXCEPT !.caught = n])
        IN  f.type = "data" /\ f.pkt.id = bs[i].id
    BY RowFrames
  <2> HIDE DEF down
  <2> QED
    BY <2>1, <2>2
<1> QED
  BY <1>1, <1>2

LEMMA SentRow ==
  ASSUME NEW n \in Node, NEW s \in State, Len(s.rd) <= QueueMax, NEW bs \in Seq(Bundle), NEW k \in Node,
         \A i \in DOMAIN bs : Dst[bs[i].id] # n
  PROVE  LET x == sendAll(s, n, bs, k)
         IN  /\ x \in State /\ SameTables(x, s) /\ x.seen = s.seen /\ x.rreqId = s.rreqId
             /\ x.up = s.up
             /\ \E now, m \in Nat : Rowed(x, s, n, bs, k, now, m)
<1> DEFINE now == Min({Max({Below + 1 - Len(s.air), 0}), Len(bs)})
           m == Min({QueueMax - Len(s.rd), Len(bs) - now})
           a == s.air \o [i \in 1 .. now |-> DATA(k, [bs[i] EXCEPT !.caught = n])]
           r == s.rd \o [i \in 1 .. m |-> DATA(k, bs[now + i])]
           g == s.dropped \cup {bs[i].id : i \in now + m + 1 .. Len(bs)}
           x == sendAll(s, n, bs, k)
<1>0. /\ s.rd \in Seq(DATAs) /\ s.air \in Seq(Frame) /\ s.dropped \in SUBSET Packet
      /\ QueueMax \in Nat /\ Len(s.rd) \in Nat /\ Len(s.air) \in Nat /\ Below \in Nat
  BY Fields, Constants
<1>1. x = [s EXCEPT !.air = a, !.rd = r, !.dropped = g]
  BY DEF sendAll
<1>2. Len(bs) \in Nat /\ \A i \in 1 .. Len(bs) : bs[i] \in Bundle
  OBVIOUS
<1>3. now \in Nat /\ now <= Len(bs)
  <2>0. Below + 1 - Len(s.air) \in Int
    BY <1>0
  <2>1. Max({Below + 1 - Len(s.air), 0}) \in Nat
    BY <2>0, Greatest
  <2> QED
    BY <1>2, <2>1, Least
<1> HIDE DEF now
<1>4. m \in Nat /\ m <= QueueMax - Len(s.rd) /\ now + m <= Len(bs)
  <2>1. QueueMax - Len(s.rd) \in Nat /\ Len(bs) - now \in Nat
    BY <1>0, <1>2, <1>3
  <2>2. m \in Nat /\ m <= QueueMax - Len(s.rd) /\ m <= Len(bs) - now
    BY <2>1, Least
  <2> QED
    BY <1>2, <1>3, <2>2
<1> HIDE DEF m
<1>5. /\ [i \in 1 .. now |-> DATA(k, [bs[i] EXCEPT !.caught = n])] \in [1 .. now -> Frame]
      /\ [i \in 1 .. m |-> DATA(k, bs[now + i])] \in [1 .. m -> DATAs]
  BY <1>3, <1>4, RowFrames
<1>6. a \in Seq(Frame)
  BY <1>0, <1>3, <1>5, Joined
<1>7. r \in Seq(DATAs) /\ Len(r) = Len(s.rd) + m
  BY <1>0, <1>4, <1>5, Joined
<1>8. g \in SUBSET Packet
  <2>1. ASSUME NEW i \in now + m + 1 .. Len(bs) PROVE bs[i].id \in Packet
    <3>1. i \in 1 .. Len(bs)
      BY <1>2, <1>3, <1>4
    <3> QED
      BY <1>2, <3>1, BundleIs
  <2> QED
    BY <1>0, <2>1
<1>9. Len(r) <= QueueMax
  BY <1>0, <1>4, <1>7
<1> HIDE DEF a, r, g, x
<1>10. /\ x \in State /\ SameTables(x, s) /\ x.seen = s.seen /\ x.rreqId = s.rreqId
       /\ x.up = s.up /\ x.air = a /\ x.rd = r /\ x.dropped = g
  BY <1>1, <1>6, <1>7, <1>8 DEF State, SameTables
<1>11. Rowed(x, s, n, bs, k, now, m)
  BY <1>4, <1>9, <1>10 DEF Rowed, a, r, g
<1> QED
  BY <1>3, <1>4, <1>10, <1>11 DEF x

LEMMA RowFit ==
  ASSUME NEW n \in Node, NEW X, NEW s, FitBut(s, n, X), NEW bs \in Seq(Bundle), NEW k \in Node,
         \A i \in DOMAIN bs : Dst[bs[i].id] # n
  PROVE  FitBut(sendAll(s, n, bs, k), n, X)
<1> DEFINE x == sendAll(s, n, bs, k)
<1>1. /\ s \in State /\ Len(s.rd) <= QueueMax /\ s.rd \in Seq(DATAs) /\ s.air \in Seq(Frame)
      /\ Queues(s, n)
  BY Fields DEF FitBut, Within
<1>2. /\ x \in State /\ SameTables(x, s)
      /\ \E now, m \in Nat : Rowed(x, s, n, bs, k, now, m)
  BY <1>1, SentRow
<1> HIDE DEF x
<1>3. PICK now \in Nat, m \in Nat : Rowed(x, s, n, bs, k, now, m)
  BY <1>2
<1> DEFINE down == [i \in 1 .. now |-> DATA(k, [bs[i] EXCEPT !.caught = n])]
           more == [i \in 1 .. m |-> DATA(k, bs[now + i])]
<1>4. /\ down \in [1 .. now -> Frame] /\ \A i \in 1 .. now : Proper(down[i], n)
      /\ more \in [1 .. m -> DATAs] /\ \A i \in 1 .. m : Proper(more[i], n)
  BY <1>3, RowFrames DEF Rowed
<1>5. x.air = s.air \o down /\ x.rd = s.rd \o more /\ Len(x.rd) <= QueueMax
  BY <1>3 DEF Rowed
<1> HIDE DEF down, more
<1>6. \A i \in DOMAIN x.air : Proper(x.air[i], n)
  <2>1. \A i \in DOMAIN x.air : \/ i \in DOMAIN s.air /\ x.air[i] = s.air[i]
                                \/ \E j \in 1 .. now : x.air[i] = down[j]
    BY <1>1, <1>4, <1>5, Joined, SMTT(40)
  <2> QED
    BY <1>1, <1>4, <2>1 DEF Queues
<1>7. \A i \in DOMAIN x.rd : Proper(x.rd[i], n)
  <2>1. \A i \in DOMAIN x.rd : \/ i \in DOMAIN s.rd /\ x.rd[i] = s.rd[i]
                               \/ \E j \in 1 .. m : x.rd[i] = more[j]
    BY <1>1, <1>4, <1>5, Joined
  <2> QED
    BY <1>1, <1>4, <2>1 DEF Queues
<1>8. Queues(x, n)
  BY <1>6, <1>7 DEF Queues
<1> QED
  BY <1>2, <1>5, <1>8, SameFit DEF x

LEMMA BufferedType ==
  ASSUME NEW s \in State, NEW d \in Node
  PROVE  Buffered(s.ctrl[d]) \in Seq(Bundle) /\ Buffered(s.repair[d]) \in Seq(Bundle)
<1>1. s.ctrl[d] \in Waiting \cup {None} /\ s.repair[d] \in Repairing \cup {None}
  BY Fields
<1> QED
  BY <1>1, EmptySeq DEF Buffered, Waiting, Repairing

(* What waits for d is for no packet's end. *)
LEMMA Elsewhere ==
  ASSUME NEW n \in Node, NEW s \in State, Filed(s, n), NEW d \in Node
  PROVE  LET bs == Buffered(s.ctrl[d]) \o Buffered(s.repair[d])
         IN  bs \in Seq(Bundle) /\ \A i \in DOMAIN bs : Dst[bs[i].id] # n
<1> DEFINE u == Buffered(s.ctrl[d])
           v == Buffered(s.repair[d])
           w == u \o v
<1>1. u \in Seq(Bundle) /\ v \in Seq(Bundle) /\ For(u, d) /\ For(v, d)
  BY BufferedType DEF Filed
<1>2. d = n => u = <<>> /\ v = <<>>
  BY DEF Filed, Buffered
<1> HIDE DEF u, v
<1>3. /\ w \in Seq(Bundle) /\ Len(w) = Len(u) + Len(v)
      /\ \A i \in 1 .. Len(u) + Len(v) : w[i] = IF i <= Len(u) THEN u[i] ELSE v[i - Len(u)]
  BY <1>1, ConcatProperties
<1> HIDE DEF w
<1>4. DOMAIN w = 1 .. Len(u) + Len(v) /\ Len(u) \in Nat /\ Len(v) \in Nat
  BY <1>1, <1>3
<1>5. ASSUME NEW i \in 1 .. Len(u) + Len(v)
      PROVE  Dst[w[i].id] = d
  <2>1. CASE i <= Len(u)
    BY <1>1, <1>3, <1>4, <2>1 DEF For
  <2>2. CASE ~(i <= Len(u))
    <3>1. i - Len(u) \in 1 .. Len(v)
      BY <1>4, <2>2
    <3> QED
      BY <1>1, <1>3, <2>2, <3>1 DEF For
  <2> QED
    BY <2>1, <2>2
<1>6. d # n \/ 1 .. Len(u) + Len(v) = {}
  BY <1>2
<1> QED
  BY <1>3, <1>4, <1>5, <1>6 DEF w, u, v

(* What waited for d goes to the next hop. *)
Flows(x, s, n, bs, k) == \E now, m \in Nat : Rowed(x, s, n, bs, k, now, m)

(* What a flush of the packets for d leaves. *)
Flushes(x, s, n, d) ==
  /\ x \in State /\ x.rt = s.rt /\ x.seen = s.seen /\ x.rreqId = s.rreqId
  /\ x.up = s.up /\ s.rt[d].next \in Node
  /\ Buffered(s.ctrl[d]) \o Buffered(s.repair[d]) \in Seq(Bundle)
  /\ x.ctrl = [s.ctrl EXCEPT ![d] = None] /\ x.repair = [s.repair EXCEPT ![d] = None]
  /\ Flows(x, s, n, Buffered(s.ctrl[d]) \o Buffered(s.repair[d]), s.rt[d].next)

LEMMA Flushed ==
  ASSUME NEW n \in Node, NEW s \in State, Len(s.rd) <= QueueMax, Filed(s, n), NEW d \in Node, Valid(s, d)
  PROVE  Flushes(processBuffered(s, n, d), s, n, d)
<1> DEFINE bs == Buffered(s.ctrl[d]) \o Buffered(s.repair[d])
           k == s.rt[d].next
           y == sendAll(s, n, bs, k)
<1>1. bs \in Seq(Bundle) /\ \A i \in DOMAIN bs : Dst[bs[i].id] # n
  BY Elsewhere
<1>2. k \in Node
  <2>1. s.rt[d] \in Route
    BY Fields DEF Valid, Has
  <2> QED
    BY <2>1 DEF Route
<1>3. processBuffered(s, n, d) = [y EXCEPT !.ctrl[d] = None, !.repair[d] = None]
  BY DEF processBuffered
<1> HIDE DEF bs, k
<1>4. /\ y \in State /\ SameTables(y, s) /\ y.seen = s.seen /\ y.rreqId = s.rreqId
      /\ y.up = s.up
      /\ \E now, m \in Nat : Rowed(y, s, n, bs, k, now, m)
  BY <1>1, <1>2, SentRow
<1> HIDE DEF y
<1> DEFINE c == [s.ctrl EXCEPT ![d] = None]
           r == [s.repair EXCEPT ![d] = None]
           x == [y EXCEPT !.ctrl = c, !.repair = r]
<1>5. c \in [Node -> Waiting \cup {None}] /\ r \in [Node -> Repairing \cup {None}]
  BY Fields
<1>6. \A a \in [Node -> Waiting \cup {None}], b \in [Node -> Repairing \cup {None}] :
        LET z == [y EXCEPT !.ctrl = a, !.repair = b]
        IN  /\ z \in State /\ z.rt = y.rt /\ z.seen = y.seen /\ z.rreqId = y.rreqId
            /\ z.up = y.up /\ z.air = y.air /\ z.rd = y.rd /\ z.dropped = y.dropped
            /\ z.ctrl = a /\ z.repair = b
  BY <1>4 DEF State
<1>7. [y EXCEPT !.ctrl[d] = None, !.repair[d] = None] = x
  BY <1>4 DEF SameTables, State
<1> HIDE DEF c, r
<1>8. /\ x \in State /\ x.rt = y.rt /\ x.seen = y.seen /\ x.rreqId = y.rreqId
      /\ x.up = y.up /\ x.air = y.air /\ x.rd = y.rd /\ x.dropped = y.dropped
      /\ x.ctrl = c /\ x.repair = r
  BY <1>5, <1>6, ZenonT(60)
<1> HIDE DEF x
<1>9. \A now, m : Rowed(y, s, n, bs, k, now, m) => Rowed(x, s, n, bs, k, now, m)
  BY <1>8 DEF Rowed
<1>10. Flows(x, s, n, bs, k)
  BY <1>4, <1>9 DEF Flows
<1>11. /\ x.rt = s.rt /\ x.seen = s.seen /\ x.rreqId = s.rreqId /\ x.up = s.up
       /\ x.ctrl = [s.ctrl EXCEPT ![d] = None] /\ x.repair = [s.repair EXCEPT ![d] = None]
  BY <1>4, <1>8 DEF SameTables, c, r
<1>12. processBuffered(s, n, d) = x
  BY <1>3, <1>7
<1> QED
  BY <1>1, <1>2, <1>8, <1>10, <1>11, <1>12 DEF bs, k, Flushes

LEMMA FlushFit ==
  ASSUME NEW n \in Node, NEW s, NEW d \in Node, FitBut(s, n, {d}), Valid(s, d) \/ Guard(s, d)
  PROVE  Fit(processBuffered(s, n, d), n)
<1> DEFINE x == processBuffered(s, n, d)
           bs == Buffered(s.ctrl[d]) \o Buffered(s.repair[d])
<1>1. CASE ~Valid(s, d)
  <2>1. x = s
    BY <1>1 DEF processBuffered
  <2> QED
    BY <1>1, <2>1 DEF Fit, FitBut
<1>2. CASE Valid(s, d)
  <2>0. s \in State /\ Len(s.rd) <= QueueMax /\ Filed(s, n)
    BY DEF FitBut, Within
  <2>1. /\ x \in State /\ x.rt = s.rt
        /\ s.rt[d].next \in Node /\ bs \in Seq(Bundle)
        /\ x.ctrl = [s.ctrl EXCEPT ![d] = None] /\ x.repair = [s.repair EXCEPT ![d] = None]
        /\ Flows(x, s, n, bs, s.rt[d].next)
    <3>1. Flushes(x, s, n, d)
      BY <1>2, <2>0, Flushed
    <3> HIDE DEF x
    <3> QED
      BY <3>1 DEF Flushes
  <2>2. \A i \in DOMAIN bs : Dst[bs[i].id] # n
    BY <2>0, Elsewhere
  <2> DEFINE y == sendAll(s, n, bs, s.rt[d].next)
  <2>3. FitBut(y, n, {d})
    BY <2>1, <2>2, RowFit
  <2>4. x = [y EXCEPT !.ctrl[d] = None, !.repair[d] = None]
    BY <1>2 DEF processBuffered
  <2> HIDE DEF y, bs
  <2>5. /\ x.air = y.air /\ x.rd = y.rd /\ y \in State
    <3>1. y \in State
      BY <2>3 DEF FitBut
    <3> QED
      BY <2>4, <3>1 DEF State
  <2> HIDE DEF x
  <2>6. Queues(x, n)
    BY <2>3, <2>5 DEF FitBut, Queues
  <2>7. s.ctrl \in [Node -> Waiting \cup {None}] /\ s.repair \in [Node -> Repairing \cup {None}]
    BY <2>0, Fields
  <2>8. \A e \in Node : /\ x.ctrl[e] = IF e = d THEN None ELSE s.ctrl[e]
                        /\ x.repair[e] = IF e = d THEN None ELSE s.repair[e]
    BY <2>1, <2>7
  <2>9. Buffered(None) = <<>> /\ For(<<>>, d) /\ Len(<<>>) = 0 /\ 0 <= BufferMax
    BY Constants DEF Buffered, For
  <2>10. Filed(x, n)
    BY <2>8, <2>9 DEF Filed, FitBut
  <2>11. Within(x)
    BY <2>3, <2>5, <2>8, <2>9 DEF Within, FitBut
  <2>12. \A e \in Node : Guard(x, e)
    BY <1>2, <2>1, <2>8 DEF Guard, FitBut, Has, Valid
  <2>13. Rooted(x, n)
    BY <2>1 DEF Rooted, Has, FitBut
  <2> QED
    BY <2>1, <2>6, <2>10, <2>11, <2>12, <2>13 DEF Fit, FitBut, x
<1> QED
  BY <1>1, <1>2

(* One route is changed. *)
Reroute(s, d, r) == [s EXCEPT !.rt[d] = r]

LEMMA Rerouted ==
  ASSUME NEW s \in State, NEW d \in Node, NEW r \in Route \cup {None}
  PROVE  LET x == Reroute(s, d, r)
         IN  /\ x \in State /\ x.rt[d] = r
             /\ \A e \in Node : e # d => x.rt[e] = s.rt[e]
             /\ SameBuffers(x, s) /\ SameWay(x, s) /\ x.seen = s.seen /\ x.rreqId = s.rreqId
             /\ x.up = s.up /\ x.dropped = s.dropped
<1> DEFINE t == [s.rt EXCEPT ![d] = r]
           x == Reroute(s, d, r)
<1>1. t \in [Node -> Route \cup {None}] /\ t[d] = r /\ \A e \in Node : e # d => t[e] = s.rt[e]
  BY Fields
<1>2. x = [s EXCEPT !.rt = t]
  BY DEF State, Reroute
<1> HIDE DEF t, x
<1>3. /\ x \in State /\ x.rt = t
      /\ SameBuffers(x, s) /\ SameWay(x, s) /\ x.seen = s.seen /\ x.rreqId = s.rreqId
      /\ x.up = s.up /\ x.dropped = s.dropped
  BY <1>1, <1>2 DEF State, SameBuffers, SameWay
<1> QED
  BY <1>1, <1>3 DEF t, x

LEMMA RouteFit ==
  ASSUME NEW n \in Node, NEW X, NEW s, FitBut(s, n, X), NEW d \in Node, NEW r \in Route,
         d = n => r.known /\ r.seqno > 0,
         d \notin X => /\ r.flag = "repaired" => s.repair[d] # None
                       /\ s.repair[d] # None /\ r.known => r.seqno > 0
  PROVE  FitBut(Reroute(s, d, r), n, X)
<1> DEFINE x == Reroute(s, d, r)
<1>0. s \in State /\ x = Reroute(s, d, r)
  BY DEF FitBut
<1> HIDE DEF x
<1>1. /\ x \in State /\ x.rt[d] = r /\ \A e \in Node : e # d => x.rt[e] = s.rt[e]
      /\ SameBuffers(x, s) /\ SameWay(x, s)
  BY <1>0, Rerouted
<1>2. Queues(x, n) /\ Filed(x, n) /\ Within(x)
  BY <1>1 DEF FitBut, SameBuffers, SameWay, Queues, Filed, Within
<1>3. r # None
  BY NoneOf
<1>4. \A e \in Node \ X : Guard(x, e)
  BY <1>1 DEF FitBut, Guard, Has, SameBuffers
<1>5. Rooted(x, n)
  BY <1>1, <1>3 DEF FitBut, Rooted, Has
<1> QED
  BY <1>1, <1>2, <1>4, <1>5 DEF FitBut, x

LEMMA RouteOf ==
  ASSUME NEW s \in State, NEW d \in Node, Has(s, d)
  PROVE  /\ s.rt[d] \in Route /\ s.rt[d].flag \in Flag /\ s.rt[d].known \in BOOLEAN
         /\ s.rt[d].seqno \in Nat /\ s.rt[d].hops \in Nat /\ s.rt[d].next \in Node
         /\ s.rt[d].prec \in SUBSET Node
<1>1. s.rt[d] \in Route
  BY Fields DEF Has
<1> QED
  BY <1>1 DEF Route

(* The sender of a routing message has become a valid neighbour. *)
LEMMA SimpleRoute ==
  ASSUME NEW s \in State, NEW k \in Node
  PROVE  \E r \in Route :
           /\ updateSimpleRRoute(s, k) = Reroute(s, k, r)
           /\ r.flag = "valid" /\ r.next = k
           /\ IF Has(s, k) THEN r.known = s.rt[k].known /\ r.seqno = s.rt[k].seqno
                           ELSE ~r.known
<1>1. CASE ~Has(s, k)
  <2> DEFINE r == [RouteVia(k, 0, 1) EXCEPT !.known = FALSE]
  <2>1. r \in Route /\ r.flag = "valid" /\ r.next = k /\ ~r.known
    BY DEF RouteVia, Route, Flag
  <2>2. s.rt \in [Node -> Route \cup {None}] /\ s.rt[k] = None
    BY <1>1, Fields DEF Has
  <2>3. updateSimpleRRoute(s, k) = Reroute(s, k, r)
    BY <2>2 DEF updateSimpleRRoute, Reroute
  <2> QED
    BY <1>1, <2>1, <2>3
<1>2. CASE Has(s, k)
  <2> DEFINE q == s.rt[k]
             r == [q EXCEPT !.flag = "valid", !.next = k, !.hops = 1]
  <2>1. q \in Route
    BY <1>2, RouteOf
  <2>2. /\ r \in Route /\ r.flag = "valid" /\ r.next = k /\ r.known = q.known
        /\ r.seqno = q.seqno
    BY <2>1 DEF Route, Flag
  <2>3. q # None
    BY <1>2 DEF Has
  <2>4. updateSimpleRRoute(s, k) = Reroute(s, k, r)
    BY <2>3 DEF updateSimpleRRoute, Reroute
  <2> QED
    BY <1>2, <2>2, <2>4
<1> QED
  BY <1>1, <1>2

LEMMA SimpleFit ==
  ASSUME NEW n \in Node, NEW s, Fit(s, n), NEW k \in Node, k # n
  PROVE  Fit(updateSimpleRRoute(s, k), n) /\ Valid(updateSimpleRRoute(s, k), k)
<1>0. s \in State /\ FitBut(s, n, {})
  BY DEF Fit, FitBut
<1>1. PICK r \in Route :
        /\ updateSimpleRRoute(s, k) = Reroute(s, k, r)
        /\ r.flag = "valid" /\ r.next = k
        /\ IF Has(s, k) THEN r.known = s.rt[k].known /\ r.seqno = s.rt[k].seqno ELSE ~r.known
  BY <1>0, SimpleRoute
<1>2. s.repair[k] # None /\ r.known => r.seqno > 0
  BY <1>0, <1>1 DEF FitBut, Guard
<1>3. FitBut(Reroute(s, k, r), n, {})
  BY <1>0, <1>1, <1>2, RouteFit
<1> DEFINE x == updateSimpleRRoute(s, k)
<1>4. x.rt[k] = r /\ r # None
  BY <1>0, <1>1, Rerouted, NoneOf
<1> QED
  BY <1>1, <1>3, <1>4 DEF Fit, Valid, Has

LEMMA FreshRoute ==
  ASSUME NEW s \in State, NEW d \in Node, NEW k \in Node, NEW seq \in Nat, NEW h \in Nat
  PROVE  \E r \in Route : /\ SetRoute(s, d, k, seq, h) = Reroute(s, d, r)
                          /\ r.flag = "valid" /\ r.known /\ r.next = k /\ r.seqno = seq
                          /\ r.hops = h
<1> DEFINE p == IF Has(s, d) THEN s.rt[d].prec ELSE {}
           r == [RouteVia(k, seq, h) EXCEPT !.prec = p]
<1>1. p \in SUBSET Node
  BY RouteOf
<1> HIDE DEF p
<1>2. r \in Route /\ r.flag = "valid" /\ r.known /\ r.next = k /\ r.seqno = seq /\ r.hops = h
  BY <1>1, RouteViaType DEF Route
<1>3. SetRoute(s, d, k, seq, h) = Reroute(s, d, r)
  BY DEF SetRoute, Reroute, p
<1> QED
  BY <1>2, <1>3

LEMMA FreshFit ==
  ASSUME NEW n \in Node, NEW X, NEW s, FitBut(s, n, X), NEW d \in Node, NEW k \in Node,
         NEW seq \in Nat, NEW h \in Nat, d = n => seq > 0, d \notin X => seq > 0
  PROVE  FitBut(SetRoute(s, d, k, seq, h), n, X) /\ Valid(SetRoute(s, d, k, seq, h), d)
<1>0. s \in State
  BY DEF FitBut
<1>1. PICK r \in Route : /\ SetRoute(s, d, k, seq, h) = Reroute(s, d, r)
                         /\ r.flag = "valid" /\ r.known /\ r.seqno = seq
  BY <1>0, FreshRoute
<1>2. FitBut(Reroute(s, d, r), n, X)
  BY <1>1, RouteFit
<1> DEFINE x == SetRoute(s, d, k, seq, h)
<1>3. x.rt[d] = r /\ r # None
  BY <1>0, <1>1, Rerouted, NoneOf
<1> QED
  BY <1>1, <1>2, <1>3 DEF Valid, Has

LEMMA Preceded ==
  ASSUME NEW s \in State, NEW d \in Node, NEW k \in Node
  PROVE  \/ updatePrecursorList(s, d, k) = s
         \/ /\ Has(s, d)
            /\ \E r \in Route : /\ updatePrecursorList(s, d, k) = Reroute(s, d, r)
                                /\ r.flag = s.rt[d].flag /\ r.known = s.rt[d].known
                                /\ r.next = s.rt[d].next /\ r.seqno = s.rt[d].seqno
                                /\ r.hops = s.rt[d].hops
<1>1. CASE ~Has(s, d)
  BY <1>1 DEF updatePrecursorList
<1>2. CASE Has(s, d)
  <2> DEFINE q == s.rt[d]
             r == [q EXCEPT !.prec = @ \cup {k}]
  <2>1. q \in Route
    BY <1>2, RouteOf
  <2>2. /\ r \in Route /\ r.flag = q.flag /\ r.next = q.next /\ r.known = q.known
        /\ r.seqno = q.seqno /\ r.hops = q.hops
    BY <2>1 DEF Route
  <2>3. updatePrecursorList(s, d, k) = Reroute(s, d, r)
    BY <1>2 DEF updatePrecursorList, Reroute
  <2> QED
    BY <1>2, <2>2, <2>3
<1> QED
  BY <1>1, <1>2

LEMMA PrecededFit ==
  ASSUME NEW n \in Node, NEW s, Fit(s, n), NEW d \in Node, NEW k \in Node
  PROVE  LET x == updatePrecursorList(s, d, k)
         IN  /\ Fit(x, n)
             /\ \A e \in Node : /\ Has(x, e) <=> Has(s, e)
                                /\ Has(s, e) => /\ x.rt[e].flag = s.rt[e].flag
                                                /\ x.rt[e].next = s.rt[e].next
<1>0. s \in State /\ FitBut(s, n, {})
  BY DEF Fit, FitBut
<1>1. CASE updatePrecursorList(s, d, k) = s
  BY <1>1
<1>2. ASSUME Has(s, d),
             NEW r \in Route, updatePrecursorList(s, d, k) = Reroute(s, d, r),
             r.flag = s.rt[d].flag, r.known = s.rt[d].known,
             r.next = s.rt[d].next, r.seqno = s.rt[d].seqno
      PROVE  LET x == updatePrecursorList(s, d, k)
             IN  /\ Fit(x, n)
                 /\ \A e \in Node : /\ Has(x, e) <=> Has(s, e)
                                    /\ Has(s, e) => /\ x.rt[e].flag = s.rt[e].flag
                                                    /\ x.rt[e].next = s.rt[e].next
  <2>1. /\ d = n => r.known /\ r.seqno > 0
        /\ r.flag = "repaired" => s.repair[d] # None
        /\ s.repair[d] # None /\ r.known => r.seqno > 0
    BY <1>0, <1>2 DEF FitBut, Guard, Rooted
  <2>2. FitBut(Reroute(s, d, r), n, {})
    BY <1>0, <2>1, RouteFit
  <2> DEFINE y == Reroute(s, d, r)
  <2>3. y.rt[d] = r /\ \A e \in Node : e # d => y.rt[e] = s.rt[e]
    BY <1>0, Rerouted
  <2>4. r # None
    BY NoneOf
  <2> HIDE DEF y
  <2>5. \A e \in Node : /\ Has(y, e) <=> Has(s, e)
                        /\ Has(s, e) => y.rt[e].flag = s.rt[e].flag /\ y.rt[e].next = s.rt[e].next
    BY <1>2, <2>3, <2>4 DEF Has
  <2> QED
    BY <1>2, <2>2, <2>5 DEF Fit, y
<1> QED
  BY <1>0, <1>1, <1>2, Preceded

-----------------------------------------------------------------------------
(* While no link changes, no frame is lost and no route ages: every entry  *)
(* is valid and goes by a node in N, the neighbours, to the destination or *)
(* to a node with a route to it; <<k, d>> \in L says that k is d or has a  *)
(* route to d.                                                             *)
Goes(f, s, n, N, L) ==
  /\ f.type # "rerr"
  /\ f.type = "rreq" => f.orig = n \/ Valid(s, f.orig)
  /\ f.type = "rrep" => /\ f.to \in N /\ <<f.to, f.orig>> \in L
                        /\ f.dst = n \/ Valid(s, f.dst)
  /\ f.type = "data" => f.to \in N

Led(s, n, N, L) ==
  \A d \in Node : Has(s, d) => /\ s.rt[d].flag = "valid"
                               /\ d # n => s.rt[d].next \in N /\ <<s.rt[d].next, d>> \in L

Straight(s, n, N, L) ==
  /\ Led(s, n, N, L)
  /\ \A d \in Node : s.repair[d] = None
  /\ \A i \in DOMAIN s.air : Goes(s.air[i], s, n, N, L)
  /\ \A i \in DOMAIN s.rd : s.rd[i].to \in N

Keeps(x, s) == \A d \in Node : Valid(s, d) => Valid(x, d)

(* Still on straight ways, and no route is gone. *)
Holding(x, s, n, N, L) == Straight(x, n, N, L) /\ Keeps(x, s)

LEMMA GoesOn ==
  ASSUME NEW n \in Node, NEW N, NEW L, NEW s, NEW x, Keeps(x, s), NEW f \in Frame, Goes(f, s, n, N, L)
  PROVE  Goes(f, x, n, N, L)
<1>1. f.type = "rreq" => f.orig \in Node
  BY DEF Frame, RREQs, RREPs, HELLOs, RERRs, DATAs
<1>2. f.type = "rrep" => f.dst \in Node
  BY DEF Frame, RREQs, RREPs, HELLOs, RERRs, DATAs
<1> QED
  BY <1>1, <1>2 DEF Goes, Keeps

LEMMA PutStraight ==
  ASSUME NEW n \in Node, NEW N, NEW L, NEW s \in State, Straight(s, n, N, L),
         NEW f \in Frame, Goes(f, s, n, N, L)
  PROVE  Holding(Put(s, f), s, n, N, L)
<1> DEFINE x == Put(s, f)
<1>1. /\ x \in State /\ SameTables(x, s) /\ x.rd = s.rd /\ x.air = Append(s.air, f)
      /\ s.air \in Seq(Frame)
  BY PutFrame, Fields
<1> HIDE DEF x
<1>2. \A i \in DOMAIN Append(s.air, f) : i \in DOMAIN s.air \/ Append(s.air, f)[i] = f
  BY <1>1
<1>7. \A i \in DOMAIN Append(s.air, f) : i \in DOMAIN s.air => Append(s.air, f)[i] = s.air[i]
  BY <1>1
<1>3. \A g : Goes(g, s, n, N, L) => Goes(g, x, n, N, L)
  BY <1>1 DEF Goes, Valid, Has, SameTables
<1>4. \A i \in DOMAIN x.air : Goes(x.air[i], x, n, N, L)
  BY <1>1, <1>2, <1>3, <1>7 DEF Straight
<1>5. Led(x, n, N, L) /\ Keeps(x, s) /\ \A d \in Node : x.repair[d] = None
  BY <1>1 DEF Straight, Led, Keeps, Valid, Has, SameTables
<1>6. \A i \in DOMAIN x.rd : x.rd[i].to \in N
  BY <1>1 DEF Straight
<1> QED
  BY <1>4, <1>5, <1>6 DEF Straight, Holding, x

LEMMA DropStraight ==
  ASSUME NEW n \in Node, NEW N, NEW L, NEW s \in State, Straight(s, n, N, L), NEW b \in Bundle
  PROVE  Holding(Drop(s, b), s, n, N, L)
<1>1. SameTables(Drop(s, b), s) /\ SameWay(Drop(s, b), s)
  BY DropType
<1> QED
  BY <1>1 DEF Holding, Straight, Led, Keeps, Valid, Has, Goes, SameTables, SameWay

LEMMA SentStraight ==
  ASSUME NEW n \in Node, NEW N, NEW L, NEW s \in State, Straight(s, n, N, L), NEW b \in Bundle,
         Dst[b.id] # n, NEW k \in Node, k \in N
  PROVE  Holding(sendToQueue(s, n, b, k), s, n, N, L)
<1> DEFINE x == sendToQueue(s, n, b, k)
           f == DATA(k, [b EXCEPT !.caught = n])
           g == DATA(k, b)
<1>0. s.rd \in Seq(DATAs) /\ g \in DATAs /\ s.air \in Seq(Frame)
  BY Fields, DataFrame
<1>1. f \in Frame /\ f.type = "data" /\ f.to = k /\ g.to = k
  BY Caught, DataFrame
<1>2. /\ SameTables(x, s)
      /\ \/ x.air = Append(s.air, f) /\ x.rd = s.rd
         \/ x.air = s.air /\ x.rd = Append(s.rd, g)
         \/ SameWay(x, s)
  BY SentToQueue
<1> HIDE DEF x, f, g
<1>3. Led(x, n, N, L) /\ Keeps(x, s) /\ \A d \in Node : x.repair[d] = None
  BY <1>2 DEF Straight, Led, Keeps, Valid, Has, SameTables
<1>4. \A i \in DOMAIN x.air : Goes(x.air[i], x, n, N, L)
  <2>1. \A e : Goes(e, s, n, N, L) => Goes(e, x, n, N, L)
    BY <1>2 DEF Goes, Valid, Has, SameTables
  <2>2. Goes(f, x, n, N, L)
    BY <1>1 DEF Goes
  <2>3. \A i \in DOMAIN Append(s.air, f) : \/ i \in DOMAIN s.air /\ Append(s.air, f)[i] = s.air[i]
                                           \/ Append(s.air, f)[i] = f
    BY <1>0, <1>1
  <2>4. \A i \in DOMAIN x.air : x.air[i] = f \/ (i \in DOMAIN s.air /\ x.air[i] = s.air[i])
    BY <1>2, <2>3 DEF SameWay
  <2> QED
    BY <2>1, <2>2, <2>4 DEF Straight
<1>5. \A i \in DOMAIN x.rd : x.rd[i].to \in N
  <2>1. \A i \in DOMAIN Append(s.rd, g) : \/ i \in DOMAIN s.rd /\ Append(s.rd, g)[i] = s.rd[i]
                                          \/ Append(s.rd, g)[i] = g
    BY <1>0
  <2>2. \A i \in DOMAIN x.rd : x.rd[i] = g \/ (i \in DOMAIN s.rd /\ x.rd[i] = s.rd[i])
    BY <1>2, <2>1 DEF SameWay
  <2> QED
    BY <1>1, <2>2 DEF Straight
<1> QED
  BY <1>3, <1>4, <1>5 DEF Straight, Holding, x

LEMMA FlushStraight ==
  ASSUME NEW n \in Node, NEW N, NEW L, NEW s \in State, Len(s.rd) <= QueueMax, Straight(s, n, N, L),
         Filed(s, n), NEW d \in Node
  PROVE  Holding(processBuffered(s, n, d), s, n, N, L)
<1>1. CASE ~Valid(s, d)
  BY <1>1 DEF processBuffered, Holding, Keeps
<1>2. CASE Valid(s, d)
  <2> DEFINE x  == processBuffered(s, n, d)
             bs == Buffered(s.ctrl[d]) \o Buffered(s.repair[d])
             k  == s.rt[d].next
  <2>1. /\ x \in State /\ x.rt = s.rt /\ k \in Node /\ bs \in Seq(Bundle)
        /\ x.repair = [s.repair EXCEPT ![d] = None]
        /\ Flows(x, s, n, bs, k)
    <3>1. Flushes(x, s, n, d)
      BY <1>2, Flushed
    <3> HIDE DEF x
    <3> QED
      BY <3>1 DEF Flushes
  <2>2. \A i \in DOMAIN bs : Dst[bs[i].id] # n
    BY Elsewhere
  <2>8. d # n \/ bs = <<>>
    BY DEF Buffered, Filed
  <2>9. d # n => k \in N
    BY <1>2 DEF Straight, Led, Valid
  <2> HIDE DEF x, bs, k
  <2>10. Len(bs) > 0 => k \in N
    BY <2>8, <2>9
  <2>3. PICK now \in Nat, m \in Nat : Rowed(x, s, n, bs, k, now, m)
    BY <2>1 DEF Flows
  <2> DEFINE down == [i \in 1 .. now |-> DATA(k, [bs[i] EXCEPT !.caught = n])]
             more == [i \in 1 .. m |-> DATA(k, bs[now + i])]
  <2>11. /\ down \in [1 .. now -> Frame] /\ \A i \in 1 .. now : down[i].type = "data" /\ down[i].to = k
         /\ more \in [1 .. m -> DATAs] /\ \A i \in 1 .. m : more[i].to = k
    <3>1. now + m <= Len(bs)
      BY <2>3 DEF Rowed
    <3> QED
      BY <2>1, <2>2, <3>1, RowFrames
  <2>12. x.air = s.air \o down /\ x.rd = s.rd \o more /\ now + m <= Len(bs) /\ Len(bs) \in Nat
    <3>1. Len(bs) \in Nat
      BY <2>1
    <3> QED
      BY <2>3, <3>1 DEF Rowed
  <2>13. s.air \in Seq(Frame) /\ s.rd \in Seq(DATAs)
    BY Fields
  <2> HIDE DEF down, more
  <2>4. Led(x, n, N, L) /\ Keeps(x, s)
    BY <2>1 DEF Straight, Led, Keeps, Valid, Has
  <2>5. \A e \in Node : x.repair[e] = None
    <3>1. s.repair \in [Node -> Repairing \cup {None}]
      BY Fields
    <3> QED
      BY <2>1, <3>1 DEF Straight
  <2>6. \A i \in DOMAIN x.air : Goes(x.air[i], x, n, N, L)
    <3>1. \A i \in DOMAIN x.air : \/ i \in DOMAIN s.air /\ x.air[i] = s.air[i]
                                  \/ \E j \in 1 .. now : x.air[i] = down[j]
      BY <2>11, <2>12, <2>13, Joined, SMTT(40)
    <3>2. \A e : Goes(e, s, n, N, L) => Goes(e, x, n, N, L)
      BY <2>1 DEF Goes, Valid, Has
    <3>3. \A j \in 1 .. now : k \in N
      BY <2>10, <2>12
    <3>4. \A j \in 1 .. now : Goes(down[j], x, n, N, L)
      BY <2>11, <3>3 DEF Goes
    <3> QED
      BY <3>1, <3>2, <3>4 DEF Straight
  <2>7. \A i \in DOMAIN x.rd : x.rd[i].to \in N
    <3>1. \A i \in DOMAIN x.rd : \/ i \in DOMAIN s.rd /\ x.rd[i] = s.rd[i]
                                 \/ \E j \in 1 .. m : x.rd[i] = more[j]
      <4>1. more \in [1 .. m -> DATAs] /\ x.rd = s.rd \o more /\ s.rd \in Seq(DATAs)
        BY <2>11, <2>12, <2>13
      <4> QED
        BY <4>1, Joined
    <3>2. \A j \in 1 .. m : k \in N
      BY <2>10, <2>12
    <3> QED
      BY <2>11, <3>1, <3>2 DEF Straight
  <2> QED
    BY <2>4, <2>5, <2>6, <2>7 DEF Straight, Holding, x
<1> QED
  BY <1>1, <1>2

LEMMA RerouteStraight ==
  ASSUME NEW n \in Node, NEW N, NEW L, NEW s \in State, Straight(s, n, N, L), NEW d \in Node,
         NEW r \in Route, r.flag = "valid", d # n => r.next \in N /\ <<r.next, d>> \in L
  PROVE  Holding(Reroute(s, d, r), s, n, N, L)
<1> DEFINE x == Reroute(s, d, r)
<1>1. /\ x \in State /\ x.rt[d] = r /\ \A e \in Node : e # d => x.rt[e] = s.rt[e]
      /\ SameBuffers(x, s) /\ SameWay(x, s)
  BY Rerouted
<1> HIDE DEF x
<1>2. Keeps(x, s)
  BY <1>1, NoneOf DEF Keeps, Valid, Has
<1>3. Led(x, n, N, L)
  BY <1>1 DEF Straight, Led, Has
<1>4. \A i \in DOMAIN x.air : Goes(x.air[i], x, n, N, L)
  <2>1. s.air \in Seq(Frame)
    BY Fields
  <2> QED
    BY <1>1, <1>2, <2>1, GoesOn DEF Straight, SameWay
<1> QED
  BY <1>1, <1>2, <1>3, <1>4 DEF Straight, Holding, SameWay, SameBuffers, x

LEMMA KeepsOn ==
  ASSUME NEW x, NEW y, NEW s, Keeps(x, y), Keeps(y, s)
  PROVE  Keeps(x, s)
  BY DEF Keeps

-----------------------------------------------------------------------------
(* The handlers. *)
Asked(x, s, f) ==
  /\ SameTables(x, s) /\ x.rd = s.rd /\ x.air = Append(s.air, f) /\ x.up = s.up
  /\ x.dropped = s.dropped

(* A request on its way: for the number known, or for an arbitrary one. *)
LEMMA Asks ==
  ASSUME NEW n \in Node, NEW X, NEW s, FitBut(s, n, X), NEW d \in Node, NEW ttl \in Int,
         NEW u \in Unset
  PROVE  LET x == sendRREQ(s, n, d, ttl, u)
         IN  /\ FitBut(x, n, X)
             /\ \E f \in RREQs : Asked(x, s, f) /\ Proper(f, n) /\ f.orig = n
<1> DEFINE known == Has(s, d) /\ s.rt[d].known
           seq == IF known THEN Seqno(s, d) ELSE u
           f == RREQ(n, d, s.rreqId + 1, 0, Seqno(s, n), ~known, seq, ttl)
           y == Put(s, f)
           x == sendRREQ(s, n, d, ttl, u)
<1>0. s \in State /\ s.rreqId \in Nat
  BY Fields DEF FitBut
<1>1. seq \in Nat
  <2>1. CASE known
    BY <1>0, <2>1, RouteOf DEF Seqno
  <2>2. CASE ~known
    BY <2>2, Constants
  <2> QED
    BY <2>1, <2>2
<1>2. Seqno(s, n) \in Nat /\ Seqno(s, n) > 0
  BY <1>0, RouteOf DEF FitBut, Rooted, Seqno
<1> HIDE DEF seq
<1>3. f \in RREQs /\ f.orig = n /\ f.type = "rreq" /\ f.sseq > 0
  <2> DEFINE sn == Seqno(s, n)
             uk == ~known
  <2>1. uk \in BOOLEAN /\ sn \in Nat /\ sn > 0 /\ s.rreqId + 1 \in Nat
    BY <1>0, <1>2
  <2> HIDE DEF sn, uk
  <2> QED
    BY <1>0, <1>1, <2>1 DEF RREQs, RREQ, sn, uk
<1>4. x = [y EXCEPT !.rreqId = @ + 1]
  BY DEF sendRREQ, seq
<1> HIDE DEF f
<1>5. Proper(f, n)
  BY <1>3 DEF Proper, Frame
<1>6. FitBut(y, n, X) /\ y \in State
  BY <1>5, PutFit DEF FitBut
<1>7. /\ SameTables(y, s) /\ y.rd = s.rd /\ y.air = Append(s.air, f) /\ y.up = s.up
      /\ y.dropped = s.dropped
  BY <1>0, <1>3, PutFrame DEF Frame
<1> HIDE DEF y
<1>8. /\ x \in State /\ SameTables(x, y) /\ x.rd = y.rd /\ x.air = y.air /\ x.up = y.up
      /\ x.dropped = y.dropped
  <2>1. y.rreqId + 1 \in Nat
    BY <1>6, Fields
  <2> HIDE DEF x
  <2> QED
    BY <1>4, <1>6, <2>1 DEF State, SameTables
<1> HIDE DEF x
<1>9. Queues(x, n) /\ Len(x.rd) <= QueueMax
  BY <1>6, <1>8 DEF FitBut, Queues, Within
<1>10. FitBut(x, n, X)
  BY <1>6, <1>8, <1>9, SameFit
<1>11. Asked(x, s, f)
  BY <1>7, <1>8 DEF Asked, SameTables
<1> QED
  BY <1>3, <1>5, <1>10, <1>11 DEF x

LEMMA AsksStraight ==
  ASSUME NEW n \in Node, NEW N, NEW L, NEW s, Fit(s, n), Straight(s, n, N, L),
         NEW d \in Node, NEW ttl \in Int, NEW u \in Unset
  PROVE  Holding(sendRREQ(s, n, d, ttl, u), s, n, N, L)
<1> DEFINE x == sendRREQ(s, n, d, ttl, u)
<1>0. FitBut(s, n, {}) /\ s \in State
  BY DEF Fit, FitBut
<1>1. PICK f \in RREQs : Asked(x, s, f) /\ f.orig = n
  BY <1>0, Asks
<1>2. f \in Frame /\ f.type = "rreq"
  BY DEF Frame, RREQs
<1>3. Goes(f, s, n, N, L)
  BY <1>1, <1>2 DEF Goes
<1> DEFINE y == Put(s, f)
<1>4. Holding(y, s, n, N, L)
  BY <1>0, <1>2, <1>3, PutStraight
<1>5. y.air = Append(s.air, f) /\ y.rd = s.rd /\ SameTables(y, s)
  BY <1>0, <1>2, PutFrame
<1> HIDE DEF x, y
<1>6. x.air = y.air /\ x.rd = y.rd /\ SameTables(x, y)
  BY <1>1, <1>5 DEF Asked, SameTables
<1>7. Holding(x, s, n, N, L)
  BY <1>4, <1>6 DEF Holding, Straight, Led, Keeps, Valid, Has, Goes, SameTables
<1> QED
  BY <1>7 DEF x

(* Buffers and queues emptied: the routes stay. *)
LEMMA Emptied ==
  ASSUME NEW n \in Node, NEW s, Fit(s, n), NEW d \in Node
  PROVE  LET x == processBuffered(s, n, d)
         IN  Fit(x, n) /\ x.rt = s.rt
<1>1. s \in State /\ Len(s.rd) <= QueueMax /\ Guard(s, d) /\ Filed(s, n)
  BY DEF Fit, FitBut, Within
<1>2. FitBut(s, n, {d})
  BY DEF Fit, FitBut
<1>3. CASE Valid(s, d)
  <2>1. processBuffered(s, n, d).rt = s.rt
    <3>1. Flushes(processBuffered(s, n, d), s, n, d)
      BY <1>1, <1>3, Flushed
    <3> QED
      BY <3>1 DEF Flushes
  <2> QED
    BY <1>2, <1>3, <2>1, FlushFit
<1>4. CASE ~Valid(s, d)
  BY <1>4 DEF processBuffered
<1> QED
  BY <1>3, <1>4

LEMMA EmptiedStraight ==
  ASSUME NEW n \in Node, NEW N, NEW L, NEW s, Fit(s, n), Straight(s, n, N, L), NEW d \in Node
  PROVE  Holding(processBuffered(s, n, d), s, n, N, L)
  BY FlushStraight DEF Fit, FitBut, Within

LEMMA SimpleStraight ==
  ASSUME NEW n \in Node, NEW N, NEW L, NEW s \in State, Straight(s, n, N, L),
         NEW k \in Node, k \in N, <<k, k>> \in L
  PROVE  Holding(updateSimpleRRoute(s, k), s, n, N, L)
<1>1. PICK r \in Route : /\ updateSimpleRRoute(s, k) = Reroute(s, k, r)
                         /\ r.flag = "valid" /\ r.next = k
  BY SimpleRoute
<1> QED
  BY <1>1, RerouteStraight

LEMMA FreshStraight ==
  ASSUME NEW n \in Node, NEW N, NEW L, NEW s \in State, Straight(s, n, N, L),
         NEW d \in Node, NEW k \in Node, k \in N, <<k, d>> \in L, NEW seq \in Nat, NEW h \in Nat
  PROVE  Holding(SetRoute(s, d, k, seq, h), s, n, N, L)
<1>1. PICK r \in Route : /\ SetRoute(s, d, k, seq, h) = Reroute(s, d, r)
                         /\ r.flag = "valid" /\ r.next = k
  BY FreshRoute
<1> QED
  BY <1>1, RerouteStraight

LEMMA PrecededStraight ==
  ASSUME NEW n \in Node, NEW N, NEW L, NEW s \in State, Straight(s, n, N, L),
         NEW d \in Node, NEW k \in Node
  PROVE  Holding(updatePrecursorList(s, d, k), s, n, N, L)
<1>1. CASE updatePrecursorList(s, d, k) = s
  BY <1>1 DEF Holding, Keeps
<1>2. ASSUME Has(s, d), NEW r \in Route, updatePrecursorList(s, d, k) = Reroute(s, d, r),
             r.flag = s.rt[d].flag, r.next = s.rt[d].next
      PROVE  Holding(updatePrecursorList(s, d, k), s, n, N, L)
  <2>1. r.flag = "valid" /\ (d # n => r.next \in N /\ <<r.next, d>> \in L)
    BY <1>2 DEF Straight, Led
  <2> QED
    BY <1>2, <2>1, RerouteStraight
<1> QED
  BY <1>1, <1>2, Preceded

LEMMA HoldsOn ==
  ASSUME NEW n, NEW N, NEW L, NEW x, NEW y, NEW s, Holding(x, y, n, N, L), Holding(y, s, n, N, L)
  PROVE  Holding(x, s, n, N, L)
  BY DEF Holding, Keeps

LEMMA RREPFrame ==
  ASSUME NEW to \in Node, NEW d \in Node, NEW o \in Node, NEW h \in Nat, NEW seq \in Nat,
         NEW ttl \in Int, NEW f, f = RREP(to, d, o, h, seq, ttl), NEW n \in Node
  PROVE  /\ f \in Frame /\ f.type = "rrep" /\ f.to = to /\ f.dst = d /\ f.orig = o
         /\ Proper(f, n)
<1>1. f \in RREPs /\ f.type = "rrep" /\ f.to = to /\ f.dst = d /\ f.orig = o
  BY DEF RREP, RREPs
<1> QED
  BY <1>1 DEF Proper, Frame

LEMMA Remembering ==
  ASSUME NEW n \in Node, NEW s, Fit(s, n), NEW f \in RREQs, NEW N, NEW L
  PROVE  LET x == [s EXCEPT !.seen[f.orig] = Remembered(s, f)]
         IN  /\ Fit(x, n) /\ x.rt = s.rt
             /\ Straight(s, n, N, L) => Holding(x, s, n, N, L)
<1> DEFINE r == Remembered(s, f)
           t == [s.seen EXCEPT ![f.orig] = r]
           x == [s EXCEPT !.seen[f.orig] = r]
<1>0. s \in State /\ FitBut(s, n, {})
  BY DEF Fit, FitBut
<1>1. f.orig \in Node /\ f.id \in Nat /\ f.hops \in Nat
  BY DEF RREQs
<1>2. r \in Request
  <2>1. s.seen[f.orig] \in Request \cup {None}
    BY <1>0, <1>1, Fields
  <2>2. CASE s.seen[f.orig] = None
    BY <1>1, <2>2 DEF Remembered, Request
  <2>3. CASE s.seen[f.orig] # None
    <3> DEFINE b == s.seen[f.orig]
    <3>1. b \in Request /\ b # None
      BY <2>1, <2>3
    <3>2. r = IF b.id = f.id THEN [b EXCEPT !.hops = f.hops] ELSE [b EXCEPT !.id = f.id]
      BY <2>3 DEF Remembered
    <3> HIDE DEF b, r
    <3> QED
      BY <1>1, <3>1, <3>2 DEF Request
  <2> QED
    BY <2>2, <2>3
<1> HIDE DEF r
<1>3. t \in [Node -> Request \cup {None}]
  BY <1>0, <1>2, Fields
<1>4. x = [s EXCEPT !.seen = t]
  BY <1>0 DEF State
<1> HIDE DEF t, x
<1>5. x \in State /\ SameTables(x, s) /\ SameWay(x, s)
  BY <1>0, <1>3, <1>4 DEF State, SameTables, SameWay
<1>6. Queues(x, n) /\ Len(x.rd) <= QueueMax
  BY <1>0, <1>5 DEF FitBut, Queues, Within, SameWay
<1>7. Fit(x, n)
  BY <1>0, <1>5, <1>6, SameFit DEF Fit
<1>8. Straight(s, n, N, L) => Holding(x, s, n, N, L)
  BY <1>5 DEF Holding, Straight, Led, Keeps, Valid, Has, Goes, SameTables, SameWay
<1> QED
  BY <1>5, <1>7, <1>8 DEF SameTables, x, r

LEMMA CaughtUpFit ==
  ASSUME NEW n \in Node, NEW s, Fit(s, n), NEW f \in RREQs, NEW N, NEW L
  PROVE  LET x == CaughtUp(s, n, f)
         IN  Fit(x, n) /\ (Straight(s, n, N, L) => Holding(x, s, n, N, L))
<1>0. s \in State /\ FitBut(s, n, {}) /\ Has(s, n)
  BY DEF Fit, FitBut, Rooted
<1>1. CASE CaughtUp(s, n, f) = s
  BY <1>1 DEF Holding, Keeps
<1>2. CASE CaughtUp(s, n, f) # s
  <2> DEFINE q == s.rt[n]
             r == [q EXCEPT !.seqno = @ + 1]
             x == CaughtUp(s, n, f)
  <2>1. q \in Route /\ q.seqno \in Nat /\ q.known /\ s.repair[n] = None /\ q.flag \in Flag
    BY <1>0, RouteOf DEF FitBut, Rooted, Filed
  <2>2. x = Reroute(s, n, r)
    BY <1>2 DEF CaughtUp, Reroute
  <2>3. q.seqno + 1 \in Nat /\ q.seqno + 1 > 0
    BY <2>1
  <2>4. r \in Route /\ r.known /\ r.seqno > 0 /\ r.flag = q.flag
    <3> HIDE DEF q
    <3> QED
      BY <2>1, <2>3 DEF Route
  <2>5. q.flag # "repaired"
    BY <1>0, <2>1 DEF FitBut, Guard
  <2> HIDE DEF r, q, x
  <2>6. FitBut(Reroute(s, n, r), n, {})
    BY <1>0, <2>4, <2>5, RouteFit
  <2>7. Straight(s, n, N, L) => Holding(x, s, n, N, L)
    <3>1. Straight(s, n, N, L) => r.flag = "valid"
      BY <1>0, <2>4 DEF Straight, Led, q
    <3> QED
      BY <1>0, <2>2, <2>4, <3>1, RerouteStraight
  <2> QED
    BY <2>2, <2>6, <2>7 DEF Fit, x
<1> QED
  BY <1>1, <1>2

LEMMA RouteBackFit ==
  ASSUME NEW n \in Node, NEW s, Fit(s, n), NEW k \in Node, NEW f \in RREQs, f.sseq > 0, NEW N, NEW L
  PROVE  LET x == RouteBack(s, k, f)
         IN  /\ Fit(x, n) /\ Valid(x, f.orig)
             /\ Straight(s, n, N, L) /\ k \in N /\ <<k, f.orig>> \in L => Holding(x, s, n, N, L)
<1>0. s \in State /\ FitBut(s, n, {})
  BY DEF Fit, FitBut
<1>1. f.orig \in Node /\ f.sseq \in Nat /\ f.hops + 1 \in Nat
  BY DEF RREQs
<1> DEFINE seq == IF Has(s, f.orig) /\ s.rt[f.orig].known /\ Seqno(s, f.orig) > f.sseq
                    THEN Seqno(s, f.orig) ELSE f.sseq
<1>2. seq \in Nat /\ seq > 0
  BY <1>0, <1>1, RouteOf DEF Seqno
<1>3. RouteBack(s, k, f) = SetRoute(s, f.orig, k, seq, f.hops + 1)
  BY DEF RouteBack
<1> HIDE DEF seq
<1>4. FitBut(SetRoute(s, f.orig, k, seq, f.hops + 1), n, {}) /\ Valid(SetRoute(s, f.orig, k, seq, f.hops + 1), f.orig)
  BY <1>0, <1>1, <1>2, FreshFit
<1>5. Straight(s, n, N, L) /\ k \in N /\ <<k, f.orig>> \in L => Holding(SetRoute(s, f.orig, k, seq, f.hops + 1), s, n, N, L)
  BY <1>0, <1>1, <1>2, FreshStraight
<1> QED
  BY <1>3, <1>4, <1>5 DEF Fit

(* A request arrives from k. *)
LEMMA RREQHeard ==
  ASSUME NEW n \in Node, NEW s, Fit(s, n), NEW k \in Node \ {n}, NEW f \in RREQs, f.sseq > 0, NEW N, NEW L
  PROVE  LET x == recvRREQ(s, n, k, f)
         IN  /\ Fit(x, n)
             /\ Straight(s, n, N, L) /\ k \in N /\ <<k, k>> \in L /\ <<k, f.orig>> \in L
                  => Holding(x, s, n, N, L)
<1> DEFINE Calm == Straight(s, n, N, L) /\ k \in N /\ <<k, k>> \in L /\ <<k, f.orig>> \in L
           s1 == updateSimpleRRoute(s, k)
           s2 == [s1 EXCEPT !.seen[f.orig] = Remembered(s1, f)]
           b  == RouteBack(s2, k, f)
           p  == processBuffered(b, n, f.orig)
           s3 == processBuffered(p, n, k)
           x  == recvRREQ(s, n, k, f)
<1>0. \A y : Fit(y, n) => y \in State
  BY DEF Fit, FitBut
<1>1. f.orig \in Node /\ f.dst \in Node /\ f \in Frame /\ f.type = "rreq" /\ f.ttl \in Int /\ f.hops \in Nat
  BY DEF RREQs, Frame
<1>2. /\ Fit(s1, n)
      /\ Calm => Holding(s1, s, n, N, L)
  BY <1>0, SimpleFit, SimpleStraight
<1>3. x = IF Own(n, f) \/ ~Fresh(s1, f) THEN s1
          ELSE IF f.dst = n
          THEN Put(CaughtUp(s3, n, f), RREP(k, n, f.orig, 0, Seqno(CaughtUp(s3, n, f), n), Diameter))
          ELSE IF Knows(s3, f)
          THEN Put(updatePrecursorList(updatePrecursorList(s3, f.dst, k), f.orig, s3.rt[f.dst].next),
                   RREP(k, f.dst, f.orig, s3.rt[f.dst].hops, s3.rt[f.dst].seqno, Diameter))
          ELSE IF f.ttl = 1 THEN s3
          ELSE Put(s3, [f EXCEPT !.hops = @ + 1, !.ttl = @ - 1])
  BY DEF recvRREQ
<1>c. Calm => Straight(s, n, N, L) /\ k \in N /\ <<k, k>> \in L /\ <<k, f.orig>> \in L
  OBVIOUS
<1> SUFFICES Fit(x, n) /\ (Calm => Holding(x, s, n, N, L))
  OBVIOUS
<1> HIDE DEF x, s1, Calm
<1>4. /\ Fit(s2, n)
      /\ Straight(s1, n, N, L) => Holding(s2, s1, n, N, L)
  BY <1>2, Remembering
<1> HIDE DEF s2
<1>5. /\ Fit(b, n) /\ Valid(b, f.orig)
      /\ Straight(s2, n, N, L) /\ Calm => Holding(b, s2, n, N, L)
  BY <1>4, <1>c, RouteBackFit
<1> HIDE DEF b
<1>6. Fit(p, n) /\ p.rt = b.rt
  BY <1>1, <1>5, Emptied
<1>7. Straight(b, n, N, L) => Holding(p, b, n, N, L)
  BY <1>1, <1>5, EmptiedStraight
<1> HIDE DEF p
<1>8. Fit(s3, n) /\ s3.rt = p.rt
  BY <1>6, Emptied
<1>9. Straight(p, n, N, L) => Holding(s3, p, n, N, L)
  BY <1>6, EmptiedStraight
<1> HIDE DEF s3
<1>10. Valid(s3, f.orig) /\ s3 \in State
  BY <1>0, <1>5, <1>6, <1>8 DEF Valid, Has
<1>11. Calm => Holding(s3, s, n, N, L)
  BY <1>2, <1>4, <1>5, <1>7, <1>9 DEF Holding, Keeps
<1>12. CASE Own(n, f) \/ ~Fresh(s1, f)
  BY <1>2, <1>3, <1>12
<1>13. CASE ~Own(n, f) /\ Fresh(s1, f) /\ f.dst = n
  <2> DEFINE s4 == CaughtUp(s3, n, f)
             g  == RREP(k, n, f.orig, 0, Seqno(s4, n), Diameter)
  <2>1. /\ Fit(s4, n) /\ s4 \in State
        /\ Straight(s3, n, N, L) => Holding(s4, s3, n, N, L)
    BY <1>0, <1>8, CaughtUpFit
  <2>2. Seqno(s4, n) \in Nat
    BY <2>1, RouteOf DEF Fit, FitBut, Rooted, Seqno
  <2>3. x = Put(s4, g)
    BY <1>3, <1>13
  <2> DEFINE q == Seqno(s4, n)
  <2> HIDE DEF s4, q
  <2>8. q \in Nat /\ \E z \in Nat : g = RREP(k, n, f.orig, z, q, Diameter)
    BY <2>2 DEF q
  <2> HIDE DEF g
  <2>4. g \in Frame /\ g.type = "rrep" /\ g.to = k /\ g.dst = n /\ g.orig = f.orig /\ Proper(g, n)
    <3>1. PICK z \in Nat : g = RREP(k, n, f.orig, z, q, Diameter)
      BY <2>8
    <3>2. Diameter \in Int /\ k \in Node /\ n \in Node /\ f.orig \in Node /\ q \in Nat
      BY <1>1, <2>8, Constants
    <3> QED
      BY <3>1, <3>2, RREPFrame
  <2>5. Fit(x, n)
    BY <2>1, <2>3, <2>4, PutFit DEF Fit
  <2>6. Calm => Goes(g, s4, n, N, L)
    BY <1>c, <2>4 DEF Goes
  <2>7. Calm => Holding(x, s4, n, N, L)
    BY <1>11, <1>13, <2>1, <2>3, <2>4, <2>6, PutStraight DEF Holding
  <2> QED
    BY <1>11, <1>13, <2>1, <2>5, <2>7 DEF Holding, Keeps
<1>14. CASE ~Own(n, f) /\ Fresh(s1, f) /\ f.dst # n /\ Knows(s3, f)
  <2> DEFINE r  == s3.rt[f.dst]
             y  == updatePrecursorList(s3, f.dst, k)
             s4 == updatePrecursorList(y, f.orig, r.next)
             g  == RREP(k, f.dst, f.orig, r.hops, r.seqno, Diameter)
  <2>1. r \in Route /\ r.hops \in Nat /\ r.seqno \in Nat /\ r.next \in Node /\ Valid(s3, f.dst)
    BY <1>1, <1>10, <1>14, RouteOf DEF Knows, Valid
  <2>2. x = Put(s4, g) /\ g = RREP(k, f.dst, f.orig, r.hops, r.seqno, Diameter)
    BY <1>3, <1>14
  <2> HIDE DEF r, g
  <2>3. g \in Frame /\ g.type = "rrep" /\ g.to = k /\ g.dst = f.dst /\ g.orig = f.orig /\ Proper(g, n)
    BY <1>1, <2>1, <2>2, RREPFrame, Constants
  <2>4. /\ Fit(y, n) /\ y \in State
        /\ Straight(s3, n, N, L) => Holding(y, s3, n, N, L)
    BY <1>0, <1>1, <1>8, PrecededFit, PrecededStraight
  <2> HIDE DEF y
  <2>5. /\ Fit(s4, n) /\ s4 \in State
        /\ Straight(y, n, N, L) => Holding(s4, y, n, N, L)
    BY <1>0, <1>1, <2>1, <2>4, PrecededFit, PrecededStraight
  <2> HIDE DEF s4
  <2>6. Fit(x, n)
    BY <2>2, <2>3, <2>5, PutFit DEF Fit
  <2>7. Calm => Holding(s4, s3, n, N, L)
    BY <1>11, <1>14, <2>4, <2>5 DEF Holding, Keeps
  <2>8. Calm => Goes(g, s4, n, N, L)
    BY <1>c, <1>1, <2>1, <2>3, <2>7 DEF Goes, Holding, Keeps
  <2>9. Calm => Holding(x, s4, n, N, L)
    BY <2>2, <2>3, <2>5, <2>7, <2>8, PutStraight DEF Holding
  <2> QED
    BY <1>11, <1>14, <2>6, <2>7, <2>9 DEF Holding, Keeps
<1>15. CASE ~Own(n, f) /\ Fresh(s1, f) /\ f.dst # n /\ ~Knows(s3, f) /\ f.ttl = 1
  BY <1>3, <1>8, <1>11, <1>15
<1>16. CASE ~Own(n, f) /\ Fresh(s1, f) /\ f.dst # n /\ ~Knows(s3, f) /\ f.ttl # 1
  <2> DEFINE g == [f EXCEPT !.hops = @ + 1, !.ttl = @ - 1]
  <2>1. f.hops + 1 \in Nat /\ f.ttl - 1 \in Int
    BY <1>1
  <2>2. g \in RREQs /\ g.type = "rreq" /\ g.orig = f.orig /\ g.sseq = f.sseq
    BY <2>1 DEF RREQs
  <2>3. x = Put(s3, g)
    BY <1>3, <1>16
  <2> HIDE DEF g
  <2>4. g \in Frame /\ Proper(g, n)
    BY <2>2 DEF Frame, Proper
  <2>5. Fit(x, n)
    BY <1>8, <2>3, <2>4, PutFit DEF Fit
  <2>6. Goes(g, s3, n, N, L)
    BY <1>10, <2>2 DEF Goes
  <2>7. Calm => Holding(x, s3, n, N, L)
    BY <1>10, <1>11, <1>16, <2>3, <2>4, <2>6, PutStraight DEF Holding
  <2> QED
    BY <1>11, <1>16, <2>5, <2>7 DEF Holding, Keeps
<1> QED
  BY <1>12, <1>13, <1>14, <1>15, <1>16

(* An answer's route is taken: the buffers for its destination come next. *)
LEMMA AnswerTaken ==
  ASSUME NEW n \in Node, NEW s, Fit(s, n), NEW k \in Node, NEW f \in RREPs, NEW N, NEW L
  PROVE  LET y == IF Better(s, f) THEN SetRoute(s, f.dst, k, f.seq, f.hops + 1) ELSE s
             x == processBuffered(y, n, f.dst)
         IN  /\ Fit(x, n)
             /\ Straight(s, n, N, L) /\ k \in N /\ <<k, f.dst>> \in L
                  => Holding(x, s, n, N, L) /\ Valid(x, f.dst)
<1> DEFINE y == IF Better(s, f) THEN SetRoute(s, f.dst, k, f.seq, f.hops + 1) ELSE s
           x == processBuffered(y, n, f.dst)
           Calm == Straight(s, n, N, L) /\ k \in N /\ <<k, f.dst>> \in L
<1> SUFFICES Fit(x, n) /\ (Calm => Holding(x, s, n, N, L) /\ Valid(x, f.dst))
  OBVIOUS
<1>0. s \in State /\ FitBut(s, n, {}) /\ FitBut(s, n, {f.dst}) /\ Guard(s, f.dst)
  BY DEF Fit, FitBut, RREPs
<1>1. f.dst \in Node /\ f.seq \in Nat /\ f.hops + 1 \in Nat
  BY DEF RREPs
<1>2. CASE ~Better(s, f)
  <2>1. x = processBuffered(s, n, f.dst) /\ Has(s, f.dst)
    BY <1>2 DEF Better
  <2>2. Fit(processBuffered(s, n, f.dst), n) /\ processBuffered(s, n, f.dst).rt = s.rt
    BY <1>1, Emptied
  <2>3. Straight(s, n, N, L) => Holding(processBuffered(s, n, f.dst), s, n, N, L) /\ Valid(s, f.dst)
    BY <1>1, <2>1, EmptiedStraight DEF Valid, Straight, Led
  <2> QED
    BY <2>1, <2>2, <2>3 DEF Valid, Has
<1>3. CASE Better(s, f)
  <2> DEFINE z == SetRoute(s, f.dst, k, f.seq, f.hops + 1)
  <2>1. f.dst = n => f.seq > 0
    <3>1. f.dst = n => Has(s, n) /\ s.rt[n].known /\ s.rt[n].seqno > 0 /\ s.rt[n].seqno \in Nat
      BY <1>0, RouteOf DEF FitBut, Rooted
    <3> QED
      BY <1>1, <1>3, <3>1 DEF Better
  <2>2. FitBut(z, n, {f.dst}) /\ Valid(z, f.dst)
    BY <1>0, <1>1, <2>1, FreshFit
  <2>3. Straight(s, n, N, L) /\ k \in N /\ <<k, f.dst>> \in L => Holding(z, s, n, N, L)
    BY <1>0, <1>1, FreshStraight
  <2>4. y = z
    BY <1>3
  <2> HIDE DEF z, y
  <2>5. Fit(processBuffered(z, n, f.dst), n)
    BY <1>1, <2>2, FlushFit
  <2>6. processBuffered(z, n, f.dst).rt = z.rt /\ z \in State /\ Len(z.rd) <= QueueMax /\ Filed(z, n)
    <3>1. z \in State /\ Len(z.rd) <= QueueMax /\ Filed(z, n)
      BY <2>2 DEF FitBut, Within
    <3> QED
      <4>1. Flushes(processBuffered(z, n, f.dst), z, n, f.dst)
        BY <1>1, <2>2, <3>1, Flushed
      <4> QED
        BY <3>1, <4>1 DEF Flushes
  <2>8. Straight(z, n, N, L) => Holding(processBuffered(z, n, f.dst), z, n, N, L)
    BY <1>1, <2>6, FlushStraight
  <2> QED
    BY <2>2, <2>3, <2>4, <2>5, <2>6, <2>8 DEF Valid, Has, Holding, Keeps
<1> QED
  BY <1>2, <1>3

(* An answer arrives from k. *)
LEMMA RREPHeard ==
  ASSUME NEW n \in Node, NEW s, Fit(s, n), NEW k \in Node \ {n}, NEW f \in RREPs, NEW N, NEW L
  PROVE  LET x == recvRREP(s, n, k, f)
         IN  /\ Fit(x, n)
             /\ Straight(s, n, N, L) /\ k \in N /\ <<k, k>> \in L /\ <<k, f.dst>> \in L
                  => Holding(x, s, n, N, L)
<1> DEFINE Calm == Straight(s, n, N, L) /\ k \in N /\ <<k, k>> \in L /\ <<k, f.dst>> \in L
           s1 == updateSimpleRRoute(s, k)
           s2 == IF Better(s1, f) THEN SetRoute(s1, f.dst, k, f.seq, f.hops + 1) ELSE s1
           p  == processBuffered(s2, n, f.dst)
           s3 == processBuffered(p, n, k)
           to == s3.rt[f.orig].next
           y  == updatePrecursorList(s3, f.dst, to)
           s4 == updatePrecursorList(y, k, to)
           g  == [f EXCEPT !.to = to, !.hops = @ + 1, !.ttl = @ - 1]
           x  == recvRREP(s, n, k, f)
<1>0. \A z : Fit(z, n) => z \in State
  BY DEF Fit, FitBut
<1>1. f.orig \in Node /\ f.dst \in Node /\ f.ttl \in Int /\ f.hops \in Nat
  BY DEF RREPs
<1>2. /\ Fit(s1, n)
      /\ Calm => Holding(s1, s, n, N, L)
  BY <1>0, SimpleFit, SimpleStraight
<1>3. x = IF f.orig = n \/ ~Has(s3, f.orig) THEN s3
          ELSE IF f.ttl > 1 /\ Valid(s4, f.orig) THEN Put(s4, g) ELSE s4
  BY DEF recvRREP
<1>c. Calm => Straight(s, n, N, L) /\ k \in N /\ <<k, k>> \in L /\ <<k, f.dst>> \in L
  OBVIOUS
<1> SUFFICES Fit(x, n) /\ (Calm => Holding(x, s, n, N, L))
  OBVIOUS
<1> HIDE DEF x, s1, Calm
<1>4. /\ Fit(p, n)
      /\ Straight(s1, n, N, L) /\ Calm => Holding(p, s1, n, N, L) /\ Valid(p, f.dst)
  BY <1>c, <1>2, AnswerTaken
<1> HIDE DEF p
<1>5. /\ Fit(s3, n) /\ s3.rt = p.rt /\ s3 \in State
      /\ Straight(p, n, N, L) => Holding(s3, p, n, N, L)
  BY <1>0, <1>4, Emptied, EmptiedStraight
<1> HIDE DEF s3
<1>6. Calm => Holding(s3, s, n, N, L) /\ Valid(s3, f.dst)
  BY <1>1, <1>2, <1>4, <1>5 DEF Holding, Keeps
<1>7. CASE f.orig = n \/ ~Has(s3, f.orig)
  BY <1>3, <1>5, <1>6, <1>7
<1>8. CASE f.orig # n /\ Has(s3, f.orig)
  <2>1. to \in Node /\ (Calm => to \in N /\ <<to, f.orig>> \in L)
    BY <1>1, <1>5, <1>6, <1>8, RouteOf DEF Holding, Straight, Led
  <2> HIDE DEF to
  <2>2. Fit(y, n) /\ y \in State
    BY <1>0, <1>1, <1>5, <2>1, PrecededFit
  <2>3. Calm => Holding(y, s3, n, N, L)
    BY <1>1, <1>5, <1>6, <2>1, PrecededStraight DEF Holding
  <2> HIDE DEF y
  <2>4. Fit(s4, n) /\ s4 \in State
    BY <1>0, <2>1, <2>2, PrecededFit
  <2>5. Calm => Holding(s4, y, n, N, L)
    BY <2>1, <2>2, <2>3, PrecededStraight DEF Holding
  <2> HIDE DEF s4
  <2>6. Calm => Holding(s4, s, n, N, L) /\ Valid(s4, f.dst)
    BY <1>1, <1>6, <2>3, <2>5 DEF Holding, Keeps
  <2>7. CASE ~(f.ttl > 1 /\ Valid(s4, f.orig))
    BY <1>3, <1>8, <2>4, <2>6, <2>7
  <2>8. CASE f.ttl > 1 /\ Valid(s4, f.orig)
    <3>1. x = Put(s4, g)
      BY <1>3, <1>8, <2>8
    <3>2. f.hops + 1 \in Nat /\ f.ttl - 1 \in Int
      BY <1>1
    <3>3. g \in RREPs /\ g.type = "rrep" /\ g.to = to /\ g.orig = f.orig /\ g.dst = f.dst
      BY <2>1, <3>2 DEF RREPs
    <3> HIDE DEF g
    <3>4. g \in Frame /\ Proper(g, n)
      BY <3>3 DEF Frame, Proper
    <3>5. Fit(x, n)
      BY <2>4, <3>1, <3>4, PutFit DEF Fit
    <3>6. Calm => Goes(g, s4, n, N, L)
      BY <2>1, <2>6, <3>3 DEF Goes
    <3>7. Calm => Holding(x, s4, n, N, L)
      BY <2>4, <2>6, <3>1, <3>4, <3>6, PutStraight DEF Holding
    <3> QED
      BY <2>6, <3>5, <3>7 DEF Holding, Keeps
  <2> QED
    BY <2>7, <2>8
<1> QED
  BY <1>7, <1>8

(* A greeting arrives from k. *)
LEMMA HelloHeard ==
  ASSUME NEW n \in Node, NEW s, Fit(s, n), NEW k \in Node \ {n}, NEW f \in HELLOs, f.seq > 0, NEW N, NEW L
  PROVE  LET x == recvHello(s, k, f)
         IN  /\ Fit(x, n)
             /\ Straight(s, n, N, L) /\ k \in N /\ <<k, k>> \in L => Holding(x, s, n, N, L)
<1>0. s \in State /\ FitBut(s, n, {}) /\ f.seq \in Nat /\ 1 \in Nat
  BY DEF Fit, FitBut, HELLOs
<1>1. FitBut(SetRoute(s, k, k, f.seq, 1), n, {})
  BY <1>0, FreshFit
<1>2. Straight(s, n, N, L) /\ k \in N /\ <<k, k>> \in L => Holding(SetRoute(s, k, k, f.seq, 1), s, n, N, L)
  BY <1>0, FreshStraight
<1> QED
  BY <1>1, <1>2 DEF recvHello, Fit

(* A list of a finite set is a sequence of its members. *)
LEMMA Listed ==
  ASSUME NEW S, IsFiniteSet(S)
  PROVE  SetToSeq(S) \in Seq(S)
<1>1. Cardinality(S) \in Nat /\ ExistsBijection(1 .. Cardinality(S), S)
  BY FS_CardinalityType
<1>2. PICK b \in Bijection(1 .. Cardinality(S), S) : TRUE
  BY <1>1 DEF ExistsBijection
<1>3. b \in [1 .. Cardinality(S) -> S] /\ IsInjective(b)
  BY <1>2 DEF Bijection, Injection, IsInjective
<1>4. SetToSeq(S) \in [1 .. Cardinality(S) -> S]
  BY <1>3 DEF SetToSeq
<1> QED
  BY <1>1, <1>4

-----------------------------------------------------------------------------
(* One buffer is changed. *)
Rebuffer(s, d, c) == [s EXCEPT !.ctrl[d] = c]
Resave(s, d, e) == [s EXCEPT !.repair[d] = e]

LEMMA Rebuffered ==
  ASSUME NEW s \in State, NEW d \in Node, NEW c \in Waiting \cup {None}
  PROVE  LET x == Rebuffer(s, d, c)
         IN  /\ x \in State /\ x.rt = s.rt /\ x.repair = s.repair /\ SameWay(x, s) /\ x.up = s.up
             /\ x.dropped = s.dropped
             /\ \A e \in Node : x.ctrl[e] = IF e = d THEN c ELSE s.ctrl[e]
<1> DEFINE t == [s.ctrl EXCEPT ![d] = c]
           x == Rebuffer(s, d, c)
<1>1. t \in [Node -> Waiting \cup {None}] /\ \A e \in Node : t[e] = IF e = d THEN c ELSE s.ctrl[e]
  BY Fields
<1>2. x = [s EXCEPT !.ctrl = t]
  BY DEF State, Rebuffer
<1> HIDE DEF t, x
<1>3. /\ x \in State /\ x.rt = s.rt /\ x.repair = s.repair /\ SameWay(x, s) /\ x.up = s.up
      /\ x.dropped = s.dropped /\ x.ctrl = t
  BY <1>1, <1>2 DEF State, SameWay
<1> QED
  BY <1>1, <1>3 DEF x

LEMMA RebufferFit ==
  ASSUME NEW n \in Node, NEW X, NEW s, FitBut(s, n, X), NEW d \in Node, NEW c \in Waiting \cup {None},
         For(Buffered(c), d), Len(Buffered(c)) <= BufferMax, d = n => c = None
  PROVE  FitBut(Rebuffer(s, d, c), n, X)
<1> DEFINE x == Rebuffer(s, d, c)
<1>1. /\ x \in State /\ x.rt = s.rt /\ x.repair = s.repair /\ SameWay(x, s)
      /\ \A e \in Node : x.ctrl[e] = IF e = d THEN c ELSE s.ctrl[e]
  BY Rebuffered DEF FitBut
<1> HIDE DEF x
<1>2. Filed(x, n)
  BY <1>1 DEF FitBut, Filed
<1>3. Within(x)
  BY <1>1 DEF FitBut, Within, SameWay
<1>4. Queues(x, n) /\ (\A e \in Node \ X : Guard(x, e)) /\ Rooted(x, n)
  BY <1>1 DEF FitBut, Queues, Guard, Rooted, Has, SameWay
<1> QED
  BY <1>1, <1>2, <1>3, <1>4 DEF FitBut, x

LEMMA RebufferStraight ==
  ASSUME NEW n \in Node, NEW N, NEW L, NEW s \in State, Straight(s, n, N, L),
         NEW d \in Node, NEW c \in Waiting \cup {None}
  PROVE  Holding(Rebuffer(s, d, c), s, n, N, L)
<1> DEFINE x == Rebuffer(s, d, c)
<1>1. x.rt = s.rt /\ x.repair = s.repair /\ SameWay(x, s)
  BY Rebuffered
<1> HIDE DEF x
<1>2. Holding(x, s, n, N, L)
  BY <1>1 DEF Holding, Straight, Led, Keeps, Valid, Has, Goes, SameWay
<1> QED
  BY <1>2 DEF x

LEMMA Resaved ==
  ASSUME NEW s \in State, NEW d \in Node, NEW c \in Repairing \cup {None}
  PROVE  LET x == Resave(s, d, c)
         IN  /\ x \in State /\ x.rt = s.rt /\ x.ctrl = s.ctrl /\ SameWay(x, s) /\ x.up = s.up
             /\ x.dropped = s.dropped
             /\ \A e \in Node : x.repair[e] = IF e = d THEN c ELSE s.repair[e]
<1> DEFINE t == [s.repair EXCEPT ![d] = c]
           x == Resave(s, d, c)
<1>1. t \in [Node -> Repairing \cup {None}] /\ \A e \in Node : t[e] = IF e = d THEN c ELSE s.repair[e]
  BY Fields
<1>2. x = [s EXCEPT !.repair = t]
  BY DEF State, Resave
<1> HIDE DEF t, x
<1>3. /\ x \in State /\ x.rt = s.rt /\ x.ctrl = s.ctrl /\ SameWay(x, s) /\ x.up = s.up
      /\ x.dropped = s.dropped /\ x.repair = t
  BY <1>1, <1>2 DEF State, SameWay
<1> QED
  BY <1>1, <1>3 DEF x

LEMMA ResaveFit ==
  ASSUME NEW n \in Node, NEW X, NEW s, FitBut(s, n, X), NEW d \in Node, NEW c \in Repairing \cup {None},
         For(Buffered(c), d), Len(Buffered(c)) <= BufferMax, d = n => c = None,
         d \notin X => /\ c = None => ~(Has(s, d) /\ s.rt[d].flag = "repaired")
                       /\ c # None => /\ c.broken # None
                                      /\ Has(s, d) /\ s.rt[d].known => s.rt[d].seqno > 0
  PROVE  FitBut(Resave(s, d, c), n, X)
<1> DEFINE x == Resave(s, d, c)
<1>1. /\ x \in State /\ x.rt = s.rt /\ x.ctrl = s.ctrl /\ SameWay(x, s)
      /\ \A e \in Node : x.repair[e] = IF e = d THEN c ELSE s.repair[e]
  BY Resaved DEF FitBut
<1> HIDE DEF x
<1>2. Filed(x, n)
  BY <1>1 DEF FitBut, Filed
<1>3. Within(x)
  BY <1>1 DEF FitBut, Within, SameWay
<1>4. Queues(x, n) /\ Rooted(x, n)
  BY <1>1 DEF FitBut, Queues, Rooted, Has, SameWay
<1>5. ASSUME NEW e \in Node \ X PROVE Guard(x, e)
  <2>1. CASE e = d
    BY <1>1, <2>1 DEF Guard, Has
  <2>2. CASE e # d
    BY <1>1, <2>2 DEF FitBut, Guard, Has
  <2> QED
    BY <2>1, <2>2
<1> QED
  BY <1>1, <1>2, <1>3, <1>4, <1>5 DEF FitBut, x

(* A packet more in a buffer. *)
LEMMA ForMore ==
  ASSUME NEW d \in Node, NEW bs \in Seq(Bundle), For(bs, d), NEW b \in Bundle, Dst[b.id] = d
  PROVE  For(Append(bs, b), d) /\ Append(bs, b) \in Seq(Bundle) /\ Len(Append(bs, b)) = Len(bs) + 1
<1>1. \A i \in DOMAIN Append(bs, b) : i \in DOMAIN bs \/ Append(bs, b)[i] = b
  OBVIOUS
<1>2. \A i \in DOMAIN Append(bs, b) : i \in DOMAIN bs => Append(bs, b)[i] = bs[i]
  OBVIOUS
<1> QED
  BY <1>1, <1>2 DEF For

LEMMA AttachFit ==
  ASSUME NEW n \in Node, NEW X, NEW s, FitBut(s, n, X), NEW d \in Node \ {n}, s.repair[d] # None,
         NEW b \in Bundle, Dst[b.id] = d
  PROVE  LET x == attachRepair(s, d, b)
         IN  FitBut(x, n, X) /\ x.rt = s.rt /\ x.repair[d] # None /\ x.repair[d].broken = s.repair[d].broken
<1> DEFINE e == s.repair[d]
           c == [e EXCEPT !.pkts = Append(@, b)]
           x == attachRepair(s, d, b)
<1>0. s \in State
  BY DEF FitBut
<1>1. e \in Repairing /\ For(e.pkts, d) /\ e.pkts \in Seq(Bundle) /\ e.broken \in Node \cup {None}
  <2>1. e \in Repairing
    BY <1>0, Fields
  <2>2. For(e.pkts, d)
    BY DEF FitBut, Filed, Buffered
  <2> QED
    BY <2>1, <2>2 DEF Repairing
<1>2. CASE Len(e.pkts) < BufferMax
  <2>1. x = Resave(s, d, c)
    BY <1>2 DEF attachRepair, Resave
  <2>2. For(Append(e.pkts, b), d) /\ Append(e.pkts, b) \in Seq(Bundle) /\ Len(Append(e.pkts, b)) <= BufferMax
    BY <1>1, <1>2, ForMore, Constants
  <2>3. d \notin X => /\ e.broken # None
                      /\ Has(s, d) /\ s.rt[d].known => s.rt[d].seqno > 0
    BY DEF FitBut, Guard
  <2> HIDE DEF e
  <2>4. c \in Repairing /\ c.pkts = Append(e.pkts, b) /\ c.broken = e.broken
    BY <1>1, <2>2 DEF Repairing
  <2>5. c # None /\ Buffered(c) = Append(e.pkts, b)
    BY <2>4, NoneOf DEF Buffered
  <2> HIDE DEF c, x
  <2>6. FitBut(x, n, X)
    BY <2>1, <2>2, <2>3, <2>4, <2>5, ResaveFit
  <2>7. x.rt = s.rt /\ x.repair[d] = c
    BY <1>0, <2>1, <2>4, Resaved
  <2> QED
    BY <2>4, <2>5, <2>6, <2>7 DEF x, e
<1>3. CASE ~(Len(e.pkts) < BufferMax)
  <2>1. x = Drop(s, b)
    BY <1>3 DEF attachRepair
  <2>2. FitBut(x, n, X) /\ SameTables(x, s)
    BY <1>0, <2>1, DropFit, DropType
  <2> QED
    BY <2>2 DEF SameTables
<1> QED
  BY <1>2, <1>3

(* The precursors are told. *)
LEMMA ComplainFit ==
  ASSUME NEW n \in Node, NEW X, NEW s, FitBut(s, n, X), NEW ds, NEW told \in SUBSET Node, ds \subseteq Node
  PROVE  FitBut(Complain(s, ds, told), n, X)
<1> DEFINE pairs == UNION {{d} \X s.rt[d].prec : d \in {e \in ds : Has(s, e)}}
           ks == SetToSeq(pairs)
           errs == [i \in DOMAIN ks |-> RERR(ks[i][2], told)]
           a == s.air \o errs
           x == Complain(s, ds, told)
<1>0. s \in State
  BY DEF FitBut
<1>1. \A d \in ds : Has(s, d) => s.rt[d].prec \in SUBSET Node
  BY <1>0, RouteOf
<1>2. pairs \subseteq Node \X Node
  BY <1>1
<1> HIDE DEF pairs
<1>3. IsFiniteSet(pairs)
  BY <1>2, Constants, FS_Product, FS_Subset
<1>4. ks \in Seq(pairs)
  BY <1>3, Listed
<1> HIDE DEF ks
<1>5. Len(ks) \in Nat /\ DOMAIN ks = 1 .. Len(ks) /\ \A i \in 1 .. Len(ks) : ks[i][2] \in Node
  BY <1>2, <1>4
<1>6. \A k \in Node : RERR(k, told) \in Frame /\ Proper(RERR(k, told), n)
  <2> SUFFICES ASSUME NEW k \in Node
               PROVE  RERR(k, told) \in Frame /\ Proper(RERR(k, told), n)
    OBVIOUS
  <2>1. RERR(k, told) \in RERRs /\ RERR(k, told).type = "rerr"
    BY DEF RERR, RERRs
  <2> QED
    BY <2>1 DEF Frame, Proper
<1>7. errs \in [1 .. Len(ks) -> Frame] /\ \A i \in 1 .. Len(ks) : Proper(errs[i], n)
  BY <1>5, <1>6
<1> HIDE DEF errs
<1>8. errs \in Seq(Frame) /\ Len(errs) = Len(ks) /\ s.air \in Seq(Frame)
  BY <1>0, <1>5, <1>7, Fields
<1>9. /\ a \in Seq(Frame) /\ Len(a) = Len(s.air) + Len(errs)
      /\ \A i \in 1 .. Len(s.air) + Len(errs) : a[i] = IF i <= Len(s.air) THEN s.air[i] ELSE errs[i - Len(s.air)]
  BY <1>8, ConcatProperties
<1>10. x = [s EXCEPT !.air = a]
  BY DEF Complain, pairs, ks, errs
<1> HIDE DEF a, x
<1>11. x \in State /\ SameTables(x, s) /\ x.air = a /\ x.rd = s.rd
  BY <1>0, <1>9, <1>10 DEF State, SameTables
<1>12. ASSUME NEW i \in DOMAIN a PROVE Proper(a[i], n)
  <2>1. i \in 1 .. Len(s.air) + Len(errs) /\ Len(s.air) \in Nat /\ Len(errs) \in Nat
    BY <1>8, <1>9
  <2>2. CASE i <= Len(s.air)
    <3>1. i \in DOMAIN s.air
      BY <1>8, <2>1, <2>2
    <3> QED
      BY <1>9, <2>1, <2>2, <3>1 DEF FitBut, Queues
  <2>3. CASE ~(i <= Len(s.air))
    <3>1. i - Len(s.air) \in 1 .. Len(ks)
      BY <1>8, <2>1, <2>3
    <3> QED
      BY <1>7, <1>9, <2>1, <2>3, <3>1
  <2> QED
    BY <2>2, <2>3
<1>13. Queues(x, n) /\ Len(x.rd) <= QueueMax
  BY <1>11, <1>12 DEF FitBut, Queues, Within
<1> QED
  BY <1>11, <1>13, SameFit DEF x

(* Several routes are changed: what they keep. *)
LEMMA RoutesFit ==
  ASSUME NEW n \in Node, NEW s, Fit(s, n), NEW t \in [Node -> Route \cup {None}],
         \A d \in Node : /\ t[d] = None <=> s.rt[d] = None
                         /\ Has(s, d) => /\ t[d].flag \in {s.rt[d].flag, "invalid"}
                                         /\ t[d].known = s.rt[d].known
                                         /\ t[d].seqno >= s.rt[d].seqno
  PROVE  Fit([s EXCEPT !.rt = t], n)
<1> DEFINE x == [s EXCEPT !.rt = t]
<1>0. s \in State /\ FitBut(s, n, {})
  BY DEF Fit, FitBut
<1>1. x \in State /\ x.rt = t /\ SameBuffers(x, s) /\ SameWay(x, s)
  BY <1>0 DEF State, SameBuffers, SameWay
<1> HIDE DEF x
<1>2. Queues(x, n) /\ Filed(x, n) /\ Within(x)
  BY <1>0, <1>1 DEF FitBut, SameBuffers, SameWay, Queues, Filed, Within
<1>3. ASSUME NEW d \in Node PROVE Guard(x, d)
  <2>1. Guard(s, d)
    BY <1>0 DEF FitBut
  <2>2. CASE ~Has(s, d)
    BY <1>1, <2>1, <2>2 DEF Guard, Has, SameBuffers
  <2>3. CASE Has(s, d)
    <3>1. s.rt[d].seqno \in Nat /\ t[d] \in Route /\ t[d].seqno \in Nat
      BY <1>0, <2>3, RouteOf DEF Has, Route
    <3> QED
      BY <1>1, <2>1, <2>3, <3>1 DEF Guard, Has, SameBuffers
  <2> QED
    BY <2>2, <2>3
<1>4. Rooted(x, n)
  <2>1. Has(s, n) /\ s.rt[n].known /\ s.rt[n].seqno > 0 /\ s.rt[n].seqno \in Nat
    BY <1>0, RouteOf DEF FitBut, Rooted
  <2>2. t[n] \in Route /\ t[n].seqno \in Nat
    BY <2>1 DEF Has, Route
  <2> QED
    BY <1>1, <2>1, <2>2 DEF Rooted, Has
<1> QED
  BY <1>1, <1>2, <1>3, <1>4 DEF Fit, FitBut, x

(* An error message arrives from k. *)
LEMMA RERRHeard ==
  ASSUME NEW n \in Node, NEW s, Fit(s, n), NEW k \in Node \ {n}, NEW f \in RERRs
  PROVE  Fit(recvRERR(s, k, f), n)
<1> DEFINE ds == {d \in f.dsts : Has(s, d) /\ s.rt[d].next = k}
           t == [d \in Node |-> IF d \in ds THEN [s.rt[d] EXCEPT !.flag = "invalid"] ELSE s.rt[d]]
           y == [s EXCEPT !.rt = t]
<1>0. s \in State
  BY DEF Fit, FitBut
<1>1. ds \in SUBSET Node
  BY DEF RERRs
<1>2. \A r \in Route : LET q == [r EXCEPT !.flag = "invalid"]
                       IN  q \in Route /\ q.flag = "invalid" /\ q.known = r.known /\ q.seqno = r.seqno
  BY DEF Route, Flag
<1>3. \A d \in Node : s.rt[d] \in Route \cup {None}
  BY <1>0, Fields
<1>4. recvRERR(s, k, f) = Complain(y, ds, ds)
  BY DEF recvRERR
<1>5. \A d \in ds : s.rt[d] # None
  BY DEF Has
<1> HIDE DEF ds
<1>6. ASSUME NEW d \in Node
      PROVE  /\ t[d] \in Route \cup {None}
             /\ t[d] = None <=> s.rt[d] = None
             /\ Has(s, d) => /\ t[d].flag \in {s.rt[d].flag, "invalid"}
                             /\ t[d].known = s.rt[d].known
                             /\ t[d].seqno >= s.rt[d].seqno
  <2>1. CASE d \in ds
    <3>1. s.rt[d] \in Route /\ s.rt[d] # None /\ s.rt[d].seqno \in Nat
      BY <1>0, <1>5, <2>1, RouteOf DEF Has
    <3>2. t[d] = [s.rt[d] EXCEPT !.flag = "invalid"]
      BY <2>1
    <3>3. t[d] \in Route /\ t[d].flag = "invalid" /\ t[d].known = s.rt[d].known /\ t[d].seqno = s.rt[d].seqno
      BY <1>2, <3>1, <3>2
    <3> QED
      BY <3>1, <3>3, NoneOf
  <2>2. CASE d \notin ds
    <3>1. t[d] = s.rt[d]
      BY <2>2
    <3>2. Has(s, d) => s.rt[d].seqno \in Nat
      BY <1>0, RouteOf
    <3> HIDE DEF t
    <3> QED
      BY <1>3, <3>1, <3>2
  <2> QED
    BY <2>1, <2>2
<1>7. t \in [Node -> Route \cup {None}]
  BY <1>6
<1> HIDE DEF t
<1>8. Fit(y, n)
  BY <1>6, <1>7, RoutesFit
<1> QED
  BY <1>1, <1>4, <1>8, ComplainFit DEF Fit

(* A packet of another node arrives. *)
LEMMA DataHeard ==
  ASSUME NEW n \in Node, NEW s, Fit(s, n), NEW b \in Bundle, NEW N, NEW L
  PROVE  LET x == recvData(s, n, b)
         IN  Fit(x, n) /\ (Straight(s, n, N, L) => Holding(x, s, n, N, L))
<1> DEFINE d == Dst[b.id]
           c == [b EXCEPT !.ttl = @ - 1]
           r == s.rt[d]
           x == recvData(s, n, b)
<1> SUFFICES Fit(x, n) /\ (Straight(s, n, N, L) => Holding(x, s, n, N, L))
  OBVIOUS
<1>0. s \in State /\ FitBut(s, n, {})
  BY DEF Fit, FitBut
<1>1. d \in Node /\ b.id \in Packet /\ b.ttl \in Nat
  BY Constants, BundleIs
<1>2. CASE d = n
  <2> DEFINE a == s.up \cup {b.id}
  <2>1. a \in SUBSET Packet
    BY <1>0, <1>1, Fields
  <2>2. x = [s EXCEPT !.up = a]
    BY <1>2 DEF recvData
  <2> HIDE DEF a, x
  <2>3. x \in State /\ SameTables(x, s) /\ SameWay(x, s)
    BY <1>0, <2>1, <2>2 DEF State, SameTables, SameWay
  <2>4. Queues(x, n) /\ Len(x.rd) <= QueueMax
    BY <1>0, <2>3 DEF FitBut, Queues, Within, SameWay
  <2>5. Fit(x, n)
    BY <1>0, <2>3, <2>4, SameFit DEF Fit
  <2> QED
    BY <2>3, <2>5 DEF Holding, Straight, Led, Keeps, Valid, Has, Goes, SameTables, SameWay
<1>3. CASE d # n /\ (b.ttl <= 1 \/ ~Has(s, d))
  <2>1. x = Drop(s, b)
    BY <1>3 DEF recvData
  <2> QED
    BY <1>0, <2>1, DropFit, DropStraight DEF Fit
<1>4. CASE d # n /\ ~(b.ttl <= 1) /\ Has(s, d)
  <2>1. c \in Bundle /\ Dst[c.id] = d
    BY <1>4, Older
  <2>2. r \in Route /\ r.next \in Node /\ r.flag \in Flag
    BY <1>0, <1>1, <1>4, RouteOf
  <2>3. CASE r.flag = "valid"
    <3>1. x = sendToQueue(s, n, c, r.next)
      BY <1>4, <2>3 DEF recvData
    <3>2. Straight(s, n, N, L) => r.next \in N
      BY <1>1, <1>4 DEF Straight, Led
    <3> HIDE DEF x, c, r, d
    <3>3. FitBut(sendToQueue(s, n, c, r.next), n, {})
      BY <1>0, <1>4, <2>1, <2>2, SentFit
    <3>4. Straight(s, n, N, L) => Holding(sendToQueue(s, n, c, r.next), s, n, N, L)
      BY <1>0, <1>4, <2>1, <2>2, <3>2, SentStraight
    <3> QED
      BY <3>1, <3>3, <3>4 DEF Fit
  <2>4. CASE r.flag = "invalid"
    <3>1. x = Drop(Complain(s, {d}, {d}), b)
      BY <1>4, <2>4 DEF recvData
    <3>2. FitBut(Complain(s, {d}, {d}), n, {})
      BY <1>0, <1>1, ComplainFit
    <3>3. FitBut(x, n, {})
      BY <3>1, <3>2, DropFit
    <3>4. ~Straight(s, n, N, L)
      BY <1>1, <1>4, <2>4 DEF Straight, Led
    <3> QED
      BY <3>3, <3>4 DEF Fit
  <2>5. CASE r.flag = "repaired"
    <3>1. s.repair[d] # None
      BY <1>0, <1>1, <1>4, <2>5 DEF FitBut, Guard
    <3>2. x = attachRepair(s, d, c)
      BY <1>4, <2>5, <3>1 DEF recvData
    <3>3. ~Straight(s, n, N, L)
      BY <1>1, <3>1 DEF Straight
    <3> HIDE DEF x, c, r, d
    <3>4. FitBut(attachRepair(s, d, c), n, {})
      BY <1>0, <1>1, <1>4, <2>1, <3>1, AttachFit
    <3> QED
      BY <3>2, <3>3, <3>4 DEF Fit
  <2> QED
    BY <2>2, <2>3, <2>4, <2>5 DEF Flag
<1> QED
  BY <1>2, <1>3, <1>4

(* A frame on the air is of one kind. *)
LEMMA FrameKinds ==
  ASSUME NEW f \in Frame
  PROVE  /\ f.type = "rreq" => f \in RREQs
         /\ f.type = "rrep" => f \in RREPs
         /\ f.type = "hello" => f \in HELLOs
         /\ f.type = "rerr" => f \in RERRs
         /\ f.type = "data" => f \in DATAs /\ f.pkt \in Bundle /\ f.to \in Node
         /\ f.type \in {"rreq", "rrep", "hello", "rerr", "data"}
         /\ f.to \in Node \cup {None}
  BY DEF Frame, RREQs, RREPs, HELLOs, RERRs, DATAs

(* A frame of k is heard at n. *)
LEMMA HeardFit ==
  ASSUME NEW n \in Node, NEW s, Fit(s, n), NEW k \in Node \ {n}, NEW f, Proper(f, k), NEW N, NEW L
  PROVE  LET x == recv(s, n, k, f)
         IN  /\ Fit(x, n)
             /\ /\ Straight(s, n, N, L) /\ k \in N /\ <<k, k>> \in L
                /\ f.type # "rerr"
                /\ f.type = "rreq" => <<k, f.orig>> \in L
                /\ f.type = "rrep" => <<k, f.dst>> \in L
                => Holding(x, s, n, N, L)
<1>0. f \in Frame
  BY DEF Proper
<1>1. CASE f.type = "rreq"
  <2>1. f \in RREQs /\ f.sseq > 0
    BY <1>0, <1>1, FrameKinds DEF Proper
  <2>2. recv(s, n, k, f) = recvRREQ(s, n, k, f)
    BY <1>1 DEF recv
  <2> QED
    BY <1>1, <2>1, <2>2, RREQHeard
<1>2. CASE f.type = "rrep"
  <2>1. f \in RREPs
    BY <1>0, <1>2, FrameKinds
  <2>2. recv(s, n, k, f) = recvRREP(s, n, k, f)
    BY <1>2 DEF recv
  <2> QED
    BY <1>2, <2>1, <2>2, RREPHeard
<1>3. CASE f.type = "hello"
  <2>1. f \in HELLOs /\ f.seq > 0
    BY <1>0, <1>3, FrameKinds DEF Proper
  <2>2. recv(s, n, k, f) = recvHello(s, k, f)
    BY <1>3 DEF recv
  <2> QED
    BY <2>1, <2>2, HelloHeard
<1>4. CASE f.type = "rerr"
  <2>1. f \in RERRs
    BY <1>0, <1>4, FrameKinds
  <2>2. recv(s, n, k, f) = recvRERR(s, k, f)
    BY <1>4 DEF recv
  <2> QED
    BY <1>4, <2>1, <2>2, RERRHeard
<1>5. CASE f.type = "data"
  <2>1. f.pkt \in Bundle
    BY <1>0, <1>5, FrameKinds
  <2>2. recv(s, n, k, f) = recvData(s, n, f.pkt)
    BY <1>5 DEF recv
  <2> QED
    BY <2>1, <2>2, DataHeard
<1> QED
  BY <1>0, <1>1, <1>2, <1>3, <1>4, <1>5, FrameKinds

-----------------------------------------------------------------------------
(* A node's own steps. *)

(* A frame has left; the head of the module's queue may follow. *)
LEMMA SentOn ==
  ASSUME NEW n \in Node, NEW s, Fit(s, n), s.air # <<>>, NEW N, NEW L
  PROVE  LET x == Sent(s)
         IN  Fit(x, n) /\ (Straight(s, n, N, L) => Holding(x, s, n, N, L))
<1> DEFINE x == Sent(s)
           left == Tail(s.air)
           h == Head(s.rd)
           next == Append(left, h)
           rest == Tail(s.rd)
<1>0. /\ s \in State /\ FitBut(s, n, {}) /\ s.air \in Seq(Frame) /\ s.rd \in Seq(DATAs)
      /\ Queues(s, n) /\ Len(s.rd) <= QueueMax /\ QueueMax \in Nat
  BY Fields, Constants DEF Fit, FitBut, Within
<1>1. /\ left \in Seq(Frame) /\ \A i \in DOMAIN left : i + 1 \in DOMAIN s.air /\ left[i] = s.air[i + 1]
  BY <1>0
<1>2. CASE Len(left) <= Below /\ s.rd # <<>>
  <2>1. /\ rest \in Seq(DATAs) /\ Len(rest) <= Len(s.rd) /\ 1 \in DOMAIN s.rd /\ h = s.rd[1]
        /\ \A i \in DOMAIN rest : i + 1 \in DOMAIN s.rd /\ rest[i] = s.rd[i + 1]
    BY <1>0, <1>2
  <2>2. h \in Frame /\ h.type = "data"
    <3>1. h \in DATAs
      BY <1>0, <1>2
    <3> QED
      BY <3>1 DEF Frame, DATAs
  <2>4. x = [s EXCEPT !.air = next, !.rd = rest]
    BY <1>2 DEF Sent
  <2> HIDE DEF rest, x, left, h
  <2>3. /\ next \in Seq(Frame)
        /\ \A i \in DOMAIN next : (i \in DOMAIN left /\ next[i] = left[i]) \/ next[i] = h
    BY <1>1, <2>2
  <2> HIDE DEF next
  <2>5. x \in State /\ SameTables(x, s) /\ x.air = next /\ x.rd = rest
    BY <1>0, <2>1, <2>3, <2>4 DEF State, SameTables
  <2>7. Queues(x, n)
    <3>1. Proper(h, n) /\ \A i \in DOMAIN left : Proper(left[i], n)
      BY <1>0, <1>1, <2>1 DEF Queues
    <3>2. \A i \in DOMAIN rest : Proper(rest[i], n)
      BY <1>0, <2>1 DEF Queues
    <3>3. \A i \in DOMAIN next : Proper(next[i], n)
      BY <2>3, <3>1
    <3> QED
      BY <2>5, <3>2, <3>3 DEF Queues
  <2>8. Len(x.rd) <= QueueMax
    <3>1. Len(rest) \in Nat /\ Len(s.rd) \in Nat
      BY <1>0, <2>1
    <3> QED
      BY <1>0, <2>1, <2>5, <3>1
  <2>9. Fit(x, n)
    BY <1>0, <2>5, <2>7, <2>8, SameFit DEF Fit
  <2>10. ASSUME Straight(s, n, N, L) PROVE Holding(x, s, n, N, L)
    <3>1. Led(x, n, N, L) /\ Keeps(x, s) /\ \A d \in Node : x.repair[d] = None
      BY <2>5, <2>10 DEF Straight, Led, Keeps, Valid, Has, SameTables
    <3>2. h.to \in N
      BY <2>1, <2>10 DEF Straight
    <3>5. \A g : Goes(g, s, n, N, L) => Goes(g, x, n, N, L)
      BY <2>5 DEF Goes, Valid, Has, SameTables
    <3>6. Goes(h, x, n, N, L)
      BY <2>2, <3>2 DEF Goes
    <3>7. \A i \in DOMAIN left : Goes(left[i], s, n, N, L)
      BY <1>1, <2>10 DEF Straight
    <3>3. \A i \in DOMAIN next : Goes(next[i], x, n, N, L)
      BY <2>3, <3>5, <3>6, <3>7
    <3>4. \A i \in DOMAIN x.rd : x.rd[i].to \in N
      BY <2>1, <2>5, <2>10 DEF Straight
    <3> QED
      BY <2>5, <3>1, <3>3, <3>4 DEF Straight, Holding
  <2> QED
    BY <2>9, <2>10 DEF x
<1>3. CASE ~(Len(left) <= Below /\ s.rd # <<>>)
  <2>1. x = [s EXCEPT !.air = left]
    BY <1>3 DEF Sent
  <2> HIDE DEF left, x
  <2>2. x \in State /\ SameTables(x, s) /\ x.air = left /\ x.rd = s.rd
    BY <1>0, <1>1, <2>1 DEF State, SameTables
  <2>3. Queues(x, n)
    BY <1>0, <1>1, <2>2 DEF Queues
  <2>4. Fit(x, n)
    BY <1>0, <2>2, <2>3, SameFit DEF Fit
  <2>5. ASSUME Straight(s, n, N, L) PROVE Holding(x, s, n, N, L)
    <3>1. Led(x, n, N, L) /\ Keeps(x, s) /\ \A d \in Node : x.repair[d] = None
      BY <2>2, <2>5 DEF Straight, Led, Keeps, Valid, Has, SameTables
    <3>2. \A g : Goes(g, s, n, N, L) => Goes(g, x, n, N, L)
      BY <2>2 DEF Goes, Valid, Has, SameTables
    <3>3. \A i \in DOMAIN x.air : Goes(x.air[i], x, n, N, L)
      BY <1>1, <2>2, <2>5, <3>2 DEF Straight
    <3>4. \A i \in DOMAIN x.rd : x.rd[i].to \in N
      BY <2>2, <2>5 DEF Straight
    <3> QED
      BY <3>1, <3>3, <3>4 DEF Straight, Holding
  <2> QED
    BY <2>4, <2>5 DEF x
<1> QED
  BY <1>2, <1>3

LEMMA DropAllFit ==
  ASSUME NEW n \in Node, NEW X, NEW s, FitBut(s, n, X), NEW bs \in Seq(Bundle), NEW N, NEW L
  PROVE  LET x == DropAll(s, bs)
         IN  FitBut(x, n, X) /\ x.rt = s.rt /\ (Straight(s, n, N, L) => Holding(x, s, n, N, L))
<1> DEFINE g == s.dropped \cup {bs[i].id : i \in DOMAIN bs}
           x == DropAll(s, bs)
<1>0. s \in State /\ s.dropped \in SUBSET Packet /\ Queues(s, n) /\ Len(s.rd) <= QueueMax
  BY Fields DEF FitBut, Within
<1>1. \A i \in DOMAIN bs : bs[i] \in Bundle
  OBVIOUS
<1>2. g \in SUBSET Packet
  BY <1>0, <1>1, BundleIs
<1>3. x = [s EXCEPT !.dropped = g]
  BY DEF DropAll
<1> HIDE DEF g, x
<1>4. x \in State /\ SameTables(x, s) /\ SameWay(x, s)
  BY <1>0, <1>2, <1>3 DEF State, SameTables, SameWay
<1>5. Queues(x, n) /\ Len(x.rd) <= QueueMax
  BY <1>0, <1>4 DEF Queues, SameWay
<1>6. FitBut(x, n, X)
  BY <1>4, <1>5, SameFit
<1>7. Straight(s, n, N, L) => Holding(x, s, n, N, L)
  BY <1>4 DEF Holding, Straight, Led, Keeps, Valid, Has, Goes, SameTables, SameWay
<1> QED
  BY <1>4, <1>6, <1>7 DEF x, SameTables

(* The layer below gives a packet back. *)
LEMMA CallFit ==
  ASSUME NEW n \in Node, NEW s, Fit(s, n), NEW k \in Node, NEW b \in Bundle, Dst[b.id] # n,
         NEW u \in Unset
  PROVE  Fit(LinkLayerCall(s, n, k, b, u), n)
<1> DEFINE d  == Dst[b.id]
           c  == [pkts |-> <<>>, broken |-> k]
           s0 == IF s.repair[d] = None THEN Resave(s, d, c) ELSE s
           s1 == attachRepair(s0, d, b)
           r  == [s1.rt[d] EXCEPT !.flag = "repaired", !.seqno = @ + 1]
           x  == LinkLayerCall(s, n, k, b, u)
<1>0. s \in State /\ FitBut(s, n, {}) /\ FitBut(s, n, {d}) /\ k # None
  BY Constants DEF Fit, FitBut
<1>1. d \in Node \ {n}
  BY Constants, BundleIs
<1>2. x = IF s.repair[d] = None /\ Has(s, d) /\ s.rt[d].flag # "repaired"
            THEN sendRREQ([s1 EXCEPT !.rt[d].flag = "repaired", !.rt[d].seqno = @ + 1], n, d,
                          s.rt[d].hops, u)
            ELSE s1
  BY DEF LinkLayerCall, Resave
<1>3. c \in Repairing /\ c.broken = k /\ c # None /\ Buffered(c) = <<>>
  <2>1. c \in Repairing /\ c.broken = k /\ c.pkts = <<>>
    BY EmptySeq DEF Repairing
  <2> HIDE DEF c
  <2> QED
    BY <2>1, NoneOf DEF Buffered
<1>4. For(<<>>, d) /\ Len(<<>>) <= BufferMax
  BY Constants DEF For
<1> HIDE DEF c, x
<1>5. ASSUME NEW X, FitBut(s, n, X),
             d \notin X => s.repair[d] # None \/ ~Has(s, d)
      PROVE  FitBut(s1, n, X) /\ s1.rt = s.rt /\ s1.repair[d] # None
  <2>1. FitBut(s0, n, X) /\ s0.rt = s.rt /\ s0.repair[d] # None
    <3>1. CASE s.repair[d] = None
      <4>1. s0 = Resave(s, d, c)
        BY <3>1
      <4>2. FitBut(Resave(s, d, c), n, X)
        BY <1>0, <1>1, <1>3, <1>4, <1>5, <3>1, ResaveFit
      <4>3. Resave(s, d, c).rt = s.rt /\ Resave(s, d, c).repair[d] = c
        BY <1>0, <1>1, <1>3, Resaved
      <4> QED
        BY <1>3, <4>1, <4>2, <4>3
    <3>2. CASE s.repair[d] # None
      BY <1>5, <3>2
    <3> QED
      BY <3>1, <3>2
  <2> HIDE DEF s0
  <2> QED
    BY <1>1, <2>1, AttachFit
<1>6. CASE s.repair[d] = None /\ Has(s, d) /\ s.rt[d].flag # "repaired"
  <2>1. FitBut(s1, n, {d}) /\ s1.rt = s.rt /\ s1.repair[d] # None /\ s1 \in State
    BY <1>0, <1>5 DEF FitBut
  <2>8. s1.repair[d].broken # None
    <3>1. s0 = Resave(s, d, c)
      BY <1>6
    <3>2. FitBut(Resave(s, d, c), n, {d})
      BY <1>0, <1>1, <1>3, <1>4, ResaveFit
    <3>3. Resave(s, d, c).repair[d] = c
      BY <1>0, <1>1, <1>3, Resaved
    <3>4. attachRepair(Resave(s, d, c), d, b).repair[d].broken = k
      BY <1>1, <1>3, <3>2, <3>3, AttachFit
    <3> QED
      BY <1>0, <3>1, <3>4
  <2> HIDE DEF s1
  <2> DEFINE y == [s1 EXCEPT !.rt[d].flag = "repaired", !.rt[d].seqno = @ + 1]
  <2>2. s1.rt[d] \in Route /\ s1.rt[d].seqno \in Nat /\ Has(s1, d)
    BY <1>1, <1>6, <2>1, RouteOf DEF Has
  <2>3. r \in Route /\ r.seqno > 0 /\ r # None
    <3> DEFINE q == s1.rt[d]
    <3>1. q.seqno + 1 \in Nat /\ q.seqno + 1 > 0
      BY <2>2
    <3> HIDE DEF q
    <3>2. r = [q EXCEPT !.flag = "repaired", !.seqno = @ + 1]
      BY DEF q
    <3> HIDE DEF r
    <3>3. r \in Route /\ r.seqno > 0
      BY <2>2, <3>1, <3>2 DEF Route, Flag, q
    <3> QED
      BY <3>3, NoneOf
  <2>4. y = Reroute(s1, d, r)
    BY <1>1, <2>1 DEF Reroute, State
  <2> HIDE DEF r, y
  <2>5. FitBut(y, n, {d})
    BY <1>1, <2>1, <2>3, <2>4, RouteFit
  <2>6. y.rt[d] = r /\ SameBuffers(y, s1)
    BY <1>1, <2>1, <2>3, <2>4, Rerouted
  <2>7. Guard(y, d)
    BY <2>1, <2>3, <2>6, <2>8 DEF Guard, SameBuffers
  <2>9. FitBut(y, n, {})
    BY <2>5, <2>7 DEF FitBut
  <2>10. s.rt[d].hops \in Int
    BY <1>0, <1>1, <1>6, RouteOf
  <2>11. x = sendRREQ(y, n, d, s.rt[d].hops, u)
    BY <1>2, <1>6 DEF y
  <2>12. FitBut(sendRREQ(y, n, d, s.rt[d].hops, u), n, {})
    BY <1>1, <2>9, <2>10, Asks
  <2> QED
    BY <2>11, <2>12 DEF Fit, x
<1>7. CASE ~(s.repair[d] = None /\ Has(s, d) /\ s.rt[d].flag # "repaired")
  <2>1. s.repair[d] # None \/ ~Has(s, d)
    BY <1>0, <1>1, <1>7 DEF FitBut, Guard
  <2>2. FitBut(s1, n, {})
    BY <1>0, <1>5, <2>1
  <2> QED
    BY <1>2, <1>7, <2>2 DEF Fit, x
<1> QED
  BY <1>6, <1>7

(* The kernel's packet: by its route, or it waits for one. *)
Sending(s, n, d, b, u) ==
  IF Valid(s, d) THEN sendToQueue(s, n, b, s.rt[d].next)
  ELSE IF s.ctrl[d] = None
  THEN sendRREQ([s EXCEPT !.ctrl[d] = [pkts |-> <<b>>, retries |-> 0]], n, d, Diameter, u)
  ELSE IF Len(s.ctrl[d].pkts) < BufferMax
  THEN [s EXCEPT !.ctrl[d].pkts = Append(@, b)] ELSE Drop(s, b)

LEMMA SendingFit ==
  ASSUME NEW n \in Node, NEW s, Fit(s, n), NEW d \in Node \ {n}, NEW b \in Bundle, Dst[b.id] = d,
         NEW u \in Unset, NEW N, NEW L
  PROVE  LET x == Sending(s, n, d, b, u)
         IN  Fit(x, n) /\ (Straight(s, n, N, L) => Holding(x, s, n, N, L))
<1> DEFINE x == Sending(s, n, d, b, u)
<1> SUFFICES Fit(x, n) /\ (Straight(s, n, N, L) => Holding(x, s, n, N, L))
  OBVIOUS
<1>0. s \in State /\ FitBut(s, n, {})
  BY DEF Fit, FitBut
<1>1. CASE Valid(s, d)
  <2>1. x = sendToQueue(s, n, b, s.rt[d].next) /\ s.rt[d].next \in Node
    BY <1>0, <1>1, RouteOf DEF Sending, Valid
  <2>2. Straight(s, n, N, L) => s.rt[d].next \in N
    BY <1>1 DEF Straight, Led, Valid
  <2> HIDE DEF x
  <2>3. FitBut(x, n, {})
    BY <1>0, <2>1, SentFit
  <2> QED
    BY <1>0, <2>1, <2>2, <2>3, SentStraight DEF Fit
<1>2. CASE ~Valid(s, d) /\ s.ctrl[d] = None
  <2> DEFINE bs == <<b>>
             c == [pkts |-> bs, retries |-> 0]
             y == Rebuffer(s, d, c)
  <2>1. /\ c \in Waiting /\ c.pkts = bs /\ bs \in Seq(Bundle) /\ For(bs, d)
        /\ Len(bs) <= BufferMax
    BY Constants DEF Waiting, For
  <2>2. x = sendRREQ(y, n, d, Diameter, u)
    BY <1>2 DEF Sending, Rebuffer
  <2> HIDE DEF c, bs
  <2>3. Buffered(c) = bs
    BY <2>1, NoneOf DEF Buffered
  <2>4. FitBut(y, n, {}) /\ y \in State
    <3>1. FitBut(y, n, {})
      BY <1>0, <2>1, <2>3, RebufferFit
    <3> QED
      BY <3>1 DEF FitBut
  <2>5. Straight(s, n, N, L) => Holding(y, s, n, N, L)
    BY <1>0, <2>1, RebufferStraight
  <2> HIDE DEF y, x
  <2>6. FitBut(sendRREQ(y, n, d, Diameter, u), n, {})
    BY <2>4, Asks, Constants
  <2>7. Straight(y, n, N, L) => Holding(sendRREQ(y, n, d, Diameter, u), y, n, N, L)
    BY <2>4, AsksStraight, Constants DEF Fit
  <2> QED
    BY <2>2, <2>5, <2>6, <2>7 DEF Fit, Holding, Keeps
<1>3. CASE ~Valid(s, d) /\ s.ctrl[d] # None /\ Len(s.ctrl[d].pkts) < BufferMax
  <2> DEFINE e == s.ctrl[d]
             c == [e EXCEPT !.pkts = Append(@, b)]
  <2>1. e \in Waiting /\ e.pkts \in Seq(Bundle) /\ For(e.pkts, d)
    <3>1. e \in Waiting
      BY <1>0, <1>3, Fields
    <3>2. For(e.pkts, d)
      BY <1>0, <1>3 DEF FitBut, Filed, Buffered
    <3> QED
      BY <3>1, <3>2 DEF Waiting
  <2>2. /\ For(Append(e.pkts, b), d) /\ Append(e.pkts, b) \in Seq(Bundle)
        /\ Len(Append(e.pkts, b)) <= BufferMax
    BY <1>3, <2>1, ForMore, Constants
  <2>3. x = Rebuffer(s, d, c)
    BY <1>3 DEF Sending, Rebuffer
  <2> HIDE DEF e
  <2>4. c \in Waiting /\ c.pkts = Append(e.pkts, b)
    BY <2>1, <2>2 DEF Waiting
  <2>5. Buffered(c) = Append(e.pkts, b)
    BY <2>4, NoneOf DEF Buffered
  <2> HIDE DEF c, x
  <2>6. FitBut(x, n, {})
    BY <1>0, <2>2, <2>3, <2>4, <2>5, RebufferFit
  <2> QED
    BY <1>0, <2>3, <2>4, <2>6, RebufferStraight DEF Fit
<1>4. CASE ~Valid(s, d) /\ s.ctrl[d] # None /\ ~(Len(s.ctrl[d].pkts) < BufferMax)
  <2>1. x = Drop(s, b)
    BY <1>4 DEF Sending
  <2> QED
    BY <1>0, <2>1, DropFit, DropStraight DEF Fit
<1> QED
  BY <1>1, <1>2, <1>3, <1>4

(* A request was not answered in time. *)
Retried(s, n, d, u) ==
  IF s.ctrl[d].retries < RetryMax
  THEN sendRREQ([s EXCEPT !.ctrl[d].retries = @ + 1], n, d, Diameter, u)
  ELSE DropAll([s EXCEPT !.ctrl[d] = None], s.ctrl[d].pkts)

LEMMA RetriedFit ==
  ASSUME NEW n \in Node, NEW s, Fit(s, n), NEW d \in Node, s.ctrl[d] # None, NEW u \in Unset,
         NEW N, NEW L
  PROVE  LET x == Retried(s, n, d, u)
         IN  Fit(x, n) /\ (Straight(s, n, N, L) => Holding(x, s, n, N, L))
<1> DEFINE x == Retried(s, n, d, u)
           e == s.ctrl[d]
<1> SUFFICES Fit(x, n) /\ (Straight(s, n, N, L) => Holding(x, s, n, N, L))
  OBVIOUS
<1>0. s \in State /\ FitBut(s, n, {}) /\ d # n
  BY DEF Fit, FitBut, Filed
<1>1. /\ e \in Waiting /\ e.pkts \in Seq(Bundle) /\ For(e.pkts, d) /\ e.retries \in Nat
      /\ Len(e.pkts) <= BufferMax
  <2>1. e \in Waiting
    BY <1>0, Fields
  <2>2. For(e.pkts, d) /\ Len(e.pkts) <= BufferMax
    BY <1>0 DEF FitBut, Filed, Within, Buffered
  <2> QED
    BY <2>1, <2>2 DEF Waiting
<1>2. CASE e.retries < RetryMax
  <2> DEFINE c == [e EXCEPT !.retries = @ + 1]
             y == Rebuffer(s, d, c)
  <2>1. x = sendRREQ(y, n, d, Diameter, u)
    BY <1>2 DEF Retried, Rebuffer
  <2> HIDE DEF e
  <2>2. c \in Waiting /\ c.pkts = e.pkts
    <3>1. e.retries + 1 \in Nat
      BY <1>1
    <3> QED
      BY <1>1, <3>1 DEF Waiting
  <2>3. Buffered(c) = e.pkts
    BY <2>2, NoneOf DEF Buffered
  <2> HIDE DEF c
  <2>4. FitBut(y, n, {}) /\ y \in State
    BY <1>0, <1>1, <2>2, <2>3, RebufferFit DEF FitBut
  <2>5. Straight(s, n, N, L) => Holding(y, s, n, N, L)
    BY <1>0, <2>2, RebufferStraight
  <2> HIDE DEF y, x
  <2>6. FitBut(sendRREQ(y, n, d, Diameter, u), n, {})
    BY <2>4, Asks, Constants
  <2>7. Straight(y, n, N, L) => Holding(sendRREQ(y, n, d, Diameter, u), y, n, N, L)
    BY <2>4, AsksStraight, Constants DEF Fit
  <2> QED
    BY <2>1, <2>5, <2>6, <2>7 DEF Fit, Holding, Keeps
<1>3. CASE ~(e.retries < RetryMax)
  <2> DEFINE y == Rebuffer(s, d, None)
  <2>1. x = DropAll(y, e.pkts)
    BY <1>3 DEF Retried, Rebuffer
  <2>2. For(Buffered(None), d) /\ Len(Buffered(None)) <= BufferMax
    BY Constants DEF For, Buffered
  <2>3. FitBut(y, n, {}) /\ y \in State
    BY <1>0, <2>2, RebufferFit DEF FitBut
  <2>4. Straight(s, n, N, L) => Holding(y, s, n, N, L)
    BY <1>0, RebufferStraight
  <2> HIDE DEF y, x, e
  <2>5. /\ FitBut(DropAll(y, e.pkts), n, {})
        /\ Straight(y, n, N, L) => Holding(DropAll(y, e.pkts), y, n, N, L)
    BY <1>1, <2>3, DropAllFit
  <2> QED
    BY <2>1, <2>4, <2>5 DEF Fit, Holding, Keeps
<1> QED
  BY <1>2, <1>3

(* A repair was not done in time. *)
Failed(s, d) ==
  LET e == s.repair[d]
      y == DropAll([Unrepaired(s, d) EXCEPT !.repair[d] = None], e.pkts)
  IN  IF e.broken = None THEN y ELSE Broken(y, e.broken)

LEMMA BrokenFit ==
  ASSUME NEW n \in Node, NEW s, Fit(s, n), NEW k \in Node
  PROVE  Fit(Broken(s, k), n)
<1> DEFINE ds == {d \in Node : Has(s, d) /\ s.rt[d].next = k}
           t == [d \in Node |-> IF d \in ds /\ Valid(s, d)
                  THEN [s.rt[d] EXCEPT !.flag = "invalid", !.seqno = @ + 1] ELSE s.rt[d]]
           y == [s EXCEPT !.rt = t]
           f == RERR(None, ds)
<1>0. s \in State /\ \A d \in Node : s.rt[d] \in Route \cup {None}
  BY Fields DEF Fit, FitBut
<1>1. Broken(s, k) = Put(y, f)
  BY DEF Broken
<1>2. ds \in SUBSET Node
  OBVIOUS
<1> HIDE DEF ds
<1>3. f \in RERRs /\ f.type = "rerr"
  BY <1>2 DEF RERR, RERRs
<1> HIDE DEF f
<1>4. Proper(f, n)
  BY <1>3 DEF Proper, Frame
<1>5. \A r \in Route : LET q == [r EXCEPT !.flag = "invalid", !.seqno = @ + 1]
                       IN  q \in Route /\ q.flag = "invalid" /\ q.known = r.known /\ q.seqno = r.seqno + 1
  <2> SUFFICES ASSUME NEW r \in Route
               PROVE  LET q == [r EXCEPT !.flag = "invalid", !.seqno = @ + 1]
                      IN  q \in Route /\ q.flag = "invalid" /\ q.known = r.known /\ q.seqno = r.seqno + 1
    OBVIOUS
  <2>1. r.seqno + 1 \in Nat
    BY DEF Route
  <2> QED
    BY <2>1 DEF Route, Flag
<1>6. ASSUME NEW d \in Node
      PROVE  /\ t[d] \in Route \cup {None}
             /\ t[d] = None <=> s.rt[d] = None
             /\ Has(s, d) => /\ t[d].flag \in {s.rt[d].flag, "invalid"}
                             /\ t[d].known = s.rt[d].known
                             /\ t[d].seqno >= s.rt[d].seqno
  <2>1. CASE d \in ds /\ Valid(s, d)
    <3>1. s.rt[d] \in Route /\ s.rt[d] # None /\ s.rt[d].seqno \in Nat
      BY <1>0, <2>1, RouteOf DEF Has, Valid
    <3>2. t[d] = [s.rt[d] EXCEPT !.flag = "invalid", !.seqno = @ + 1]
      BY <2>1
    <3>3. t[d] \in Route /\ t[d].flag = "invalid" /\ t[d].known = s.rt[d].known /\ t[d].seqno = s.rt[d].seqno + 1
      BY <1>5, <3>1, <3>2
    <3> QED
      BY <3>1, <3>3, NoneOf
  <2>2. CASE ~(d \in ds /\ Valid(s, d))
    <3>1. t[d] = s.rt[d]
      BY <2>2
    <3>2. Has(s, d) => s.rt[d].seqno \in Nat
      BY <1>0, RouteOf
    <3> HIDE DEF t
    <3> QED
      BY <1>0, <3>1, <3>2
  <2> QED
    BY <2>1, <2>2
<1>7. t \in [Node -> Route \cup {None}]
  BY <1>6
<1> HIDE DEF t
<1>8. Fit(y, n)
  BY <1>6, <1>7, RoutesFit
<1> QED
  BY <1>1, <1>4, <1>8, PutFit DEF Fit

LEMMA FailedFit ==
  ASSUME NEW n \in Node, NEW s, Fit(s, n), NEW d \in Node, s.repair[d] # None
  PROVE  Fit(Failed(s, d), n)
<1> DEFINE e == s.repair[d]
           a == Unrepaired(s, d)
           z == Resave(a, d, None)
           y == DropAll(z, e.pkts)
<1>0. s \in State /\ FitBut(s, n, {}) /\ FitBut(s, n, {d}) /\ Guard(s, d) /\ d # n
  BY DEF Fit, FitBut, Filed
<1>1. e \in Repairing /\ e.pkts \in Seq(Bundle) /\ e.broken \in Node
  <2>1. e \in Repairing
    BY <1>0, Fields
  <2>2. e.broken # None
    BY <1>0 DEF Guard
  <2> QED
    BY <2>1, <2>2 DEF Repairing
<1>2. FitBut(a, n, {d}) /\ ~(Has(a, d) /\ a.rt[d].flag = "repaired")
  <2>1. CASE ~Has(s, d)
    BY <1>0, <2>1 DEF Unrepaired
  <2>2. CASE Has(s, d)
    <3> DEFINE q == s.rt[d]
               i == IF q.known THEN q.seqno - 1 ELSE q.seqno
               r == [q EXCEPT !.flag = "invalid", !.seqno = i]
    <3>1. q \in Route /\ q.seqno \in Nat /\ (q.known => q.seqno > 0)
      BY <1>0, <2>2, RouteOf DEF Guard
    <3>2. a = Reroute(s, d, r)
      BY <1>0, <2>2 DEF Unrepaired, Reroute, State
    <3> HIDE DEF q
    <3>3. i \in Nat
      BY <3>1
    <3> HIDE DEF i
    <3>4. r \in Route /\ r.flag = "invalid"
      BY <3>1, <3>3 DEF Route, Flag
    <3> HIDE DEF r
    <3>5. FitBut(Reroute(s, d, r), n, {d})
      BY <1>0, <3>4, RouteFit
    <3>6. Reroute(s, d, r).rt[d] = r
      BY <1>0, <3>4, Rerouted
    <3> QED
      BY <3>2, <3>4, <3>5, <3>6
  <2> QED
    BY <2>1, <2>2
<1>3. Failed(s, d) = IF e.broken = None THEN y ELSE Broken(y, e.broken)
  BY DEF Failed, Resave
<1> HIDE DEF a, e
<1>4. FitBut(z, n, {})
  <2>1. For(Buffered(None), d) /\ Len(Buffered(None)) <= BufferMax
    BY Constants DEF For, Buffered
  <2>2. FitBut(z, n, {d})
    BY <1>2, <2>1, ResaveFit
  <2>3. z.rt = a.rt /\ z.repair[d] = None
    BY <1>2, Resaved DEF FitBut
  <2>4. Guard(z, d)
    BY <1>2, <2>3 DEF Guard, Has
  <2> HIDE DEF z
  <2> QED
    BY <2>2, <2>4 DEF FitBut
<1> HIDE DEF z
<1>5. Fit(y, n)
  BY <1>1, <1>4, DropAllFit DEF Fit
<1> HIDE DEF y
<1>6. Fit(Broken(y, e.broken), n)
  BY <1>1, <1>5, BrokenFit
<1> QED
  BY <1>3, <1>5, <1>6

(* A route ages. *)
LEMMA AgedFit ==
  ASSUME NEW n \in Node, NEW s, Fit(s, n), NEW d \in Node \ {n}, Has(s, d), s.rt[d].flag # "repaired"
  PROVE  Fit([s EXCEPT !.rt[d] = IF @.flag = "valid" THEN [@ EXCEPT !.flag = "invalid"] ELSE None], n)
<1> DEFINE q == s.rt[d]
           r == IF q.flag = "valid" THEN [q EXCEPT !.flag = "invalid"] ELSE None
           x == Reroute(s, d, r)
<1>0. s \in State /\ FitBut(s, n, {}) /\ Guard(s, d)
  BY DEF Fit, FitBut
<1>1. q \in Route /\ q.seqno \in Nat
  BY <1>0, RouteOf
<1>2. [s EXCEPT !.rt[d] = IF @.flag = "valid" THEN [@ EXCEPT !.flag = "invalid"] ELSE None] = x
  BY <1>0 DEF Reroute, State
<1> HIDE DEF q
<1>3. \/ r = None
      \/ r \in Route /\ r # None /\ r.flag = "invalid" /\ r.known = q.known /\ r.seqno = q.seqno
  <2> DEFINE p == [q EXCEPT !.flag = "invalid"]
  <2>1. p \in Route /\ p.flag = "invalid" /\ p.known = q.known /\ p.seqno = q.seqno
    BY <1>1 DEF Route, Flag
  <2>2. r = None \/ r = p
    OBVIOUS
  <2> HIDE DEF p, r
  <2> QED
    BY <2>1, <2>2, NoneOf
<1> HIDE DEF r, x
<1>4. /\ x \in State /\ x.rt[d] = r /\ \A e \in Node : e # d => x.rt[e] = s.rt[e]
      /\ SameBuffers(x, s) /\ SameWay(x, s)
  BY <1>0, <1>3, Rerouted DEF x
<1>5. Queues(x, n) /\ Filed(x, n) /\ Within(x)
  BY <1>0, <1>4 DEF FitBut, SameBuffers, SameWay, Queues, Filed, Within
<1>6. \A e \in Node : Guard(x, e)
  BY <1>0, <1>3, <1>4 DEF FitBut, Guard, Has, SameBuffers, q
<1>7. Rooted(x, n)
  BY <1>0, <1>4 DEF FitBut, Rooted, Has
<1> QED
  BY <1>2, <1>4, <1>5, <1>6, <1>7 DEF Fit, FitBut

(* A greeting goes out. *)
LEMMA GreetFit ==
  ASSUME NEW n \in Node, NEW s, Fit(s, n), NEW N, NEW L
  PROVE  LET x == Put(s, HELLO(Seqno(s, n)))
         IN  Fit(x, n) /\ (Straight(s, n, N, L) => Holding(x, s, n, N, L))
<1> DEFINE f == HELLO(Seqno(s, n))
<1>0. s \in State /\ FitBut(s, n, {})
  BY DEF Fit, FitBut
<1>1. Seqno(s, n) \in Nat /\ Seqno(s, n) > 0
  BY <1>0, RouteOf DEF FitBut, Rooted, Seqno
<1>2. f \in HELLOs /\ f.type = "hello" /\ f.seq > 0
  BY <1>1 DEF HELLO, HELLOs
<1> HIDE DEF f
<1>3. Proper(f, n) /\ f \in Frame /\ Goes(f, s, n, N, L)
  BY <1>2 DEF Proper, Frame, Goes
<1>4. FitBut(Put(s, f), n, {}) /\ (Straight(s, n, N, L) => Holding(Put(s, f), s, n, N, L))
  BY <1>0, <1>3, PutFit, PutStraight
<1> QED
  BY <1>4 DEF Fit, f

-----------------------------------------------------------------------------
(* All nodes together. *)
Kinds == DOMAIN NoTrouble
Calm == trouble.moved = 0 /\ trouble.lost = 0 /\ trouble.aged = 0

Safe == /\ st \in [Node -> State] /\ \A n \in Node : Fit(st[n], n)
        /\ link \subseteq SUBSET Node /\ sent \subseteq Packet /\ trouble \in [Kinds -> Nat]

(* Who is at d or has a route to it. *)
Lead == {kd \in Node \X Node : kd[1] = kd[2] \/ Valid(st[kd[1]], kd[2])}

(* As long as nothing failed every way is straight. *)
Going == Calm => \A n \in Node : Straight(st[n], n, Neighbours(n), Lead)

LEMMA KindsAre ==
  Kinds = {"moved", "lost", "aged", "greeted", "early"}
  BY DEF Kinds, NoTrouble

LEMMA Counted ==
  ASSUME trouble \in [Kinds -> Nat], NEW k \in Kinds, NEW n \in Nat, Happens(k, n)
  PROVE  /\ trouble' \in [Kinds -> Nat]
         /\ Calm' => Calm /\ (k \in {"moved", "lost", "aged"} => n = 0)
<1>1. trouble' = [trouble EXCEPT ![k] = @ + n]
  BY DEF Happens
<1>2. trouble[k] + n \in Nat /\ trouble[k] \in Nat
  OBVIOUS
<1>3. trouble' \in [Kinds -> Nat] /\ \A j \in Kinds : trouble'[j] = IF j = k THEN trouble[k] + n ELSE trouble[j]
  BY <1>1, <1>2
<1>4. \A j \in Kinds : trouble'[j] = 0 => trouble[j] = 0 /\ (j = k => n = 0)
  BY <1>2, <1>3
<1>5. Calm <=> trouble["moved"] = 0 /\ trouble["lost"] = 0 /\ trouble["aged"] = 0
  BY DEF Calm
<1>6. Calm' <=> trouble'["moved"] = 0 /\ trouble'["lost"] = 0 /\ trouble'["aged"] = 0
  BY DEF Calm
<1> QED
  BY <1>3, <1>4, <1>5, <1>6, KindsAre

LEMMA WiderStraight ==
  ASSUME NEW n \in Node, NEW N, NEW L, NEW M, L \subseteq M, NEW s, Straight(s, n, N, L)
  PROVE  Straight(s, n, N, M)
  BY DEF Straight, Led, Goes

LEMMA Leading ==
  ASSUME NEW k \in Node, NEW d \in Node
  PROVE  <<k, d>> \in Lead <=> k = d \/ Valid(st[k], d)
  BY DEF Lead

LEMMA AllStep ==
  ASSUME Going, st' \in [Node -> State], link' \subseteq SUBSET Node, sent' \subseteq Packet,
         trouble' \in [Kinds -> Nat], \A m \in Node : Fit(st'[m], m),
         Calm' => /\ Calm /\ link' = link
                  /\ \A m \in Node : Straight(st[m], m, Neighbours(m), Lead)
                       => Holding(st'[m], st[m], m, Neighbours(m), Lead)
  PROVE  Safe' /\ Going'
<1>1. Safe'
  BY DEF Safe
<1>2. ASSUME Calm', NEW m \in Node
      PROVE  Straight(st'[m], m, Neighbours(m)', Lead')
  <2>1. \A k \in Node : Holding(st'[k], st[k], k, Neighbours(k), Lead)
    BY <1>2 DEF Going
  <2>2. Lead \subseteq Lead'
    <3> SUFFICES ASSUME NEW k \in Node, NEW d \in Node, k = d \/ Valid(st[k], d)
                 PROVE  k = d \/ Valid(st'[k], d)
      BY DEF Lead
    <3> QED
      BY <2>1 DEF Holding, Keeps
  <2>3. Neighbours(m)' = Neighbours(m)
    BY <1>2 DEF Neighbours
  <2>4. Straight(st'[m], m, Neighbours(m), Lead)
    BY <2>1 DEF Holding
  <2> QED
    BY <2>2, <2>3, <2>4, WiderStraight
<1> QED
  BY <1>1, <1>2 DEF Going

LEMMA OneStep ==
  ASSUME Safe, Going, NEW n \in Node, NEW x, st' = [st EXCEPT ![n] = x], Fit(x, n),
         link' = link, sent' \subseteq Packet, trouble' \in [Kinds -> Nat],
         Calm' => /\ Calm
                  /\ Straight(st[n], n, Neighbours(n), Lead) => Holding(x, st[n], n, Neighbours(n), Lead)
  PROVE  Safe' /\ Going'
<1>1. x \in State /\ st \in [Node -> State] /\ \A m \in Node : Fit(st[m], m)
  BY DEF Fit, FitBut, Safe
<1>2. st' \in [Node -> State] /\ \A m \in Node : st'[m] = IF m = n THEN x ELSE st[m]
  BY <1>1
<1>3. \A m \in Node : Fit(st'[m], m)
  BY <1>1, <1>2
<1>4. \A m \in Node : Straight(st[m], m, Neighbours(m), Lead) => Holding(st[m], st[m], m, Neighbours(m), Lead)
  BY DEF Holding, Keeps
<1>5. link' \subseteq SUBSET Node
  BY DEF Safe
<1> QED
  BY <1>2, <1>3, <1>4, <1>5, AllStep

(* What every handler keeps: each node's state is fit, and while no link   *)
(* changed, no frame was lost and no route aged, all ways are straight.    *)
LEMMA SafeInit == Init => Safe /\ Going
<1> SUFFICES ASSUME Init PROVE Safe /\ Going
  OBVIOUS
<1> DEFINE T(n) == [d \in Node |-> IF d = n THEN RouteVia(n, 1, 0) ELSE None]
           E == [d \in Node |-> None]
<1>1. ASSUME NEW n \in Node
      PROVE  Fit(Start(n), n) /\ Start(n) \in State /\ \A N, L : Straight(Start(n), n, N, L)
  <2> DEFINE r == RouteVia(n, 1, 0)
             x == Start(n)
  <2>1. r \in Route /\ r # None /\ r.flag = "valid" /\ r.known /\ r.seqno = 1
    BY RouteViaType
  <2> HIDE DEF r
  <2>2. /\ T(n) \in [Node -> Route \cup {None}] /\ T(n)[n] = r
        /\ \A d \in Node : d # n => T(n)[d] = None
    BY <2>1 DEF r
  <2>3. /\ E \in [Node -> Request \cup {None}] /\ E \in [Node -> Waiting \cup {None}]
        /\ E \in [Node -> Repairing \cup {None}] /\ \A d \in Node : E[d] = None
    OBVIOUS
  <2>4. x = [rt |-> T(n), seen |-> E, rreqId |-> 0, ctrl |-> E, repair |-> E,
             air |-> <<>>, rd |-> <<>>, up |-> {}, dropped |-> {}]
    BY DEF Start
  <2>5. <<>> \in Seq(Frame) /\ <<>> \in Seq(DATAs) /\ 0 \in Nat
    BY EmptySeq
  <2> HIDE DEF T, E, x
  <2>6. /\ x \in State /\ x.rt = T(n) /\ x.ctrl = E /\ x.repair = E /\ x.air = <<>> /\ x.rd = <<>>
    BY <2>2, <2>3, <2>4, <2>5 DEF State
  <2>7. Queues(x, n)
    BY <2>6 DEF Queues
  <2>8. Filed(x, n) /\ Within(x)
    BY <2>3, <2>6, Constants DEF Filed, Within, For, Buffered
  <2>9. \A d \in Node : Guard(x, d)
    BY <2>1, <2>2, <2>3, <2>6 DEF Guard, Has
  <2>10. Rooted(x, n)
    BY <2>1, <2>2, <2>6 DEF Rooted, Has
  <2>11. \A N, L : Straight(x, n, N, L)
    BY <2>1, <2>2, <2>3, <2>6 DEF Straight, Led, Has
  <2> QED
    BY <2>6, <2>7, <2>8, <2>9, <2>10, <2>11 DEF Fit, FitBut, x
<1>2. st \in [Node -> State] /\ \A n \in Node : st[n] = Start(n)
  BY <1>1 DEF Init
<1>3. trouble \in [Kinds -> Nat]
  BY DEF Init, NoTrouble, Kinds
<1>4. link \subseteq SUBSET Node /\ sent \subseteq Packet
  BY AodvConstants DEF Init
<1> QED
  BY <1>1, <1>2, <1>3, <1>4 DEF Safe, Going

LEMMA SendStep ==
  ASSUME Safe, Going, NEW p \in Packet, Send(p)
  PROVE  Safe' /\ Going'
<1> DEFINE n == Src[p]
           d == Dst[p]
           b == Carried(p, Ttl, None)
<1>1. n \in Node /\ d \in Node \ {n} /\ Ttl \in Nat
  BY Constants
<1>2. b \in Bundle /\ Dst[b.id] = d
  BY <1>1, Constants DEF Carried, Bundle
<1>3. PICK u \in Unset : st' = [st EXCEPT ![n] = Sending(st[n], n, d, b, u)]
  BY DEF Send, Sending
<1> HIDE DEF n, d, b
<1> DEFINE x == Sending(st[n], n, d, b, u)
<1>4. Fit(st[n], n)
  BY <1>1 DEF Safe
<1>5. /\ Fit(x, n)
      /\ Straight(st[n], n, Neighbours(n), Lead) => Holding(x, st[n], n, Neighbours(n), Lead)
  BY <1>1, <1>2, <1>4, SendingFit
<1>6. link' = link /\ trouble' = trouble /\ sent' \subseteq Packet
  BY DEF Send, Safe
<1>7. trouble' \in [Kinds -> Nat] /\ (Calm' => Calm)
  BY <1>6 DEF Safe, Calm
<1> HIDE DEF x
<1> QED
  BY <1>1, <1>3, <1>5, <1>6, <1>7, OneStep DEF x

(* The head of a node's frames and what is right about it. *)
LEMMA HeadFrame ==
  ASSUME Safe, NEW n \in Node, st[n].air # <<>>
  PROVE  LET f == Head(st[n].air)
         IN  /\ Proper(f, n) /\ f \in Frame
             /\ \A N, L : Straight(st[n], n, N, L) => Goes(f, st[n], n, N, L)
<1> DEFINE s == st[n]
<1>1. s \in State /\ Queues(s, n)
  BY DEF Safe, Fit, FitBut
<1> HIDE DEF s
<1>2. s.air # <<>>
  BY DEF s
<1>3. 1 \in DOMAIN s.air /\ Head(s.air) = s.air[1]
  BY <1>1, <1>2, Fields
<1>4. Proper(Head(s.air), n)
  BY <1>1, <1>3 DEF Queues
<1>5. \A N, L : Straight(s, n, N, L) => Goes(Head(s.air), s, n, N, L)
  BY <1>3 DEF Straight
<1> QED
  BY <1>4, <1>5 DEF s, Proper

LEMMA NeighboursAre ==
  ASSUME NEW n \in Node
  PROVE  /\ Neighbours(n) \subseteq Node \ {n} /\ IsFiniteSet(Neighbours(n))
         /\ \A k \in Neighbours(n) : n \in Neighbours(k)
<1>1. Neighbours(n) \subseteq Node \ {n}
  BY DEF Neighbours
<1>2. \A k : {n, k} = {k, n}
  OBVIOUS
<1> QED
  BY <1>1, <1>2, Constants, FS_Subset DEF Neighbours

(* Some neighbours hear a frame. *)
LEMMA HeardStep ==
  ASSUME Safe, Going, NEW n \in Node, st[n].air # <<>>, NEW got, got \subseteq Neighbours(n),
         st' = Heard(n, got), link' = link, sent' = sent, trouble' \in [Kinds -> Nat], Calm' => Calm
  PROVE  Safe' /\ Going'
<1> DEFINE f == Head(st[n].air)
           x(k) == IF k = n THEN Sent(st[n]) ELSE IF k \in got THEN recv(st[k], k, n, f) ELSE st[k]
<1>1. /\ Proper(f, n) /\ f \in Frame
      /\ \A N, L : Straight(st[n], n, N, L) => Goes(f, st[n], n, N, L)
  BY HeadFrame
<1>2. st' = [k \in Node |-> x(k)]
  BY DEF Heard
<1> HIDE DEF f
<1>3. ASSUME NEW k \in Node
      PROVE  /\ Fit(x(k), k)
             /\ Calm /\ Straight(st[k], k, Neighbours(k), Lead)
                  => Holding(x(k), st[k], k, Neighbours(k), Lead)
  <2>0. Fit(st[k], k)
    BY DEF Safe
  <2>1. CASE k = n
    <3>1. x(k) = Sent(st[k])
      BY <2>1
    <3> HIDE DEF x
    <3> QED
      BY <2>0, <2>1, <3>1, SentOn
  <2>2. CASE k # n /\ k \in got
    <3>1. x(k) = recv(st[k], k, n, f)
      BY <2>2
    <3> HIDE DEF x
    <3>2. n \in Node \ {k} /\ n \in Neighbours(k) /\ <<n, n>> \in Lead
      BY <2>2, NeighboursAre, Leading
    <3>3. ASSUME Calm
          PROVE  /\ f.type # "rerr"
                 /\ f.type = "rreq" => <<n, f.orig>> \in Lead
                 /\ f.type = "rrep" => <<n, f.dst>> \in Lead
      <4>1. Goes(f, st[n], n, Neighbours(n), Lead)
        BY <1>1, <3>3 DEF Going
      <4>2. (f.type = "rreq" => f.orig \in Node) /\ (f.type = "rrep" => f.dst \in Node)
        BY <1>1, FrameKinds DEF RREQs, RREPs
      <4> QED
        BY <4>1, <4>2, Leading DEF Goes
    <3> QED
      BY <1>1, <2>0, <3>1, <3>2, <3>3, HeardFit
  <2>3. CASE k # n /\ k \notin got
    <3>1. x(k) = st[k]
      BY <2>3
    <3> HIDE DEF x
    <3> QED
      BY <2>0, <3>1 DEF Holding, Keeps
  <2> QED
    BY <2>1, <2>2, <2>3
<1> HIDE DEF x
<1>4. \A k \in Node : st'[k] = x(k) /\ x(k) \in State
  BY <1>2, <1>3 DEF Fit, FitBut
<1>5. st' \in [Node -> State]
  BY <1>2, <1>4
<1>6. \A k \in Node : Fit(st'[k], k)
  BY <1>3, <1>4
<1>7. Calm' => \A k \in Node : Straight(st[k], k, Neighbours(k), Lead)
                                 => Holding(st'[k], st[k], k, Neighbours(k), Lead)
  BY <1>3, <1>4
<1> QED
  BY <1>5, <1>6, <1>7, AllStep DEF Safe

LEMMA BroadcastStep ==
  ASSUME Safe, Going, NEW n \in Node, Broadcast(n)
  PROVE  Safe' /\ Going'
<1>1. PICK got \in SUBSET Neighbours(n) :
        /\ Happens("lost", Cardinality(Neighbours(n) \ got)) /\ st' = Heard(n, got)
  BY DEF Broadcast
<1>2. Cardinality(Neighbours(n) \ got) \in Nat
  BY NeighboursAre, FS_Subset, FS_CardinalityType
<1>3. "lost" \in Kinds
  BY KindsAre
<1>4. trouble' \in [Kinds -> Nat] /\ (Calm' => Calm)
  BY <1>1, <1>2, <1>3, Counted DEF Safe
<1> QED
  BY <1>1, <1>4, HeardStep DEF Broadcast

LEMMA UnicastStep ==
  ASSUME Safe, Going, NEW n \in Node, Unicast(n)
  PROVE  Safe' /\ Going'
<1>1. {Head(st[n].air).to} \subseteq Neighbours(n)
  BY DEF Unicast
<1>2. trouble' \in [Kinds -> Nat] /\ (Calm' => Calm)
  BY DEF Unicast, Safe, Calm
<1> QED
  BY <1>1, <1>2, HeardStep DEF Unicast

(* What a failure does: the frame is gone, and a packet is dropped or      *)
(* called back by the node whose handler it has.                           *)
LEMMA FailsAt ==
  ASSUME Safe, NEW n \in Node, Fails(n)
  PROVE  LET f == Head(st[n].air)
             s == Sent(st[n])
             h == f.pkt.caught
             t == [st EXCEPT ![n] = s]
         IN  \/ f.type # "data" /\ st' = t
             \/ f.type = "data" /\ st' = [st EXCEPT ![n] = Drop(s, f.pkt)]
             \/ /\ f.type = "data" /\ h \in Node /\ Dst[f.pkt.id] # h
                /\ \E u \in Unset : st' = [t EXCEPT ![h] = LinkLayerCall(t[h], h, f.to, f.pkt, u)]
<1> DEFINE f == Head(st[n].air)
           s == Sent(st[n])
           h == f.pkt.caught
           t == [st EXCEPT ![n] = s]
<1>1. f \in Frame
  BY HeadFrame DEF Fails
<1>2. \/ f.type # "data" /\ st' = t
      \/ f.type = "data" /\ h = None /\ st' = [st EXCEPT ![n] = Drop(s, f.pkt)]
      \/ /\ f.type = "data" /\ h # None
         /\ \E u \in Unset : st' = [t EXCEPT ![h] = LinkLayerCall(t[h], h, f.to, f.pkt, u)]
  BY DEF Fails
<1>3. f.type = "data" /\ h # None => h \in Node /\ Dst[f.pkt.id] # h
  <2> DEFINE b == f.pkt
  <2>1. f.type = "data" => b \in Bundle
    BY <1>1, FrameKinds
  <2>2. f.type = "data" => b.caught \in Node \cup {None} /\ b.caught # Dst[b.id]
    <3> HIDE DEF b
    <3> QED
      BY <2>1, BundleIs
  <2> QED
    BY <2>2
<1> HIDE DEF f, s
<1> QED
  BY <1>2, <1>3 DEF f, s

(* A frame that is not delivered: no straight way leads there. *)
LEMMA FailsStep ==
  ASSUME Safe, Going, NEW n \in Node, Fails(n)
  PROVE  Safe' /\ Going'
<1> DEFINE f == Head(st[n].air)
           s == Sent(st[n])
           h == f.pkt.caught
           t == [st EXCEPT ![n] = s]
           c == IF f.to \in Neighbours(n) THEN 1 ELSE 0
<1>0. Happens("lost", c) /\ f.to # None /\ st[n].air # <<>>
  BY DEF Fails
<1>1. /\ Proper(f, n) /\ f \in Frame
      /\ \A N, L : Straight(st[n], n, N, L) => Goes(f, st[n], n, N, L)
  BY <1>0, HeadFrame
<1>2. \/ f.type # "data" /\ st' = t
      \/ f.type = "data" /\ st' = [st EXCEPT ![n] = Drop(s, f.pkt)]
      \/ /\ f.type = "data" /\ h \in Node /\ Dst[f.pkt.id] # h
         /\ \E u \in Unset : st' = [t EXCEPT ![h] = LinkLayerCall(t[h], h, f.to, f.pkt, u)]
  BY FailsAt
<1>3. Fit(s, n) /\ s \in State
  BY <1>0, SentOn DEF Safe, Fit, FitBut
<1> HIDE DEF f, s, h
<1>4. f.type = "data" => f.pkt \in Bundle /\ f.to \in Node
  BY <1>1, FrameKinds
<1>5. st \in [Node -> State] /\ \A m \in Node : Fit(st[m], m)
  BY DEF Safe
<1>6. t \in [Node -> State] /\ \A m \in Node : Fit(t[m], m)
  BY <1>3, <1>5
<1> HIDE DEF t
<1>7. st' \in [Node -> State] /\ \A m \in Node : Fit(st'[m], m)
  <2>1. CASE st' = t
    BY <1>6, <2>1
  <2>2. CASE f.type = "data" /\ st' = [st EXCEPT ![n] = Drop(s, f.pkt)]
    <3> DEFINE x == Drop(s, f.pkt)
    <3>1. Fit(x, n)
      BY <1>3, <1>4, <2>2, DropFit DEF Fit
    <3>2. x \in State
      BY <3>1 DEF Fit, FitBut
    <3> HIDE DEF x
    <3>3. st' = [st EXCEPT ![n] = x]
      BY <2>2 DEF x
    <3> QED
      BY <1>5, <3>1, <3>2, <3>3
  <2>3. ASSUME f.type = "data", h \in Node, Dst[f.pkt.id] # h, NEW u \in Unset,
               st' = [t EXCEPT ![h] = LinkLayerCall(t[h], h, f.to, f.pkt, u)]
        PROVE  st' \in [Node -> State] /\ \A m \in Node : Fit(st'[m], m)
    <3> DEFINE x == LinkLayerCall(t[h], h, f.to, f.pkt, u)
    <3>1. Fit(x, h)
      BY <1>4, <1>6, <2>3, CallFit
    <3>2. x \in State
      BY <3>1 DEF Fit, FitBut
    <3>3. st' = [t EXCEPT ![h] = x]
      BY <2>3
    <3> HIDE DEF x
    <3> QED
      BY <1>6, <3>1, <3>2, <3>3
  <2> QED
    BY <1>2, <2>1, <2>2, <2>3
<1>8. c \in Nat /\ "lost" \in Kinds
  BY KindsAre
<1> HIDE DEF c
<1>9. trouble' \in [Kinds -> Nat] /\ (Calm' => Calm /\ c = 0)
  BY <1>0, <1>8, Counted DEF Safe
<1>10. ~Calm'
  <2> SUFFICES ASSUME Calm' PROVE FALSE
    OBVIOUS
  <2>1. f.to \notin Neighbours(n)
    BY <1>9 DEF c
  <2>2. Goes(f, st[n], n, Neighbours(n), Lead)
    BY <1>1, <1>9 DEF Going
  <2>3. f.type \in {"rreq", "hello"} => f.to = None
    BY <1>1, FrameKinds DEF RREQs, HELLOs
  <2> QED
    BY <1>0, <1>1, <2>1, <2>2, <2>3, FrameKinds DEF Goes
<1>11. link' \subseteq SUBSET Node /\ sent' \subseteq Packet
  BY DEF Fails, Safe
<1> QED
  BY <1>7, <1>9, <1>10, <1>11, AllStep

LEMMA ExpiresCounts ==
  ASSUME Safe, Expires
  PROVE  trouble' \in [Kinds -> Nat] /\ (Calm' => Calm)
<1> DEFINE c == IF Quiet THEN 0 ELSE 1
<1>1. Happens("early", c)
  BY DEF Expires
<1>2. c \in Nat /\ "early" \in Kinds
  BY KindsAre
<1> HIDE DEF c
<1> QED
  BY <1>1, <1>2, Counted DEF Safe

LEMMA RetryStep ==
  ASSUME Safe, Going, NEW n \in Node, NEW d \in Node, RREQ_retry(n, d)
  PROVE  Safe' /\ Going'
<1>1. PICK u \in Unset : st' = [st EXCEPT ![n] = Retried(st[n], n, d, u)]
  BY DEF RREQ_retry, Retried
<1> DEFINE x == Retried(st[n], n, d, u)
<1>2. Fit(st[n], n) /\ st[n].ctrl[d] # None
  BY DEF Safe, RREQ_retry
<1>3. /\ Fit(x, n)
      /\ Straight(st[n], n, Neighbours(n), Lead) => Holding(x, st[n], n, Neighbours(n), Lead)
  BY <1>2, RetriedFit
<1>4. trouble' \in [Kinds -> Nat] /\ (Calm' => Calm)
  BY ExpiresCounts DEF RREQ_retry
<1>5. link' = link /\ sent' \subseteq Packet
  BY DEF RREQ_retry, Safe
<1> HIDE DEF x
<1> QED
  BY <1>1, <1>3, <1>4, <1>5, OneStep DEF x

LEMMA RepairFailsStep ==
  ASSUME Safe, Going, NEW n \in Node, NEW d \in Node, RepairFails(n, d)
  PROVE  Safe' /\ Going'
<1> DEFINE x == Failed(st[n], d)
<1>1. st' = [st EXCEPT ![n] = x]
  BY DEF RepairFails, Failed
<1>2. Fit(st[n], n) /\ st[n].repair[d] # None
  BY DEF Safe, RepairFails
<1>3. Fit(x, n)
  BY <1>2, FailedFit
<1>4. trouble' \in [Kinds -> Nat] /\ (Calm' => Calm)
  BY ExpiresCounts DEF RepairFails
<1>5. link' = link /\ sent' \subseteq Packet
  BY DEF RepairFails, Safe
<1>6. ~Calm
  BY <1>2 DEF Going, Straight
<1> HIDE DEF x
<1> QED
  BY <1>1, <1>3, <1>4, <1>5, <1>6, OneStep

LEMMA RTTimerStep ==
  ASSUME Safe, Going, NEW n \in Node, NEW d \in Node, RTTimer(n, d)
  PROVE  Safe' /\ Going'
<1> DEFINE s == st[n]
           x == [s EXCEPT !.rt[d] = IF @.flag = "valid" THEN [@ EXCEPT !.flag = "invalid"] ELSE None]
<1>0. st \in [Node -> State] /\ Fit(st[n], n) /\ trouble \in [Kinds -> Nat] /\ sent \subseteq Packet
  BY DEF Safe
<1>1. st' = [st EXCEPT ![n] = x]
  BY <1>0 DEF RTTimer
<1>2. d \in Node \ {n} /\ Has(s, d) /\ s.rt[d].flag # "repaired"
  BY DEF RTTimer
<1> HIDE DEF s
<1>3. Fit(x, n)
  BY <1>0, <1>2, AgedFit DEF s
<1>4. Happens("aged", 1) /\ "aged" \in Kinds /\ 1 \in Nat /\ link' = link /\ sent' = sent
  BY KindsAre DEF RTTimer
<1>5. trouble' \in [Kinds -> Nat] /\ ~Calm'
  BY <1>0, <1>4, Counted
<1> HIDE DEF x
<1> QED
  BY <1>0, <1>1, <1>3, <1>4, <1>5, OneStep

LEMMA HelloStep ==
  ASSUME Safe, Going, NEW n \in Node, sendHello(n)
  PROVE  Safe' /\ Going'
<1> DEFINE x == Put(st[n], HELLO(Seqno(st[n], n)))
<1>1. st' = [st EXCEPT ![n] = x]
  BY DEF sendHello
<1>2. /\ Fit(x, n)
      /\ Straight(st[n], n, Neighbours(n), Lead) => Holding(x, st[n], n, Neighbours(n), Lead)
  BY GreetFit DEF Safe
<1>3. Happens("greeted", 1) /\ "greeted" \in Kinds /\ 1 \in Nat
  BY KindsAre DEF sendHello
<1>4. trouble' \in [Kinds -> Nat] /\ (Calm' => Calm)
  BY <1>3, Counted DEF Safe
<1>5. link' = link /\ sent' \subseteq Packet
  BY DEF sendHello, Safe
<1> HIDE DEF x
<1> QED
  BY <1>1, <1>2, <1>4, <1>5, OneStep

LEMMA MoveStep ==
  ASSUME Safe, Going, NEW e \in MayMove, Move(e)
  PROVE  Safe' /\ Going'
<1>1. Happens("moved", 1) /\ "moved" \in Kinds /\ 1 \in Nat
  BY KindsAre DEF Move
<1>2. trouble' \in [Kinds -> Nat] /\ ~Calm'
  BY <1>1, Counted DEF Safe
<1>3. link' \subseteq SUBSET Node /\ st' = st /\ sent' = sent
  BY AodvConstants DEF Move, Safe
<1> QED
  BY <1>2, <1>3 DEF Safe, Going

LEMMA Invariance ==
  Safe /\ Going /\ [Next]_vars => Safe' /\ Going'
<1> SUFFICES ASSUME Safe, Going, [Next]_vars PROVE Safe' /\ Going'
  OBVIOUS
<1>1. CASE UNCHANGED vars
  BY <1>1 DEF vars, Safe, Going, Calm, Lead, Neighbours
<1>2. ASSUME NEW p \in Packet, Send(p) PROVE Safe' /\ Going'
  BY <1>2, SendStep
<1>3. ASSUME NEW n \in Node, Transmit(n) \/ sendHello(n) PROVE Safe' /\ Going'
  BY <1>3, BroadcastStep, UnicastStep, FailsStep, HelloStep DEF Transmit
<1>4. ASSUME NEW n \in Node, NEW d \in Node, RREQ_retry(n, d) \/ RepairFails(n, d) \/ RTTimer(n, d)
      PROVE  Safe' /\ Going'
  BY <1>4, RetryStep, RepairFailsStep, RTTimerStep
<1>5. ASSUME NEW e \in MayMove, Move(e) PROVE Safe' /\ Going'
  BY <1>5, MoveStep
<1> QED
  BY <1>1, <1>2, <1>3, <1>4, <1>5 DEF Next

LEMMA Always == Spec => [](Safe /\ Going)
<1>1. Init => Safe /\ Going
  BY SafeInit
<1>2. Safe /\ Going /\ [Next]_vars => Safe' /\ Going'
  BY Invariance
<1> QED
  BY <1>1, <1>2, PTL DEF Spec

(* Tables, frames and queues have their types, and buffers and queues      *)
(* never exceed their limits.                                              *)
THEOREM TypeCorrect == Spec => []TypeOK
<1>1. Safe => TypeOK
  BY DEF Safe, TypeOK, Fit, FitBut, Within, Kinds
<1> QED
  BY <1>1, Always, PTL

(* A route is being repaired only while its packets are kept and the       *)
(* broken link is remembered.                                              *)
THEOREM RepairsGuarded == Spec => []RepairGuarded
<1>1. Safe => RepairGuarded
  BY DEF Safe, RepairGuarded, Fit, FitBut, Guard
<1> QED
  BY <1>1, Always, PTL

(* While no link changed, no frame was lost and no route aged, routes and  *)
(* answers lead on, whatever the order of the frames.                      *)
THEOREM WaysLeadOn == Spec => []LeadsOn
<1>1. Safe /\ Going => LeadsOn
  <2> SUFFICES ASSUME Safe, Going, Calm, NEW n \in Node
               PROVE  /\ \A d \in Node \ {n} : Valid(st[n], d) =>
                           LET k == st[n].rt[d].next IN k = d \/ Valid(st[k], d)
                      /\ \A i \in DOMAIN st[n].air : LET f == st[n].air[i]
                           IN  f.type = "rrep" => f.to = f.orig \/ Valid(st[f.to], f.orig)
    BY DEF LeadsOn, Calm
  <2>1. Straight(st[n], n, Neighbours(n), Lead) /\ st[n] \in State
    BY DEF Going, Safe
  <2>2. ASSUME NEW d \in Node \ {n}, Valid(st[n], d)
        PROVE  st[n].rt[d].next = d \/ Valid(st[st[n].rt[d].next], d)
    <3>1. st[n].rt[d].next \in Node /\ <<st[n].rt[d].next, d>> \in Lead
      BY <2>1, <2>2, RouteOf DEF Straight, Led, Valid
    <3> QED
      BY <3>1, Leading
  <2>3. ASSUME NEW i \in DOMAIN st[n].air, st[n].air[i].type = "rrep"
        PROVE  st[n].air[i].to = st[n].air[i].orig \/ Valid(st[st[n].air[i].to], st[n].air[i].orig)
    <3> DEFINE f == st[n].air[i]
    <3>1. f \in Frame /\ Goes(f, st[n], n, Neighbours(n), Lead)
      BY <2>1, Fields DEF Straight
    <3> HIDE DEF f
    <3>2. f.type = "rrep"
      BY <2>3 DEF f
    <3>3. f.to \in Node /\ f.orig \in Node /\ <<f.to, f.orig>> \in Lead
      BY <3>1, <3>2, FrameKinds DEF Goes, RREPs
    <3> QED
      BY <3>3, Leading DEF f
  <2> QED
    BY <2>2, <2>3
<1> QED
  BY <1>1, Always, PTL

-----------------------------------------------------------------------------
(* Where the packets are.  Count tells a set with one member from the      *)
(* empty set and from larger ones.                                         *)
Count(A) == IF A = {} THEN 0 ELSE IF \E a \in A : A = {a} THEN 1 ELSE 2
In(S, p) == IF p \in S THEN 1 ELSE 0
Held(f, p) == IF Holds(f, p) THEN 1 ELSE 0
Is(q, p) == IF q = p THEN 1 ELSE 0

Framed(fs, p) == {i \in DOMAIN fs : Holds(fs[i], p)}
Kept(bs, p) == {i \in DOMAIN bs : bs[i].id = p}

(* How often a node has p. *)
Total(s, p) ==
  Count(Framed(s.air, p)) + Count(Framed(s.rd, p))
    + Count(Kept(Buffered(s.ctrl[Dst[p]]), p)) + Count(Kept(Buffered(s.repair[Dst[p]]), p))
    + In(s.up, p) + In(s.dropped, p)

(* What a handler does to the packets of a node: it keeps them all, or    *)
(* one comes.                                                              *)
Saves(x, s) == \A p \in Packet : Total(s, p) <= 1 => Total(x, p) = Total(s, p)
Takes(x, s, q) ==
  \A p \in Packet : IF p = q THEN Total(s, p) = 0 => Total(x, p) = 1
                     ELSE Total(s, p) <= 1 => Total(x, p) = Total(s, p)

LEMMA CountIs ==
  ASSUME NEW A
  PROVE  /\ Count(A) \in {0, 1, 2}
         /\ Count(A) = 0 <=> A = {}
         /\ Count(A) = 1 <=> \E a \in A : A = {a}
  BY DEF Count

(* The same, unless both are more than one. *)
Agree(c, d) == c <= 1 \/ d <= 1 => c = d

(* Positions in two parts of a sequence. *)
LEMMA Split ==
  ASSUME NEW m \in Nat, NEW n \in Nat, NEW C, C \subseteq 1 .. m + n,
         NEW A, A = C \cap (1 .. m), NEW B, B = {i \in 1 .. n : i + m \in C}
  PROVE  Agree(Count(C), Count(A) + Count(B))
<1> SUFFICES Count(C) <= 1 \/ Count(A) + Count(B) <= 1 => Count(C) = Count(A) + Count(B)
  BY DEF Agree
<1>1. \A c \in C : c \in A \/ (c - m \in B /\ c \notin A)
  OBVIOUS
<1>2. \A b \in B : b + m \in C /\ b + m \notin A /\ b \in Nat
  OBVIOUS
<1>3. A \subseteq C
  OBVIOUS
<1>4. \A c \in C : c \in Nat
  OBVIOUS
<1>5. CASE A = {}
  <2>1. B = {} => C = {}
    BY <1>1, <1>5
  <2>2. ASSUME NEW b \in B, B = {b} PROVE C = {b + m}
    <3>1. \A c \in C : c - m = b /\ c \in Nat
      BY <1>1, <1>4, <1>5, <2>2
    <3>2. b + m \in C /\ b \in Nat
      BY <1>2
    <3>3. \A c \in C : c = b + m
      BY <3>1, <3>2
    <3> QED
      BY <3>2, <3>3
  <2>3. ASSUME NEW c \in C, C = {c} PROVE B = {c - m} /\ c - m \in B
    <3>1. \A b \in B : b + m = c /\ b \in Nat
      BY <1>2, <2>3
    <3>2. c - m \in B /\ c \in Nat
      BY <1>1, <1>4, <1>5
    <3>3. \A b \in B : b = c - m
      BY <3>1, <3>2
    <3> QED
      BY <3>2, <3>3
  <2>4. C = {} => B = {}
    BY <1>2
  <2>5. Count(A) = 0 /\ Count(C) \in {0, 1, 2} /\ Count(B) \in {0, 1, 2}
    BY <1>5, CountIs
  <2>6. (Count(B) = 0 <=> Count(C) = 0) /\ (Count(B) = 1 <=> Count(C) = 1)
    <3>1. \A b \in B : B = {b} => b + m \in C /\ C = {b + m}
      BY <1>2, <2>2
    <3>2. \A c \in C : C = {c} => c - m \in B /\ B = {c - m}
      BY <2>3
    <3>3. Count(B) = 0 <=> B = {}
      BY CountIs
    <3>4. Count(C) = 0 <=> C = {}
      BY CountIs
    <3>5. Count(B) = 1 <=> \E b \in B : B = {b}
      BY CountIs
    <3>6. Count(C) = 1 <=> \E c \in C : C = {c}
      BY CountIs
    <3>7. B = {} <=> C = {}
      BY <2>1, <2>4
    <3>8. (\E b \in B : B = {b}) => \E c \in C : C = {c}
      BY <3>1
    <3>9. (\E c \in C : C = {c}) => \E b \in B : B = {b}
      BY <3>2
    <3> QED
      BY <3>3, <3>4, <3>5, <3>6, <3>7, <3>8, <3>9
  <2> QED
    BY <2>5, <2>6
<1>6. CASE A # {} /\ B = {}
  <2>1. A = C
    BY <1>1, <1>3, <1>6
  <2>2. Count(B) = 0 /\ Count(C) \in {0, 1, 2}
    BY <1>6, CountIs
  <2> QED
    BY <2>1, <2>2
<1>7. CASE A # {} /\ B # {}
  <2>1. Count(A) \in {1, 2} /\ Count(B) \in {1, 2} /\ Count(C) \in {0, 1, 2}
    BY <1>7, CountIs
  <2>2. ~(\E c \in C : C = {c}) /\ C # {}
    <3>1. PICK a \in A : TRUE
      BY <1>7
    <3>2. PICK b \in B : TRUE
      BY <1>7
    <3>3. a \in C /\ b + m \in C /\ a # b + m
      BY <1>2, <1>3, <3>1, <3>2
    <3> QED
      BY <3>3
  <2>3. Count(C) = 2
    BY <2>1, <2>2, CountIs
  <2> QED
    BY <2>1, <2>3
<1> QED
  BY <1>5, <1>6, <1>7

LEMMA FramedConcat ==
  ASSUME NEW u \in Seq(Frame), NEW v \in Seq(Frame), NEW p
  PROVE  Agree(Count(Framed(u \o v, p)),
               Count(Framed(u, p)) + Count(Framed(v, p)))
<1> DEFINE w == u \o v
           A == Framed(u, p)
           B == Framed(v, p)
           C == Framed(w, p)
<1>1. /\ w \in Seq(Frame) /\ Len(w) = Len(u) + Len(v) /\ Len(u) \in Nat /\ Len(v) \in Nat
      /\ \A i \in 1 .. Len(u) + Len(v) : w[i] = IF i <= Len(u) THEN u[i] ELSE v[i - Len(u)]
  BY ConcatProperties
<1>2. DOMAIN u = 1 .. Len(u) /\ DOMAIN v = 1 .. Len(v)
  OBVIOUS
<1> HIDE DEF w
<1>3. DOMAIN w = 1 .. Len(u) + Len(v)
  BY <1>1
<1>4. C \subseteq 1 .. Len(u) + Len(v)
  BY <1>3 DEF Framed
<1>5. A = C \cap (1 .. Len(u))
  BY <1>1, <1>2, <1>3 DEF Framed
<1>6. B = {i \in 1 .. Len(v) : i + Len(u) \in C}
  <2>1. \A i \in 1 .. Len(v) : /\ i + Len(u) \in 1 .. Len(u) + Len(v) /\ ~(i + Len(u) <= Len(u))
                               /\ (i + Len(u)) - Len(u) = i
    BY <1>1
  <2>2. \A i \in 1 .. Len(v) : w[i + Len(u)] = v[i]
    BY <1>1, <2>1
  <2> QED
    BY <1>2, <1>3, <2>1, <2>2 DEF Framed
<1> HIDE DEF A, B, C
<1>7. Agree(Count(C), Count(A) + Count(B))
  BY <1>1, <1>4, <1>5, <1>6, Split
<1> QED
  BY <1>7 DEF A, B, C, w

LEMMA KeptConcat ==
  ASSUME NEW u \in Seq(Bundle), NEW v \in Seq(Bundle), NEW p
  PROVE  Agree(Count(Kept(u \o v, p)),
               Count(Kept(u, p)) + Count(Kept(v, p)))
<1> DEFINE w == u \o v
           A == Kept(u, p)
           B == Kept(v, p)
           C == Kept(w, p)
<1>1. /\ w \in Seq(Bundle) /\ Len(w) = Len(u) + Len(v) /\ Len(u) \in Nat /\ Len(v) \in Nat
      /\ \A i \in 1 .. Len(u) + Len(v) : w[i] = IF i <= Len(u) THEN u[i] ELSE v[i - Len(u)]
  BY ConcatProperties
<1>2. DOMAIN u = 1 .. Len(u) /\ DOMAIN v = 1 .. Len(v)
  OBVIOUS
<1> HIDE DEF w
<1>3. DOMAIN w = 1 .. Len(u) + Len(v)
  BY <1>1
<1>4. C \subseteq 1 .. Len(u) + Len(v)
  BY <1>3 DEF Kept
<1>5. A = C \cap (1 .. Len(u))
  BY <1>1, <1>2, <1>3 DEF Kept
<1>6. B = {i \in 1 .. Len(v) : i + Len(u) \in C}
  <2>1. \A i \in 1 .. Len(v) : /\ i + Len(u) \in 1 .. Len(u) + Len(v) /\ ~(i + Len(u) <= Len(u))
                               /\ (i + Len(u)) - Len(u) = i
    BY <1>1
  <2>2. \A i \in 1 .. Len(v) : w[i + Len(u)] = v[i]
    BY <1>1, <2>1
  <2> QED
    BY <1>2, <1>3, <2>1, <2>2 DEF Kept
<1> HIDE DEF A, B, C
<1>7. Agree(Count(C), Count(A) + Count(B))
  BY <1>1, <1>4, <1>5, <1>6, Split
<1> QED
  BY <1>7 DEF A, B, C, w

LEMMA OneFramed ==
  ASSUME NEW f, NEW p
  PROVE  Count(Framed(<<f>>, p)) = Held(f, p) /\ Framed(<<>>, p) = {}
<1>1. Framed(<<f>>, p) = IF Holds(f, p) THEN {1} ELSE {}
  BY DEF Framed
<1>2. Count({1}) = 1 /\ Count({}) = 0
  BY DEF Count
<1> QED
  BY <1>1, <1>2 DEF Held, Framed

LEMMA OneKept ==
  ASSUME NEW b, NEW p
  PROVE  Count(Kept(<<b>>, p)) = Is(b.id, p) /\ Kept(<<>>, p) = {}
<1>1. Kept(<<b>>, p) = IF b.id = p THEN {1} ELSE {}
  BY DEF Kept
<1>2. Count({1}) = 1 /\ Count({}) = 0
  BY DEF Count
<1> QED
  BY <1>1, <1>2 DEF Is, Kept

LEMMA FramedMore ==
  ASSUME NEW u \in Seq(Frame), NEW f \in Frame, NEW p
  PROVE  Agree(Count(Framed(Append(u, f), p)),
               Count(Framed(u, p)) + Held(f, p))
<1>1. <<f>> \in Seq(Frame) /\ Append(u, f) = u \o <<f>>
  BY AppendIsConcat
<1>2. Count(Framed(<<f>>, p)) = Held(f, p)
  BY OneFramed
<1> QED
  BY <1>1, <1>2, FramedConcat

LEMMA KeptMore ==
  ASSUME NEW u \in Seq(Bundle), NEW b \in Bundle, NEW p
  PROVE  Agree(Count(Kept(Append(u, b), p)),
               Count(Kept(u, p)) + Is(b.id, p))
<1>1. <<b>> \in Seq(Bundle) /\ Append(u, b) = u \o <<b>>
  BY AppendIsConcat
<1>2. Count(Kept(<<b>>, p)) = Is(b.id, p)
  BY OneKept
<1> QED
  BY <1>1, <1>2, KeptConcat

(* The six parts of a node's total. *)
LEMMA Parts ==
  ASSUME NEW s, NEW p
  PROVE  /\ Count(Framed(s.air, p)) \in {0, 1, 2} /\ Count(Framed(s.rd, p)) \in {0, 1, 2}
         /\ Count(Kept(Buffered(s.ctrl[Dst[p]]), p)) \in {0, 1, 2}
         /\ Count(Kept(Buffered(s.repair[Dst[p]]), p)) \in {0, 1, 2}
         /\ In(s.up, p) \in {0, 1} /\ In(s.dropped, p) \in {0, 1}
         /\ Total(s, p) \in Nat
<1>1. /\ Count(Framed(s.air, p)) \in {0, 1, 2} /\ Count(Framed(s.rd, p)) \in {0, 1, 2}
      /\ Count(Kept(Buffered(s.ctrl[Dst[p]]), p)) \in {0, 1, 2}
      /\ Count(Kept(Buffered(s.repair[Dst[p]]), p)) \in {0, 1, 2}
      /\ In(s.up, p) \in {0, 1} /\ In(s.dropped, p) \in {0, 1}
  BY CountIs DEF In
<1> QED
  BY <1>1 DEF Total

LEMMA Widened ==
  ASSUME NEW u \in Seq(DATAs)
  PROVE  u \in Seq(Frame)
<1>1. DATAs \subseteq Frame
  BY DEF Frame
<1>2. \A i \in 1 .. Len(u) : u[i] \in Frame
  BY <1>1
<1>3. Len(u) \in Nat /\ u \in [1 .. Len(u) -> Frame]
  BY <1>2
<1> QED
  BY <1>3

(* A row of packets: each is on its way, in the queue or dropped. *)
LEMMA RowMoves ==
  ASSUME NEW n \in Node, NEW s \in State, NEW x, NEW bs \in Seq(Bundle), NEW k \in Node,
         \A i \in DOMAIN bs : Dst[bs[i].id] # n,
         NEW now \in Nat, NEW m \in Nat, Rowed(x, s, n, bs, k, now, m), NEW p,
         Count(Framed(s.air, p)) + Count(Framed(s.rd, p)) + In(s.dropped, p) + Count(Kept(bs, p)) <= 1
  PROVE  Count(Framed(x.air, p)) + Count(Framed(x.rd, p)) + In(x.dropped, p)
           = Count(Framed(s.air, p)) + Count(Framed(s.rd, p)) + In(s.dropped, p) + Count(Kept(bs, p))
<1> DEFINE W == Kept(bs, p)
           A == W \cap (1 .. now)
           V == {i \in 1 .. Len(bs) - now : i + now \in W}
           B == V \cap (1 .. m)
           l == Len(bs) - now - m
           R == {i \in 1 .. l : i + m \in V}
           more == [i \in 1 .. m |-> DATA(k, bs[now + i])]
<1>1. /\ Len(bs) \in Nat /\ DOMAIN bs = 1 .. Len(bs) /\ now + m <= Len(bs) /\ now \in Nat
      /\ Len(bs) - now \in Nat /\ l \in Nat /\ m + l = Len(bs) - now /\ now + (Len(bs) - now) = Len(bs)
      /\ \A i \in 1 .. Len(bs) : bs[i] \in Bundle
  <2>1. now + m <= Len(bs)
    BY DEF Rowed
  <2>2. Len(bs) \in Nat /\ DOMAIN bs = 1 .. Len(bs) /\ \A i \in 1 .. Len(bs) : bs[i] \in Bundle
    OBVIOUS
  <2>3. now \in Nat /\ m \in Nat
    OBVIOUS
  <2> QED
    BY <2>1, <2>2, <2>3
<1>2. W \subseteq 1 .. Len(bs) /\ \A i \in 1 .. Len(bs) : i \in W <=> bs[i].id = p
  BY <1>1 DEF Kept
<1>3. Agree(Count(Framed(x.air, p)), Count(Framed(s.air, p)) + Count(A))
  <2> DEFINE down == [i \in 1 .. now |-> DATA(k, [bs[i] EXCEPT !.caught = n])]
  <2>1. /\ down \in [1 .. now -> Frame]
        /\ \A i \in 1 .. now : down[i].type = "data" /\ down[i].pkt.id = bs[i].id
    <3>1. now + m <= Len(bs)
      BY <1>1
    <3> QED
      BY <3>1, RowDown
  <2>2. x.air = s.air \o down /\ s.air \in Seq(Frame)
    BY Fields DEF Rowed
  <2> HIDE DEF down
  <2>3. down \in Seq(Frame) /\ DOMAIN down = 1 .. now
    BY <1>1, <2>1
  <2>4. \A i \in 1 .. now : i \in 1 .. Len(bs)
    BY <1>1
  <2>5. Framed(down, p) = A
    BY <1>2, <2>1, <2>3, <2>4 DEF Framed, Holds
  <2> HIDE DEF A
  <2> QED
    BY <2>2, <2>3, <2>5, FramedConcat
<1>4. Framed(more, p) = B /\ more \in Seq(Frame)
  <2>1. \A i \in 1 .. m : /\ now + i \in 1 .. Len(bs) /\ i + now = now + i /\ i \in 1 .. Len(bs) - now
    BY <1>1
  <2>2. \A i \in 1 .. m : more[i] = DATA(k, bs[now + i]) /\ bs[now + i] \in Bundle
    BY <1>1, <2>1
  <2>3. \A i \in 1 .. m : more[i] \in Frame /\ (Holds(more[i], p) <=> bs[now + i].id = p)
    BY <2>2, DataFrame, ZenonT(60) DEF Holds
  <2>4. DOMAIN more = 1 .. m /\ more \in [1 .. m -> Frame]
    BY <2>3
  <2> HIDE DEF more
  <2>5. \A i \in 1 .. m : i \in V <=> bs[now + i].id = p
    BY <1>2, <2>1
  <2> HIDE DEF V
  <2>6. Framed(more, p) = B
    BY <2>3, <2>4, <2>5 DEF Framed
  <2>7. more \in Seq(Frame)
    BY <2>4
  <2> QED
    BY <2>6, <2>7
<1>5. Agree(Count(Framed(x.rd, p)), Count(Framed(s.rd, p)) + Count(B))
  <2>1. x.rd = s.rd \o more
    BY DEF Rowed
  <2>2. s.rd \in Seq(Frame)
    BY Fields, Widened
  <2> HIDE DEF more
  <2> QED
    BY <1>4, <2>1, <2>2, FramedConcat
<1>6. p \in x.dropped <=> p \in s.dropped \/ R # {}
  <2>1. x.dropped = s.dropped \cup {bs[i].id : i \in now + m + 1 .. Len(bs)}
    BY DEF Rowed
  <2>2. \A i \in now + m + 1 .. Len(bs) : /\ i - now - m \in 1 .. l /\ i \in 1 .. Len(bs)
                                          /\ (i - now - m) + m \in 1 .. Len(bs) - now
                                          /\ ((i - now - m) + m) + now = i
    BY <1>1
  <2>3. \A i \in 1 .. l : (i + m) + now \in now + m + 1 .. Len(bs)
    BY <1>1
  <2>4. ASSUME NEW i \in now + m + 1 .. Len(bs), bs[i].id = p PROVE i - now - m \in R
    BY <1>2, <2>2, <2>4
  <2>5. ASSUME NEW i \in R PROVE \E j \in now + m + 1 .. Len(bs) : bs[j].id = p
    <3>1. (i + m) + now \in W
      OBVIOUS
    <3> QED
      BY <1>2, <2>3, <3>1
  <2> HIDE DEF R
  <2> QED
    BY <2>1, <2>4, <2>5
<1>7. Agree(Count(W), Count(A) + Count(V))
  <2> DEFINE q == Len(bs) - now
  <2>1. q \in Nat /\ now \in Nat /\ W \subseteq 1 .. now + q
    BY <1>1, <1>2
  <2>2. A = W \cap (1 .. now) /\ V = {i \in 1 .. q : i + now \in W}
    OBVIOUS
  <2> HIDE DEF W, A, V, q
  <2> QED
    BY <2>1, <2>2, Split
<1>8. Agree(Count(V), Count(B) + Count(R))
  <2>1. V \subseteq 1 .. m + l
    BY <1>1
  <2>2. B = V \cap (1 .. m) /\ R = {i \in 1 .. l : i + m \in V}
    OBVIOUS
  <2> HIDE DEF V, B, R, l
  <2> QED
    BY <1>1, <2>1, <2>2, Split
<1>9. R = {} <=> Count(R) = 0
  BY CountIs
<1> HIDE DEF W, A, V, B, R, l, more
<1>10. /\ Count(A) \in {0, 1, 2} /\ Count(B) \in {0, 1, 2} /\ Count(V) \in {0, 1, 2} /\ Count(R) \in {0, 1, 2}
       /\ Count(W) \in {0, 1, 2} /\ Count(Framed(s.air, p)) \in {0, 1, 2}
       /\ Count(Framed(s.rd, p)) \in {0, 1, 2} /\ Count(Framed(x.rd, p)) \in {0, 1, 2}
       /\ Count(Framed(x.air, p)) \in {0, 1, 2}
  BY CountIs
<1>11. /\ p \in s.dropped => In(s.dropped, p) = 1
       /\ p \notin s.dropped => In(s.dropped, p) = 0
       /\ p \in x.dropped => In(x.dropped, p) = 1
       /\ p \notin x.dropped => In(x.dropped, p) = 0
  BY DEF In
<1>12. Count(Kept(bs, p)) = Count(W)
  BY DEF W
<1>13. Count(V) = Count(B) + Count(R) /\ Count(W) = Count(A) + Count(V)
  BY <1>7, <1>8, <1>10, <1>11, <1>12 DEF Agree
<1>14. Count(Framed(x.rd, p)) = Count(Framed(s.rd, p)) + Count(B)
  BY <1>5, <1>10, <1>11, <1>12, <1>13 DEF Agree
<1>15. Count(Framed(x.air, p)) = Count(Framed(s.air, p)) + Count(A)
  BY <1>3, <1>10, <1>11, <1>12, <1>13 DEF Agree
<1> QED
  BY <1>15, <1>6, <1>9, <1>10, <1>11, <1>12, <1>13, <1>14

LEMMA KeptNone ==
  ASSUME NEW d, NEW bs, For(bs, d), NEW p, Dst[p] # d
  PROVE  Kept(bs, p) = {}
  BY DEF For, Kept

LEMMA FlushSaves ==
  ASSUME NEW n \in Node, NEW s \in State, Len(s.rd) <= QueueMax, Filed(s, n), NEW d \in Node
  PROVE  Saves(processBuffered(s, n, d), s)
<1> DEFINE x == processBuffered(s, n, d)
           u == Buffered(s.ctrl[d])
           v == Buffered(s.repair[d])
           bs == u \o v
           k == s.rt[d].next
<1>1. CASE ~Valid(s, d)
  <2>1. x = s
    BY <1>1 DEF processBuffered
  <2> QED
    BY <2>1 DEF Saves
<1>2. CASE Valid(s, d)
  <2>1. /\ x.up = s.up /\ k \in Node /\ bs \in Seq(Bundle)
        /\ x.ctrl = [s.ctrl EXCEPT ![d] = None] /\ x.repair = [s.repair EXCEPT ![d] = None]
        /\ Flows(x, s, n, bs, k)
        /\ \A i \in DOMAIN bs : Dst[bs[i].id] # n
    <3>1. \A i \in DOMAIN bs : Dst[bs[i].id] # n
      BY Elsewhere
    <3> QED
      <4>1. Flushes(x, s, n, d)
        BY <1>2, Flushed
      <4> HIDE DEF x
      <4> QED
        BY <3>1, <4>1 DEF Flushes
  <2>2. s.ctrl \in [Node -> Waiting \cup {None}] /\ s.repair \in [Node -> Repairing \cup {None}]
    BY Fields
  <2>3. \A e \in Node : /\ x.ctrl[e] = IF e = d THEN None ELSE s.ctrl[e]
                        /\ x.repair[e] = IF e = d THEN None ELSE s.repair[e]
    BY <2>1, <2>2
  <2>4. u \in Seq(Bundle) /\ v \in Seq(Bundle) /\ For(u, d) /\ For(v, d)
    BY BufferedType DEF Filed
  <2> SUFFICES ASSUME NEW p \in Packet, Total(s, p) <= 1 PROVE Total(x, p) = Total(s, p)
    BY DEF Saves
  <2>5. Dst[p] \in Node
    BY Constants
  <2> HIDE DEF k, x
  <2> DEFINE c == Count(Kept(Buffered(s.ctrl[Dst[p]]), p))
             r == Count(Kept(Buffered(s.repair[Dst[p]]), p))
             c1 == Count(Kept(Buffered(x.ctrl[Dst[p]]), p))
             r1 == Count(Kept(Buffered(x.repair[Dst[p]]), p))
             w == Count(Kept(bs, p))
  <2>6. Agree(w, Count(Kept(u, p)) + Count(Kept(v, p)))
    BY <2>4, KeptConcat
  <2>7. Count(Kept(<<>>, p)) = 0 /\ Count({}) = 0 /\ Buffered(None) = <<>>
    BY OneKept DEF Count, Buffered
  <2> DEFINE a == Count(Framed(s.air, p))
             a1 == Count(Framed(x.air, p))
             q == Count(Framed(s.rd, p))
             q1 == Count(Framed(x.rd, p))
             g == In(s.dropped, p)
             g1 == In(x.dropped, p)
             h == In(s.up, p)
  <2>8. /\ c \in Nat /\ r \in Nat /\ w \in Nat /\ a \in Nat /\ a1 \in Nat /\ q \in Nat /\ q1 \in Nat
        /\ g \in Nat /\ g1 \in Nat /\ h \in Nat
    BY CountIs, Parts DEF In
  <2>9. Total(s, p) = a + q + c + r + h + g /\ Total(x, p) = a1 + q1 + c1 + r1 + h + g1
    BY <2>1 DEF Total
  <2>10. \/ c1 = 0 /\ r1 = 0 /\ w = c + r
         \/ c1 = c /\ r1 = r /\ w = 0
    <3>1. CASE Dst[p] = d
      <4>1. c = Count(Kept(u, p)) /\ r = Count(Kept(v, p))
        BY <3>1
      <4>2. c1 = 0 /\ r1 = 0
        BY <2>3, <2>5, <2>7, <3>1
      <4> HIDE DEF c, r, w, c1, r1, bs, u, v, a, q, g, h
      <4>3. c + r <= 1
        BY <2>8, <2>9
      <4>4. Agree(w, c + r)
        BY <2>6, <4>1
      <4>5. w = c + r
        BY <4>3, <4>4 DEF Agree
      <4> QED
        BY <4>2, <4>5
    <3>2. CASE Dst[p] # d
      <4>1. c1 = c /\ r1 = r
        BY <2>3, <2>5, <3>2
      <4>2. Kept(u, p) = {} /\ Kept(v, p) = {}
        BY <2>4, <3>2, KeptNone
      <4> HIDE DEF c, r, w, c1, r1, bs, u, v, a, q, g, h
      <4>3. w = 0
        BY <2>6, <2>7, <2>8, <4>2 DEF Agree
      <4> QED
        BY <4>1, <4>3
    <3> QED
      BY <3>1, <3>2
  <2>11. PICK now \in Nat, m \in Nat : Rowed(x, s, n, bs, k, now, m)
    BY <2>1 DEF Flows
  <2>12. a + q + g + w <= 1 => a1 + q1 + g1 = a + q + g + w
    <3> HIDE DEF bs
    <3> QED
      BY <2>1, <2>11, RowMoves
  <2> HIDE DEF c, r, w, c1, r1, bs, u, v, a, a1, q, q1, g, g1, h
  <2>13. a + q + g + w <= 1
    BY <2>8, <2>9, <2>10
  <2> QED
    BY <2>8, <2>9, <2>10, <2>12, <2>13
<1> QED
  BY <1>1, <1>2

LEMMA SameSaves ==
  ASSUME NEW s, NEW x, SameWay(x, s), SameBuffers(x, s), x.up = s.up, x.dropped = s.dropped
  PROVE  Saves(x, s)
  BY DEF SameWay, SameBuffers, Saves, Total

LEMMA SavesOn ==
  ASSUME NEW x, NEW y, NEW s, Saves(y, s)
  PROVE  /\ Saves(x, y) => Saves(x, s)
         /\ \A q : Takes(x, y, q) => Takes(x, s, q)
<1>1. \A p \in Packet : Total(x, p) \in Nat /\ Total(y, p) \in Nat /\ Total(s, p) \in Nat
  BY Parts
<1> QED
  BY <1>1 DEF Saves, Takes

LEMMA TakesOn ==
  ASSUME NEW x, NEW y, NEW s, NEW q, Takes(y, s, q), Saves(x, y)
  PROVE  Takes(x, s, q)
<1>1. \A p \in Packet : Total(x, p) \in Nat /\ Total(y, p) \in Nat /\ Total(s, p) \in Nat
  BY Parts
<1> QED
  BY <1>1 DEF Saves, Takes

LEMMA RerouteSaves ==
  ASSUME NEW s \in State, NEW d \in Node, NEW r \in Route \cup {None}
  PROVE  Saves(Reroute(s, d, r), s)
  BY Rerouted, SameSaves

LEMMA SimpleSaves ==
  ASSUME NEW s \in State, NEW k \in Node
  PROVE  Saves(updateSimpleRRoute(s, k), s)
  BY SimpleRoute, RerouteSaves

LEMMA FreshSaves ==
  ASSUME NEW s \in State, NEW d \in Node, NEW k \in Node, NEW seq \in Nat, NEW h \in Nat
  PROVE  Saves(SetRoute(s, d, k, seq, h), s)
  BY FreshRoute, RerouteSaves

LEMMA PrecededSaves ==
  ASSUME NEW s \in State, NEW d \in Node, NEW k \in Node
  PROVE  Saves(updatePrecursorList(s, d, k), s)
<1>1. Saves(s, s)
  BY DEF Saves
<1> QED
  BY <1>1, Preceded, RerouteSaves

(* Other frames hold no packet. *)
LEMMA OthersHoldNone ==
  ASSUME NEW u \in Seq(Frame), NEW v \in Seq(Frame), NEW p,
         \A i \in 1 .. Len(v) : ~Holds(v[i], p)
  PROVE  Framed(u \o v, p) = Framed(u, p)
<1> DEFINE w == u \o v
<1>1. /\ w \in Seq(Frame) /\ Len(w) = Len(u) + Len(v) /\ Len(u) \in Nat /\ Len(v) \in Nat
      /\ \A i \in 1 .. Len(u) + Len(v) : w[i] = IF i <= Len(u) THEN u[i] ELSE v[i - Len(u)]
  BY ConcatProperties
<1> HIDE DEF w
<1>2. DOMAIN u = 1 .. Len(u) /\ DOMAIN w = 1 .. Len(u) + Len(v)
  BY <1>1
<1>3. \A i \in 1 .. Len(u) + Len(v) : ~(i <= Len(u)) => i - Len(u) \in 1 .. Len(v)
  BY <1>1
<1>4. \A i \in 1 .. Len(u) + Len(v) : ~(i <= Len(u)) => ~Holds(w[i], p)
  BY <1>1, <1>3
<1>5. \A i \in 1 .. Len(u) : i \in 1 .. Len(u) + Len(v) /\ w[i] = u[i]
  BY <1>1
<1>6. \A i \in 1 .. Len(u) + Len(v) : i <= Len(u) => i \in 1 .. Len(u)
  BY <1>1
<1> QED
  BY <1>2, <1>4, <1>5, <1>6 DEF Framed, w

LEMMA MoreSaves ==
  ASSUME NEW s \in State, NEW x, SameBuffers(x, s), x.rd = s.rd, x.up = s.up, x.dropped = s.dropped,
         NEW v \in Seq(Frame), x.air = s.air \o v, \A i \in 1 .. Len(v) : v[i].type # "data"
  PROVE  Saves(x, s)
<1>1. \A p : Framed(x.air, p) = Framed(s.air, p)
  BY OthersHoldNone, Fields, ZenonT(60) DEF Holds
<1> QED
  BY <1>1 DEF Saves, Total, SameBuffers

LEMMA PutSaves ==
  ASSUME NEW s \in State, NEW f \in Frame, f.type # "data"
  PROVE  Saves(Put(s, f), s)
<1> DEFINE x == Put(s, f)
<1>1. /\ SameTables(x, s) /\ x.rd = s.rd /\ x.up = s.up /\ x.dropped = s.dropped
      /\ x.air = Append(s.air, f) /\ s.air \in Seq(Frame)
  BY PutFrame, Fields
<1> HIDE DEF x
<1>2. <<f>> \in Seq(Frame) /\ x.air = s.air \o <<f>> /\ \A i \in 1 .. Len(<<f>>) : <<f>>[i].type # "data"
  BY <1>1, AppendIsConcat
<1>3. SameBuffers(x, s)
  BY <1>1 DEF SameTables, SameBuffers
<1>4. Saves(x, s)
  BY <1>1, <1>2, <1>3, MoreSaves
<1> QED
  BY <1>4 DEF x

LEMMA AskSaves ==
  ASSUME NEW n \in Node, NEW X, NEW s, FitBut(s, n, X), NEW d \in Node, NEW ttl \in Int,
         NEW u \in Unset
  PROVE  Saves(sendRREQ(s, n, d, ttl, u), s)
<1> DEFINE x == sendRREQ(s, n, d, ttl, u)
<1>1. PICK f \in RREQs : Asked(x, s, f)
  BY Asks
<1>2. f \in Frame /\ f.type # "data" /\ s \in State /\ s.air \in Seq(Frame)
  BY Fields DEF RREQs, Frame, FitBut
<1> HIDE DEF x
<1>3. <<f>> \in Seq(Frame) /\ x.air = s.air \o <<f>> /\ \A i \in 1 .. Len(<<f>>) : <<f>>[i].type # "data"
  BY <1>1, <1>2, AppendIsConcat DEF Asked
<1>4. SameBuffers(x, s) /\ x.rd = s.rd /\ x.up = s.up /\ x.dropped = s.dropped
  BY <1>1 DEF Asked, SameTables, SameBuffers
<1>5. Saves(x, s)
  BY <1>2, <1>3, <1>4, MoreSaves
<1> QED
  BY <1>5 DEF x

(* One more packet ends here. *)
LEMMA EndTakes ==
  ASSUME NEW s, NEW x, SameWay(x, s), SameBuffers(x, s), NEW b,
         \/ x.up = s.up /\ x.dropped = s.dropped \cup {b}
         \/ x.up = s.up \cup {b} /\ x.dropped = s.dropped
  PROVE  Takes(x, s, b)
<1> SUFFICES ASSUME NEW p \in Packet
             PROVE  IF p = b THEN Total(s, p) = 0 => Total(x, p) = 1
                    ELSE Total(s, p) <= 1 => Total(x, p) = Total(s, p)
  BY DEF Takes
<1> DEFINE a == Count(Framed(s.air, p))
           q == Count(Framed(s.rd, p))
           c == Count(Kept(Buffered(s.ctrl[Dst[p]]), p))
           r == Count(Kept(Buffered(s.repair[Dst[p]]), p))
           h == In(s.up, p)
           g == In(s.dropped, p)
<1>1. /\ a \in Nat /\ q \in Nat /\ c \in Nat /\ r \in Nat /\ h \in {0, 1} /\ g \in {0, 1}
      /\ Total(s, p) = a + q + c + r + h + g
  BY Parts DEF Total
<1>2. Total(x, p) = a + q + c + r + In(x.up, p) + In(x.dropped, p)
  BY DEF Total, SameWay, SameBuffers
<1>3. \/ In(x.up, p) = h /\ In(x.dropped, p) = IF p = b THEN 1 ELSE g
      \/ In(x.dropped, p) = g /\ In(x.up, p) = IF p = b THEN 1 ELSE h
  BY DEF In
<1> DEFINE h1 == In(x.up, p)
           g1 == In(x.dropped, p)
<1> HIDE DEF a, q, c, r, h, g, h1, g1
<1>4. Total(x, p) = a + q + c + r + h1 + g1
  BY <1>2 DEF h1, g1
<1>5. \/ h1 = h /\ g1 = IF p = b THEN 1 ELSE g
      \/ g1 = g /\ h1 = IF p = b THEN 1 ELSE h
  BY <1>3 DEF h1, g1
<1> QED
  BY <1>1, <1>4, <1>5

LEMMA DropTakes ==
  ASSUME NEW s \in State, NEW b \in Bundle
  PROVE  Takes(Drop(s, b), s, b.id)
<1> DEFINE x == Drop(s, b)
<1>1. SameTables(x, s) /\ SameWay(x, s) /\ x.up = s.up /\ x.dropped = s.dropped \cup {b.id}
  BY DropType
<1> HIDE DEF x
<1>2. SameBuffers(x, s)
  BY <1>1 DEF SameTables, SameBuffers
<1>3. Takes(x, s, b.id)
  BY <1>1, <1>2, EndTakes
<1> QED
  BY <1>3 DEF x

(* A packet on its way out. *)
LEMMA SentTakes ==
  ASSUME NEW n \in Node, NEW s \in State, NEW b \in Bundle, Dst[b.id] # n, NEW k \in Node
  PROVE  Takes(sendToQueue(s, n, b, k), s, b.id)
<1> DEFINE x == sendToQueue(s, n, b, k)
           f == DATA(k, b)
           e == DATA(k, [b EXCEPT !.caught = n])
<1>1. /\ SameTables(x, s) /\ x.up = s.up
      /\ \/ x.air = Append(s.air, e) /\ x.rd = s.rd /\ x.dropped = s.dropped
         \/ x.air = s.air /\ x.rd = Append(s.rd, f) /\ x.dropped = s.dropped
         \/ SameWay(x, s) /\ x.dropped = s.dropped \cup {b.id}
  BY SentToQueue
<1>7. e \in Frame
  BY Caught, DataFrame
<1>2. f \in Frame /\ \A p : Holds(f, p) <=> b.id = p
  BY DataFrame DEF Holds
<1>3. \A p : Holds(e, p) <=> b.id = p
  <2> DEFINE c == [b EXCEPT !.caught = n]
  <2>1. c \in Bundle /\ c.id = b.id
    BY Caught
  <2> HIDE DEF c
  <2>2. DATA(k, c).type = "data" /\ DATA(k, c).pkt = c
    BY <2>1, DataFrame
  <2>3. e = DATA(k, c)
    BY DEF c
  <2> QED
    BY <2>1, <2>2, <2>3 DEF Holds
<1>4. s.rd \in Seq(Frame) /\ s.air \in Seq(Frame)
  BY Fields, Widened
<1> HIDE DEF x, e, f
<1>5. CASE SameWay(x, s) /\ x.dropped = s.dropped \cup {b.id}
  <2>1. SameBuffers(x, s)
    BY <1>1 DEF SameTables, SameBuffers
  <2>2. Takes(x, s, b.id)
    BY <1>1, <1>5, <2>1, EndTakes
  <2> QED
    BY <2>2 DEF x
<1>6. CASE x.dropped = s.dropped /\ \/ x.air = Append(s.air, e) /\ x.rd = s.rd
                                    \/ x.air = s.air /\ x.rd = Append(s.rd, f)
  <2>1. SUFFICES ASSUME NEW p \in Packet
               PROVE  IF p = b.id THEN Total(s, p) = 0 => Total(x, p) = 1
                      ELSE Total(s, p) <= 1 => Total(x, p) = Total(s, p)
    BY DEF Takes, x
  <2> DEFINE a == Count(Framed(s.air, p))
             q == Count(Framed(s.rd, p))
             c == Count(Kept(Buffered(s.ctrl[Dst[p]]), p))
             r == Count(Kept(Buffered(s.repair[Dst[p]]), p))
             h == In(s.up, p)
             g == In(s.dropped, p)
  <2>2. /\ a \in Nat /\ q \in Nat /\ c \in Nat /\ r \in Nat /\ h \in {0, 1} /\ g \in {0, 1}
        /\ Total(s, p) = a + q + c + r + h + g
    BY Parts DEF Total
  <2> DEFINE a1 == Count(Framed(x.air, p))
             q1 == Count(Framed(x.rd, p))
             m == IF p = b.id THEN 1 ELSE 0
  <2>3. Total(x, p) = a1 + q1 + c + r + h + g
    BY <1>1, <1>6, <2>2 DEF Total, SameTables
  <2>4. Held(e, p) = m /\ Held(f, p) = m
    BY <1>2, <1>3 DEF Held
  <2>5. \/ Agree(a1, a + m) /\ q1 = q
        \/ a1 = a /\ Agree(q1, q + m)
    <3>1. CASE x.air = Append(s.air, e) /\ x.rd = s.rd
      <4>1. Agree(a1, a + Held(e, p))
        BY <1>4, <1>7, <2>2, <3>1, FramedMore
      <4> QED
        BY <2>2, <2>4, <3>1, <4>1
    <3>2. CASE x.air = s.air /\ x.rd = Append(s.rd, f)
      <4>1. Agree(q1, q + Held(f, p))
        BY <1>2, <1>4, <2>2, <3>2, FramedMore
      <4> QED
        BY <2>2, <2>4, <3>2, <4>1
    <3> QED
      BY <1>6, <3>1, <3>2
  <2>6. a1 \in Nat /\ q1 \in Nat /\ m \in {0, 1} /\ (p = b.id <=> m = 1)
    BY CountIs
  <2> HIDE DEF a1, q1, m, a, q, c, r, h, g
  <2>7. Total(s, p) + m <= 1 => Total(x, p) = Total(s, p) + m
    BY <2>2, <2>3, <2>5, <2>6 DEF Agree
  <2> QED
    BY <2>2, <2>6, <2>7
<1> QED
  BY <1>1, <1>5, <1>6

(* The buffers of other destinations are as before. *)
Aside(x, s, d) ==
  \A e \in Node \ {d} : /\ Buffered(x.ctrl[e]) = Buffered(s.ctrl[e])
                        /\ Buffered(x.repair[e]) = Buffered(s.repair[e])

LEMMA BufferSaves ==
  ASSUME NEW s, NEW x, SameWay(x, s), x.up = s.up, x.dropped = s.dropped, NEW d \in Node,
         Aside(x, s, d), Buffered(x.ctrl[d]) = Buffered(s.ctrl[d]),
         Buffered(x.repair[d]) = Buffered(s.repair[d])
  PROVE  Saves(x, s)
<1>1. \A p \in Packet : Dst[p] \in Node
  BY Constants
<1> QED
  BY <1>1 DEF Aside, SameWay, Saves, Total

(* One more packet waits for d. *)
LEMMA BufferTakes ==
  ASSUME NEW s, NEW x, SameWay(x, s), x.up = s.up, x.dropped = s.dropped, NEW d \in Node,
         Aside(x, s, d), NEW b \in Bundle, Dst[b.id] = d, NEW u \in Seq(Bundle),
         \/ /\ Buffered(s.ctrl[d]) = u /\ Buffered(x.ctrl[d]) = Append(u, b)
            /\ Buffered(x.repair[d]) = Buffered(s.repair[d])
         \/ /\ Buffered(s.repair[d]) = u /\ Buffered(x.repair[d]) = Append(u, b)
            /\ Buffered(x.ctrl[d]) = Buffered(s.ctrl[d])
  PROVE  Takes(x, s, b.id)
<1> SUFFICES ASSUME NEW p \in Packet
             PROVE  IF p = b.id THEN Total(s, p) = 0 => Total(x, p) = 1
                    ELSE Total(s, p) <= 1 => Total(x, p) = Total(s, p)
  BY DEF Takes
<1> DEFINE a == Count(Framed(s.air, p))
           q == Count(Framed(s.rd, p))
           c == Count(Kept(Buffered(s.ctrl[Dst[p]]), p))
           r == Count(Kept(Buffered(s.repair[Dst[p]]), p))
           h == In(s.up, p)
           g == In(s.dropped, p)
           c1 == Count(Kept(Buffered(x.ctrl[Dst[p]]), p))
           r1 == Count(Kept(Buffered(x.repair[Dst[p]]), p))
           m == IF p = b.id THEN 1 ELSE 0
<1>1. /\ a \in Nat /\ q \in Nat /\ c \in Nat /\ r \in Nat /\ h \in Nat /\ g \in Nat
      /\ c1 \in Nat /\ r1 \in Nat /\ m \in {0, 1} /\ (p = b.id <=> m = 1)
      /\ Total(s, p) = a + q + c + r + h + g
  <2>1. \A S : Count(S) \in Nat
    BY CountIs
  <2>2. Total(s, p) = a + q + c + r + h + g
    BY DEF Total
  <2>3. h \in Nat /\ g \in Nat
    BY DEF In
  <2> QED
    BY <2>1, <2>2, <2>3
<1>2. Total(x, p) = a + q + c1 + r1 + h + g
  BY DEF Total, SameWay
<1>3. \/ c1 = c /\ r1 = r /\ m = 0
      \/ c1 = c /\ Agree(r1, r + m)
      \/ r1 = r /\ Agree(c1, c + m)
  <2>1. CASE Dst[p] # d
    <3>1. Dst[p] \in Node \ {d} /\ p # b.id
      BY <2>1, Constants
    <3> QED
      BY <3>1 DEF Aside
  <2>2. CASE Dst[p] = d
    <3>1. Agree(Count(Kept(Append(u, b), p)), Count(Kept(u, p)) + m)
      <4>1. Is(b.id, p) = m
        BY DEF Is
      <4>2. Agree(Count(Kept(Append(u, b), p)), Count(Kept(u, p)) + Is(b.id, p))
        BY KeptMore
      <4> HIDE DEF m
      <4> QED
        BY <4>1, <4>2
    <3> HIDE DEF m
    <3>2. \/ c = Count(Kept(u, p)) /\ c1 = Count(Kept(Append(u, b), p)) /\ r1 = r
          \/ r = Count(Kept(u, p)) /\ r1 = Count(Kept(Append(u, b), p)) /\ c1 = c
      BY <2>2
    <3> HIDE DEF c, c1, r, r1
    <3> QED
      BY <3>1, <3>2
  <2> QED
    BY <2>1, <2>2
<1> HIDE DEF a, q, c, r, h, g, c1, r1, m
<1>4. Total(s, p) + m <= 1 => Total(x, p) = Total(s, p) + m
  BY <1>1, <1>2, <1>3 DEF Agree
<1> QED
  BY <1>1, <1>4

(* What waited for d is dropped. *)
LEMMA GoneSaves ==
  ASSUME NEW s, NEW x, SameWay(x, s), x.up = s.up, NEW d \in Node,
         Aside(x, s, d), NEW bs, For(bs, d), x.dropped = s.dropped \cup {bs[i].id : i \in DOMAIN bs},
         \/ /\ Buffered(s.ctrl[d]) = bs /\ Buffered(x.ctrl[d]) = <<>>
            /\ Buffered(x.repair[d]) = Buffered(s.repair[d])
         \/ /\ Buffered(s.repair[d]) = bs /\ Buffered(x.repair[d]) = <<>>
            /\ Buffered(x.ctrl[d]) = Buffered(s.ctrl[d])
  PROVE  Saves(x, s)
<1> SUFFICES ASSUME NEW p \in Packet, Total(s, p) <= 1
             PROVE  Total(x, p) = Total(s, p)
  BY DEF Saves
<1> DEFINE a == Count(Framed(s.air, p))
           q == Count(Framed(s.rd, p))
           c == Count(Kept(Buffered(s.ctrl[Dst[p]]), p))
           r == Count(Kept(Buffered(s.repair[Dst[p]]), p))
           h == In(s.up, p)
           g == In(s.dropped, p)
           c1 == Count(Kept(Buffered(x.ctrl[Dst[p]]), p))
           r1 == Count(Kept(Buffered(x.repair[Dst[p]]), p))
           g1 == In(x.dropped, p)
           w == Count(Kept(bs, p))
<1>1. /\ a \in Nat /\ q \in Nat /\ c \in Nat /\ r \in Nat /\ h \in Nat /\ g \in {0, 1} /\ g1 \in {0, 1}
      /\ c1 \in Nat /\ r1 \in Nat /\ w \in Nat
      /\ Total(s, p) = a + q + c + r + h + g
  <2>1. \A S : Count(S) \in Nat
    BY CountIs
  <2>2. Total(s, p) = a + q + c + r + h + g
    BY DEF Total
  <2>3. h \in Nat /\ g \in {0, 1} /\ g1 \in {0, 1}
    BY DEF In
  <2> QED
    BY <2>1, <2>2, <2>3
<1>2. Total(x, p) = a + q + c1 + r1 + h + g1
  BY DEF Total, SameWay
<1>3. g1 = 1 <=> g = 1 \/ w # 0
  <2>1. w # 0 <=> p \in {bs[i].id : i \in DOMAIN bs}
    <3>1. w = 0 <=> Kept(bs, p) = {}
      BY CountIs
    <3> HIDE DEF w
    <3> QED
      BY <3>1 DEF Kept
  <2> HIDE DEF w
  <2> QED
    BY <2>1 DEF In
<1>4. \/ c1 = c /\ r1 = r /\ w = 0
      \/ c1 = c /\ r1 = 0 /\ r = w
      \/ r1 = r /\ c1 = 0 /\ c = w
  <2>1. CASE Dst[p] # d
    <3>1. Dst[p] \in Node \ {d}
      BY <2>1, Constants
    <3>2. c1 = c /\ r1 = r
      BY <3>1 DEF Aside
    <3>3. w = 0
      BY <2>1, KeptNone, CountIs
    <3> QED
      BY <3>2, <3>3
  <2>2. CASE Dst[p] = d
    <3>1. Count(Kept(<<>>, p)) = 0
      BY OneKept DEF Count
    <3> QED
      BY <2>2, <3>1
  <2> QED
    BY <2>1, <2>2
<1> HIDE DEF a, q, c, r, h, g, c1, r1, g1, w
<1> QED
  BY <1>1, <1>2, <1>3, <1>4

LEMMA RebufferAside ==
  ASSUME NEW s \in State, NEW d \in Node, NEW c \in Waiting \cup {None}
  PROVE  LET x == Rebuffer(s, d, c)
         IN  /\ x \in State /\ SameWay(x, s) /\ x.up = s.up /\ x.dropped = s.dropped
             /\ Aside(x, s, d) /\ x.ctrl[d] = c /\ x.repair = s.repair
  BY Rebuffered DEF Aside

LEMMA ResaveAside ==
  ASSUME NEW s \in State, NEW d \in Node, NEW c \in Repairing \cup {None}
  PROVE  LET x == Resave(s, d, c)
         IN  /\ x \in State /\ SameWay(x, s) /\ x.up = s.up /\ x.dropped = s.dropped
             /\ Aside(x, s, d) /\ x.repair[d] = c /\ x.ctrl = s.ctrl
  BY Resaved DEF Aside

LEMMA DropAllIs ==
  ASSUME NEW s \in State, NEW bs \in Seq(Bundle)
  PROVE  LET x == DropAll(s, bs)
         IN  /\ SameBuffers(x, s) /\ SameWay(x, s) /\ x.up = s.up
             /\ x.dropped = s.dropped \cup {bs[i].id : i \in DOMAIN bs}
  BY DEF DropAll, State, SameBuffers, SameWay

LEMMA AttachTakes ==
  ASSUME NEW s \in State, NEW d \in Node, s.repair[d] # None, NEW b \in Bundle, Dst[b.id] = d
  PROVE  Takes(attachRepair(s, d, b), s, b.id)
<1> DEFINE e == s.repair[d]
           c == [e EXCEPT !.pkts = Append(@, b)]
           x == attachRepair(s, d, b)
<1>1. e \in Repairing /\ e.pkts \in Seq(Bundle) /\ Append(e.pkts, b) \in Seq(Bundle)
  <2>1. e \in Repairing
    BY Fields
  <2> QED
    BY <2>1 DEF Repairing
<1>2. CASE Len(e.pkts) < BufferMax
  <2>1. x = Resave(s, d, c)
    BY <1>2 DEF attachRepair, Resave
  <2>2. Buffered(s.repair[d]) = e.pkts
    BY DEF Buffered
  <2> HIDE DEF e
  <2>3. c \in Repairing /\ c.pkts = Append(e.pkts, b)
    BY <1>1 DEF Repairing
  <2>4. Buffered(c) = Append(e.pkts, b)
    BY <2>3, NoneOf DEF Buffered
  <2> HIDE DEF c, x
  <2>5. /\ SameWay(x, s) /\ x.up = s.up /\ x.dropped = s.dropped
        /\ Aside(x, s, d) /\ x.repair[d] = c /\ x.ctrl = s.ctrl
    BY <2>1, <2>3, ResaveAside
  <2>6. Takes(x, s, b.id)
    BY <1>1, <2>2, <2>4, <2>5, BufferTakes
  <2> QED
    BY <2>6 DEF x
<1>3. CASE ~(Len(e.pkts) < BufferMax)
  <2>1. x = Drop(s, b)
    BY <1>3 DEF attachRepair
  <2> QED
    BY <2>1, DropTakes
<1> QED
  BY <1>2, <1>3

(* An entry with no packets yet is made. *)
LEMMA OpenSaves ==
  ASSUME NEW s \in State, NEW d \in Node, s.repair[d] = None, NEW c \in Repairing, c.pkts = <<>>
  PROVE  LET x == Resave(s, d, c)
         IN  Saves(x, s) /\ x \in State /\ x.repair[d] = c /\ x.rt = s.rt
<1> DEFINE x == Resave(s, d, c)
<1>1. /\ x \in State /\ SameWay(x, s) /\ x.up = s.up /\ x.dropped = s.dropped
      /\ Aside(x, s, d) /\ x.repair[d] = c /\ x.ctrl = s.ctrl
  BY ResaveAside
<1>2. x.rt = s.rt
  BY Resaved
<1> HIDE DEF x
<1>3. Buffered(c) = <<>> /\ Buffered(None) = <<>>
  BY NoneOf DEF Buffered
<1>4. Saves(x, s)
  BY <1>1, <1>3, BufferSaves
<1> QED
  BY <1>1, <1>2, <1>4 DEF x

LEMMA ComplainSaves ==
  ASSUME NEW s \in State, NEW ds, NEW told \in SUBSET Node, ds \subseteq Node
  PROVE  Saves(Complain(s, ds, told), s)
<1> DEFINE pairs == UNION {{d} \X s.rt[d].prec : d \in {e \in ds : Has(s, e)}}
           ks == SetToSeq(pairs)
           errs == [i \in DOMAIN ks |-> RERR(ks[i][2], told)]
           x == Complain(s, ds, told)
<1>1. \A d \in ds : Has(s, d) => s.rt[d].prec \in SUBSET Node
  BY RouteOf
<1>2. pairs \subseteq Node \X Node
  BY <1>1
<1> HIDE DEF pairs
<1>3. IsFiniteSet(pairs)
  BY <1>2, Constants, FS_Product, FS_Subset
<1>4. ks \in Seq(pairs)
  BY <1>3, Listed
<1> HIDE DEF ks
<1>5. Len(ks) \in Nat /\ DOMAIN ks = 1 .. Len(ks) /\ \A i \in 1 .. Len(ks) : ks[i][2] \in Node
  BY <1>2, <1>4
<1>6. \A k \in Node : RERR(k, told) \in Frame /\ RERR(k, told).type = "rerr"
  BY DEF RERR, RERRs, Frame
<1>7. errs \in [1 .. Len(ks) -> Frame] /\ \A i \in 1 .. Len(ks) : errs[i].type # "data"
  BY <1>5, <1>6
<1> HIDE DEF errs
<1>8. errs \in Seq(Frame) /\ Len(errs) = Len(ks)
  BY <1>5, <1>7
<1>9. x = [s EXCEPT !.air = s.air \o errs]
  BY DEF Complain, pairs, ks, errs
<1> HIDE DEF x
<1>10. x.air = s.air \o errs /\ SameBuffers(x, s) /\ x.rd = s.rd /\ x.up = s.up /\ x.dropped = s.dropped
  BY <1>9 DEF State, SameBuffers
<1>11. Saves(x, s)
  BY <1>7, <1>8, <1>10, MoreSaves
<1> QED
  BY <1>11 DEF x

-----------------------------------------------------------------------------
(* What each handler does to the packets. *)
LEMMA FitFlushSaves ==
  ASSUME NEW n \in Node, NEW X, NEW s, FitBut(s, n, X), NEW d \in Node
  PROVE  Saves(processBuffered(s, n, d), s)
  BY FlushSaves DEF FitBut, Within

LEMMA RREQSaves ==
  ASSUME NEW n \in Node, NEW s, Fit(s, n), NEW k \in Node \ {n}, NEW f \in RREQs, f.sseq > 0
  PROVE  Saves(recvRREQ(s, n, k, f), s)
<1> DEFINE s1 == updateSimpleRRoute(s, k)
           s2 == [s1 EXCEPT !.seen[f.orig] = Remembered(s1, f)]
           b  == RouteBack(s2, k, f)
           p  == processBuffered(b, n, f.orig)
           s3 == processBuffered(p, n, k)
           x  == recvRREQ(s, n, k, f)
<1>0. \A y : Fit(y, n) => y \in State /\ FitBut(y, n, {})
  BY DEF Fit, FitBut
<1>1. f.orig \in Node /\ f.dst \in Node /\ f.sseq \in Nat /\ f.hops + 1 \in Nat
  BY DEF RREQs
<1>2. Fit(s1, n) /\ Saves(s1, s)
  BY <1>0, SimpleFit, SimpleSaves
<1>3. x = IF Own(n, f) \/ ~Fresh(s1, f) THEN s1
          ELSE IF f.dst = n
          THEN Put(CaughtUp(s3, n, f), RREP(k, n, f.orig, 0, Seqno(CaughtUp(s3, n, f), n), Diameter))
          ELSE IF Knows(s3, f)
          THEN Put(updatePrecursorList(updatePrecursorList(s3, f.dst, k), f.orig, s3.rt[f.dst].next),
                   RREP(k, f.dst, f.orig, s3.rt[f.dst].hops, s3.rt[f.dst].seqno, Diameter))
          ELSE IF f.ttl = 1 THEN s3
          ELSE Put(s3, [f EXCEPT !.hops = @ + 1, !.ttl = @ - 1])
  BY DEF recvRREQ
<1> SUFFICES Saves(x, s)
  OBVIOUS
<1> HIDE DEF x, s1
<1>4. Fit(s2, n) /\ s2 \in State
  BY <1>0, <1>2, Remembering
<1>5. SameWay(s2, s1) /\ SameBuffers(s2, s1) /\ s2.up = s1.up /\ s2.dropped = s1.dropped
  BY <1>0, <1>2 DEF State, SameWay, SameBuffers
<1>6. Saves(s2, s1)
  BY <1>5, SameSaves
<1> HIDE DEF s2
<1>7. Fit(b, n) /\ Valid(b, f.orig)
  BY <1>4, RouteBackFit
<1>8. Saves(b, s2)
  <2> DEFINE seq == IF Has(s2, f.orig) /\ s2.rt[f.orig].known /\ Seqno(s2, f.orig) > f.sseq
                      THEN Seqno(s2, f.orig) ELSE f.sseq
  <2>1. seq \in Nat
    BY <1>1, <1>4, RouteOf DEF Seqno
  <2>2. b = SetRoute(s2, f.orig, k, seq, f.hops + 1)
    BY DEF RouteBack
  <2> HIDE DEF seq, b
  <2> QED
    BY <1>1, <1>4, <2>1, <2>2, FreshSaves
<1> HIDE DEF b
<1>9. Fit(p, n) /\ Saves(p, b)
  BY <1>0, <1>1, <1>7, Emptied, FitFlushSaves
<1> HIDE DEF p
<1>10. Fit(s3, n) /\ s3 \in State /\ Saves(s3, p)
  BY <1>0, <1>9, Emptied, FitFlushSaves
<1> HIDE DEF s3
<1>11. Saves(s3, s)
  <2>1. Saves(s2, s)
    BY <1>2, <1>6, SavesOn
  <2>2. Saves(b, s)
    BY <1>8, <2>1, SavesOn
  <2>3. Saves(p, s)
    BY <1>9, <2>2, SavesOn
  <2> QED
    BY <1>10, <2>3, SavesOn
<1>12. CASE Own(n, f) \/ ~Fresh(s1, f)
  BY <1>2, <1>3, <1>12
<1>13. CASE ~Own(n, f) /\ Fresh(s1, f) /\ f.dst = n
  <2> DEFINE s4 == CaughtUp(s3, n, f)
             q  == Seqno(s4, n)
             g  == RREP(k, n, f.orig, 0, q, Diameter)
  <2>1. Fit(s4, n) /\ s4 \in State
    BY <1>0, <1>10, CaughtUpFit
  <2>2. SameWay(s4, s3) /\ SameBuffers(s4, s3) /\ s4.up = s3.up /\ s4.dropped = s3.dropped
    BY <1>10 DEF CaughtUp, State, SameWay, SameBuffers
  <2>3. x = Put(s4, g)
    BY <1>3, <1>13
  <2>4. Saves(s4, s3)
    BY <2>2, SameSaves
  <2> HIDE DEF s4
  <2>5. q \in Nat
    BY <2>1, RouteOf DEF Fit, FitBut, Rooted, Seqno
  <2> HIDE DEF q
  <2>6. g \in RREPs /\ g.type # "data"
    BY <1>1, <2>5, Constants DEF RREP, RREPs
  <2> HIDE DEF g
  <2>7. g \in Frame
    BY <2>6 DEF Frame
  <2>8. Saves(x, s4)
    BY <2>1, <2>3, <2>6, <2>7, PutSaves
  <2> QED
    BY <1>11, <2>4, <2>8, SavesOn
<1>14. CASE ~Own(n, f) /\ Fresh(s1, f) /\ f.dst # n /\ Knows(s3, f)
  <2> DEFINE r  == s3.rt[f.dst]
             y  == updatePrecursorList(s3, f.dst, k)
             s4 == updatePrecursorList(y, f.orig, r.next)
             g  == RREP(k, f.dst, f.orig, r.hops, r.seqno, Diameter)
  <2>1. r.hops \in Nat /\ r.seqno \in Nat /\ r.next \in Node
    BY <1>1, <1>10, <1>14, RouteOf DEF Knows, Valid
  <2>2. x = Put(s4, g)
    BY <1>3, <1>14
  <2> HIDE DEF r
  <2>3. g \in RREPs /\ g.type # "data"
    BY <1>1, <2>1, Constants DEF RREP, RREPs
  <2> HIDE DEF g
  <2>4. g \in Frame
    BY <2>3 DEF Frame
  <2>5. Fit(y, n) /\ y \in State /\ Saves(y, s3)
    BY <1>0, <1>1, <1>10, PrecededFit, PrecededSaves
  <2> HIDE DEF y
  <2>6. s4 \in State /\ Saves(s4, y)
    BY <1>0, <1>1, <2>1, <2>5, PrecededFit, PrecededSaves
  <2> HIDE DEF s4
  <2>7. Saves(x, s4)
    BY <2>2, <2>3, <2>4, <2>6, PutSaves
  <2> QED
    BY <1>11, <2>5, <2>6, <2>7, SavesOn
<1>15. CASE ~Own(n, f) /\ Fresh(s1, f) /\ f.dst # n /\ ~Knows(s3, f) /\ f.ttl = 1
  BY <1>3, <1>11, <1>15
<1>16. CASE ~Own(n, f) /\ Fresh(s1, f) /\ f.dst # n /\ ~Knows(s3, f) /\ f.ttl # 1
  <2> DEFINE g == [f EXCEPT !.hops = @ + 1, !.ttl = @ - 1]
  <2>1. f.hops + 1 \in Nat /\ f.ttl - 1 \in Int
    BY DEF RREQs
  <2>2. g \in RREQs /\ g.type # "data"
    BY <2>1 DEF RREQs
  <2>3. x = Put(s3, g)
    BY <1>3, <1>16
  <2> HIDE DEF g
  <2>4. g \in Frame
    BY <2>2 DEF Frame
  <2>5. Saves(x, s3)
    BY <1>10, <2>2, <2>3, <2>4, PutSaves
  <2> QED
    BY <1>11, <2>5, SavesOn
<1> QED
  BY <1>12, <1>13, <1>14, <1>15, <1>16

LEMMA RREPSaves ==
  ASSUME NEW n \in Node, NEW s, Fit(s, n), NEW k \in Node \ {n}, NEW f \in RREPs
  PROVE  Saves(recvRREP(s, n, k, f), s)
<1> DEFINE s1 == updateSimpleRRoute(s, k)
           z  == SetRoute(s1, f.dst, k, f.seq, f.hops + 1)
           s2 == IF Better(s1, f) THEN z ELSE s1
           p  == processBuffered(s2, n, f.dst)
           s3 == processBuffered(p, n, k)
           to == s3.rt[f.orig].next
           y  == updatePrecursorList(s3, f.dst, to)
           s4 == updatePrecursorList(y, k, to)
           g  == [f EXCEPT !.to = to, !.hops = @ + 1, !.ttl = @ - 1]
           x  == recvRREP(s, n, k, f)
<1>0. \A w : Fit(w, n) => w \in State /\ FitBut(w, n, {})
  BY DEF Fit, FitBut
<1>1. f.orig \in Node /\ f.dst \in Node /\ f.seq \in Nat /\ f.hops + 1 \in Nat /\ f.ttl - 1 \in Int
  BY DEF RREPs
<1>2. Fit(s1, n) /\ Saves(s1, s) /\ s1 \in State
  BY <1>0, SimpleFit, SimpleSaves
<1>3. x = IF f.orig = n \/ ~Has(s3, f.orig) THEN s3
          ELSE IF f.ttl > 1 /\ Valid(s4, f.orig) THEN Put(s4, g) ELSE s4
  BY DEF recvRREP
<1>4. Fit(p, n)
  <2>1. p = LET v == IF Better(s1, f) THEN SetRoute(s1, f.dst, k, f.seq, f.hops + 1) ELSE s1
            IN  processBuffered(v, n, f.dst)
    OBVIOUS
  <2> QED
    BY <1>2, AnswerTaken
<1> SUFFICES Saves(x, s)
  OBVIOUS
<1> HIDE DEF x, s1
<1>5. Saves(s2, s1) /\ \E X : FitBut(s2, n, X)
  <2>1. CASE ~Better(s1, f)
    BY <1>0, <1>2, <2>1 DEF Saves
  <2>2. CASE Better(s1, f)
    <3>1. Saves(z, s1)
      BY <1>1, <1>2, FreshSaves
    <3>2. f.dst = n => f.seq > 0
      <4>1. Has(s1, n) /\ s1.rt[n].known /\ s1.rt[n].seqno > 0 /\ s1.rt[n].seqno \in Nat
        BY <1>2, RouteOf DEF Fit, FitBut, Rooted
      <4> QED
        BY <1>1, <2>2, <4>1 DEF Better
    <3>3. FitBut(s1, n, {f.dst})
      BY <1>2 DEF Fit, FitBut
    <3>4. FitBut(z, n, {f.dst})
      BY <1>1, <3>2, <3>3, FreshFit
    <3>5. s2 = z
      BY <2>2
    <3> HIDE DEF s2, z
    <3> QED
      BY <3>1, <3>4, <3>5
  <2> QED
    BY <2>1, <2>2
<1> HIDE DEF s2
<1>6. Saves(p, s2)
  BY <1>1, <1>5, FitFlushSaves
<1> HIDE DEF p
<1>7. Fit(s3, n) /\ s3 \in State /\ Saves(s3, p)
  BY <1>0, <1>4, Emptied, FitFlushSaves
<1> HIDE DEF s3
<1>8. Saves(s3, s)
  <2>1. Saves(s2, s)
    BY <1>2, <1>5, SavesOn
  <2>2. Saves(p, s)
    BY <1>6, <2>1, SavesOn
  <2> QED
    BY <1>7, <2>2, SavesOn
<1>9. CASE f.orig = n \/ ~Has(s3, f.orig)
  BY <1>3, <1>8, <1>9
<1>10. CASE f.orig # n /\ Has(s3, f.orig)
  <2>1. to \in Node
    BY <1>1, <1>7, <1>10, RouteOf
  <2> HIDE DEF to
  <2>2. Fit(y, n) /\ y \in State /\ Saves(y, s3)
    BY <1>0, <1>1, <1>7, <2>1, PrecededFit, PrecededSaves
  <2> HIDE DEF y
  <2>3. s4 \in State /\ Saves(s4, y)
    BY <1>0, <2>1, <2>2, PrecededFit, PrecededSaves
  <2> HIDE DEF s4
  <2>4. Saves(s4, s)
    BY <1>8, <2>2, <2>3, SavesOn
  <2>5. g \in RREPs /\ g.type # "data"
    BY <1>1, <2>1 DEF RREPs
  <2> HIDE DEF g
  <2>6. g \in Frame
    BY <2>5 DEF Frame
  <2>7. Saves(Put(s4, g), s)
    BY <2>3, <2>4, <2>5, <2>6, PutSaves, SavesOn
  <2> QED
    BY <1>3, <1>10, <2>4, <2>7
<1> QED
  BY <1>9, <1>10

LEMMA RERRSaves ==
  ASSUME NEW n \in Node, NEW s, Fit(s, n), NEW k \in Node \ {n}, NEW f \in RERRs
  PROVE  Saves(recvRERR(s, k, f), s)
<1> DEFINE ds == {d \in f.dsts : Has(s, d) /\ s.rt[d].next = k}
           t == [d \in Node |-> IF d \in ds THEN [s.rt[d] EXCEPT !.flag = "invalid"] ELSE s.rt[d]]
           y == [s EXCEPT !.rt = t]
<1>0. s \in State
  BY DEF Fit, FitBut
<1>1. ds \in SUBSET Node
  BY DEF RERRs
<1>2. recvRERR(s, k, f) = Complain(y, ds, ds)
  BY DEF recvRERR
<1>3. \A r \in Route : [r EXCEPT !.flag = "invalid"] \in Route
  BY DEF Route, Flag
<1>4. \A d \in ds : s.rt[d] \in Route
  BY <1>0, <1>1, RouteOf
<1>5. \A d \in Node : s.rt[d] \in Route \cup {None}
  BY <1>0, Fields
<1> HIDE DEF ds
<1>6. t \in [Node -> Route \cup {None}]
  BY <1>3, <1>4, <1>5
<1> HIDE DEF t
<1>7. y \in State /\ SameWay(y, s) /\ SameBuffers(y, s) /\ y.up = s.up /\ y.dropped = s.dropped
  BY <1>0, <1>6 DEF State, SameWay, SameBuffers
<1>8. Saves(y, s)
  BY <1>7, SameSaves
<1> HIDE DEF y
<1>9. Saves(Complain(y, ds, ds), y)
  BY <1>1, <1>7, ComplainSaves
<1> QED
  BY <1>2, <1>8, <1>9, SavesOn

LEMMA DataTakes ==
  ASSUME NEW n \in Node, NEW s, Fit(s, n), NEW b \in Bundle
  PROVE  Takes(recvData(s, n, b), s, b.id)
<1> DEFINE d == Dst[b.id]
           c == [b EXCEPT !.ttl = @ - 1]
           r == s.rt[d]
           x == recvData(s, n, b)
<1> SUFFICES Takes(x, s, b.id)
  OBVIOUS
<1>0. s \in State /\ FitBut(s, n, {})
  BY DEF Fit, FitBut
<1>1. d \in Node /\ b.id \in Packet /\ b.ttl \in Nat
  BY Constants, BundleIs
<1>2. CASE d = n
  <2>1. x = [s EXCEPT !.up = @ \cup {b.id}]
    BY <1>2 DEF recvData
  <2> HIDE DEF x
  <2>2. SameWay(x, s) /\ SameBuffers(x, s) /\ x.up = s.up \cup {b.id} /\ x.dropped = s.dropped
    BY <1>0, <2>1 DEF State, SameWay, SameBuffers
  <2> QED
    BY <2>2, EndTakes
<1>3. CASE d # n /\ (b.ttl <= 1 \/ ~Has(s, d))
  <2>1. x = Drop(s, b)
    BY <1>3 DEF recvData
  <2> QED
    BY <1>0, <2>1, DropTakes
<1>4. CASE d # n /\ ~(b.ttl <= 1) /\ Has(s, d)
  <2>1. c \in Bundle /\ c.id = b.id
    BY <1>4, Older
  <2>2. r.next \in Node /\ r.flag \in Flag
    BY <1>0, <1>1, <1>4, RouteOf
  <2>3. CASE r.flag = "valid"
    <3>1. x = sendToQueue(s, n, c, r.next)
      BY <1>4, <2>3 DEF recvData
    <3> HIDE DEF x, c, r, d
    <3>3. Dst[c.id] # n
      BY <1>4, <2>1 DEF d
    <3>2. Takes(sendToQueue(s, n, c, r.next), s, c.id)
      BY <1>0, <2>1, <2>2, <3>3, SentTakes
    <3> QED
      BY <2>1, <3>1, <3>2
  <2>4. CASE r.flag = "invalid"
    <3>1. x = Drop(Complain(s, {d}, {d}), b)
      BY <1>4, <2>4 DEF recvData
    <3> DEFINE ds == {d}
               y == Complain(s, ds, ds)
    <3>2. ds \in SUBSET Node /\ ds \subseteq Node
      BY <1>1
    <3> HIDE DEF x, ds
    <3>3. FitBut(Complain(s, ds, ds), n, {})
      BY <1>0, <3>2, ComplainFit
    <3>4. Saves(Complain(s, ds, ds), s)
      BY <1>0, <3>2, ComplainSaves
    <3> HIDE DEF y
    <3>5. y \in State /\ Saves(y, s)
      BY <3>3, <3>4 DEF FitBut, y
    <3>6. Takes(Drop(y, b), y, b.id)
      BY <3>5, DropTakes
    <3>7. Takes(Drop(y, b), s, b.id)
      BY <3>5, <3>6, SavesOn
    <3> QED
      BY <3>1, <3>7 DEF y, ds
  <2>5. CASE r.flag = "repaired"
    <3>1. s.repair[d] # None
      BY <1>0, <1>1, <1>4, <2>5 DEF FitBut, Guard
    <3>2. x = attachRepair(s, d, c)
      BY <1>4, <2>5, <3>1 DEF recvData
    <3>3. Dst[c.id] = d
      BY <2>1
    <3> HIDE DEF x, c, r, d
    <3>4. Takes(attachRepair(s, d, c), s, c.id)
      BY <1>0, <1>1, <2>1, <3>1, <3>3, AttachTakes
    <3> QED
      BY <2>1, <3>2, <3>4
  <2> QED
    BY <2>2, <2>3, <2>4, <2>5 DEF Flag
<1> QED
  BY <1>2, <1>3, <1>4

(* A frame of k is heard at n: only data brings a packet. *)
LEMMA HeardSaves ==
  ASSUME NEW n \in Node, NEW s, Fit(s, n), NEW k \in Node \ {n}, NEW f, Proper(f, k)
  PROVE  IF f.type = "data" THEN Takes(recv(s, n, k, f), s, f.pkt.id)
                            ELSE Saves(recv(s, n, k, f), s)
<1>0. f \in Frame /\ s \in State
  BY DEF Proper, Fit, FitBut
<1>1. CASE f.type = "rreq"
  <2>1. f \in RREQs /\ f.sseq > 0
    BY <1>0, <1>1, FrameKinds DEF Proper
  <2>2. recv(s, n, k, f) = recvRREQ(s, n, k, f)
    BY <1>1 DEF recv
  <2> QED
    BY <1>1, <2>1, <2>2, RREQSaves
<1>2. CASE f.type = "rrep"
  <2>1. f \in RREPs
    BY <1>0, <1>2, FrameKinds
  <2>2. recv(s, n, k, f) = recvRREP(s, n, k, f)
    BY <1>2 DEF recv
  <2> QED
    BY <1>2, <2>1, <2>2, RREPSaves
<1>3. CASE f.type = "hello"
  <2>1. f.seq \in Nat /\ 1 \in Nat
    BY <1>0, <1>3, FrameKinds DEF HELLOs
  <2>2. recv(s, n, k, f) = SetRoute(s, k, k, f.seq, 1)
    BY <1>3 DEF recv, recvHello
  <2> QED
    BY <1>0, <1>3, <2>1, <2>2, FreshSaves
<1>4. CASE f.type = "rerr"
  <2>1. f \in RERRs
    BY <1>0, <1>4, FrameKinds
  <2>2. recv(s, n, k, f) = recvRERR(s, k, f)
    BY <1>4 DEF recv
  <2> QED
    BY <1>4, <2>1, <2>2, RERRSaves
<1>5. CASE f.type = "data"
  <2>1. f.pkt \in Bundle
    BY <1>0, <1>5, FrameKinds
  <2>2. recv(s, n, k, f) = recvData(s, n, f.pkt)
    BY <1>5 DEF recv
  <2> QED
    BY <1>5, <2>1, <2>2, DataTakes
<1> QED
  BY <1>0, <1>1, <1>2, <1>3, <1>4, <1>5, FrameKinds

(* What leaves is the head of the frames. *)
LEMMA SentLess ==
  ASSUME NEW n \in Node, NEW s, Fit(s, n), s.air # <<>>, NEW p
  PROVE  /\ Held(Head(s.air), p) <= Total(s, p)
         /\ Total(s, p) <= 1 => Total(Sent(s), p) = Total(s, p) - Held(Head(s.air), p)
<1> DEFINE x == Sent(s)
           f == Head(s.air)
           left == Tail(s.air)
           h == Head(s.rd)
           rest == Tail(s.rd)
<1>0. s \in State /\ s.air \in Seq(Frame) /\ s.rd \in Seq(DATAs)
  BY Fields DEF Fit, FitBut
<1>1. f \in Frame /\ left \in Seq(Frame) /\ <<f>> \in Seq(Frame) /\ s.air = <<f>> \o left
  BY <1>0
<1>2. Agree(Count(Framed(s.air, p)), Held(f, p) + Count(Framed(left, p)))
  <2>1. Agree(Count(Framed(<<f>> \o left, p)), Count(Framed(<<f>>, p)) + Count(Framed(left, p)))
    <3> HIDE DEF f, left
    <3> QED
      BY <1>1, FramedConcat
  <2>2. Count(Framed(<<f>>, p)) = Held(f, p)
    BY OneFramed
  <2> QED
    BY <1>1, <2>1, <2>2
<1>3. x.ctrl = s.ctrl /\ x.repair = s.repair /\ x.up = s.up /\ x.dropped = s.dropped
  BY <1>0 DEF Sent, State
<1> DEFINE a == Count(Framed(s.air, p))
           a1 == Count(Framed(x.air, p))
           l == Count(Framed(left, p))
           q == Count(Framed(s.rd, p))
           q1 == Count(Framed(x.rd, p))
           v == Held(f, p)
           o == Count(Kept(Buffered(s.ctrl[Dst[p]]), p)) + Count(Kept(Buffered(s.repair[Dst[p]]), p))
                  + In(s.up, p) + In(s.dropped, p)
<1>4. /\ a \in {0, 1, 2} /\ a1 \in {0, 1, 2} /\ l \in {0, 1, 2} /\ q \in {0, 1, 2} /\ q1 \in {0, 1, 2}
      /\ v \in {0, 1}
  BY CountIs DEF Held
<1>5. o \in Nat /\ Total(s, p) = a + q + o /\ Total(x, p) = a1 + q1 + o
  <2> DEFINE c == Count(Kept(Buffered(s.ctrl[Dst[p]]), p))
             r == Count(Kept(Buffered(s.repair[Dst[p]]), p))
             i == In(s.up, p)
             g == In(s.dropped, p)
  <2>1. Total(s, p) = a + q + c + r + i + g /\ Total(x, p) = a1 + q1 + c + r + i + g
    BY <1>3 DEF Total
  <2>2. c \in Nat /\ r \in Nat /\ i \in Nat /\ g \in Nat
    <3>1. \A S : Count(S) \in Nat
      BY CountIs
    <3>2. i \in Nat /\ g \in Nat
      BY DEF In
    <3> QED
      BY <3>1, <3>2
  <2>3. o = c + r + i + g
    OBVIOUS
  <2> HIDE DEF c, r, i, g, a, a1, q, q1, o
  <2> QED
    BY <1>4, <2>1, <2>2, <2>3
<1>6. \/ a1 = l /\ q1 = q
      \/ \E w \in {0, 1} : \E z \in {0, 1, 2} : /\ Agree(a1, l + w) /\ Agree(q, w + z) /\ q1 = z
  <2>1. CASE Len(left) <= Below /\ s.rd # <<>>
    <3>1. x.air = Append(left, h) /\ x.rd = rest
      BY <1>0, <2>1 DEF Sent, State
    <3>2. h \in DATAs /\ h \in Frame /\ rest \in Seq(DATAs) /\ <<h>> \in Seq(Frame) /\ s.rd = <<h>> \o rest
      <4>1. h \in DATAs /\ rest \in Seq(DATAs) /\ s.rd = <<h>> \o rest
        BY <1>0, <2>1
      <4>2. h \in Frame
        BY <4>1 DEF Frame
      <4> QED
        BY <4>1, <4>2
    <3>3. rest \in Seq(Frame)
      BY <3>2, Widened
    <3> HIDE DEF x, h, rest, left
    <3>4. Agree(Count(Framed(s.rd, p)), Count(Framed(<<h>>, p)) + Count(Framed(rest, p)))
      BY <3>2, <3>3, FramedConcat
    <3>5. Count(Framed(<<h>>, p)) = Held(h, p) /\ Held(h, p) \in {0, 1}
      BY OneFramed DEF Held
    <3>6. Agree(Count(Framed(Append(left, h), p)), Count(Framed(left, p)) + Held(h, p))
      BY <1>1, <3>2, FramedMore
    <3>7. Count(Framed(rest, p)) \in {0, 1, 2} /\ q1 = Count(Framed(rest, p))
      BY <3>1, CountIs
    <3>8. Agree(a1, l + Held(h, p)) /\ Agree(q, Held(h, p) + Count(Framed(rest, p)))
      BY <3>1, <3>4, <3>5, <3>6
    <3> QED
      BY <3>5, <3>7, <3>8
  <2>2. CASE ~(Len(left) <= Below /\ s.rd # <<>>)
    <3>1. x.air = left /\ x.rd = s.rd
      BY <1>0, <2>2 DEF Sent, State
    <3> QED
      BY <3>1
  <2> QED
    BY <2>1, <2>2
<1>7. Agree(a, v + l)
  BY <1>2
<1>8. v <= a
  <2> HIDE DEF a, v, l
  <2> QED
    BY <1>4, <1>7 DEF Agree
<1> HIDE DEF a, a1, l, q, q1, v, o, x
<1>9. Total(s, p) <= 1 => Total(x, p) = Total(s, p) - v
  <2> SUFFICES ASSUME a + q + o <= 1 PROVE a1 + q1 + o = a + q + o - v
    BY <1>4, <1>5
  <2>1. a = v + l /\ q <= 1
    BY <1>4, <1>5, <1>7 DEF Agree
  <2>2. CASE a1 = l /\ q1 = q
    BY <1>4, <1>5, <2>1, <2>2
  <2>3. ASSUME NEW w \in {0, 1}, NEW z \in {0, 1, 2}, Agree(a1, l + w), Agree(q, w + z), q1 = z
        PROVE  a1 + q1 + o = a + q + o - v
    <3>1. q = w + z
      BY <1>4, <2>1, <2>3 DEF Agree
    <3>2. a1 = l + w
      BY <1>4, <1>5, <2>1, <2>3, <3>1 DEF Agree
    <3> QED
      BY <1>4, <1>5, <2>1, <2>3, <3>1, <3>2
  <2> QED
    BY <1>6, <2>2, <2>3
<1>10. v <= Total(s, p)
  BY <1>4, <1>5, <1>8
<1> QED
  BY <1>9, <1>10 DEF v, x, f

(* The layer below gives a packet back: it waits for the repair. *)
LEMMA CallTakes ==
  ASSUME NEW n \in Node, NEW s, Fit(s, n), NEW k \in Node, NEW b \in Bundle, Dst[b.id] # n,
         NEW u \in Unset
  PROVE  Takes(LinkLayerCall(s, n, k, b, u), s, b.id)
<1> DEFINE d  == Dst[b.id]
           c  == [pkts |-> <<>>, broken |-> k]
           s0 == IF s.repair[d] = None THEN Resave(s, d, c) ELSE s
           s1 == attachRepair(s0, d, b)
           r  == [s1.rt[d] EXCEPT !.flag = "repaired", !.seqno = @ + 1]
           y  == [s1 EXCEPT !.rt[d].flag = "repaired", !.rt[d].seqno = @ + 1]
           x  == LinkLayerCall(s, n, k, b, u)
<1>0. s \in State /\ FitBut(s, n, {d}) /\ k # None
  BY Constants DEF Fit, FitBut
<1>1. d \in Node \ {n}
  BY Constants, BundleIs
<1>2. x = IF s.repair[d] = None /\ Has(s, d) /\ s.rt[d].flag # "repaired"
            THEN sendRREQ(y, n, d, s.rt[d].hops, u) ELSE s1
  BY DEF LinkLayerCall, Resave
<1>3. c \in Repairing /\ c.broken = k /\ c # None /\ c.pkts = <<>> /\ Buffered(c) = <<>>
  <2>1. c \in Repairing /\ c.broken = k /\ c.pkts = <<>>
    BY EmptySeq DEF Repairing
  <2> HIDE DEF c
  <2> QED
    BY <2>1, NoneOf DEF Buffered
<1>4. For(<<>>, d) /\ Len(<<>>) <= BufferMax
  BY Constants DEF For
<1> HIDE DEF c, x
<1>5. FitBut(s0, n, {d}) /\ s0.rt = s.rt /\ s0.repair[d] # None /\ Saves(s0, s)
  <2>1. CASE s.repair[d] = None
    <3>1. s0 = Resave(s, d, c)
      BY <2>1
    <3>2. FitBut(Resave(s, d, c), n, {d})
      BY <1>0, <1>1, <1>3, <1>4, ResaveFit
    <3>3. /\ Saves(Resave(s, d, c), s) /\ Resave(s, d, c).repair[d] = c
          /\ Resave(s, d, c).rt = s.rt
      BY <1>0, <1>1, <1>3, <2>1, OpenSaves
    <3> QED
      BY <1>3, <3>1, <3>2, <3>3
  <2>2. CASE s.repair[d] # None
    BY <1>0, <2>2 DEF Saves
  <2> QED
    BY <2>1, <2>2
<1> HIDE DEF s0
<1>6. FitBut(s1, n, {d}) /\ s1.rt = s.rt /\ s1 \in State
  <2>1. FitBut(s1, n, {d}) /\ s1.rt = s0.rt
    BY <1>1, <1>5, AttachFit
  <2> QED
    BY <1>5, <2>1 DEF FitBut
<1>7. Takes(s1, s, b.id)
  <2>1. Takes(s1, s0, b.id)
    BY <1>1, <1>5, AttachTakes DEF FitBut
  <2> QED
    BY <1>5, <2>1, SavesOn
<1> HIDE DEF s1
<1>8. CASE s.repair[d] = None /\ Has(s, d) /\ s.rt[d].flag # "repaired"
  <2>1. s1.rt[d] \in Route /\ s1.rt[d].seqno \in Nat
    BY <1>1, <1>6, <1>8, RouteOf DEF Has
  <2>2. r \in Route /\ r.seqno > 0 /\ r.known = s1.rt[d].known
    <3> DEFINE q == s1.rt[d]
    <3>1. q.seqno + 1 \in Nat /\ q.seqno + 1 > 0
      BY <2>1
    <3> HIDE DEF q
    <3>2. r = [q EXCEPT !.flag = "repaired", !.seqno = @ + 1]
      BY DEF q
    <3> HIDE DEF r
    <3> QED
      BY <2>1, <3>1, <3>2 DEF Route, Flag, q
  <2>3. y = Reroute(s1, d, r)
    BY <1>1, <1>6 DEF Reroute, State
  <2> HIDE DEF r, y
  <2>4. FitBut(y, n, {d})
    BY <1>1, <1>6, <2>2, <2>3, RouteFit
  <2>5. Saves(y, s1)
    BY <1>1, <1>6, <2>2, <2>3, RerouteSaves
  <2>6. s.rt[d].hops \in Int
    BY <1>0, <1>1, <1>8, RouteOf
  <2> DEFINE z == sendRREQ(y, n, d, s.rt[d].hops, u)
  <2>7. Saves(z, y)
    BY <1>1, <2>4, <2>6, AskSaves
  <2>8. x = z
    BY <1>2, <1>8
  <2> HIDE DEF z
  <2>9. Takes(z, s, b.id)
    BY <1>7, <2>5, <2>7, TakesOn
  <2> QED
    BY <2>8, <2>9 DEF x
<1>9. CASE ~(s.repair[d] = None /\ Has(s, d) /\ s.rt[d].flag # "repaired")
  BY <1>2, <1>7, <1>9 DEF x
<1> QED
  BY <1>8, <1>9

(* The kernel's packet goes out, waits or is dropped. *)
LEMMA SendingTakes ==
  ASSUME NEW n \in Node, NEW s, Fit(s, n), NEW d \in Node \ {n}, NEW b \in Bundle, Dst[b.id] = d,
         NEW u \in Unset
  PROVE  Takes(Sending(s, n, d, b, u), s, b.id)
<1> DEFINE x == Sending(s, n, d, b, u)
<1> SUFFICES Takes(x, s, b.id)
  OBVIOUS
<1>0. s \in State /\ FitBut(s, n, {})
  BY DEF Fit, FitBut
<1>1. CASE Valid(s, d)
  <2>1. x = sendToQueue(s, n, b, s.rt[d].next) /\ s.rt[d].next \in Node
    BY <1>0, <1>1, RouteOf DEF Sending, Valid
  <2> QED
    BY <1>0, <2>1, SentTakes
<1>2. CASE ~Valid(s, d) /\ s.ctrl[d] = None
  <2> DEFINE bs == Append(<<>>, b)
             c == [pkts |-> <<b>>, retries |-> 0]
             y == Rebuffer(s, d, c)
  <2>1. /\ c \in Waiting /\ c.pkts = bs /\ bs \in Seq(Bundle) /\ For(bs, d)
        /\ Len(bs) <= BufferMax /\ <<>> \in Seq(Bundle)
    BY EmptySeq, Constants DEF Waiting, For
  <2>2. x = sendRREQ(y, n, d, Diameter, u)
    BY <1>2 DEF Sending, Rebuffer
  <2> HIDE DEF c
  <2>3. Buffered(c) = bs /\ Buffered(s.ctrl[d]) = <<>>
    BY <1>2, <2>1, NoneOf DEF Buffered
  <2>4. FitBut(y, n, {})
    <3> HIDE DEF bs
    <3> QED
      BY <1>0, <2>1, <2>3, RebufferFit
  <2>5. Takes(y, s, b.id)
    <3>1. /\ SameWay(y, s) /\ y.up = s.up /\ y.dropped = s.dropped
          /\ Aside(y, s, d) /\ y.ctrl[d] = c /\ y.repair = s.repair
      BY <1>0, <2>1, RebufferAside
    <3> HIDE DEF y
    <3> QED
      BY <2>1, <2>3, <3>1, BufferTakes
  <2> HIDE DEF y, x
  <2>6. Saves(sendRREQ(y, n, d, Diameter, u), y)
    BY <2>4, AskSaves, Constants
  <2> QED
    BY <2>2, <2>5, <2>6, TakesOn
<1>3. CASE ~Valid(s, d) /\ s.ctrl[d] # None /\ Len(s.ctrl[d].pkts) < BufferMax
  <2> DEFINE e == s.ctrl[d]
             c == [e EXCEPT !.pkts = Append(@, b)]
  <2>1. e \in Waiting /\ e.pkts \in Seq(Bundle) /\ Buffered(s.ctrl[d]) = e.pkts
    <3>1. e \in Waiting
      BY <1>0, <1>3, Fields
    <3> QED
      BY <1>3, <3>1 DEF Waiting, Buffered
  <2>2. Append(e.pkts, b) \in Seq(Bundle)
    BY <2>1
  <2>3. x = Rebuffer(s, d, c)
    BY <1>3 DEF Sending, Rebuffer
  <2> HIDE DEF e
  <2>4. c \in Waiting /\ c.pkts = Append(e.pkts, b)
    BY <2>1, <2>2 DEF Waiting
  <2>5. Buffered(c) = Append(e.pkts, b)
    BY <2>4, NoneOf DEF Buffered
  <2> HIDE DEF c, x
  <2>6. /\ SameWay(x, s) /\ x.up = s.up /\ x.dropped = s.dropped
        /\ Aside(x, s, d) /\ x.ctrl[d] = c /\ x.repair = s.repair
    BY <1>0, <2>3, <2>4, RebufferAside
  <2> QED
    BY <2>1, <2>5, <2>6, BufferTakes
<1>4. CASE ~Valid(s, d) /\ s.ctrl[d] # None /\ ~(Len(s.ctrl[d].pkts) < BufferMax)
  <2>1. x = Drop(s, b)
    BY <1>4 DEF Sending
  <2> QED
    BY <1>0, <2>1, DropTakes
<1> QED
  BY <1>1, <1>2, <1>3, <1>4


(* A request goes out again, or what waited is dropped. *)
LEMMA RetriedSaves ==
  ASSUME NEW n \in Node, NEW s, Fit(s, n), NEW d \in Node, s.ctrl[d] # None, NEW u \in Unset
  PROVE  Saves(Retried(s, n, d, u), s)
<1> DEFINE x == Retried(s, n, d, u)
           e == s.ctrl[d]
<1> SUFFICES Saves(x, s)
  OBVIOUS
<1>0. s \in State /\ FitBut(s, n, {}) /\ d # n
  BY DEF Fit, FitBut, Filed
<1>1. /\ e \in Waiting /\ e.pkts \in Seq(Bundle) /\ For(e.pkts, d) /\ e.retries \in Nat
      /\ Len(e.pkts) <= BufferMax /\ Buffered(s.ctrl[d]) = e.pkts
  <2>1. e \in Waiting
    BY <1>0, Fields
  <2>2. For(e.pkts, d) /\ Len(e.pkts) <= BufferMax
    BY <1>0 DEF FitBut, Filed, Within, Buffered
  <2> QED
    BY <2>1, <2>2 DEF Waiting, Buffered
<1>2. CASE e.retries < RetryMax
  <2> DEFINE c == [e EXCEPT !.retries = @ + 1]
             y == Rebuffer(s, d, c)
  <2>1. x = sendRREQ(y, n, d, Diameter, u)
    BY <1>2 DEF Retried, Rebuffer
  <2> HIDE DEF e
  <2>2. c \in Waiting /\ c.pkts = e.pkts
    <3>1. e.retries + 1 \in Nat
      BY <1>1
    <3> QED
      BY <1>1, <3>1 DEF Waiting
  <2>3. Buffered(c) = e.pkts
    BY <2>2, NoneOf DEF Buffered
  <2> HIDE DEF c
  <2>4. FitBut(y, n, {})
    BY <1>0, <1>1, <2>2, <2>3, RebufferFit
  <2>5. Saves(y, s)
    <3>1. /\ SameWay(y, s) /\ y.up = s.up /\ y.dropped = s.dropped
          /\ Aside(y, s, d) /\ y.ctrl[d] = c /\ y.repair = s.repair
      BY <1>0, <2>2, RebufferAside
    <3> HIDE DEF y
    <3> QED
      BY <1>1, <2>3, <3>1, BufferSaves
  <2> HIDE DEF y, x
  <2>6. Saves(sendRREQ(y, n, d, Diameter, u), y)
    BY <2>4, AskSaves, Constants
  <2> QED
    BY <2>1, <2>5, <2>6, SavesOn
<1>3. CASE ~(e.retries < RetryMax)
  <2> DEFINE y == Rebuffer(s, d, None)
  <2>1. x = DropAll(y, e.pkts)
    BY <1>3 DEF Retried, Rebuffer
  <2>2. /\ y \in State /\ SameWay(y, s) /\ y.up = s.up /\ y.dropped = s.dropped
        /\ Aside(y, s, d) /\ y.ctrl[d] = None /\ y.repair = s.repair
    BY <1>0, RebufferAside
  <2> HIDE DEF y, x, e
  <2>3. /\ SameBuffers(x, y) /\ SameWay(x, y) /\ x.up = y.up
        /\ x.dropped = y.dropped \cup {e.pkts[i].id : i \in DOMAIN e.pkts}
    BY <1>1, <2>1, <2>2, DropAllIs
  <2>4. /\ SameWay(x, s) /\ x.up = s.up /\ Aside(x, s, d)
        /\ x.dropped = s.dropped \cup {e.pkts[i].id : i \in DOMAIN e.pkts}
        /\ x.ctrl[d] = None /\ x.repair = s.repair
    BY <2>2, <2>3 DEF SameWay, SameBuffers, Aside
  <2>5. Buffered(x.ctrl[d]) = <<>>
    BY <2>4 DEF Buffered
  <2> QED
    BY <1>1, <2>4, <2>5, GoneSaves
<1> QED
  BY <1>2, <1>3

LEMMA BrokenSaves ==
  ASSUME NEW s \in State, NEW k \in Node
  PROVE  Saves(Broken(s, k), s)
<1> DEFINE ds == {d \in Node : Has(s, d) /\ s.rt[d].next = k}
           t == [d \in Node |-> IF d \in ds /\ Valid(s, d)
                  THEN [s.rt[d] EXCEPT !.flag = "invalid", !.seqno = @ + 1] ELSE s.rt[d]]
           y == [s EXCEPT !.rt = t]
           f == RERR(None, ds)
<1>0. \A d \in Node : s.rt[d] \in Route \cup {None}
  BY Fields
<1>1. Broken(s, k) = Put(y, f)
  BY DEF Broken
<1>2. ds \in SUBSET Node
  OBVIOUS
<1> HIDE DEF ds
<1>3. f \in RERRs /\ f.type = "rerr"
  BY <1>2 DEF RERR, RERRs
<1> HIDE DEF f
<1>4. f \in Frame /\ f.type # "data"
  BY <1>3 DEF Frame
<1>5. \A r \in Route : [r EXCEPT !.flag = "invalid", !.seqno = @ + 1] \in Route
  <2> SUFFICES ASSUME NEW r \in Route
               PROVE  [r EXCEPT !.flag = "invalid", !.seqno = @ + 1] \in Route
    OBVIOUS
  <2>1. r.seqno + 1 \in Nat
    BY DEF Route
  <2> QED
    BY <2>1 DEF Route, Flag
<1>6. t \in [Node -> Route \cup {None}]
  <2> SUFFICES ASSUME NEW d \in Node PROVE t[d] \in Route \cup {None}
    OBVIOUS
  <2>1. CASE d \in ds /\ Valid(s, d)
    <3>1. s.rt[d] \in Route
      BY <2>1, RouteOf DEF Valid
    <3> QED
      BY <1>5, <2>1, <3>1
  <2>2. CASE ~(d \in ds /\ Valid(s, d))
    BY <1>0, <2>2
  <2> QED
    BY <2>1, <2>2
<1> HIDE DEF t
<1>7. y \in State /\ SameWay(y, s) /\ SameBuffers(y, s) /\ y.up = s.up /\ y.dropped = s.dropped
  BY <1>6 DEF State, SameWay, SameBuffers
<1> HIDE DEF y
<1>8. Saves(y, s)
  BY <1>7, SameSaves
<1>9. Saves(Put(y, f), y)
  BY <1>4, <1>7, PutSaves
<1> QED
  BY <1>1, <1>8, <1>9, SavesOn

(* A repair is given up: what waited for it is dropped. *)
LEMMA FailedSaves ==
  ASSUME NEW n \in Node, NEW s, Fit(s, n), NEW d \in Node, s.repair[d] # None
  PROVE  Saves(Failed(s, d), s)
<1> DEFINE e == s.repair[d]
           a == Unrepaired(s, d)
           z == Resave(a, d, None)
           y == DropAll(z, e.pkts)
<1>0. s \in State /\ FitBut(s, n, {}) /\ FitBut(s, n, {d}) /\ Guard(s, d) /\ d # n
  BY DEF Fit, FitBut, Filed
<1>1. /\ e \in Repairing /\ e.pkts \in Seq(Bundle) /\ e.broken \in Node /\ For(e.pkts, d)
      /\ Buffered(s.repair[d]) = e.pkts
  <2>1. e \in Repairing
    BY <1>0, Fields
  <2>2. e.broken # None
    BY <1>0 DEF Guard
  <2>3. For(e.pkts, d)
    BY <1>0 DEF FitBut, Filed, Buffered
  <2> QED
    BY <2>1, <2>2, <2>3 DEF Repairing, Buffered
<1>2. a \in State /\ Saves(a, s) /\ a.repair = s.repair
  <2>1. CASE ~Has(s, d)
    BY <1>0, <2>1 DEF Unrepaired, Saves
  <2>2. CASE Has(s, d)
    <3> DEFINE q == s.rt[d]
               i == IF q.known THEN q.seqno - 1 ELSE q.seqno
               r == [q EXCEPT !.flag = "invalid", !.seqno = i]
    <3>1. q \in Route /\ q.seqno \in Nat /\ (q.known => q.seqno > 0)
      BY <1>0, <2>2, RouteOf DEF Guard
    <3>2. a = Reroute(s, d, r)
      BY <1>0, <2>2 DEF Unrepaired, Reroute, State
    <3> HIDE DEF q
    <3>3. i \in Nat
      BY <3>1
    <3> HIDE DEF i
    <3>4. r \in Route
      BY <3>1, <3>3 DEF Route, Flag
    <3> HIDE DEF r, a
    <3>5. Saves(a, s)
      BY <1>0, <3>2, <3>4, RerouteSaves
    <3>6. a \in State /\ SameBuffers(a, s)
      BY <1>0, <3>2, <3>4, Rerouted
    <3> QED
      BY <3>5, <3>6 DEF SameBuffers
  <2> QED
    BY <2>1, <2>2
<1>3. Failed(s, d) = IF e.broken = None THEN y ELSE Broken(y, e.broken)
  BY DEF Failed, Resave
<1>4. Buffered(a.repair[d]) = e.pkts
  BY <1>1, <1>2
<1> HIDE DEF a, e
<1>5. /\ z \in State /\ SameWay(z, a) /\ z.up = a.up /\ z.dropped = a.dropped
      /\ Aside(z, a, d) /\ z.repair[d] = None /\ z.ctrl = a.ctrl
  BY <1>2, ResaveAside
<1> HIDE DEF z
<1>6. /\ SameBuffers(y, z) /\ SameWay(y, z) /\ y.up = z.up
      /\ y.dropped = z.dropped \cup {e.pkts[i].id : i \in DOMAIN e.pkts}
  BY <1>1, <1>5, DropAllIs
<1>7. y \in State
  <2>1. y = [z EXCEPT !.dropped = z.dropped \cup {e.pkts[i].id : i \in DOMAIN e.pkts}]
    BY DEF DropAll
  <2>2. {e.pkts[i].id : i \in DOMAIN e.pkts} \subseteq Packet
    <3>1. \A i \in DOMAIN e.pkts : e.pkts[i] \in Bundle
      BY <1>1
    <3> QED
      BY <3>1, BundleIs
  <2>3. z.dropped \cup {e.pkts[i].id : i \in DOMAIN e.pkts} \in SUBSET Packet
    BY <1>5, <2>2, Fields
  <2> DEFINE g == z.dropped \cup {e.pkts[i].id : i \in DOMAIN e.pkts}
  <2>4. y = [z EXCEPT !.dropped = g] /\ g \in SUBSET Packet
    BY <2>1, <2>3
  <2> HIDE DEF g, y
  <2> QED
    BY <1>5, <2>4 DEF State
<1> HIDE DEF y
<1>8. /\ SameWay(y, a) /\ y.up = a.up /\ Aside(y, a, d)
      /\ y.dropped = a.dropped \cup {e.pkts[i].id : i \in DOMAIN e.pkts}
      /\ y.repair[d] = None /\ y.ctrl = a.ctrl
  BY <1>5, <1>6 DEF SameWay, SameBuffers, Aside
<1>9. Buffered(y.repair[d]) = <<>>
  BY <1>8 DEF Buffered
<1>10. Saves(y, a)
  BY <1>1, <1>4, <1>8, <1>9, GoneSaves
<1>11. Saves(y, s)
  BY <1>2, <1>10, SavesOn
<1>12. Saves(Broken(y, e.broken), s)
  BY <1>1, <1>7, <1>11, BrokenSaves, SavesOn
<1> QED
  BY <1>3, <1>11, <1>12

LEMMA AgedSaves ==
  ASSUME NEW n \in Node, NEW s, Fit(s, n), NEW d \in Node \ {n}, Has(s, d)
  PROVE  Saves([s EXCEPT !.rt[d] = IF @.flag = "valid" THEN [@ EXCEPT !.flag = "invalid"] ELSE None], s)
<1> DEFINE q == s.rt[d]
           r == IF q.flag = "valid" THEN [q EXCEPT !.flag = "invalid"] ELSE None
<1>0. s \in State
  BY DEF Fit, FitBut
<1>1. q \in Route
  BY <1>0, RouteOf
<1>2. [s EXCEPT !.rt[d] = IF @.flag = "valid" THEN [@ EXCEPT !.flag = "invalid"] ELSE None] = Reroute(s, d, r)
  BY <1>0 DEF Reroute, State
<1> HIDE DEF q
<1>3. r \in Route \cup {None}
  BY <1>1 DEF Route, Flag
<1> HIDE DEF r
<1> QED
  BY <1>0, <1>2, <1>3, RerouteSaves

LEMMA GreetSaves ==
  ASSUME NEW n \in Node, NEW s, Fit(s, n)
  PROVE  Saves(Put(s, HELLO(Seqno(s, n))), s)
<1> DEFINE f == HELLO(Seqno(s, n))
<1>0. s \in State /\ FitBut(s, n, {})
  BY DEF Fit, FitBut
<1>1. Seqno(s, n) \in Nat
  BY <1>0, RouteOf DEF FitBut, Rooted, Seqno
<1>2. f \in HELLOs /\ f.type = "hello"
  BY <1>1 DEF HELLO, HELLOs
<1> HIDE DEF f
<1>3. f \in Frame
  BY <1>2 DEF Frame
<1> QED
  BY <1>0, <1>2, <1>3, PutSaves DEF f

-----------------------------------------------------------------------------
(* A packet that was sent is at one node, the others are nowhere. *)
Lies(n, p) == Total(st[n], p) = 1 /\ \A m \in Node \ {n} : Total(st[m], p) = 0
Single == \A p \in Packet : IF p \in sent THEN \E n \in Node : Lies(n, p)
                                          ELSE \A n \in Node : Total(st[n], p) = 0

LEMMA AtMostOne ==
  ASSUME Single, NEW p \in Packet, NEW n \in Node
  PROVE  /\ Total(st[n], p) \in {0, 1}
         /\ Total(st[n], p) = 1 => p \in sent /\ Lies(n, p)
  BY DEF Single, Lies

LEMMA StayedSingle ==
  ASSUME Single, \A n \in Node : Saves(st'[n], st[n]), sent' = sent
  PROVE  Single'
<1>1. \A p \in Packet, n \in Node : Total(st'[n], p) = Total(st[n], p)
  BY AtMostOne DEF Saves
<1> QED
  BY <1>1 DEF Single, Lies

LEMMA OneSingle ==
  ASSUME Single, Safe, NEW n \in Node, NEW x, st' = [st EXCEPT ![n] = x], Saves(x, st[n]), sent' = sent
  PROVE  Single'
<1>1. \A m \in Node : st'[m] = IF m = n THEN x ELSE st[m]
  BY DEF Safe
<1>2. \A m \in Node : Saves(st'[m], st[m])
  BY <1>1 DEF Saves
<1> QED
  BY <1>2, StayedSingle

LEMMA SingleInit == Init => Single
<1> SUFFICES ASSUME Init, NEW p \in Packet, NEW n \in Node
             PROVE  Total(st[n], p) = 0
  BY DEF Single, Init
<1> DEFINE s == st[n]
           d == Dst[p]
<1>1. d \in Node
  BY Constants
<1>2. /\ s.air = <<>> /\ s.rd = <<>> /\ s.up = {} /\ s.dropped = {}
      /\ s.ctrl[d] = None /\ s.repair[d] = None
  BY <1>1 DEF Init, Start
<1>3. Count(Framed(<<>>, p)) = 0 /\ Count(Kept(<<>>, p)) = 0 /\ Buffered(None) = <<>>
  BY OneFramed, OneKept DEF Count, Buffered
<1>4. In({}, p) = 0
  BY DEF In
<1> HIDE DEF s
<1>5. Total(s, p) = 0 + 0 + 0 + 0 + 0 + 0
  BY <1>2, <1>3, <1>4 DEF Total
<1> QED
  BY <1>5 DEF s

LEMMA SendSingle ==
  ASSUME Single, Safe, NEW p \in Packet, Send(p)
  PROVE  Single'
<1> DEFINE n == Src[p]
           d == Dst[p]
           b == Carried(p, Ttl, None)
<1>1. n \in Node /\ d \in Node \ {n} /\ Ttl \in Nat
  BY Constants
<1>2. b \in Bundle /\ Dst[b.id] = d /\ b.id = p
  BY <1>1, Constants DEF Carried, Bundle
<1>3. PICK u \in Unset : st' = [st EXCEPT ![n] = Sending(st[n], n, d, b, u)]
  BY DEF Send, Sending
<1>4. p \notin sent /\ sent' = sent \cup {p}
  BY DEF Send
<1> HIDE DEF n, d, b
<1> DEFINE x == Sending(st[n], n, d, b, u)
<1>5. Takes(x, st[n], p)
  BY <1>1, <1>2, SendingTakes DEF Safe
<1> HIDE DEF x
<1>6. \A m \in Node : st'[m] = IF m = n THEN x ELSE st[m]
  BY <1>3 DEF Safe, x
<1>7. \A m \in Node : Total(st[m], p) = 0
  BY <1>4 DEF Single
<1>8. Total(x, p) = 1
  BY <1>1, <1>5, <1>7 DEF Takes
<1>9. Lies(n, p)'
  BY <1>1, <1>6, <1>7, <1>8 DEF Lies
<1>10. ASSUME NEW q \in Packet, q # p, NEW m \in Node PROVE Total(st'[m], q) = Total(st[m], q)
  <2>1. Total(st[n], q) <= 1
    BY <1>1, AtMostOne
  <2> QED
    BY <1>5, <1>6, <1>10, <2>1 DEF Takes
<1>11. ASSUME NEW q \in Packet, q # p
       PROVE  IF q \in sent' THEN \E m \in Node : Lies(m, q)' ELSE \A m \in Node : Total(st'[m], q) = 0
  <2>1. q \in sent' <=> q \in sent
    BY <1>4, <1>11
  <2> QED
    BY <1>10, <1>11, <2>1 DEF Single, Lies
<1> QED
  BY <1>1, <1>4, <1>9, <1>11 DEF Single

(* A packet that is heard moves on. *)
LEMMA HeardSingle ==
  ASSUME Single, Safe, NEW n \in Node, st[n].air # <<>>, NEW got, got \subseteq Neighbours(n),
         Head(st[n].air).type = "data" => got = {Head(st[n].air).to},
         st' = Heard(n, got), sent' = sent
  PROVE  Single'
<1> DEFINE f == Head(st[n].air)
           x(k) == IF k = n THEN Sent(st[n]) ELSE IF k \in got THEN recv(st[k], k, n, f) ELSE st[k]
<1>1. Proper(f, n) /\ f \in Frame
  BY HeadFrame
<1>2. st' = [k \in Node |-> x(k)]
  BY DEF Heard
<1>3. f.type = "data" => got = {f.to}
  OBVIOUS
<1>4. \A p : /\ Held(f, p) <= Total(st[n], p)
             /\ Total(st[n], p) <= 1 => Total(x(n), p) = Total(st[n], p) - Held(f, p)
  BY SentLess DEF Safe
<1> HIDE DEF f
<1>5. ASSUME NEW k \in Node, k # n
      PROVE  /\ k \notin got => x(k) = st[k]
             /\ k \in got /\ f.type # "data" => Saves(x(k), st[k])
             /\ k \in got /\ f.type = "data" => Takes(x(k), st[k], f.pkt.id)
  <2>1. n \in Node \ {k} /\ Fit(st[k], k)
    BY <1>5 DEF Safe
  <2>2. IF f.type = "data" THEN Takes(recv(st[k], k, n, f), st[k], f.pkt.id)
                           ELSE Saves(recv(st[k], k, n, f), st[k])
    BY <1>1, <2>1, HeardSaves
  <2> QED
    BY <1>5, <2>2
<1>6. f.type = "data" => f.to \in Node \ {n} /\ got = {f.to}
  BY <1>3, NeighboursAre
<1> HIDE DEF x
<1>7. \A k \in Node : st'[k] = x(k)
  BY <1>2
<1> SUFFICES ASSUME NEW p \in Packet
             PROVE  IF p \in sent THEN \E k \in Node : Lies(k, p)' ELSE \A k \in Node : Total(st'[k], p) = 0
  BY DEF Single
<1>8. CASE ~Holds(f, p)
  <2>1. Held(f, p) = 0
    BY <1>8 DEF Held
  <2>2. Total(st'[n], p) = Total(st[n], p)
    BY <1>4, <1>7, <2>1, AtMostOne
  <2>3. ASSUME NEW k \in Node, k # n PROVE Total(st'[k], p) = Total(st[k], p)
    <3>1. Total(st[k], p) <= 1
      BY AtMostOne
    <3>2. f.type = "data" => f.pkt.id # p
      BY <1>8 DEF Holds
    <3> QED
      BY <1>5, <1>7, <2>3, <3>1, <3>2 DEF Saves, Takes
  <2> QED
    BY <2>2, <2>3 DEF Single, Lies
<1>9. CASE Holds(f, p)
  <2>1. Held(f, p) = 1 /\ f.type = "data" /\ f.pkt.id = p
    BY <1>9 DEF Held, Holds
  <2>2. Total(st[n], p) = 1
    BY <1>4, <2>1, AtMostOne
  <2>3. p \in sent /\ \A m \in Node \ {n} : Total(st[m], p) = 0
    BY <2>2, AtMostOne DEF Lies
  <2>4. Total(st'[n], p) = 0
    BY <1>4, <1>7, <2>1, <2>2
  <2>5. PICK k \in Node \ {n} : k = f.to /\ k \in got
    BY <1>6, <2>1
  <2>6. Total(st'[k], p) = 1
    BY <1>5, <1>7, <2>1, <2>3, <2>5 DEF Takes
  <2>7. \A m \in Node \ {n, k} : Total(st'[m], p) = 0
    BY <1>5, <1>6, <1>7, <2>1, <2>3, <2>5
  <2>8. Lies(k, p)'
    BY <2>4, <2>6, <2>7 DEF Lies
  <2> QED
    BY <2>3, <2>5, <2>8
<1> QED
  BY <1>8, <1>9

LEMMA BroadcastSingle ==
  ASSUME Single, Safe, NEW n \in Node, Broadcast(n)
  PROVE  Single'
<1>1. PICK got \in SUBSET Neighbours(n) : st' = Heard(n, got)
  BY DEF Broadcast
<1>2. st[n].air # <<>> /\ Head(st[n].air).to = None /\ sent' = sent
  BY DEF Broadcast
<1>3. Head(st[n].air).type # "data"
  <2> DEFINE f == Head(st[n].air)
  <2>1. f \in Frame
    BY <1>2, HeadFrame
  <2> HIDE DEF f
  <2>2. f.type = "data" => f.to \in Node
    BY <2>1, FrameKinds
  <2> QED
    BY <1>2, <2>2, Constants DEF f
<1> QED
  BY <1>1, <1>2, <1>3, HeardSingle

LEMMA UnicastSingle ==
  ASSUME Single, Safe, NEW n \in Node, Unicast(n)
  PROVE  Single'
<1>1. {Head(st[n].air).to} \subseteq Neighbours(n)
  BY DEF Unicast
<1> QED
  BY <1>1, HeardSingle DEF Unicast

(* A packet that is not delivered comes back or is dropped. *)
LEMMA FailsSingle ==
  ASSUME Single, Safe, NEW n \in Node, Fails(n)
  PROVE  Single'
<1> DEFINE f == Head(st[n].air)
           s == Sent(st[n])
           h == f.pkt.caught
           t == [st EXCEPT ![n] = s]
<1>0. st[n].air # <<>> /\ sent' = sent
  BY DEF Fails
<1>1. Proper(f, n) /\ f \in Frame
  BY <1>0, HeadFrame
<1>2. \/ f.type # "data" /\ st' = t
      \/ f.type = "data" /\ st' = [st EXCEPT ![n] = Drop(s, f.pkt)]
      \/ /\ f.type = "data" /\ h \in Node /\ Dst[f.pkt.id] # h
         /\ \E u \in Unset : st' = [t EXCEPT ![h] = LinkLayerCall(t[h], h, f.to, f.pkt, u)]
  BY FailsAt
<1>3. Fit(s, n) /\ s \in State
  BY <1>0, SentOn DEF Safe, Fit, FitBut
<1>4. \A p : /\ Held(f, p) <= Total(st[n], p)
             /\ Total(st[n], p) <= 1 => Total(s, p) = Total(st[n], p) - Held(f, p)
  BY <1>0, SentLess DEF Safe
<1> HIDE DEF f, s, h
<1>5. f.type = "data" => f.pkt \in Bundle /\ f.to \in Node
  BY <1>1, FrameKinds
<1>6. st \in [Node -> State] /\ \A m \in Node : Fit(st[m], m)
  BY DEF Safe
<1>7. t \in [Node -> State] /\ (\A m \in Node : t[m] = IF m = n THEN s ELSE st[m]) /\ \A m \in Node : Fit(t[m], m)
  BY <1>3, <1>6
<1> HIDE DEF t
<1>8. f.type = "data" => \E k \in Node : /\ Takes(st'[k], t[k], f.pkt.id)
                                         /\ \A m \in Node \ {k} : st'[m] = t[m]
  <2>1. CASE f.type = "data" /\ st' = [st EXCEPT ![n] = Drop(s, f.pkt)]
    <3>1. Takes(Drop(s, f.pkt), s, f.pkt.id)
      BY <1>3, <1>5, <2>1, DropTakes
    <3>2. st'[n] = Drop(s, f.pkt) /\ t[n] = s /\ \A m \in Node \ {n} : st'[m] = t[m]
      BY <1>6, <1>7, <2>1
    <3> QED
      BY <3>1, <3>2
  <2>2. ASSUME f.type = "data", h \in Node, Dst[f.pkt.id] # h, NEW u \in Unset,
               st' = [t EXCEPT ![h] = LinkLayerCall(t[h], h, f.to, f.pkt, u)]
        PROVE  \E k \in Node : /\ Takes(st'[k], t[k], f.pkt.id)
                               /\ \A m \in Node \ {k} : st'[m] = t[m]
    <3>1. Takes(LinkLayerCall(t[h], h, f.to, f.pkt, u), t[h], f.pkt.id)
      BY <1>5, <1>7, <2>2, CallTakes
    <3>2. /\ st'[h] = LinkLayerCall(t[h], h, f.to, f.pkt, u)
          /\ \A m \in Node \ {h} : st'[m] = t[m]
      BY <1>7, <2>2
    <3> QED
      BY <2>2, <3>1, <3>2
  <2> QED
    BY <1>2, <2>1, <2>2
<1> SUFFICES ASSUME NEW p \in Packet
             PROVE  IF p \in sent THEN \E m \in Node : Lies(m, p)' ELSE \A m \in Node : Total(st'[m], p) = 0
  BY <1>0 DEF Single
<1>9. CASE ~Holds(f, p)
  <2>1. Held(f, p) = 0 /\ (f.type = "data" => f.pkt.id # p)
    BY <1>9 DEF Held, Holds
  <2>2. \A m \in Node : Total(t[m], p) = Total(st[m], p)
    BY <1>4, <1>7, <2>1, AtMostOne
  <2>3. \A m \in Node : Total(t[m], p) <= 1
    BY <2>2, AtMostOne
  <2>4. \A m \in Node : Total(st'[m], p) = Total(t[m], p)
    <3>1. CASE f.type # "data"
      BY <1>2, <3>1
    <3>2. CASE f.type = "data"
      BY <1>8, <2>1, <2>3, <3>2 DEF Takes
    <3> QED
      BY <3>1, <3>2
  <2> QED
    BY <2>2, <2>4 DEF Single, Lies
<1>10. CASE Holds(f, p)
  <2>1. Held(f, p) = 1 /\ f.type = "data" /\ f.pkt.id = p
    BY <1>10 DEF Held, Holds
  <2>2. Total(st[n], p) = 1
    BY <1>4, <2>1, AtMostOne
  <2>3. p \in sent /\ \A m \in Node \ {n} : Total(st[m], p) = 0
    BY <2>2, AtMostOne DEF Lies
  <2>4. \A m \in Node : Total(t[m], p) = 0
    BY <1>4, <1>7, <2>1, <2>2, <2>3
  <2>5. PICK k \in Node : Takes(st'[k], t[k], p) /\ \A m \in Node \ {k} : st'[m] = t[m]
    BY <1>8, <2>1
  <2>6. Total(st'[k], p) = 1 /\ \A m \in Node \ {k} : Total(st'[m], p) = 0
    BY <2>4, <2>5 DEF Takes
  <2>7. Lies(k, p)'
    BY <2>6 DEF Lies
  <2> QED
    BY <2>3, <2>7
<1> QED
  BY <1>9, <1>10

LEMMA SingleKept ==
  Single /\ Safe /\ [Next]_vars => Single'
<1> SUFFICES ASSUME Single, Safe, [Next]_vars PROVE Single'
  OBVIOUS
<1>1. CASE UNCHANGED vars
  BY <1>1 DEF vars, Single, Lies
<1>2. ASSUME NEW p \in Packet, Send(p) PROVE Single'
  BY <1>2, SendSingle
<1>3. ASSUME NEW n \in Node, Transmit(n) PROVE Single'
  BY <1>3, BroadcastSingle, UnicastSingle, FailsSingle DEF Transmit
<1>4. ASSUME NEW n \in Node, sendHello(n) PROVE Single'
  <2> DEFINE x == Put(st[n], HELLO(Seqno(st[n], n)))
  <2>1. st' = [st EXCEPT ![n] = x] /\ sent' = sent
    BY <1>4 DEF sendHello
  <2>2. Saves(x, st[n])
    BY GreetSaves DEF Safe
  <2> HIDE DEF x
  <2> QED
    BY <2>1, <2>2, OneSingle
<1>5. ASSUME NEW n \in Node, NEW d \in Node, RREQ_retry(n, d) PROVE Single'
  <2>1. PICK u \in Unset : st' = [st EXCEPT ![n] = Retried(st[n], n, d, u)]
    BY <1>5 DEF RREQ_retry, Retried
  <2>2. Fit(st[n], n) /\ st[n].ctrl[d] # None /\ sent' = sent
    BY <1>5 DEF Safe, RREQ_retry
  <2>3. Saves(Retried(st[n], n, d, u), st[n])
    BY <2>2, RetriedSaves
  <2> QED
    BY <2>1, <2>2, <2>3, OneSingle
<1>6. ASSUME NEW n \in Node, NEW d \in Node, RepairFails(n, d) PROVE Single'
  <2>1. st' = [st EXCEPT ![n] = Failed(st[n], d)]
    BY <1>6 DEF RepairFails, Failed
  <2>2. Fit(st[n], n) /\ st[n].repair[d] # None /\ sent' = sent
    BY <1>6 DEF Safe, RepairFails
  <2>3. Saves(Failed(st[n], d), st[n])
    BY <2>2, FailedSaves
  <2> QED
    BY <2>1, <2>2, <2>3, OneSingle
<1>7. ASSUME NEW n \in Node, NEW d \in Node, RTTimer(n, d) PROVE Single'
  <2> DEFINE s == st[n]
             x == [s EXCEPT !.rt[d] = IF @.flag = "valid" THEN [@ EXCEPT !.flag = "invalid"] ELSE None]
  <2>1. st' = [st EXCEPT ![n] = x] /\ sent' = sent
    BY <1>7 DEF RTTimer, Safe
  <2>2. d \in Node \ {n} /\ Has(s, d) /\ Fit(s, n)
    BY <1>7 DEF RTTimer, Safe
  <2> HIDE DEF s
  <2>3. Saves(x, s)
    BY <2>2, AgedSaves
  <2> HIDE DEF x
  <2> QED
    BY <2>1, <2>3, OneSingle DEF s
<1>8. ASSUME NEW e \in MayMove, Move(e) PROVE Single'
  BY <1>8 DEF Move, Single, Lies
<1> QED
  BY <1>1, <1>2, <1>3, <1>4, <1>5, <1>6, <1>7, <1>8 DEF Next

(* The total counts the places. *)
LEMMA PlacesOf ==
  ASSUME NEW s, NEW p
  PROVE  /\ Total(s, p) = 0 => Places(s, p) = {}
         /\ Total(s, p) = 1 => \E x : Places(s, p) = {x}
<1> DEFINE A == Framed(s.air, p)
           B == Framed(s.rd, p)
           C == Kept(Buffered(s.ctrl[Dst[p]]), p)
           D == Kept(Buffered(s.repair[Dst[p]]), p)
           U == {p} \cap s.up
           V == {p} \cap s.dropped
<1>1. Places(s, p) = {<<"air", i>> : i \in A} \cup {<<"rd", i>> : i \in B}
                       \cup {<<"ctrl", i>> : i \in C} \cup {<<"repair", i>> : i \in D}
                       \cup {<<"up", 0>> : b \in U} \cup {<<"dropped", 0>> : b \in V}
  BY DEF Places, Framed, Kept
<1>2. /\ In(s.up, p) = Count(U) /\ In(s.dropped, p) = Count(V)
  <2>1. \A S : In(S, p) = Count({p} \cap S)
    <3> SUFFICES ASSUME NEW S PROVE In(S, p) = Count({p} \cap S)
      OBVIOUS
    <3>1. CASE p \in S
      <4>1. {p} \cap S = {p}
        BY <3>1
      <4> QED
        BY <3>1, <4>1 DEF In, Count
    <3>2. CASE p \notin S
      <4>1. {p} \cap S = {}
        BY <3>2
      <4> QED
        BY <3>2, <4>1 DEF In, Count
    <3> QED
      BY <3>1, <3>2
  <2> QED
    BY <2>1
<1> DEFINE a == Count(A)
           b == Count(B)
           c == Count(C)
           d == Count(D)
           g == Count(U)
           h == Count(V)
<1>3. Total(s, p) = a + b + c + d + g + h
  BY <1>2 DEF Total
<1>4. /\ a \in {0, 1, 2} /\ b \in {0, 1, 2} /\ c \in {0, 1, 2} /\ d \in {0, 1, 2}
      /\ g \in {0, 1, 2} /\ h \in {0, 1, 2}
  BY CountIs
<1>5. \A S : (Count(S) = 0 => S = {}) /\ (Count(S) = 1 => \E e : S = {e})
  BY CountIs
<1> HIDE DEF A, B, C, D, U, V
<1>6. ASSUME a = 0, b = 0, c = 0, d = 0, g = 0, h = 0
      PROVE  Places(s, p) = {}
  <2>1. A = {} /\ B = {} /\ C = {} /\ D = {} /\ U = {} /\ V = {}
    BY <1>5, <1>6
  <2> QED
    BY <1>1, <2>1
<1>7. ASSUME \/ a = 1 /\ b = 0 /\ c = 0 /\ d = 0 /\ g = 0 /\ h = 0
             \/ a = 0 /\ b = 1 /\ c = 0 /\ d = 0 /\ g = 0 /\ h = 0
             \/ a = 0 /\ b = 0 /\ c = 1 /\ d = 0 /\ g = 0 /\ h = 0
             \/ a = 0 /\ b = 0 /\ c = 0 /\ d = 1 /\ g = 0 /\ h = 0
             \/ a = 0 /\ b = 0 /\ c = 0 /\ d = 0 /\ g = 1 /\ h = 0
             \/ a = 0 /\ b = 0 /\ c = 0 /\ d = 0 /\ g = 0 /\ h = 1
      PROVE  \E x : Places(s, p) = {x}
  <2>1. CASE a = 1 /\ b = 0 /\ c = 0 /\ d = 0 /\ g = 0 /\ h = 0
    <3>1. PICK e : A = {e}
      BY <1>5, <2>1
    <3>2. B = {} /\ C = {} /\ D = {} /\ U = {} /\ V = {}
      BY <1>5, <2>1
    <3>3. Places(s, p) = {<<"air", e>>}
      BY <1>1, <3>1, <3>2
    <3> QED
      BY <3>3
  <2>2. CASE a = 0 /\ b = 1 /\ c = 0 /\ d = 0 /\ g = 0 /\ h = 0
    <3>1. PICK e : B = {e}
      BY <1>5, <2>2
    <3>2. A = {} /\ C = {} /\ D = {} /\ U = {} /\ V = {}
      BY <1>5, <2>2
    <3>3. Places(s, p) = {<<"rd", e>>}
      BY <1>1, <3>1, <3>2
    <3> QED
      BY <3>3
  <2>3. CASE a = 0 /\ b = 0 /\ c = 1 /\ d = 0 /\ g = 0 /\ h = 0
    <3>1. PICK e : C = {e}
      BY <1>5, <2>3
    <3>2. A = {} /\ B = {} /\ D = {} /\ U = {} /\ V = {}
      BY <1>5, <2>3
    <3>3. Places(s, p) = {<<"ctrl", e>>}
      BY <1>1, <3>1, <3>2
    <3> QED
      BY <3>3
  <2>4. CASE a = 0 /\ b = 0 /\ c = 0 /\ d = 1 /\ g = 0 /\ h = 0
    <3>1. PICK e : D = {e}
      BY <1>5, <2>4
    <3>2. A = {} /\ B = {} /\ C = {} /\ U = {} /\ V = {}
      BY <1>5, <2>4
    <3>3. Places(s, p) = {<<"repair", e>>}
      BY <1>1, <3>1, <3>2
    <3> QED
      BY <3>3
  <2>5. CASE a = 0 /\ b = 0 /\ c = 0 /\ d = 0 /\ g = 1 /\ h = 0
    <3>1. PICK e : U = {e}
      BY <1>5, <2>5
    <3>2. A = {} /\ B = {} /\ C = {} /\ D = {} /\ V = {}
      BY <1>5, <2>5
    <3>3. Places(s, p) = {<<"up", 0>>}
      BY <1>1, <3>1, <3>2
    <3> QED
      BY <3>3
  <2>6. CASE a = 0 /\ b = 0 /\ c = 0 /\ d = 0 /\ g = 0 /\ h = 1
    <3>1. PICK e : V = {e}
      BY <1>5, <2>6
    <3>2. A = {} /\ B = {} /\ C = {} /\ D = {} /\ U = {}
      BY <1>5, <2>6
    <3>3. Places(s, p) = {<<"dropped", 0>>}
      BY <1>1, <3>1, <3>2
    <3> QED
      BY <3>3
  <2> QED
    BY <1>7, <2>1, <2>2, <2>3, <2>4, <2>5, <2>6
<1> HIDE DEF a, b, c, d, g, h
<1>8. Total(s, p) = 0 => a = 0 /\ b = 0 /\ c = 0 /\ d = 0 /\ g = 0 /\ h = 0
  BY <1>3, <1>4
<1>9. Total(s, p) = 1 => \/ a = 1 /\ b = 0 /\ c = 0 /\ d = 0 /\ g = 0 /\ h = 0
                         \/ a = 0 /\ b = 1 /\ c = 0 /\ d = 0 /\ g = 0 /\ h = 0
                         \/ a = 0 /\ b = 0 /\ c = 1 /\ d = 0 /\ g = 0 /\ h = 0
                         \/ a = 0 /\ b = 0 /\ c = 0 /\ d = 1 /\ g = 0 /\ h = 0
                         \/ a = 0 /\ b = 0 /\ c = 0 /\ d = 0 /\ g = 1 /\ h = 0
                         \/ a = 0 /\ b = 0 /\ c = 0 /\ d = 0 /\ g = 0 /\ h = 1
  BY <1>3, <1>4
<1> QED
  BY <1>6, <1>7, <1>8, <1>9

(* A packet the kernel sent is in one place, and one not sent is nowhere:  *)
(* no handler loses a packet or leaves a copy of it, on any network and    *)
(* whatever fails.                                                         *)
THEOREM PacketsKept == Spec => []PacketOnce
<1>1. Init => Single
  BY SingleInit
<1>2. Safe /\ Single /\ [Next]_vars => Single'
  BY SingleKept
<1>3. Single => PacketOnce
  <2> SUFFICES ASSUME Single, NEW p \in Packet
               PROVE  Cardinality(UNION {{<<n, x>> : x \in Places(st[n], p)} : n \in Node})
                        = IF p \in sent THEN 1 ELSE 0
    BY DEF PacketOnce
  <2> DEFINE S == UNION {{<<n, x>> : x \in Places(st[n], p)} : n \in Node}
  <2>1. CASE p \in sent
    <3>1. PICK n \in Node : Lies(n, p)
      BY <2>1 DEF Single
    <3>2. PICK x : Places(st[n], p) = {x}
      BY <3>1, PlacesOf DEF Lies
    <3>3. \A m \in Node \ {n} : Places(st[m], p) = {}
      BY <3>1, PlacesOf DEF Lies
    <3>4. S = {<<n, x>>}
      BY <3>2, <3>3
    <3> HIDE DEF S
    <3>5. Cardinality(S) = 1
      BY <3>4, FS_Singleton
    <3> QED
      BY <2>1, <3>5 DEF S
  <2>2. CASE p \notin sent
    <3>1. \A m \in Node : Places(st[m], p) = {}
      BY <2>2, PlacesOf DEF Single
    <3>2. S = {}
      BY <3>1
    <3> HIDE DEF S
    <3>3. Cardinality(S) = 0
      BY <3>2, FS_EmptySet
    <3> QED
      BY <2>2, <3>3 DEF S
  <2> QED
    BY <2>1, <2>2
<1> QED
  BY <1>1, <1>2, <1>3, Always, PTL DEF Spec
=============================================================================
