------------------------------ MODULE ArpProofs ------------------------------
(***************************************************************************)
(* Safety of address resolution for any number of nodes, any traffic and   *)
(* any network that loses and delays frames: tables stay sound, the null   *)
(* pointer of resumeSend is never followed, and no entry outlives its      *)
(* flush.  A table is judged by itself, with the numbers of the packets    *)
(* its node has made, so that each way of changing a table is one lemma.   *)
(***************************************************************************)
EXTENDS Arp, FiniteSetTheorems, TLAPS

SomePacket == Node \X Node \X Nat

EntryType == [ip : Node, mac : Node \cup {NoMac},
              pkt : SomePacket \cup {NoPkt}, life : Int]

(* An entry of node n, which has made mk[b] packets for each b. *)
EntryOK(n, e, mk) ==
  /\ e \in EntryType
  /\ e.ip # n
  /\ e.mac \in {e.ip, NoMac}
  /\ e.mac = NoMac => e.pkt = <<n, e.ip, mk[e.ip]>>
  /\ e.pkt # NoPkt => e.pkt[1] = n /\ e.pkt[2] = e.ip

Unique(t) == \A e, x \in t : e.ip = x.ip => e = x

Sound(n, t, mk) == Unique(t) /\ \A e \in t : EntryOK(n, e, mk)

(* No entry is staler than the flush timer allows. *)
Fresh(t, left) == \A e \in t : e.life > left - FlushInterval

(* The frames that may be under way from a to b; none goes from a to a. *)
Frames(a, b) ==
  IF a = b THEN {}
  ELSE [kind : {"data"}, pkt : SomePacket]
       \cup [kind : {"request", "reply"}, spa : {a}, sha : {a}, tpa : Node]

Channels(c) == /\ DOMAIN c = Node
               /\ \A a \in Node : DOMAIN c[a] = Node
               /\ \A a, b \in Node : c[a][b] \in Seq(Frames(a, b))

(* The tables t of nodes that have made mk packets and flush in fl ticks. *)
Tables(t, mk, fl) ==
  /\ t \in [Node -> SUBSET EntryType]
  /\ mk \in [Node -> [Node -> Nat]]
  /\ fl \in [Node -> 0 .. FlushInterval]
  /\ \A n \in Node : Sound(n, t[n], mk[n])
  /\ \A n \in Node \ Static : Fresh(t[n], fl[n])

IInv == /\ Tables(table, made, flush)
        /\ Channels(net)
        /\ crashed = FALSE

-----------------------------------------------------------------------------
(* A table without an entry for some other node is not full. *)
LEMMA Room ==
  ASSUME NEW n \in Node, NEW t, NEW mk, Sound(n, t, mk),
         NEW b \in Node, b # n, \A e \in t : e.ip # b
  PROVE  ~Full(t)
<1> DEFINE T == (Node \ {n}) \ {b}
           f == [e \in t |-> e.ip]
<1>1. IsFiniteSet(T) /\ Cardinality(T) = Cardinality(Node) - 2
  <2>1. IsFiniteSet(Node) /\ Cardinality(Node) \in Nat
    BY ArpConstants, FS_CardinalityType
  <2>2. IsFiniteSet(Node \ {n}) /\ Cardinality(Node \ {n}) = Cardinality(Node) - 1
    BY <2>1, FS_RemoveElement
  <2>3. b \in Node \ {n}
    OBVIOUS
  <2>4. IsFiniteSet(T) /\ Cardinality(T) = Cardinality(Node \ {n}) - 1
    BY <2>2, <2>3, FS_RemoveElement
  <2> QED
    BY <2>1, <2>2, <2>4
<1>2. f \in Injection(t, T)
  <2>1. f \in [t -> T]
    BY DEF Sound, EntryOK, EntryType
  <2>2. \A x, y \in t : f[x] = f[y] => x = y
    BY DEF Sound, Unique
  <2> QED
    BY <2>1, <2>2 DEF Injection, IsInjective
<1>3. IsFiniteSet(t) /\ Cardinality(t) <= Cardinality(T)
  BY <1>1, <1>2, FS_Injection
<1>4. Cardinality(t) \in Nat /\ Cardinality(Node) \in Nat
  BY <1>3, ArpConstants, FS_CardinalityType
<1> QED
  BY <1>1, <1>3, <1>4, TableLargeEnough, ArpConstants DEF Full

(* Replacing an entry by one for the same address. *)
LEMMA Replace ==
  ASSUME NEW n \in Node, NEW t, NEW mk, NEW mk2, Sound(n, t, mk),
         NEW e \in t, NEW x, EntryOK(n, x, mk2), x.ip = e.ip,
         \A b \in Node : b # e.ip => mk2[b] = mk[b]
  PROVE  Sound(n, (t \ {e}) \cup {x}, mk2)
<1> DEFINE u == (t \ {e}) \cup {x}
<1>1. Unique(u)
  BY DEF Sound, Unique
<1>2. ASSUME NEW y \in u
      PROVE  EntryOK(n, y, mk2)
  <2>1. CASE y = x
    BY <2>1
  <2>2. CASE y \in t /\ y # e
    <3>1. y.ip # e.ip /\ EntryOK(n, y, mk)
      BY <2>2 DEF Sound, Unique
    <3>2. mk2[y.ip] = mk[y.ip]
      BY <3>1 DEF EntryOK, EntryType
    <3> QED
      BY <3>1, <3>2 DEF EntryOK
  <2> QED
    BY <2>1, <2>2
<1> QED
  BY <1>1, <1>2 DEF Sound

(* Adding an entry for an address the table does not have. *)
LEMMA AddEntry ==
  ASSUME NEW n \in Node, NEW t, NEW mk, NEW mk2, Sound(n, t, mk),
         NEW x, EntryOK(n, x, mk2), \A e \in t : e.ip # x.ip,
         \A b \in Node : b # x.ip => mk2[b] = mk[b]
  PROVE  Sound(n, t \cup {x}, mk2)
<1>1. Unique(t \cup {x})
  BY DEF Sound, Unique
<1>2. ASSUME NEW y \in t
      PROVE  EntryOK(n, y, mk2)
  <2>1. EntryOK(n, y, mk) /\ y.ip # x.ip
    BY DEF Sound
  <2>2. mk2[y.ip] = mk[y.ip]
    BY <2>1 DEF EntryOK, EntryType
  <2> QED
    BY <2>1, <2>2 DEF EntryOK
<1> QED
  BY <1>1, <1>2 DEF Sound

(* An ARP frame that node n gets from node b. *)
Heard(n, b, f) == f.spa = b /\ f.sha = b /\ b \in Node /\ b # n

LEMMA UpdateSound ==
  ASSUME NEW n \in Node, NEW t, NEW mk, Sound(n, t, mk), NEW b, NEW f, Heard(n, b, f)
  PROVE  Sound(n, freeArpUpdate(t, f), mk)
<1> DEFINE up(e) == IF e.ip = f.spa
                    THEN [e EXCEPT !.mac = f.sha, !.life = FlushInterval] ELSE e
<1>1. ASSUME NEW e \in t
      PROVE  up(e).ip = e.ip /\ EntryOK(n, up(e), mk)
  <2>1. EntryOK(n, e, mk) /\ e \in EntryType
    BY DEF Sound, EntryOK
  <2>2. CASE e.ip = f.spa
    <3> DEFINE x == [e EXCEPT !.mac = f.sha, !.life = FlushInterval]
    <3>0. f.sha = b /\ b \in Node /\ FlushInterval \in Int
      BY ArpConstants DEF Heard
    <3>1. /\ x.ip = e.ip /\ x.mac = b /\ x.pkt = e.pkt /\ x.life = FlushInterval
          /\ x \in EntryType
      BY <2>1, <3>0 DEF EntryType
    <3>2. x.mac = x.ip /\ x.mac # NoMac
      BY <2>2, <3>1, ArpConstants DEF Heard
    <3>3. up(e) = x
      BY <2>2
    <3> HIDE DEF x
    <3> QED
      BY <2>1, <3>1, <3>2, <3>3 DEF EntryOK
  <2>3. CASE e.ip # f.spa
    BY <2>1, <2>3
  <2> QED
    BY <2>2, <2>3
<1>2. freeArpUpdate(t, f) = {up(e) : e \in t}
  BY DEF freeArpUpdate
<1> HIDE DEF up
<1>3. Unique(freeArpUpdate(t, f))
  <2> SUFFICES ASSUME NEW e \in t, NEW x \in t, up(e).ip = up(x).ip
               PROVE  up(e) = up(x)
    BY <1>2 DEF Unique
  <2> QED
    BY <1>1 DEF Sound, Unique
<1> QED
  BY <1>1, <1>2, <1>3 DEF Sound

LEMMA UpdateFresh ==
  ASSUME NEW t, NEW f, NEW left \in 0 .. FlushInterval, Fresh(t, left),
         \A e \in t : e \in EntryType
  PROVE  Fresh(freeArpUpdate(t, f), left)
<1> SUFFICES ASSUME NEW e \in t
             PROVE  (IF e.ip = f.spa THEN [e EXCEPT !.mac = f.sha, !.life = FlushInterval]
                     ELSE e).life > left - FlushInterval
  BY DEF freeArpUpdate, Fresh
<1>1. e.life > left - FlushInterval /\ FlushInterval > left - FlushInterval
  BY ArpConstants DEF Fresh
<1>2. [e EXCEPT !.mac = f.sha, !.life = FlushInterval].life = FlushInterval
  BY DEF EntryType
<1> QED
  BY <1>1, <1>2

(* Learning the sender of a frame: the table keeps sound and has an entry  *)
(* for it, whether or not it had one before.                               *)
LEMMA LearnSound ==
  ASSUME NEW n \in Node, NEW t, NEW mk, Sound(n, t, mk), NEW b, NEW f, Heard(n, b, f)
  PROVE  /\ Sound(n, freeArpLearning(t, f), mk)
         /\ \E e \in freeArpLearning(t, f) : e.ip = b
         /\ \A e \in freeArpLearning(t, f) : e.ip = b => e.mac = b
<1> DEFINE u == freeArpLearning(t, f)
<1>1. CASE \E e \in t : e.ip = b
  <2>1. u = freeArpUpdate(t, f)
    BY <1>1 DEF freeArpLearning, Heard
  <2>2. PICK e \in t : e.ip = b
    BY <1>1
  <2>3. Sound(n, u, mk)
    BY <2>1, UpdateSound
  <2>4. \A x \in t : x.ip = b => [x EXCEPT !.mac = f.sha, !.life = FlushInterval].ip = b
                              /\ [x EXCEPT !.mac = f.sha, !.life = FlushInterval].mac = b
    BY DEF Sound, EntryOK, EntryType, Heard
  <2>5. \E x \in u : x.ip = b
    BY <2>1, <2>2, <2>4 DEF freeArpUpdate, Heard
  <2>6. \A x \in u : x.ip = b => x.mac = b
    BY <2>1, <2>4 DEF freeArpUpdate, Heard
  <2> QED
    BY <2>3, <2>5, <2>6
<1>2. CASE \A e \in t : e.ip # b
  <2> DEFINE x == Entry(b, b, NoPkt)
  <2>1. ~Full(t)
    BY <1>2, Room DEF Heard
  <2>2. u = t \cup {x}
    BY <1>2, <2>1 DEF freeArpLearning, Heard, addArpTbl
  <2>3. x.ip = b /\ x.mac = b /\ x.pkt = NoPkt /\ x \in EntryType
    BY ArpConstants DEF Heard, Entry, EntryType
  <2> HIDE DEF x
  <2>4. EntryOK(n, x, mk)
    BY <2>3, ArpConstants DEF EntryOK, Heard
  <2>5. Sound(n, t \cup {x}, mk)
    BY <1>2, <2>3, <2>4, AddEntry
  <2> QED
    BY <1>2, <2>2, <2>3, <2>5
<1> QED
  BY <1>1, <1>2

LEMMA LearnFresh ==
  ASSUME NEW t, NEW f, NEW left \in 0 .. FlushInterval, Fresh(t, left),
         \A e \in t : e \in EntryType
  PROVE  Fresh(freeArpLearning(t, f), left)
<1>1. Entry(f.spa, f.sha, NoPkt).life > left - FlushInterval
  BY ArpConstants DEF Entry
<1> QED
  BY <1>1, UpdateFresh DEF freeArpLearning, addArpTbl, Fresh

-----------------------------------------------------------------------------
(* Appending a frame to one of the channels of a node. *)
Appended(c, a, b, f) == [c EXCEPT ![a][b] = Append(@, f)]

LEMMA AppendKeeps ==
  ASSUME NEW c, Channels(c), NEW a \in Node, NEW b \in Node, NEW f \in Frames(a, b)
  PROVE  Channels(Appended(c, a, b, f))
<1> DEFINE d == Appended(c, a, b, f)
           s == Append(c[a][b], f)
<1>1. s \in Seq(Frames(a, b))
  BY DEF Channels
<1>2. DOMAIN d = Node /\ \A x \in Node : DOMAIN d[x] = Node
  BY DEF Channels, Appended
<1>3. \A x, y \in Node : d[x][y] = IF x = a /\ y = b THEN s ELSE c[x][y]
  BY DEF Channels, Appended
<1> HIDE DEF d, s
<1>4. ASSUME NEW x \in Node, NEW y \in Node
      PROVE  d[x][y] \in Seq(Frames(x, y))
  <2>1. CASE x = a /\ y = b
    BY <1>1, <1>3, <2>1
  <2>2. CASE ~(x = a /\ y = b)
    <3>1. d[x][y] = c[x][y]
      BY <1>3, <2>2
    <3> QED
      BY <3>1 DEF Channels
  <2> QED
    BY <2>1, <2>2
<1> QED
  BY <1>2, <1>4 DEF Channels, d

LEMMA TakenKeeps ==
  ASSUME Channels(net), NEW a \in Node, NEW b \in Node, net[a][b] # <<>>
  PROVE  /\ Channels(Taken(a, b))
         /\ Head(net[a][b]) \in Frames(a, b)
         /\ a # b
<1> DEFINE d == Taken(a, b)
           s == Tail(net[a][b])
<1>1. s \in Seq(Frames(a, b)) /\ Head(net[a][b]) \in Frames(a, b)
  BY DEF Channels
<1>2. DOMAIN d = Node /\ \A x \in Node : DOMAIN d[x] = Node
  BY DEF Channels, Taken
<1>3. \A x, y \in Node : d[x][y] = IF x = a /\ y = b THEN s ELSE net[x][y]
  BY DEF Channels, Taken
<1> HIDE DEF d, s
<1>4. \A x, y \in Node : d[x][y] \in Seq(Frames(x, y))
  BY <1>1, <1>3 DEF Channels
<1>5. a # b
  BY <1>1 DEF Frames
<1> QED
  BY <1>1, <1>2, <1>4, <1>5 DEF Channels, d

LEMMA BroadcastKeeps ==
  ASSUME Channels(net), NEW a \in Node, NEW f, \A b \in Node \ {a} : f \in Frames(a, b)
  PROVE  Channels(Broadcast(a, f))
<1> DEFINE d == Broadcast(a, f)
           s(y) == Append(net[a][y], f)
<1>1. \A y \in Node \ {a} : s(y) \in Seq(Frames(a, y))
  BY DEF Channels
<1>2. DOMAIN d = Node /\ \A x \in Node : DOMAIN d[x] = Node
  BY DEF Channels, Broadcast
<1>3. \A x, y \in Node : d[x][y] = IF x = a /\ y # a THEN s(y) ELSE net[x][y]
  BY DEF Channels, Broadcast
<1> HIDE DEF d, s
<1>4. ASSUME NEW x \in Node, NEW y \in Node
      PROVE  d[x][y] \in Seq(Frames(x, y))
  <2>1. CASE x = a /\ y # a
    BY <1>1, <1>3, <2>1
  <2>2. CASE ~(x = a /\ y # a)
    <3>1. d[x][y] = net[x][y]
      BY <1>3, <2>2
    <3> QED
      BY <3>1 DEF Channels
  <2> QED
    BY <2>1, <2>2
<1> QED
  BY <1>2, <1>4 DEF Channels, d

LEMMA ArpFrame ==
  ASSUME NEW a \in Node, NEW b \in Node, a # b, NEW c \in Node
  PROVE  Arp("request", a, c) \in Frames(a, b) /\ Arp("reply", a, c) \in Frames(a, b)
BY DEF Arp, Frames

LEMMA DataFrame ==
  ASSUME NEW a \in Node, NEW b \in Node, a # b, NEW p \in SomePacket
  PROVE  Data(p) \in Frames(a, b)
BY DEF Data, Frames

-----------------------------------------------------------------------------
(* One node's table changes. *)
LEMMA TableStep ==
  ASSUME NEW t, NEW mk, NEW mk2, NEW fl, Tables(t, mk, fl), NEW n \in Node, NEW u,
         mk2 \in [Node -> [Node -> Nat]], \A x \in Node : x # n => mk2[x] = mk[x],
         Sound(n, u, mk2[n]), n \notin Static => Fresh(u, fl[n])
  PROVE  Tables([t EXCEPT ![n] = u], mk2, fl)
<1> DEFINE v == [t EXCEPT ![n] = u]
<1>1. u \in SUBSET EntryType
  BY DEF Sound, EntryOK
<1>2. v \in [Node -> SUBSET EntryType]
  BY <1>1 DEF Tables
<1>3. \A x \in Node : v[x] = IF x = n THEN u ELSE t[x]
  BY DEF Tables
<1> HIDE DEF v
<1>4. \A x \in Node : Sound(x, v[x], mk2[x])
  BY <1>3 DEF Tables
<1>5. \A x \in Node \ Static : Fresh(v[x], fl[x])
  BY <1>3 DEF Tables
<1> QED
  BY <1>2, <1>4, <1>5 DEF Tables, v

(* A node makes a packet for a node of which its table has no entry. *)
LEMMA Unrelated ==
  ASSUME NEW n \in Node, NEW t, NEW mk, NEW mk2, Sound(n, t, mk),
         NEW b \in Node, \A e \in t : e.ip # b,
         \A x \in Node : x # b => mk2[x] = mk[x]
  PROVE  Sound(n, t, mk2)
<1> SUFFICES ASSUME NEW y \in t
             PROVE  EntryOK(n, y, mk2)
  BY DEF Sound
<1>1. EntryOK(n, y, mk) /\ mk2[y.ip] = mk[y.ip]
  BY DEF Sound, EntryOK, EntryType
<1> QED
  BY <1>1 DEF EntryOK

LEMMA MadeOne ==
  ASSUME Tables(table, made, flush), NEW a \in Node, NEW b \in Node, Make(a, b)
  PROVE  /\ made' \in [Node -> [Node -> Nat]]
         /\ \A x \in Node : x # a => made'[x] = made[x]
         /\ \A x \in Node : x # b => made'[a][x] = made[a][x]
         /\ NewPkt(a, b) = <<a, b, made'[a][b]>>
         /\ NewPkt(a, b) \in SomePacket
         /\ a # b /\ flush' = flush /\ crashed' = crashed
<1>1. made \in [Node -> [Node -> Nat]]
  BY DEF Tables
<1>2. made' = [made EXCEPT ![a][b] = @ + 1]
  BY DEF Make
<1>3. made'[a][b] = made[a][b] + 1 /\ made[a][b] \in Nat
  BY <1>1, <1>2
<1>4. NewPkt(a, b) = <<a, b, made'[a][b]>> /\ NewPkt(a, b) \in SomePacket
  BY <1>3 DEF NewPkt, SomePacket
<1>5. /\ made' \in [Node -> [Node -> Nat]]
      /\ \A x \in Node : x # a => made'[x] = made[x]
      /\ \A x \in Node : x # b => made'[a][x] = made[a][x]
  BY <1>1, <1>2
<1> QED
  BY <1>4, <1>5 DEF Make

-----------------------------------------------------------------------------
LEMMA SendStep ==
  ASSUME IInv, NEW a \in Node, NEW b \in Node, Send(a, b)
  PROVE  IInv'
<1> USE DEF IInv
<1>0. Make(a, b)
  BY DEF Send, SendKnown, SendWaits, SendUnknown
<1>1. /\ made' \in [Node -> [Node -> Nat]]
      /\ \A x \in Node : x # a => made'[x] = made[x]
      /\ \A x \in Node : x # b => made'[a][x] = made[a][x]
      /\ NewPkt(a, b) = <<a, b, made'[a][b]>>
      /\ NewPkt(a, b) \in SomePacket
      /\ a # b /\ flush' = flush /\ crashed' = crashed
  BY <1>0, MadeOne
<1>2. /\ Sound(a, table[a], made[a])
      /\ a \notin Static => Fresh(table[a], flush[a])
      /\ flush[a] \in 0 .. FlushInterval
  BY DEF Tables
<1>3. \A u : Sound(a, u, made'[a]) /\ (a \notin Static => Fresh(u, flush[a]))
             => Tables([table EXCEPT ![a] = u], made', flush)
  BY <1>1, TableStep
<1>4. CASE SendKnown(a, b)
  <2>1. PICK e \in table[a] :
          /\ e.ip = b /\ e.mac # NoMac
          /\ table' = [table EXCEPT ![a] = (@ \ {e}) \cup {[e EXCEPT !.life = FlushInterval]}]
          /\ net' = Unicast(a, e.mac, Data(NewPkt(a, b)))
    BY <1>4 DEF SendKnown
  <2> DEFINE x == [e EXCEPT !.life = FlushInterval]
             u == (table[a] \ {e}) \cup {x}
  <2>2. EntryOK(a, e, made[a]) /\ e \in EntryType
    BY <1>2 DEF Sound, EntryOK
  <2>3. /\ x.ip = e.ip /\ x.mac = e.mac /\ x.pkt = e.pkt /\ x.life = FlushInterval
        /\ x \in EntryType
    BY <2>2, ArpConstants DEF EntryType
  <2>4. table' = [table EXCEPT ![a] = u]
    BY <2>1 DEF Tables
  <2> HIDE DEF x
  <2>5. EntryOK(a, x, made'[a])
    BY <2>1, <2>2, <2>3 DEF EntryOK
  <2>6. Sound(a, u, made'[a])
    <3>1. \A y \in Node : y # e.ip => made'[a][y] = made[a][y]
      BY <1>1, <2>1
    <3>2. Sound(a, table[a], made[a]) /\ EntryOK(a, x, made'[a]) /\ x.ip = e.ip
      BY <1>2, <2>3, <2>5
    <3> QED
      BY ONLY <3>1, <3>2, a \in Node, e \in table[a], Replace
  <2>7. a \notin Static => Fresh(u, flush[a])
    BY <1>2, <2>3, ArpConstants DEF Fresh
  <2> HIDE DEF u
  <2>8. Tables(table', made', flush')
    BY <1>1, <1>3, <2>4, <2>6, <2>7
  <2>9. e.mac = b
    BY <2>1, <2>2 DEF EntryOK
  <2>10. Channels(net')
    <3>1. Data(NewPkt(a, b)) \in Frames(a, b)
      BY <1>1, DataFrame
    <3>2. net' = Appended(net, a, b, Data(NewPkt(a, b)))
      BY <2>1, <2>9 DEF Unicast, Appended
    <3> QED
      BY <3>1, <3>2, AppendKeeps
  <2> QED
    BY <1>1, <2>8, <2>10
<1>5. CASE SendWaits(a, b)
  <2>1. PICK e \in table[a] :
          /\ e.ip = b /\ e.mac = NoMac
          /\ table' = [table EXCEPT ![a] = (@ \ {e}) \cup {[e EXCEPT !.pkt = NewPkt(a, b)]}]
          /\ net' = net
    BY <1>5 DEF SendWaits
  <2> DEFINE p == NewPkt(a, b)
             x == [e EXCEPT !.pkt = p]
             u == (table[a] \ {e}) \cup {x}
  <2>2. EntryOK(a, e, made[a]) /\ e \in EntryType
    BY <1>2 DEF Sound, EntryOK
  <2>3. p \in SomePacket /\ p = <<a, b, made'[a][b]>>
    BY <1>1
  <2>4. table' = [table EXCEPT ![a] = u]
    BY <2>1 DEF Tables
  <2> HIDE DEF p
  <2>5. /\ x.ip = e.ip /\ x.mac = e.mac /\ x.pkt = p /\ x.life = e.life
        /\ x \in EntryType
    BY <2>2, <2>3 DEF EntryType
  <2> HIDE DEF x
  <2>6. EntryOK(a, x, made'[a])
    BY <1>1, <2>1, <2>3, <2>5 DEF EntryOK
  <2>7. Sound(a, u, made'[a])
    <3>1. \A y \in Node : y # e.ip => made'[a][y] = made[a][y]
      BY <1>1, <2>1
    <3>2. Sound(a, table[a], made[a]) /\ EntryOK(a, x, made'[a]) /\ x.ip = e.ip
      BY <1>2, <2>5, <2>6
    <3> QED
      BY ONLY <3>1, <3>2, a \in Node, e \in table[a], Replace
  <2>8. a \notin Static => Fresh(u, flush[a])
    BY <1>2, <2>5 DEF Fresh
  <2> HIDE DEF u
  <2>9. Tables(table', made', flush')
    BY <1>1, <1>3, <2>4, <2>7, <2>8
  <2> QED
    BY <1>1, <2>1, <2>9
<1>6. CASE SendUnknown(a, b)
  <2>1. \A e \in table[a] : e.ip # b
    BY <1>6 DEF SendUnknown
  <2>2. CASE a \in Static
    <3>1. table' = table /\ net' = net
      BY <1>6, <2>2 DEF SendUnknown
    <3>2. Sound(a, table[a], made'[a])
      BY <1>1, <1>2, <2>1, Unrelated
    <3>3. table = [table EXCEPT ![a] = table[a]]
      BY DEF Tables
    <3>4. Tables([table EXCEPT ![a] = table[a]], made', flush)
      BY <1>2, <1>3, <3>2
    <3>5. Tables(table', made', flush')
      BY <1>1, <3>1, <3>3, <3>4
    <3> QED
      BY <1>1, <3>1, <3>5
  <2>3. CASE a \notin Static
    <3> DEFINE p == NewPkt(a, b)
               x == Entry(b, NoMac, p)
               u == table[a] \cup {x}
    <3>1. ~Full(table[a])
      BY <1>1, <1>2, <2>1, Room
    <3>2. table' = [table EXCEPT ![a] = u]
      BY <1>6, <2>3, <3>1 DEF SendUnknown, addArpTbl, Tables
    <3>3. net' = Broadcast(a, Arp("request", a, b))
      BY <1>6, <2>3 DEF SendUnknown
    <3>4. p \in SomePacket /\ p = <<a, b, made'[a][b]>>
      BY <1>1
    <3> HIDE DEF p
    <3>5. /\ x.ip = b /\ x.mac = NoMac /\ x.pkt = p /\ x.life = FlushInterval
          /\ x \in EntryType
      BY <3>4, ArpConstants DEF Entry, EntryType
    <3> HIDE DEF x
    <3>6. EntryOK(a, x, made'[a])
      BY <1>1, <3>4, <3>5 DEF EntryOK
    <3>7. Sound(a, u, made'[a])
      BY <1>1, <1>2, <2>1, <3>5, <3>6, AddEntry
    <3>8. Fresh(u, flush[a])
      BY <1>2, <2>3, <3>5, ArpConstants DEF Fresh
    <3> HIDE DEF u
    <3>9. Tables(table', made', flush')
      BY <1>1, <1>3, <3>2, <3>7, <3>8
    <3>10. \A c \in Node \ {a} : Arp("request", a, b) \in Frames(a, c)
      BY ArpFrame
    <3>11. Channels(net')
      BY <3>3, <3>10, BroadcastKeeps
    <3> QED
      BY <1>1, <3>9, <3>11
  <2> QED
    BY <2>2, <2>3
<1> QED
  BY <1>4, <1>5, <1>6 DEF Send

LEMMA ReceiveStep ==
  ASSUME IInv, NEW a \in Node, NEW n \in Node, Receive(a, n)
  PROVE  IInv'
<1> USE DEF IInv
<1> DEFINE f == Head(net[a][n])
           c == Taken(a, n)
<1>1. net[a][n] # <<>> /\ flush' = flush /\ made' = made
  BY DEF Receive
<1>2. \/ RecvData(a, n, f) \/ RecvIgnored(a, n, f) \/ RecvOverheard(a, n, f)
      \/ RecvRequest(a, n, f) \/ RecvReply(a, n, f)
  BY DEF Receive
<1>3. Channels(c) /\ f \in Frames(a, n) /\ a # n
  BY <1>1, TakenKeeps
<1> HIDE DEF f
<1>4. f.kind # "data" => Heard(n, a, f)
  BY <1>3 DEF Frames, Heard
<1>5. /\ Sound(n, table[n], made[n])
      /\ n \notin Static => Fresh(table[n], flush[n])
      /\ flush[n] \in 0 .. FlushInterval
      /\ \A e \in table[n] : e \in EntryType
  BY DEF Tables
<1>6. ASSUME NEW u, Sound(n, u, made[n]), n \notin Static => Fresh(u, flush[n])
      PROVE  Tables([table EXCEPT ![n] = u], made', flush')
  <2>1. made \in [Node -> [Node -> Nat]]
    BY DEF Tables
  <2>2. Tables([table EXCEPT ![n] = u], made, flush)
    BY <1>6, <2>1, TableStep
  <2> QED
    BY <1>1, <2>2
<1>7. CASE RecvData(a, n, f) \/ RecvIgnored(a, n, f)
  <2>1. table' = table /\ net' = c /\ crashed' = crashed
    BY <1>7 DEF RecvData, RecvIgnored
  <2> QED
    BY <1>1, <1>3, <2>1
<1>8. CASE RecvOverheard(a, n, f)
  <2> DEFINE u == freeArpUpdate(table[n], f)
  <2>1. /\ net' = c /\ crashed' = crashed
        /\ f.kind # "data" /\ n \notin Static
    BY <1>8 DEF RecvOverheard
  <2>2. table' = [table EXCEPT ![n] = u]
    BY <1>8 DEF RecvOverheard, Tables
  <2>3. Sound(n, u, made[n])
    BY <1>4, <1>5, <2>1, UpdateSound
  <2>4. Fresh(u, flush[n])
    BY <1>5, <2>1, UpdateFresh
  <2> HIDE DEF u
  <2>5. Tables(table', made', flush')
    BY <1>6, <2>2, <2>3, <2>4
  <2> QED
    BY <1>3, <2>1, <2>5
<1>9. ASSUME f.kind # "data", n \notin Static
      PROVE  LET u == freeArpLearning(table[n], f)
             IN  /\ Sound(n, u, made[n])
                 /\ Fresh(u, flush[n])
                 /\ \E e \in u : e.ip = a
                 /\ \A e \in u : e.ip = a => e.mac = a
  <2>1. Heard(n, a, f)
    BY <1>4, <1>9
  <2>2. Fresh(freeArpLearning(table[n], f), flush[n])
    BY <1>5, <1>9, LearnFresh
  <2> QED
    BY <1>5, <2>1, <2>2, LearnSound
<1>10. CASE RecvRequest(a, n, f)
  <2> DEFINE u == freeArpLearning(table[n], f)
             r == Arp("reply", n, f.spa)
  <2>1. /\ net' = [c EXCEPT ![n][f.sha] = Append(@, r)]
        /\ crashed' = crashed
        /\ f.kind # "data" /\ n \notin Static
    BY <1>10 DEF RecvRequest
  <2>2. table' = [table EXCEPT ![n] = u]
    BY <1>10 DEF RecvRequest, Tables
  <2>3. Sound(n, u, made[n]) /\ Fresh(u, flush[n])
    BY <1>9, <2>1
  <2> HIDE DEF u
  <2>4. Tables(table', made', flush')
    BY <1>6, <2>2, <2>3
  <2>5. f.spa = a /\ f.sha = a
    BY <1>4, <2>1 DEF Heard
  <2>6. r \in Frames(n, a)
    BY <1>3, <2>5, ArpFrame
  <2> HIDE DEF r, c
  <2>7. net' = Appended(c, n, a, r)
    BY <2>1, <2>5 DEF Appended
  <2>8. Channels(net')
    BY <1>3, <2>6, <2>7, AppendKeeps
  <2> QED
    BY <2>1, <2>4, <2>8
<1>11. CASE RecvReply(a, n, f)
  <2> DEFINE t == freeArpLearning(table[n], f)
             answered == {e \in t : e.ip = f.spa}
  <2>1. f.kind # "data" /\ n \notin Static /\ crashed' = (answered = {})
    BY <1>11 DEF RecvReply
  <2>2. /\ Sound(n, t, made[n]) /\ Fresh(t, flush[n])
        /\ \E e \in t : e.ip = a
        /\ \A e \in t : e.ip = a => e.mac = a
    BY <1>9, <2>1
  <2>3. f.spa = a /\ f.sha = a
    BY <1>4, <2>1 DEF Heard
  <2>4. answered # {} /\ crashed' = FALSE
    BY <2>1, <2>2, <2>3
  <2>5. PICK e \in answered :
          /\ table' = [table EXCEPT ![n] = (t \ {e}) \cup {[e EXCEPT !.pkt = NoPkt]}]
          /\ net' = IF e.pkt = NoPkt THEN c
                    ELSE [c EXCEPT ![n][e.mac] = Append(@, Data(e.pkt))]
    BY <1>11, <2>4 DEF RecvReply
  <2> DEFINE x == [e EXCEPT !.pkt = NoPkt]
             u == (t \ {e}) \cup {x}
  <2>6. e \in t /\ e.ip = a /\ e.mac = a
    BY <2>2, <2>3, <2>5
  <2> HIDE DEF t, answered
  <2>7. EntryOK(n, e, made[n]) /\ e \in EntryType
    BY <2>2, <2>6 DEF Sound, EntryOK
  <2>8. /\ x.ip = a /\ x.mac = a /\ x.pkt = NoPkt /\ x.life = e.life
        /\ x \in EntryType
    BY <2>6, <2>7 DEF EntryType
  <2>9. table' = [table EXCEPT ![n] = u]
    BY <2>5
  <2> HIDE DEF x
  <2>10. EntryOK(n, x, made[n])
    BY <1>3, <2>8, ArpConstants DEF EntryOK
  <2>11. Sound(n, u, made[n])
    <3>1. x.ip = e.ip
      BY <2>6, <2>8
    <3> QED
      BY ONLY <2>2, <2>6, <2>10, <3>1, n \in Node, Replace
  <2>12. Fresh(u, flush[n])
    BY <2>2, <2>6, <2>8 DEF Fresh
  <2> HIDE DEF u
  <2>13. Tables(table', made', flush')
    BY <1>6, <2>9, <2>11, <2>12
  <2>14. Channels(net')
    <3>1. CASE e.pkt = NoPkt
      BY <1>3, <2>5, <3>1
    <3>2. CASE e.pkt # NoPkt
      <4>1. Data(e.pkt) \in Frames(n, a)
        BY <1>3, <2>7, <3>2, DataFrame DEF EntryType
      <4> HIDE DEF c
      <4>2. net' = Appended(c, n, a, Data(e.pkt))
        BY <2>5, <2>6, <3>2 DEF Appended
      <4> QED
        BY <1>3, <4>1, <4>2, AppendKeeps
    <3> QED
      BY <3>1, <3>2
  <2> QED
    BY <2>4, <2>13, <2>14
<1> QED
  BY <1>2, <1>7, <1>8, <1>10, <1>11

LEMMA FlushStep ==
  ASSUME IInv, NEW n \in Node, flushArpTbl(n)
  PROVE  IInv'
<1> USE DEF IInv
<1> DEFINE u == table[n] \ {e \in table[n] : Expired(e)}
           g == [flush EXCEPT ![n] = FlushInterval]
<1>1. /\ n \notin Static /\ flush[n] = 0 /\ made' = made /\ net' = net
      /\ crashed' = crashed /\ flush' = g
  BY DEF flushArpTbl
<1>2. table' = [table EXCEPT ![n] = u]
  BY DEF flushArpTbl, Tables
<1>3. \A e \in u : e \in table[n] /\ e \in EntryType /\ e.life > 0
  BY DEF Expired, Tables, EntryType
<1>4. Sound(n, u, made[n])
  <2>1. Sound(n, table[n], made[n])
    BY DEF Tables
  <2> QED
    BY <1>3, <2>1 DEF Sound, Unique
<1>5. Fresh(u, FlushInterval)
  BY <1>3, ArpConstants DEF Fresh
<1> HIDE DEF u
<1>6. g \in [Node -> 0 .. FlushInterval]
  BY ArpConstants DEF Tables
<1>7. \A x \in Node : g[x] = IF x = n THEN FlushInterval ELSE flush[x]
  BY DEF Tables
<1> HIDE DEF g
<1>8. u \in SUBSET EntryType
  BY <1>3
<1>9. table' \in [Node -> SUBSET EntryType]
  BY <1>2, <1>8 DEF Tables
<1>10. \A x \in Node : table'[x] = IF x = n THEN u ELSE table[x]
  BY <1>2 DEF Tables
<1>11. \A x \in Node : Sound(x, table'[x], made[x])
  BY <1>4, <1>10 DEF Tables
<1>12. \A x \in Node \ Static : Fresh(table'[x], g[x])
  BY <1>5, <1>7, <1>10 DEF Tables
<1>13. Tables(table', made', flush')
  BY <1>1, <1>6, <1>9, <1>11, <1>12 DEF Tables
<1> QED
  BY <1>1, <1>13

LEMMA AgeSound ==
  ASSUME NEW n \in Node, NEW t, NEW mk, Sound(n, t, mk)
  PROVE  Sound(n, {[e EXCEPT !.life = @ - 1] : e \in t}, mk)
<1> DEFINE old(e) == [e EXCEPT !.life = @ - 1]
<1>1. ASSUME NEW e \in t
      PROVE  old(e).ip = e.ip /\ EntryOK(n, old(e), mk)
  <2> DEFINE x == old(e)
  <2>1. EntryOK(n, e, mk) /\ e \in EntryType
    BY DEF Sound, EntryOK
  <2>2. x.ip = e.ip /\ x.mac = e.mac /\ x.pkt = e.pkt /\ x \in EntryType
    BY <2>1 DEF EntryType
  <2> HIDE DEF x
  <2>3. EntryOK(n, x, mk)
    BY <2>1, <2>2 DEF EntryOK
  <2> QED
    BY <2>2, <2>3 DEF x
<1> HIDE DEF old
<1>2. Sound(n, {old(e) : e \in t}, mk)
  <2>1. \A e, x \in t : old(e).ip = old(x).ip => old(e) = old(x)
    BY <1>1 DEF Sound, Unique
  <2> QED
    BY <1>1, <2>1 DEF Sound, Unique
<1> QED
  BY <1>2 DEF old

LEMMA TickStep ==
  ASSUME IInv, Tick
  PROVE  IInv'
<1> USE DEF IInv
<1> DEFINE aged(n) == {[e EXCEPT !.life = @ - 1] : e \in table[n]}
<1>1. made' = made /\ net' = net /\ crashed' = crashed
  BY DEF Tick
<1>2. /\ \A n \in Node \ Static : flush[n] > 0
      /\ flush' = [n \in Node |-> IF n \in Static THEN flush[n] ELSE flush[n] - 1]
      /\ table' = [n \in Node |-> IF n \in Static THEN table[n] ELSE aged(n)]
  BY DEF Tick
<1>3. flush' \in [Node -> 0 .. FlushInterval]
  BY <1>2, ArpConstants DEF Tables
<1>4. \A n \in Node : Sound(n, table[n], made[n]) /\ Sound(n, aged(n), made[n])
  BY AgeSound DEF Tables
<1>5. ASSUME NEW n \in Node \ Static
      PROVE  Fresh(aged(n), flush[n] - 1)
  <2> SUFFICES ASSUME NEW e \in table[n]
               PROVE  [e EXCEPT !.life = @ - 1].life > flush[n] - 1 - FlushInterval
    BY DEF Fresh
  <2>1. e.life > flush[n] - FlushInterval /\ e \in EntryType /\ flush[n] \in Int
    BY DEF Tables, Fresh
  <2>2. [e EXCEPT !.life = @ - 1].life = e.life - 1 /\ e.life \in Int
    BY <2>1 DEF EntryType
  <2> QED
    BY <2>1, <2>2, ArpConstants
<1> HIDE DEF aged
<1>6. \A n \in Node : Sound(n, table'[n], made[n])
  BY <1>2, <1>4
<1>7. \A n \in Node : table'[n] \in SUBSET EntryType
  BY <1>6 DEF Sound, EntryOK
<1>8. table' \in [Node -> SUBSET EntryType]
  BY <1>2, <1>7
<1>9. \A n \in Node \ Static : Fresh(table'[n], flush'[n])
  BY <1>2, <1>5
<1>10. Tables(table', made', flush')
  BY <1>1, <1>3, <1>6, <1>8, <1>9 DEF Tables
<1> QED
  BY <1>1, <1>10

LEMMA LoseStep ==
  ASSUME IInv, NEW a \in Node, NEW n \in Node, Lose(a, n)
  PROVE  IInv'
<1>1. /\ net[a][n] # <<>> /\ net' = Taken(a, n)
      /\ table' = table /\ flush' = flush /\ made' = made /\ crashed' = crashed
  BY DEF Lose
<1>2. Channels(Taken(a, n))
  BY <1>1, TakenKeeps DEF IInv
<1> QED
  BY <1>1, <1>2 DEF IInv

LEMMA InitHolds == Init => IInv
<1> SUFFICES ASSUME Init
             PROVE  IInv
  OBVIOUS
<1> DEFINE listed(n) == {Entry(b, b, NoPkt) : b \in Listed \ {n}}
<1>1. /\ flush \in [Node -> 0 .. FlushInterval]
      /\ made \in [Node -> [Node -> Nat]]
      /\ crashed = FALSE
  BY ArpConstants DEF Init
<1>2. Channels(net)
  <2>1. \A a, b \in Node : net[a][b] = <<>>
    BY DEF Init
  <2>2. \A a, b \in Node : <<>> \in Seq(Frames(a, b))
    OBVIOUS
  <2>3. DOMAIN net = Node /\ \A a \in Node : DOMAIN net[a] = Node
    BY DEF Init
  <2> QED
    BY <2>1, <2>2, <2>3 DEF Channels
<1>3. ASSUME NEW n \in Node
      PROVE  Sound(n, listed(n), made[n])
  <2>1. ASSUME NEW b \in Listed \ {n}
        PROVE  Entry(b, b, NoPkt).ip = b /\ EntryOK(n, Entry(b, b, NoPkt), made[n])
    <3> DEFINE x == Entry(b, b, NoPkt)
    <3>1. b \in Node /\ b # n /\ b # NoMac
      BY ArpConstants
    <3>2. x.ip = b /\ x.mac = b /\ x.pkt = NoPkt /\ x \in EntryType
      BY <3>1, ArpConstants DEF Entry, EntryType
    <3> HIDE DEF x
    <3>3. EntryOK(n, x, made[n])
      BY <3>1, <3>2 DEF EntryOK
    <3> QED
      BY <3>2, <3>3 DEF x
  <2> QED
    BY <2>1 DEF Sound, Unique
<1>4. \A n \in Node : Sound(n, {}, made[n])
  BY DEF Sound, Unique
<1>5. table = [n \in Node |-> IF n \in Static THEN listed(n) ELSE {}]
  BY DEF Init
<1> HIDE DEF listed
<1>6. \A n \in Node : Sound(n, table[n], made[n])
  BY <1>3, <1>4, <1>5
<1>7. \A n \in Node : table[n] \in SUBSET EntryType
  BY <1>6 DEF Sound, EntryOK
<1>8. table \in [Node -> SUBSET EntryType]
  BY <1>5, <1>7
<1>9. \A n \in Node \ Static : Fresh(table[n], flush[n])
  BY <1>5 DEF Fresh
<1> QED
  BY <1>1, <1>2, <1>6, <1>8, <1>9 DEF IInv, Tables

LEMMA StepHolds == IInv /\ [Next]_vars => IInv'
<1> SUFFICES ASSUME IInv, [Next]_vars
             PROVE  IInv'
  OBVIOUS
<1>1. CASE Tick
  BY <1>1, TickStep
<1>2. CASE \E n \in Node : flushArpTbl(n)
  BY <1>2, FlushStep
<1>3. CASE \E a, b \in Node : Send(a, b)
  BY <1>3, SendStep
<1>4. CASE \E a, b \in Node : Receive(a, b)
  BY <1>4, ReceiveStep
<1>5. CASE \E a, b \in Node : Lose(a, b)
  BY <1>5, LoseStep
<1>6. CASE UNCHANGED vars
  BY <1>6 DEF vars, IInv
<1> QED
  BY <1>1, <1>2, <1>3, <1>4, <1>5, <1>6 DEF Next, Time

(* The invariant behind the theorems below holds of every run. *)
LEMMA Invariance == Spec => []IInv
BY InitHolds, StepHolds, PTL DEF Spec

(* Every table has one entry per address, a learnt MAC address is its      *)
(* owner's, and an entry that waits holds the newest packet for its        *)
(* address (findArpTbl takes the first entry it meets).                    *)
THEOREM TablesStaySound == Spec => []TablesSound
<1>1. IInv => TablesSound
  BY DEF IInv, Tables, TablesSound, SoundTable, Sound, Unique, EntryOK
<1> QED
  BY <1>1, Invariance, PTL

(* resumeSend always finds the entry it looks for, though the reply may    *)
(* come after a flush: freeArpLearning put it back, and there was room.    *)
THEOREM PointerNeverNull == Spec => []NoCrash
<1>1. IInv => NoCrash
  BY DEF IInv, NoCrash
<1> QED
  BY <1>1, Invariance, PTL

(* No entry outlives its time stamp by a flush interval, whatever renews   *)
(* it, so an unanswered question is asked again.                           *)
THEOREM StaleForgotten == Spec => []NoStaleEntry
<1>1. IInv => NoStaleEntry
  BY DEF IInv, Tables, NoStaleEntry, Fresh
<1> QED
  BY <1>1, Invariance, PTL

-----------------------------------------------------------------------------
(* Why an entry that waits does so for something.  Of a table only the     *)
(* addresses whose entries wait matter, of a channel only which frames are *)
(* in it.  A frame leaves a channel by its handler, which answers the      *)
(* question or resolves the entry, or by loss, which unasked records.      *)
Waiting(t) == {e.ip : e \in {x \in t : x.mac = NoMac}}

Within(s) == {s[i] : i \in DOMAIN s}

Asked(c, u, n, b) == \/ Arp("request", n, b) \in Within(c[n][b])
                     \/ Arp("reply", b, n) \in Within(c[b][n])
                     \/ <<n, b>> \in u

WInv == \A n \in Node :
          /\ n \in Static => Waiting(table[n]) = {}
          /\ \A b \in Waiting(table[n]) \ Static : Asked(net, unasked, n, b)

\* What Append, Tail and Head do to the frames of a channel.
LEMMA AppendWithin ==
  ASSUME NEW X, NEW s \in Seq(X), NEW x
  PROVE  Within(Append(s, x)) = Within(s) \cup {x}
<1>1. /\ DOMAIN Append(s, x) = 1 .. Len(s) + 1 /\ DOMAIN s = 1 .. Len(s) /\ Len(s) \in Nat
      /\ \A i \in 1 .. Len(s) : Append(s, x)[i] = s[i]
      /\ Append(s, x)[Len(s) + 1] = x
  OBVIOUS
<1>2. \A i : i \in 1 .. Len(s) + 1 <=> i \in 1 .. Len(s) \/ i = Len(s) + 1 BY <1>1
<1> QED BY <1>1, <1>2 DEF Within

LEMMA TailWithin ==
  ASSUME NEW X, NEW s \in Seq(X), s # <<>>
  PROVE  Within(s) \subseteq Within(Tail(s)) \cup {Head(s)}
<1> SUFFICES ASSUME NEW i \in DOMAIN s, s[i] # Head(s) PROVE s[i] \in Within(Tail(s))
  BY DEF Within
<1>1. i \in 2 .. Len(s) OBVIOUS
<1>2. i - 1 \in DOMAIN Tail(s) /\ Tail(s)[i - 1] = s[i] BY <1>1
<1> QED BY <1>2 DEF Within

\* No channel of d has fewer frames than that of c.
More(c, d) == \A x, y \in Node : Within(c[x][y]) \subseteq Within(d[x][y])

LEMMA AppendedMore ==
  ASSUME NEW c, Channels(c), NEW a \in Node, NEW b \in Node, NEW f
  PROVE  More(c, Appended(c, a, b, f)) /\ f \in Within(Appended(c, a, b, f)[a][b])
<1>1. \A x, y \in Node : Appended(c, a, b, f)[x][y]
                          = IF x = a /\ y = b THEN Append(c[a][b], f) ELSE c[x][y]
  BY DEF Channels, Appended
<1>2. Within(Append(c[a][b], f)) = Within(c[a][b]) \cup {f}
  BY AppendWithin DEF Channels
<1> QED BY <1>1, <1>2 DEF More

LEMMA BroadcastMore ==
  ASSUME Channels(net), NEW a \in Node, NEW f
  PROVE  /\ More(net, Broadcast(a, f))
         /\ \A b \in Node \ {a} : f \in Within(Broadcast(a, f)[a][b])
<1>1. \A x, y \in Node : Broadcast(a, f)[x][y]
                          = IF x = a /\ y # a THEN Append(net[x][y], f) ELSE net[x][y]
  BY DEF Channels, Broadcast
<1>2. \A x, y \in Node : Within(Append(net[x][y], f)) = Within(net[x][y]) \cup {f}
  BY AppendWithin DEF Channels
<1> QED BY <1>1, <1>2 DEF More

\* Only the frame at the head is taken.
LEMMA TakenWithin ==
  ASSUME Channels(net), NEW a \in Node, NEW n \in Node, net[a][n] # <<>>
  PROVE  \A x, y \in Node : Within(net[x][y]) \subseteq Within(Taken(a, n)[x][y])
            \cup (IF x = a /\ y = n THEN {Head(net[a][n])} ELSE {})
<1>1. \A x, y \in Node : Taken(a, n)[x][y]
                          = IF x = a /\ y = n THEN Tail(net[a][n]) ELSE net[x][y]
  BY DEF Channels, Taken
<1>2. Within(net[a][n]) \subseteq Within(Tail(net[a][n])) \cup {Head(net[a][n])}
  BY TailWithin DEF Channels
<1> QED BY <1>1, <1>2

\* No entry begins to wait, and what is waited for stays asked.
LEMMA WaitKeeps ==
  ASSUME WInv,
         \A n \in Node : /\ Waiting(table[n]) \subseteq Node
                         /\ Waiting(table'[n]) \subseteq Waiting(table[n]),
         \A n, b \in Node : b \in Waiting(table'[n]) \ Static =>
           (Asked(net, unasked, n, b) => Asked(net', unasked', n, b))
  PROVE  WInv'
BY DEF WInv

LEMMA MoreAsked ==
  ASSUME NEW c, NEW d, More(c, d), NEW u, NEW n \in Node, NEW b \in Node, Asked(c, u, n, b)
  PROVE  Asked(d, u, n, b)
BY DEF Asked, More

LEMMA WaitingNodes ==
  ASSUME IInv PROVE \A n \in Node : Waiting(table[n]) \subseteq Node
BY DEF IInv, Tables, Waiting, EntryType

\* An entry is replaced by one for the same address, which waits only if it did.
LEMMA ReplaceWaits ==
  ASSUME NEW t, NEW e \in t, NEW x, x.ip = e.ip, x.mac = e.mac
  PROVE  Waiting((t \ {e}) \cup {x}) \subseteq Waiting(t)
BY DEF Waiting

\* The sender of a frame is not waited for any more.
LEMMA UpdateWaits ==
  ASSUME NEW n \in Node, NEW t, NEW mk, Sound(n, t, mk), NEW b, NEW f, Heard(n, b, f)
  PROVE  /\ Waiting(freeArpUpdate(t, f)) \subseteq Waiting(t) \ {b}
         /\ Waiting(freeArpLearning(t, f)) \subseteq Waiting(t) \ {b}
<1>0. b # NoMac BY ArpConstants DEF Heard
<1>1. ASSUME NEW x \in freeArpUpdate(t, f), x.mac = NoMac
      PROVE  x \in t /\ x.ip # b
  <2>1. PICK e \in t : x = IF e.ip = f.spa THEN [e EXCEPT !.mac = f.sha, !.life = FlushInterval]
                           ELSE e
    BY DEF freeArpUpdate
  <2>2. e \in EntryType BY DEF Sound, EntryOK
  <2>3. [e EXCEPT !.mac = f.sha, !.life = FlushInterval].mac = b
    BY <2>2 DEF EntryType, Heard
  <2> QED BY <1>0, <1>1, <2>1, <2>3 DEF Heard
<1>2. Waiting(freeArpUpdate(t, f)) \subseteq Waiting(t) \ {b} BY <1>1 DEF Waiting
<1>3. Waiting(freeArpLearning(t, f)) \subseteq Waiting(t) \ {b}
  <2>1. CASE \E e \in t : e.ip = f.spa BY <1>2, <2>1 DEF freeArpLearning
  <2>2. CASE \A e \in t : e.ip # f.spa
    <3>1. Entry(f.spa, f.sha, NoPkt).mac = b BY DEF Entry, Heard
    <3>2. freeArpLearning(t, f) \subseteq t \cup {Entry(f.spa, f.sha, NoPkt)}
      BY <2>2 DEF freeArpLearning, addArpTbl
    <3> QED BY <1>0, <2>2, <3>1, <3>2 DEF Waiting, Heard
  <2> QED BY <2>1, <2>2
<1> QED BY <1>2, <1>3

\* A packet is made: the only new question is broadcast with it.
LEMMA SendWaitsStep ==
  ASSUME IInv, WInv, NEW a \in Node, NEW b \in Node, Send(a, b)
  PROVE  WInv'
<1>1. Channels(net) /\ Tables(table, made, flush) BY DEF IInv
<1>2. a # b BY DEF Send, SendKnown, SendWaits, SendUnknown, Make
<1>3. table \in [Node -> SUBSET EntryType] BY <1>1 DEF Tables
<1>4. CASE SendKnown(a, b)
  <2>1. PICK e \in table[a] :
          /\ e.ip = b /\ e.mac # NoMac
          /\ table' = [table EXCEPT ![a] = (@ \ {e}) \cup {[e EXCEPT !.life = FlushInterval]}]
          /\ net' = Unicast(a, e.mac, Data(NewPkt(a, b)))
          /\ unasked' = unasked
    BY <1>4 DEF SendKnown
  <2> DEFINE x == [e EXCEPT !.life = FlushInterval]
  <2>2. e \in EntryType /\ EntryOK(a, e, made[a]) BY <1>1, <1>3 DEF Tables, Sound
  <2>3. x.ip = e.ip /\ x.mac = e.mac BY <2>2 DEF EntryType
  <2>4. table' = [table EXCEPT ![a] = (table[a] \ {e}) \cup {x}] BY <2>1
  <2> HIDE DEF x
  <2>5. \A n \in Node : Waiting(table'[n]) \subseteq Waiting(table[n])
    BY <1>3, <2>3, <2>4, ReplaceWaits
  <2>6. net' = Appended(net, a, b, Data(NewPkt(a, b)))
    BY <2>1, <2>2 DEF Unicast, Appended, EntryOK
  <2>7. More(net, net') BY <1>1, <2>6, AppendedMore
  <2> QED BY <2>1, <2>5, <2>7, MoreAsked, WaitKeeps, WaitingNodes
<1>5. CASE SendWaits(a, b)
  <2>1. PICK e \in table[a] :
          /\ table' = [table EXCEPT ![a] = (@ \ {e}) \cup {[e EXCEPT !.pkt = NewPkt(a, b)]}]
          /\ net' = net /\ unasked' = unasked
    BY <1>5 DEF SendWaits
  <2> DEFINE x == [e EXCEPT !.pkt = NewPkt(a, b)]
  <2>2. e \in EntryType BY <1>3
  <2>3. x.ip = e.ip /\ x.mac = e.mac BY <2>2 DEF EntryType
  <2>4. table' = [table EXCEPT ![a] = (table[a] \ {e}) \cup {x}] BY <2>1
  <2> HIDE DEF x
  <2>5. \A n \in Node : Waiting(table'[n]) \subseteq Waiting(table[n])
    BY <1>3, <2>3, <2>4, ReplaceWaits
  <2> QED BY <2>1, <2>5, WaitKeeps, WaitingNodes
<1>6. CASE SendUnknown(a, b)
  <2>1. CASE a \in Static
    <3>1. table' = table /\ net' = net /\ unasked' = unasked BY <1>6, <2>1 DEF SendUnknown
    <3> QED BY <3>1 DEF WInv
  <2>2. CASE a \notin Static
    <3> DEFINE q == Arp("request", a, b)
               x == Entry(b, NoMac, NewPkt(a, b))
    <3>1. /\ table' = [table EXCEPT ![a] = addArpTbl(table[a], x)]
          /\ net' = Broadcast(a, q) /\ unasked' = unasked \ {<<a, b>>}
      BY <1>6, <2>2 DEF SendUnknown
    <3>2. x.ip = b BY DEF Entry
    <3> HIDE DEF x
    <3>3. Waiting(addArpTbl(table[a], x)) \subseteq Waiting(table[a]) \cup {b}
      BY <3>2 DEF addArpTbl, Waiting
    <3>4. \A n \in Node : table'[n] = IF n = a THEN addArpTbl(table[a], x) ELSE table[n]
      BY <1>3, <3>1
    <3>5. More(net, net') /\ q \in Within(net'[a][b])
      <4> HIDE DEF q
      <4> QED BY <1>1, <1>2, <3>1, BroadcastMore
    <3>6. ASSUME NEW n \in Node, NEW z \in Waiting(table'[n]) \ Static
          PROVE  Asked(net', unasked', n, z)
      <4>1. CASE n = a /\ z = b BY <3>5, <4>1 DEF Asked
      <4>2. CASE ~(n = a /\ z = b)
        <5>1. z \in Waiting(table[n]) \ Static BY <3>3, <3>4, <3>6, <4>2
        <5>2. z \in Node BY <5>1, WaitingNodes
        <5>3. Asked(net, unasked, n, z) BY <5>1 DEF WInv
        <5>4. <<n, z>> # <<a, b>> BY <4>2
        <5>5. Asked(net, unasked', n, z) BY <3>1, <5>3, <5>4 DEF Asked
        <5> QED BY <3>5, <5>2, <5>5, MoreAsked
      <4> QED BY <4>1, <4>2
    <3>7. \A n \in Static \cap Node : Waiting(table'[n]) = {} BY <2>2, <3>4 DEF WInv
    <3> QED BY <3>6, <3>7 DEF WInv
  <2> QED BY <2>1, <2>2
<1> QED BY <1>4, <1>5, <1>6 DEF Send

\* A frame is taken by its handler: a question is answered, a reply resolves the entry.
LEMMA ReceiveWaitsStep ==
  ASSUME IInv, WInv, NEW a \in Node, NEW n \in Node, Receive(a, n)
  PROVE  WInv'
<1> DEFINE f == Head(net[a][n])
           c == Taken(a, n)
<1>1. Channels(net) /\ Tables(table, made, flush) BY DEF IInv
<1>2. net[a][n] # <<>> /\ unasked' = unasked
  BY DEF Receive, RecvData, RecvIgnored, RecvOverheard, RecvRequest, RecvReply
<1>3. Channels(c) /\ f \in Frames(a, n) /\ a # n BY <1>1, <1>2, TakenKeeps
<1>4. \A x, y \in Node : Within(net[x][y]) \subseteq
        Within(c[x][y]) \cup (IF x = a /\ y = n THEN {f} ELSE {})
  BY <1>1, <1>2, TakenWithin
<1>5. \/ RecvData(a, n, f) \/ RecvIgnored(a, n, f) \/ RecvOverheard(a, n, f)
      \/ RecvRequest(a, n, f) \/ RecvReply(a, n, f)
  BY DEF Receive
<1> HIDE DEF f, c
<1>6. f.kind # "data" => Heard(n, a, f) BY <1>3 DEF Frames, Heard
<1>7. Sound(n, table[n], made[n]) /\ table \in [Node -> SUBSET EntryType] BY <1>1 DEF Tables
<1>8. f.kind # "data" =>
        /\ Waiting(freeArpUpdate(table[n], f)) \subseteq Waiting(table[n]) \ {a}
        /\ Waiting(freeArpLearning(table[n], f)) \subseteq Waiting(table[n]) \ {a}
  BY <1>6, <1>7, UpdateWaits
\* It is enough that no entry begins to wait and, for the frame taken, that its question
\* is answered and nobody waits for its sender any more.
<1>9. ASSUME \A x \in Node : Waiting(table'[x]) \subseteq Waiting(table[x]), More(c, net'),
             f.kind = "request" /\ f = Arp("request", a, n) /\ n \notin Static =>
                Arp("reply", n, a) \in Within(net'[n][a]),
             f.kind = "reply" /\ f = Arp("reply", a, n) => a \notin Waiting(table'[n])
      PROVE  WInv'
  <2>1. ASSUME NEW x \in Node, NEW y \in Node, y \in Waiting(table'[x]) \ Static,
               Asked(net, unasked, x, y)
        PROVE  Asked(net', unasked', x, y)
    <3>1. CASE <<x, y>> \in unasked BY <1>2, <3>1 DEF Asked
    <3>2. CASE Arp("request", x, y) \in Within(net[x][y])
      <4>1. CASE Arp("request", x, y) \in Within(c[x][y]) BY <1>9, <4>1 DEF Asked, More
      <4>2. CASE x = a /\ y = n /\ Arp("request", x, y) = f
        <5>1. f.kind = "request" BY <4>2 DEF Arp
        <5> QED BY <1>9, <2>1, <4>2, <5>1 DEF Asked
      <4> QED BY <1>4, <3>2, <4>1, <4>2
    <3>3. CASE Arp("reply", y, x) \in Within(net[y][x])
      <4>1. CASE Arp("reply", y, x) \in Within(c[y][x]) BY <1>9, <4>1 DEF Asked, More
      <4>2. CASE y = a /\ x = n /\ Arp("reply", y, x) = f
        <5>1. f.kind = "reply" BY <4>2 DEF Arp
        <5> QED BY <1>9, <2>1, <4>2, <5>1
      <4> QED BY <1>4, <3>3, <4>1, <4>2
    <3> QED BY <2>1, <3>1, <3>2, <3>3 DEF Asked
  <2> QED BY <1>9, <2>1, WaitKeeps, WaitingNodes
<1>10. More(c, c) BY DEF More
<1>11. CASE RecvData(a, n, f)
  <2>1. table' = table /\ net' = c /\ f.kind = "data" BY <1>11 DEF RecvData, c
  <2> QED BY <1>9, <1>10, <2>1
<1>12. CASE RecvIgnored(a, n, f)
  <2>1. table' = table /\ net' = c /\ n \in Static BY <1>12 DEF RecvIgnored, c
  <2>2. Waiting(table[n]) = {} BY <2>1 DEF WInv
  <2> QED BY <1>9, <1>10, <2>1, <2>2
<1>13. CASE RecvOverheard(a, n, f)
  <2>1. /\ net' = c /\ f.kind # "data" /\ f.tpa # n
        /\ table' = [table EXCEPT ![n] = freeArpUpdate(table[n], f)]
    BY <1>13 DEF RecvOverheard, c
  <2>2. \A x \in Node : Waiting(table'[x]) \subseteq Waiting(table[x]) BY <1>7, <1>8, <2>1
  <2>3. f # Arp("request", a, n) /\ f # Arp("reply", a, n) BY <2>1 DEF Arp
  <2> QED BY <1>9, <1>10, <2>1, <2>2, <2>3
<1>14. CASE RecvRequest(a, n, f)
  <2>1. /\ f.kind = "request" /\ f.spa = a /\ f.sha = a
        /\ net' = [c EXCEPT ![n][f.sha] = Append(@, Arp("reply", n, f.spa))]
        /\ table' = [table EXCEPT ![n] = freeArpLearning(table[n], f)]
    BY <1>6, <1>14 DEF RecvRequest, c, Heard
  <2>2. \A x \in Node : Waiting(table'[x]) \subseteq Waiting(table[x]) BY <1>7, <1>8, <2>1
  <2>3. net' = Appended(c, n, a, Arp("reply", n, a)) BY <2>1 DEF Appended
  <2>4. More(c, net') /\ Arp("reply", n, a) \in Within(net'[n][a])
    BY <1>3, <2>3, AppendedMore
  <2> QED BY <1>9, <2>1, <2>2, <2>4
<1>15. CASE RecvReply(a, n, f)
  <2> DEFINE t == freeArpLearning(table[n], f)
             answered == {e \in t : e.ip = f.spa}
  <2>1. f.kind = "reply" /\ f.spa = a BY <1>6, <1>15 DEF RecvReply, Heard
  <2>2. Waiting(t) \subseteq Waiting(table[n]) \ {a} BY <1>8, <2>1
  <2>3. answered # {} /\ Sound(n, t, made[n]) /\ \A e \in t : e.ip = a => e.mac = a
    BY <1>6, <1>7, <2>1, LearnSound
  <2>4. PICK e \in answered :
          /\ table' = [table EXCEPT ![n] = (t \ {e}) \cup {[e EXCEPT !.pkt = NoPkt]}]
          /\ net' = IF e.pkt = NoPkt THEN c
                    ELSE [c EXCEPT ![n][e.mac] = Append(@, Data(e.pkt))]
    BY <1>15, <2>3 DEF RecvReply, c
  <2> DEFINE x == [e EXCEPT !.pkt = NoPkt]
  <2>5. e \in t /\ e.mac = a /\ e \in EntryType BY <2>1, <2>3, <2>4 DEF Sound, EntryOK
  <2>6. x.ip = e.ip /\ x.mac = e.mac BY <2>5 DEF EntryType
  <2>7. table' = [table EXCEPT ![n] = (t \ {e}) \cup {x}] BY <2>4
  <2> HIDE DEF t, x, answered
  <2>8. Waiting((t \ {e}) \cup {x}) \subseteq Waiting(table[n]) \ {a}
    BY <2>2, <2>5, <2>6, ReplaceWaits
  <2>9. /\ \A y \in Node : Waiting(table'[y]) \subseteq Waiting(table[y])
        /\ a \notin Waiting(table'[n])
    BY <1>7, <2>7, <2>8
  <2>10. More(c, net')
    <3>1. CASE net' = c BY <1>10, <3>1
    <3>2. CASE net' = [c EXCEPT ![n][e.mac] = Append(@, Data(e.pkt))]
      <4>1. net' = Appended(c, n, a, Data(e.pkt)) BY <2>5, <3>2 DEF Appended
      <4> QED BY <1>3, <4>1, AppendedMore
    <3> QED BY <2>4, <3>1, <3>2
  <2> QED BY <1>9, <2>1, <2>9, <2>10
<1> QED BY <1>5, <1>11, <1>12, <1>13, <1>14, <1>15

\* A frame is lost: a question or an answer that is lost is on record.
LEMMA LoseWaitsStep ==
  ASSUME IInv, WInv, NEW a \in Node, NEW n \in Node, Lose(a, n)
  PROVE  WInv'
<1> DEFINE f == Head(net[a][n])
           c == Taken(a, n)
<1>1. Channels(net) BY DEF IInv
<1>2. /\ net[a][n] # <<>> /\ net' = c /\ table' = table
      /\ unasked' = IF f.kind = "request" /\ f.tpa = n THEN unasked \cup {<<a, n>>}
                    ELSE IF f.kind = "reply" THEN unasked \cup {<<n, a>>} ELSE unasked
  BY DEF Lose
<1>3. \A x, y \in Node : Within(net[x][y]) \subseteq
        Within(c[x][y]) \cup (IF x = a /\ y = n THEN {f} ELSE {})
  BY <1>1, <1>2, TakenWithin
<1> HIDE DEF f, c
<1>4. ASSUME NEW x \in Node, NEW y \in Node, Asked(net, unasked, x, y)
      PROVE  Asked(net', unasked', x, y)
  <2>1. CASE <<x, y>> \in unasked BY <1>2, <2>1 DEF Asked
  <2>2. CASE Arp("request", x, y) \in Within(c[x][y]) \/ Arp("reply", y, x) \in Within(c[y][x])
    BY <1>2, <2>2 DEF Asked
  <2>3. CASE x = a /\ y = n /\ Arp("request", x, y) = f
    <3>1. f.kind = "request" /\ f.tpa = n BY <2>3 DEF Arp
    <3> QED BY <1>2, <2>3, <3>1 DEF Asked
  <2>4. CASE y = a /\ x = n /\ Arp("reply", y, x) = f
    <3>1. f.kind = "reply" BY <2>4 DEF Arp
    <3> QED BY <1>2, <2>4, <3>1 DEF Asked
  <2> QED BY <1>3, <1>4, <2>1, <2>2, <2>3, <2>4 DEF Asked
<1> QED BY <1>2, <1>4, WaitKeeps, WaitingNodes

\* Time makes entries older or takes them away.
LEMMA TimeWaitsStep ==
  ASSUME IInv, WInv, Time
  PROVE  WInv'
<1>1. table \in [Node -> SUBSET EntryType] BY DEF IInv, Tables
<1>2. net' = net /\ unasked' = unasked BY DEF Time, Tick, flushArpTbl
<1>3. \A n \in Node : Waiting(table'[n]) \subseteq Waiting(table[n])
  <2>1. CASE Tick
    <3> SUFFICES ASSUME NEW n \in Node PROVE Waiting(table'[n]) \subseteq Waiting(table[n])
      OBVIOUS
    <3>1. CASE n \in Static BY <2>1, <3>1 DEF Tick
    <3>2. CASE n \notin Static
      <4>1. table'[n] = {[e EXCEPT !.life = @ - 1] : e \in table[n]} BY <2>1, <3>2 DEF Tick
      <4>2. \A e \in table[n] : /\ [e EXCEPT !.life = @ - 1].ip = e.ip
                                /\ [e EXCEPT !.life = @ - 1].mac = e.mac
        BY <1>1 DEF EntryType
      <4> QED BY <4>1, <4>2 DEF Waiting
    <3> QED BY <3>1, <3>2
  <2>2. ASSUME NEW x \in Node, flushArpTbl(x)
        PROVE  \A n \in Node : Waiting(table'[n]) \subseteq Waiting(table[n])
    <3>1. \A n \in Node : table'[n] \subseteq table[n] BY <1>1, <2>2 DEF flushArpTbl
    <3> QED BY <3>1 DEF Waiting
  <2> QED BY <2>1, <2>2 DEF Time
<1> QED BY <1>2, <1>3, WaitKeeps, WaitingNodes

LEMMA InitWaits == Init => WInv
<1> SUFFICES ASSUME Init, NEW n \in Node PROVE Waiting(table[n]) = {} BY DEF WInv
<1>1. \A b \in Listed : Entry(b, b, NoPkt).mac # NoMac BY ArpConstants DEF Entry
<1> QED BY <1>1 DEF Init, Waiting

LEMMA StepWaits == IInv /\ WInv /\ [Next]_vars => WInv'
<1> SUFFICES ASSUME IInv, WInv, [Next]_vars PROVE WInv' OBVIOUS
<1>1. CASE Time BY <1>1, TimeWaitsStep
<1>2. CASE \E a, b \in Node : Send(a, b) BY <1>2, SendWaitsStep
<1>3. CASE \E a, b \in Node : Receive(a, b) BY <1>3, ReceiveWaitsStep
<1>4. CASE \E a, b \in Node : Lose(a, b) BY <1>4, LoseWaitsStep
<1>5. CASE UNCHANGED vars BY <1>5 DEF vars, WInv
<1> QED BY <1>1, <1>2, <1>3, <1>4, <1>5 DEF Next

(* An entry waits for a question or an answer that is under way or was     *)
(* lost: no module swallows one, in any order of arrival, flushes and      *)
(* tables however large (arp::recv, arpReply, freeArpLearning).            *)
THEOREM QuestionsKept == Spec => []WaitsForAnswer
<1>1. IInv /\ WInv => WaitsForAnswer
  <2> SUFFICES ASSUME IInv, WInv, NEW n \in Node, NEW e \in table[n],
                      e.mac = NoMac, e.ip \notin Static
               PROVE  \/ \E i \in DOMAIN net[n][e.ip] : net[n][e.ip][i] = Arp("request", n, e.ip)
                      \/ \E i \in DOMAIN net[e.ip][n] : net[e.ip][n][i] = Arp("reply", e.ip, n)
                      \/ <<n, e.ip>> \in unasked
    BY DEF WaitsForAnswer
  <2>1. e.ip \in Waiting(table[n]) \ Static BY DEF Waiting
  <2>2. Asked(net, unasked, n, e.ip) BY <2>1 DEF WInv
  <2> QED BY <2>2 DEF Asked, Within
<1> QED BY <1>1, Invariance, InitWaits, StepWaits, PTL DEF Spec

-----------------------------------------------------------------------------
(* Where packets are.  A packet is on the way, held in a table, delivered, *)
(* dropped or lost, and every handler moves it from one place to one other *)
(* place.  Only the numbers of data frames matter of a channel.            *)
IsData(f) == f.kind = "data"

DataIn(w) == {w[i].pkt : i \in {j \in DOMAIN w : IsData(w[j])}}

\* No packet is twice in a channel.
Single(w) == \A i, j \in DOMAIN w : IsData(w[i]) /\ IsData(w[j]) /\ w[i].pkt = w[j].pkt => i = j

\* The packets in a channel are in the order of their numbers.
Rising(w) == \A i, j \in DOMAIN w : IsData(w[i]) /\ IsData(w[j]) /\ i < j
                                      => w[i].pkt[3] < w[j].pkt[3]

LEMMA AppendData ==
  ASSUME NEW X, NEW w \in Seq(X), NEW f
  PROVE  /\ DataIn(Append(w, f)) = DataIn(w) \cup (IF IsData(f) THEN {f.pkt} ELSE {})
         /\ Single(w) /\ (IsData(f) => f.pkt \notin DataIn(w)) => Single(Append(w, f))
         /\ Rising(w) /\ (IsData(f) => \A q \in DataIn(w) : q[3] < f.pkt[3])
              => Rising(Append(w, f))
<1> DEFINE v == Append(w, f)
<1>1. /\ DOMAIN v = 1 .. Len(w) + 1 /\ DOMAIN w = 1 .. Len(w) /\ Len(w) \in Nat
      /\ \A i \in 1 .. Len(w) : v[i] = w[i]
      /\ v[Len(w) + 1] = f
  OBVIOUS
<1> HIDE DEF v
<1>2. \A i : i \in DOMAIN v <=> i \in DOMAIN w \/ i = Len(w) + 1
  BY <1>1
<1>3. DataIn(v) = DataIn(w) \cup (IF IsData(f) THEN {f.pkt} ELSE {})
  BY <1>1, <1>2 DEF DataIn
<1>4. ASSUME Single(w), IsData(f) => f.pkt \notin DataIn(w)
      PROVE  Single(v)
  BY <1>1, <1>2, <1>4 DEF Single, DataIn
<1>5. ASSUME Rising(w), IsData(f) => \A q \in DataIn(w) : q[3] < f.pkt[3]
      PROVE  Rising(v)
  BY <1>1, <1>2, <1>5 DEF Rising, DataIn
<1> QED
  BY <1>3, <1>4, <1>5 DEF v

LEMMA TailData ==
  ASSUME NEW X, NEW w \in Seq(X), w # <<>>, Single(w)
  PROVE  /\ DataIn(Tail(w)) = DataIn(w) \ (IF IsData(Head(w)) THEN {Head(w).pkt} ELSE {})
         /\ IsData(Head(w)) => Head(w).pkt \in DataIn(w)
         /\ Single(Tail(w))
         /\ Rising(w) => /\ Rising(Tail(w))
                         /\ IsData(Head(w)) =>
                              \A q \in DataIn(Tail(w)) : Head(w).pkt[3] < q[3]
<1> DEFINE v == Tail(w)
           h == Head(w)
<1>1. /\ DOMAIN v = 1 .. Len(w) - 1 /\ DOMAIN w = 1 .. Len(w) /\ Len(w) \in Nat \ {0}
      /\ \A i \in 1 .. Len(w) - 1 : v[i] = w[i + 1]
      /\ h = w[1]
  OBVIOUS
<1> HIDE DEF v, h
<1>2. /\ \A i \in DOMAIN v : i + 1 \in DOMAIN w /\ i + 1 > 1 /\ v[i] = w[i + 1]
      /\ \A i \in DOMAIN w : i = 1 \/ (i - 1 \in DOMAIN v /\ v[i - 1] = w[i])
      /\ 1 \in DOMAIN w
  BY <1>1
<1>3. Single(v)
  BY <1>1, <1>2 DEF Single
<1>4. IsData(h) => h.pkt \in DataIn(w)
  BY <1>1, <1>2 DEF DataIn
<1>5. DataIn(v) \subseteq DataIn(w)
  BY <1>2 DEF DataIn
<1>6. ASSUME IsData(h), h.pkt \in DataIn(v)
      PROVE  FALSE
  <2>1. PICK i \in DOMAIN v : IsData(v[i]) /\ v[i].pkt = h.pkt
    BY <1>6 DEF DataIn
  <2>2. i + 1 \in DOMAIN w /\ i + 1 # 1 /\ IsData(w[i + 1]) /\ w[i + 1].pkt = w[1].pkt
    BY <1>1, <1>2, <2>1
  <2> QED
    BY <1>1, <1>2, <1>6, <2>2 DEF Single
<1>7. ASSUME NEW q \in DataIn(w), q \notin DataIn(v)
      PROVE  IsData(h) /\ q = h.pkt
  <2>1. PICK i \in DOMAIN w : IsData(w[i]) /\ w[i].pkt = q
    BY DEF DataIn
  <2>2. i = 1
    BY <1>2, <1>7, <2>1 DEF DataIn
  <2> QED
    BY <1>1, <2>1, <2>2
<1>8. DataIn(v) = DataIn(w) \ (IF IsData(h) THEN {h.pkt} ELSE {})
  BY <1>5, <1>6, <1>7
<1>9. Rising(w) => Rising(v)
  BY <1>1, <1>2 DEF Rising
<1>10. ASSUME Rising(w), IsData(h), NEW q \in DataIn(v)
       PROVE  h.pkt[3] < q[3]
  <2>1. PICK i \in DOMAIN v : IsData(v[i]) /\ v[i].pkt = q
    BY DEF DataIn
  <2>2. i + 1 \in DOMAIN w /\ 1 < i + 1 /\ IsData(w[i + 1]) /\ w[i + 1].pkt = q
    BY <1>1, <1>2, <2>1
  <2> QED
    BY <1>1, <1>2, <1>10, <2>2 DEF Rising
<1> QED
  BY <1>3, <1>4, <1>8, <1>9, <1>10 DEF v, h

\* The channels: what is in them was sent by the one to the other, once.
Lines(c) == \A x, y \in Node : /\ Single(c[x][y])
                               /\ \A p \in DataIn(c[x][y]) : p[1] = x /\ p[2] = y

OnWay(c, p) == p \in DataIn(c[p[1]][p[2]])

LEMMA AppendedData ==
  ASSUME NEW c, Channels(c), Lines(c), NEW a \in Node, NEW b \in Node, NEW f,
         IsData(f) => f.pkt[1] = a /\ f.pkt[2] = b /\ ~OnWay(c, f.pkt)
  PROVE  /\ Lines(Appended(c, a, b, f))
         /\ \A p \in SomePacket :
              OnWay(Appended(c, a, b, f), p) <=> OnWay(c, p) \/ (IsData(f) /\ p = f.pkt)
<1> DEFINE d == Appended(c, a, b, f)
<1>1. \A x, y \in Node : d[x][y] = IF x = a /\ y = b THEN Append(c[a][b], f) ELSE c[x][y]
  BY DEF Channels, Appended
<1>2. c[a][b] \in Seq(Frames(a, b)) /\ (IsData(f) => f.pkt \notin DataIn(c[a][b]))
  BY DEF Channels, OnWay
<1>3. /\ DataIn(Append(c[a][b], f)) = DataIn(c[a][b]) \cup (IF IsData(f) THEN {f.pkt} ELSE {})
      /\ Single(Append(c[a][b], f))
  BY <1>2, AppendData DEF Lines
<1> HIDE DEF d
<1>4. Lines(d)
  BY <1>1, <1>3 DEF Lines
<1>5. ASSUME NEW p \in SomePacket
      PROVE  OnWay(d, p) <=> OnWay(c, p) \/ (IsData(f) /\ p = f.pkt)
  <2>1. p[1] \in Node /\ p[2] \in Node
    BY DEF SomePacket
  <2> QED
    BY <1>1, <1>3, <2>1 DEF OnWay
<1> QED
  BY <1>4, <1>5 DEF d

LEMMA TakenData ==
  ASSUME Channels(net), Lines(net), NEW a \in Node, NEW n \in Node, net[a][n] # <<>>
  PROVE  LET f == Head(net[a][n])
         IN  /\ Lines(Taken(a, n))
             /\ \A p \in SomePacket : OnWay(Taken(a, n), p) <=>
                                        OnWay(net, p) /\ ~(IsData(f) /\ p = f.pkt)
             /\ IsData(f) => /\ f.pkt \in SomePacket /\ f.pkt[1] = a /\ f.pkt[2] = n
                             /\ OnWay(net, f.pkt)
<1> DEFINE d == Taken(a, n)
           f == Head(net[a][n])
<1>1. \A x, y \in Node : d[x][y] = IF x = a /\ y = n THEN Tail(net[a][n]) ELSE net[x][y]
  BY DEF Channels, Taken
<1>2. net[a][n] \in Seq(Frames(a, n)) /\ f \in Frames(a, n)
  BY DEF Channels
<1>3. /\ DataIn(Tail(net[a][n])) = DataIn(net[a][n]) \ (IF IsData(f) THEN {f.pkt} ELSE {})
      /\ IsData(f) => f.pkt \in DataIn(net[a][n])
      /\ Single(Tail(net[a][n]))
  BY <1>2, TailData DEF Lines
<1>4. IsData(f) => f.pkt \in SomePacket
  BY <1>2 DEF Frames, IsData
<1> HIDE DEF d, f
<1>5. Lines(d)
  BY <1>1, <1>3 DEF Lines
<1>6. IsData(f) => f.pkt[1] = a /\ f.pkt[2] = n /\ OnWay(net, f.pkt)
  BY <1>3 DEF Lines, OnWay
<1>7. ASSUME NEW p \in SomePacket
      PROVE  OnWay(d, p) <=> OnWay(net, p) /\ ~(IsData(f) /\ p = f.pkt)
  <2>1. p[1] \in Node /\ p[2] \in Node
    BY DEF SomePacket
  <2> QED
    BY <1>1, <1>3, <1>6, <2>1 DEF OnWay
<1> QED
  BY <1>4, <1>5, <1>6, <1>7 DEF d, f

LEMMA BroadcastData ==
  ASSUME Channels(net), Lines(net), NEW a \in Node, NEW f, ~IsData(f)
  PROVE  /\ Lines(Broadcast(a, f))
         /\ \A p \in SomePacket : OnWay(Broadcast(a, f), p) <=> OnWay(net, p)
<1> DEFINE d == Broadcast(a, f)
<1>1. \A x, y \in Node : d[x][y] = IF x = a /\ y # a THEN Append(net[x][y], f) ELSE net[x][y]
  BY DEF Channels, Broadcast
<1>2. ASSUME NEW x \in Node, NEW y \in Node
      PROVE  /\ DataIn(Append(net[x][y], f)) = DataIn(net[x][y])
             /\ Single(Append(net[x][y], f))
  <2>1. net[x][y] \in Seq(Frames(x, y)) /\ Single(net[x][y])
    BY DEF Channels, Lines
  <2> QED
    BY <2>1, AppendData
<1> HIDE DEF d
<1>3. \A x, y \in Node : DataIn(d[x][y]) = DataIn(net[x][y]) /\ Single(d[x][y])
  BY <1>1, <1>2 DEF Lines
<1>4. Lines(d)
  BY <1>3 DEF Lines
<1>5. \A p \in SomePacket : OnWay(d, p) <=> OnWay(net, p)
  BY <1>3 DEF OnWay, SomePacket
<1> QED
  BY <1>4, <1>5 DEF d

-----------------------------------------------------------------------------
(* What the changes of a table do to the packets held in it. *)
HeldAt(t, p) == p \in Holding(t[p[1]])

LEMMA HoldingOwn ==
  ASSUME NEW n \in Node, NEW t, NEW mk, Sound(n, t, mk), NEW p \in Holding(t)
  PROVE  p \in SomePacket /\ p[1] = n
BY DEF Sound, EntryOK, EntryType, Holding

LEMMA ReplaceHolding ==
  ASSUME NEW n \in Node, NEW t, NEW mk, Sound(n, t, mk), NEW e \in t, NEW x
  PROVE  Holding((t \ {e}) \cup {x}) = (Holding(t) \ {e.pkt}) \cup ({x.pkt} \ {NoPkt})
<1>1. ASSUME NEW y \in t, y.pkt = e.pkt, y.pkt # NoPkt
      PROVE  y = e
  <2>1. EntryOK(n, y, mk) /\ EntryOK(n, e, mk)
    BY DEF Sound
  <2>2. y.ip = e.ip
    BY <1>1, <2>1 DEF EntryOK
  <2> QED
    BY <2>2 DEF Sound, Unique
<1> QED
  BY <1>1 DEF Holding

LEMMA LearnHolding ==
  ASSUME NEW t, NEW f, \A e \in t : e \in EntryType
  PROVE  /\ Holding(freeArpUpdate(t, f)) = Holding(t)
         /\ Holding(freeArpLearning(t, f)) = Holding(t)
<1>1. \A e \in t : [e EXCEPT !.mac = f.sha, !.life = FlushInterval].pkt = e.pkt
  BY DEF EntryType
<1>2. Holding(freeArpUpdate(t, f)) = Holding(t)
  <2> DEFINE up(e) == IF e.ip = f.spa
                      THEN [e EXCEPT !.mac = f.sha, !.life = FlushInterval] ELSE e
  <2>1. \A e \in t : up(e).pkt = e.pkt
    BY <1>1
  <2>2. freeArpUpdate(t, f) = {up(e) : e \in t}
    BY DEF freeArpUpdate
  <2> HIDE DEF up
  <2> QED
    BY <2>1, <2>2 DEF Holding
<1>3. Entry(f.spa, f.sha, NoPkt).pkt = NoPkt
  BY DEF Entry
<1> QED
  BY <1>2, <1>3 DEF freeArpLearning, addArpTbl, Holding

\* One packet may leave the table of a node and one may come; NoPkt is none.
LEMMA HeldOne ==
  ASSUME Tables(table, made, flush), NEW n \in Node, NEW u, NEW x, NEW y,
         table'[n] = u, \A z \in Node : z # n => table'[z] = table[z],
         \A p \in SomePacket : p \in Holding(u) <=> (p \in Holding(table[n]) /\ p # x) \/ p = y,
         x \in SomePacket => x[1] = n, y \in SomePacket => y[1] = n
  PROVE  \A p \in SomePacket : HeldAt(table', p) <=> (HeldAt(table, p) /\ p # x) \/ p = y
<1> SUFFICES ASSUME NEW p \in SomePacket
             PROVE  HeldAt(table', p) <=> (HeldAt(table, p) /\ p # x) \/ p = y
  OBVIOUS
<1>1. p[1] \in Node
  BY DEF SomePacket
<1>2. table'[p[1]] = IF p[1] = n THEN u ELSE table[p[1]]
  BY <1>1
<1>3. p[1] # n => p # x /\ p # y
  OBVIOUS
<1> QED
  BY <1>1, <1>2, <1>3 DEF HeldAt

-----------------------------------------------------------------------------
Reached(g, p) == p \in Within(g[p[2]])

Numbered(mk, p) == 1 <= p[3] /\ p[3] <= mk[p[1]][p[2]]

(* A packet that was made is in one place, one that was not is in none. *)
Placed(c, t, g, D, L, mk, p) ==
  /\ Numbered(mk, p) <=> OnWay(c, p) \/ HeldAt(t, p) \/ Reached(g, p) \/ p \in D \/ p \in L
  /\ OnWay(c, p) => ~HeldAt(t, p) /\ ~Reached(g, p) /\ p \notin D /\ p \notin L
  /\ HeldAt(t, p) => ~Reached(g, p) /\ p \notin D /\ p \notin L
  /\ Reached(g, p) => p \notin D /\ p \notin L
  /\ p \in D => p \notin L

Arrivals(g) ==
  /\ g \in [Node -> Seq(SomePacket)]
  /\ \A n \in Node : /\ \A p \in Within(g[n]) : p[2] = n
                     /\ \A i, j \in DOMAIN g[n] : g[n][i] = g[n][j] => i = j

CInv == /\ Lines(net) /\ Arrivals(got)
        /\ \A p \in SomePacket : Placed(net, table, got, dropped, lost, made, p)

LEMMA ArrivalAdded ==
  ASSUME Arrivals(got), NEW n \in Node, NEW p \in SomePacket, p[2] = n, ~Reached(got, p),
         got' = [got EXCEPT ![n] = Append(@, p)]
  PROVE  /\ Arrivals(got')
         /\ \A q \in SomePacket : Reached(got', q) <=> Reached(got, q) \/ q = p
<1> DEFINE s == got[n]
           v == Append(got[n], p)
<1>1. s \in Seq(SomePacket) /\ v \in Seq(SomePacket)
  BY DEF Arrivals
<1>2. /\ DOMAIN v = 1 .. Len(s) + 1 /\ DOMAIN s = 1 .. Len(s) /\ Len(s) \in Nat
      /\ \A i \in 1 .. Len(s) : v[i] = s[i]
      /\ v[Len(s) + 1] = p
  BY <1>1
<1>3. \A i : i \in DOMAIN v <=> i \in DOMAIN s \/ i = Len(s) + 1
  BY <1>2
<1>4. Within(v) = Within(s) \cup {p}
  BY <1>1, AppendWithin
<1>5. p \notin Within(s)
  BY DEF Reached
<1>6. /\ got' \in [Node -> Seq(SomePacket)]
      /\ \A x \in Node : got'[x] = IF x = n THEN v ELSE got[x]
  BY <1>1 DEF Arrivals
<1> HIDE DEF v
<1>7. \A i, j \in DOMAIN v : v[i] = v[j] => i = j
  <2>1. \A i, j \in DOMAIN s : s[i] = s[j] => i = j
    BY DEF Arrivals
  <2>2. \A i \in DOMAIN s : s[i] # p
    BY <1>5 DEF Within
  <2> HIDE DEF s
  <2> QED
    BY <1>2, <1>3, <2>1, <2>2
<1>8. Arrivals(got')
  <2> SUFFICES ASSUME NEW x \in Node
               PROVE  /\ \A q \in Within(got'[x]) : q[2] = x
                      /\ \A i, j \in DOMAIN got'[x] : got'[x][i] = got'[x][j] => i = j
    BY <1>6 DEF Arrivals
  <2>1. CASE x = n
    <3>1. got'[x] = v
      BY <1>6, <2>1
    <3>2. \A q \in Within(s) : q[2] = n
      BY DEF Arrivals
    <3> HIDE DEF s
    <3> QED
      BY <1>4, <1>7, <2>1, <3>1, <3>2
  <2>2. CASE x # n
    BY <1>6, <2>2 DEF Arrivals
  <2> QED
    BY <2>1, <2>2
<1>9. ASSUME NEW q \in SomePacket
      PROVE  Reached(got', q) <=> Reached(got, q) \/ q = p
  <2>1. q[2] \in Node
    BY DEF SomePacket
  <2> QED
    BY <1>4, <1>6, <2>1 DEF Reached
<1> QED
  BY <1>8, <1>9

\* A packet is made, and its number is new.
LEMMA NewNumbered ==
  ASSUME Tables(table, made, flush), NEW a \in Node, NEW b \in Node, Make(a, b)
  PROVE  /\ NewPkt(a, b) \in SomePacket /\ NewPkt(a, b)[1] = a /\ NewPkt(a, b)[2] = b
         /\ ~Numbered(made, NewPkt(a, b))
         /\ \A p \in SomePacket : Numbered(made', p) <=> Numbered(made, p) \/ p = NewPkt(a, b)
<1>1. made \in [Node -> [Node -> Nat]]
  BY DEF Tables
<1>2. made' = [made EXCEPT ![a][b] = @ + 1]
  BY DEF Make
<1> DEFINE q == NewPkt(a, b)
           k == made[a][b]
<1>3. k \in Nat /\ q = <<a, b, k + 1>> /\ q \in SomePacket
  BY <1>1 DEF NewPkt, SomePacket
<1>4. q[1] = a /\ q[2] = b /\ q[3] = k + 1
  BY <1>3
<1>5. \A x, y \in Node : made'[x][y] = IF x = a /\ y = b THEN k + 1 ELSE made[x][y]
  BY <1>1, <1>2
<1> HIDE DEF q
<1>6. ASSUME NEW p \in SomePacket
      PROVE  Numbered(made', p) <=> Numbered(made, p) \/ p = q
  <2>1. p[1] \in Node /\ p[2] \in Node /\ p[3] \in Nat /\ p = <<p[1], p[2], p[3]>>
    BY DEF SomePacket
  <2>2. CASE p[1] = a /\ p[2] = b
    <3>1. made'[p[1]][p[2]] = k + 1 /\ made[p[1]][p[2]] = k
      BY <1>5, <2>1, <2>2
    <3>2. p = q <=> p[3] = k + 1
      BY <1>3, <1>4, <2>1, <2>2
    <3> HIDE DEF k
    <3> QED
      BY <1>3, <2>1, <3>1, <3>2 DEF Numbered
  <2>3. CASE ~(p[1] = a /\ p[2] = b)
    <3>1. made'[p[1]][p[2]] = made[p[1]][p[2]]
      BY <1>5, <2>1, <2>3
    <3> QED
      BY <1>4, <2>3, <3>1 DEF Numbered
  <2> QED
    BY <2>2, <2>3
<1>7. ~Numbered(made, q)
  BY <1>3, <1>4 DEF Numbered
<1> QED
  BY <1>3, <1>4, <1>6, <1>7 DEF q

LEMMA HeldSame ==
  ASSUME Tables(table, made, flush), NEW n \in Node,
         Holding(table'[n]) = Holding(table[n]),
         \A z \in Node : z # n => table'[z] = table[z]
  PROVE  \A p \in SomePacket : HeldAt(table', p) <=> HeldAt(table, p)
<1> SUFFICES ASSUME NEW p \in SomePacket
             PROVE  HeldAt(table', p) <=> HeldAt(table, p)
  OBVIOUS
<1>1. p[1] \in Node
  BY DEF SomePacket
<1> QED
  BY <1>1 DEF HeldAt

LEMMA SendPlaces ==
  ASSUME IInv, CInv, NEW a \in Node, NEW b \in Node, Send(a, b)
  PROVE  CInv'
<1> DEFINE q == NewPkt(a, b)
<1>0. Make(a, b)
  BY DEF Send, SendKnown, SendWaits, SendUnknown
<1>1. Channels(net) /\ Tables(table, made, flush) /\ table \in [Node -> SUBSET EntryType]
      /\ Sound(a, table[a], made[a]) /\ Lines(net)
  BY DEF IInv, Tables, CInv
<1>2. got' = got /\ lost' = lost /\ a # b
  BY <1>0 DEF Make
<1>3. /\ q \in SomePacket /\ q[1] = a /\ q[2] = b /\ q # NoPkt
      /\ ~Numbered(made, q)
      /\ \A p \in SomePacket : Numbered(made', p) <=> Numbered(made, p) \/ p = q
  <2>1. q # NoPkt
    BY DEF NewPkt, NoPkt
  <2> QED
    BY <1>0, <1>1, <2>1, NewNumbered
<1> HIDE DEF q
<1>4. Placed(net, table, got, dropped, lost, made, q)
  BY <1>3 DEF CInv
<1>5. /\ ~OnWay(net, q) /\ ~HeldAt(table, q) /\ ~Reached(got, q)
      /\ q \notin dropped /\ q \notin lost
  BY <1>3, <1>4 DEF Placed
\* It is enough that the new packet gets one place and that a packet that leaves the
\* table is dropped.
<1>6. ASSUME Lines(net'), NEW out, out \in SomePacket => HeldAt(table, out),
             \A p \in SomePacket :
               /\ p # q => /\ OnWay(net', p) <=> OnWay(net, p)
                           /\ HeldAt(table', p) <=> HeldAt(table, p) /\ p # out
                           /\ p \in dropped' <=> p \in dropped \/ p = out
               /\ p = q => \/ OnWay(net', p) /\ ~HeldAt(table', p) /\ p \notin dropped'
                           \/ ~OnWay(net', p) /\ HeldAt(table', p) /\ p \notin dropped'
                           \/ ~OnWay(net', p) /\ ~HeldAt(table', p) /\ p \in dropped'
      PROVE  CInv'
  <2>1. ASSUME NEW p \in SomePacket
        PROVE  Placed(net', table', got', dropped', lost', made', p)
    <3>1. Placed(net, table, got, dropped, lost, made, p)
      BY DEF CInv
    <3>2. CASE p = q
      BY <1>2, <1>3, <1>5, <1>6, <3>2 DEF Placed
    <3>3. CASE p # q
      BY <1>2, <1>3, <1>6, <3>1, <3>3 DEF Placed
    <3> QED
      BY <3>2, <3>3
  <2> QED
    BY <1>2, <1>6, <2>1 DEF CInv
<1>7. CASE SendKnown(a, b)
  <2>1. PICK e \in table[a] :
          /\ e.ip = b /\ e.mac # NoMac
          /\ table' = [table EXCEPT ![a] = (@ \ {e}) \cup {[e EXCEPT !.life = FlushInterval]}]
          /\ net' = Unicast(a, e.mac, Data(q))
          /\ dropped' = dropped
    BY <1>7 DEF SendKnown, q
  <2> DEFINE x == [e EXCEPT !.life = FlushInterval]
             u == (table[a] \ {e}) \cup {x}
  <2>2. EntryOK(a, e, made[a]) /\ e \in EntryType
    BY <1>1 DEF Sound, EntryOK
  <2>3. x.pkt = e.pkt /\ e.mac = b /\ table' = [table EXCEPT ![a] = u]
    BY <2>1, <2>2 DEF EntryType, EntryOK
  <2> HIDE DEF x
  <2>4. Holding(u) = (Holding(table[a]) \ {e.pkt}) \cup ({x.pkt} \ {NoPkt})
    BY <1>1, ReplaceHolding
  <2>5. e.pkt # NoPkt => e.pkt \in Holding(table[a])
    BY DEF Holding
  <2>5a. NoPkt \notin Holding(table[a])
    BY DEF Holding
  <2> HIDE DEF u
  <2>6a. NoPkt \notin SomePacket
    BY DEF NoPkt, SomePacket
  <2>6. Holding(u) = Holding(table[a])
    BY <2>3, <2>4, <2>5, <2>5a
  <2>6b. table'[a] = u /\ \A z \in Node : z # a => table'[z] = table[z]
    BY <1>1, <2>3
  <2>7. \A p \in SomePacket : HeldAt(table', p) <=> HeldAt(table, p)
    BY <1>1, <2>6, <2>6b, HeldSame
  <2>8. IsData(Data(q)) /\ Data(q).pkt = q
    BY DEF IsData, Data
  <2>9. net' = Appended(net, a, b, Data(q))
    BY <2>1, <2>3 DEF Unicast, Appended
  <2>10. Lines(net') /\ \A p \in SomePacket : OnWay(net', p) <=> OnWay(net, p) \/ p = q
    BY <1>1, <1>3, <1>5, <2>8, <2>9, AppendedData
  <2> QED
    <3>1. \A p \in SomePacket :
            /\ p # q => /\ OnWay(net', p) <=> OnWay(net, p)
                        /\ HeldAt(table', p) <=> HeldAt(table, p) /\ p # NoPkt
                        /\ p \in dropped' <=> p \in dropped \/ p = NoPkt
            /\ p = q => OnWay(net', p) /\ ~HeldAt(table', p) /\ p \notin dropped'
      BY <1>3, <1>5, <2>1, <2>6a, <2>7, <2>10
    <3> QED
      BY <1>6, <2>6a, <2>10, <3>1
<1>8. CASE SendWaits(a, b)
  <2>1. PICK e \in table[a] :
          /\ e.ip = b /\ e.mac = NoMac
          /\ table' = [table EXCEPT ![a] = (@ \ {e}) \cup {[e EXCEPT !.pkt = q]}]
          /\ dropped' = dropped \cup {e.pkt}
          /\ net' = net
    BY <1>8 DEF SendWaits, q
  <2> DEFINE x == [e EXCEPT !.pkt = q]
             u == (table[a] \ {e}) \cup {x}
  <2>2. EntryOK(a, e, made[a]) /\ e \in EntryType
    BY <1>1 DEF Sound, EntryOK
  <2>3. x.pkt = q /\ table' = [table EXCEPT ![a] = u]
    BY <2>1, <2>2 DEF EntryType
  <2> HIDE DEF x
  <2>4. Holding(u) = (Holding(table[a]) \ {e.pkt}) \cup ({q} \ {NoPkt})
    BY <1>1, <2>3, ReplaceHolding
  <2>4a. \A p \in SomePacket :
           p \in Holding(u) <=> (p \in Holding(table[a]) /\ p # e.pkt) \/ p = q
    BY <1>3, <2>4
  <2>5. e.pkt # NoPkt /\ e.pkt[1] = a
    BY <2>1, <2>2 DEF EntryOK, NoPkt
  <2>6. e.pkt \in Holding(table[a])
    BY <2>5 DEF Holding
  <2> HIDE DEF u
  <2>6a. table'[a] = u /\ \A z \in Node : z # a => table'[z] = table[z]
    BY <1>1, <2>3
  <2>7. \A p \in SomePacket : HeldAt(table', p) <=> (HeldAt(table, p) /\ p # e.pkt) \/ p = q
    BY <1>1, <1>3, <2>4a, <2>5, <2>6a, HeldOne
  <2>8. HeldAt(table, e.pkt)
    BY <2>5, <2>6 DEF HeldAt
  <2>9. q # e.pkt
    BY <1>5, <2>8
  <2> QED
    BY <1>1, <1>5, <1>6, <2>1, <2>7, <2>8, <2>9
<1>9. CASE SendUnknown(a, b)
  <2>1. CASE a \in Static
    <3>1. table' = table /\ net' = net /\ dropped' = dropped \cup {q}
      BY <1>9, <2>1 DEF SendUnknown, q
    <3>2. NoPkt \notin SomePacket
      BY DEF NoPkt, SomePacket
    <3> QED
      BY <1>1, <1>5, <1>6, <3>1, <3>2
  <2>2. CASE a \notin Static
    <3> DEFINE x == Entry(b, NoMac, q)
               u == table[a] \cup {x}
    <3>1. \A e \in table[a] : e.ip # b
      BY <1>9 DEF SendUnknown
    <3>2. ~Full(table[a])
      BY <1>1, <1>2, <3>1, Room
    <3>3. /\ table' = [table EXCEPT ![a] = u]
          /\ net' = Broadcast(a, Arp("request", a, b)) /\ dropped' = dropped
      BY <1>9, <2>2, <3>2 DEF SendUnknown, addArpTbl, q
    <3>4. x.pkt = q
      BY DEF Entry
    <3> HIDE DEF x
    <3>6. NoPkt \notin SomePacket
      BY DEF NoPkt, SomePacket
    <3>5. \A p \in SomePacket :
            p \in Holding(u) <=> (p \in Holding(table[a]) /\ p # NoPkt) \/ p = q
      BY <1>3, <3>4, <3>6 DEF Holding
    <3> HIDE DEF u
    <3>7. table'[a] = u /\ \A z \in Node : z # a => table'[z] = table[z]
      BY <1>1, <3>3
    <3>6a. \A p \in SomePacket : HeldAt(table', p) <=> (HeldAt(table, p) /\ p # NoPkt) \/ p = q
      BY <1>1, <1>3, <3>5, <3>6, <3>7, HeldOne
    <3>9. ~IsData(Arp("request", a, b))
      BY DEF Arp, IsData
    <3>8. Lines(net') /\ \A p \in SomePacket : OnWay(net', p) <=> OnWay(net, p)
      BY <1>1, <3>3, <3>9, BroadcastData
    <3> QED
      <4>1. \A p \in SomePacket :
              /\ p # q => /\ OnWay(net', p) <=> OnWay(net, p)
                          /\ HeldAt(table', p) <=> HeldAt(table, p) /\ p # NoPkt
                          /\ p \in dropped' <=> p \in dropped \/ p = NoPkt
              /\ p = q => ~OnWay(net', p) /\ HeldAt(table', p) /\ p \notin dropped'
        BY <1>3, <1>5, <3>3, <3>6, <3>6a, <3>8
      <4> QED
        BY <1>6, <3>6, <3>8, <4>1
  <2> QED
    BY <2>1, <2>2
<1> QED
  BY <1>7, <1>8, <1>9 DEF Send

LEMMA ReceivePlaces ==
  ASSUME IInv, CInv, NEW a \in Node, NEW n \in Node, Receive(a, n)
  PROVE  CInv'
<1> DEFINE f == Head(net[a][n])
           c == Taken(a, n)
<1>1. Channels(net) /\ Tables(table, made, flush) /\ table \in [Node -> SUBSET EntryType]
      /\ Sound(n, table[n], made[n]) /\ Lines(net) /\ Arrivals(got)
  BY DEF IInv, Tables, CInv
<1>2. net[a][n] # <<>> /\ made' = made /\ lost' = lost
  BY DEF Receive
<1>3. Channels(c) /\ f \in Frames(a, n) /\ a # n
  BY <1>1, <1>2, TakenKeeps
<1>4. /\ Lines(c)
      /\ \A p \in SomePacket : OnWay(c, p) <=> OnWay(net, p) /\ ~(IsData(f) /\ p = f.pkt)
      /\ IsData(f) => /\ f.pkt \in SomePacket /\ f.pkt[1] = a /\ f.pkt[2] = n
                      /\ OnWay(net, f.pkt)
  BY <1>1, <1>2, TakenData
<1>5. \/ RecvData(a, n, f) \/ RecvIgnored(a, n, f) \/ RecvOverheard(a, n, f)
      \/ RecvRequest(a, n, f) \/ RecvReply(a, n, f)
  BY DEF Receive
<1> HIDE DEF f, c
<1>7. f.kind # "data" => Heard(n, a, f)
  BY <1>3 DEF Frames, Heard
<1>8. \A p \in SomePacket : Placed(net, table, got, dropped, lost, made, p)
  BY DEF CInv
\* Nothing has moved.
<1>9. ASSUME Lines(net'), got' = got, dropped' = dropped,
             \A p \in SomePacket : /\ OnWay(net', p) <=> OnWay(net, p)
                                   /\ HeldAt(table', p) <=> HeldAt(table, p)
      PROVE  CInv'
  <2>1. \A p \in SomePacket : Placed(net', table', got', dropped', lost', made', p)
    BY <1>2, <1>8, <1>9 DEF Placed
  <2> QED
    BY <1>1, <1>9, <2>1 DEF CInv
<1>10. CASE RecvData(a, n, f)
  <2>1. /\ IsData(f) /\ net' = c /\ table' = table /\ dropped' = dropped
        /\ got' = [got EXCEPT ![n] = Append(@, f.pkt)]
    BY <1>10 DEF RecvData, IsData, c
  <2> DEFINE q == f.pkt
  <2>2. q \in SomePacket /\ q[2] = n /\ OnWay(net, q)
    BY <1>4, <2>1
  <2>3. ~Reached(got, q) /\ ~HeldAt(table, q) /\ q \notin dropped /\ q \notin lost
    BY <1>8, <2>2 DEF Placed
  <2>4. /\ Arrivals(got')
        /\ \A p \in SomePacket : Reached(got', p) <=> Reached(got, p) \/ p = q
    BY <1>1, <2>1, <2>2, <2>3, ArrivalAdded
  <2>5. \A p \in SomePacket : OnWay(net', p) <=> OnWay(net, p) /\ p # q
    BY <1>4, <2>1
  <2> HIDE DEF q
  <2>6. ASSUME NEW p \in SomePacket
        PROVE  Placed(net', table', got', dropped', lost', made', p)
    <3>1. Placed(net, table, got, dropped, lost, made, p)
      BY <1>8
    <3>2. CASE p = q
      BY <1>2, <2>1, <2>2, <2>3, <2>4, <2>5, <3>1, <3>2 DEF Placed
    <3>3. CASE p # q
      BY <1>2, <2>1, <2>4, <2>5, <3>1, <3>3 DEF Placed
    <3> QED
      BY <3>2, <3>3
  <2> QED
    BY <1>4, <2>1, <2>4, <2>6 DEF CInv
<1>11. CASE RecvIgnored(a, n, f)
  <2>1. ~IsData(f) /\ net' = c /\ table' = table /\ got' = got /\ dropped' = dropped
    BY <1>11 DEF RecvIgnored, IsData, c
  <2> QED
    BY <1>4, <1>9, <2>1
<1>12. \A e \in table[n] : e \in EntryType
  BY <1>1
<1>13. CASE RecvOverheard(a, n, f)
  <2> DEFINE u == freeArpUpdate(table[n], f)
  <2>1. /\ ~IsData(f) /\ net' = c /\ got' = got /\ dropped' = dropped
        /\ table' = [table EXCEPT ![n] = u]
    BY <1>13 DEF RecvOverheard, IsData, c
  <2>2. Holding(u) = Holding(table[n])
    BY <1>12, LearnHolding
  <2>3. table'[n] = u /\ \A z \in Node : z # n => table'[z] = table[z]
    BY <1>1, <2>1
  <2> HIDE DEF u
  <2>4. \A p \in SomePacket : HeldAt(table', p) <=> HeldAt(table, p)
    BY <1>1, <2>2, <2>3, HeldSame
  <2> QED
    BY <1>4, <1>9, <2>1, <2>4
<1>14. CASE RecvRequest(a, n, f)
  <2> DEFINE u == freeArpLearning(table[n], f)
             r == Arp("reply", n, f.spa)
  <2>1. /\ ~IsData(f) /\ got' = got /\ dropped' = dropped
        /\ net' = [c EXCEPT ![n][f.sha] = Append(@, r)]
        /\ table' = [table EXCEPT ![n] = u]
    BY <1>14 DEF RecvRequest, IsData, c
  <2>2. Holding(u) = Holding(table[n])
    BY <1>12, LearnHolding
  <2>3. table'[n] = u /\ \A z \in Node : z # n => table'[z] = table[z]
    BY <1>1, <2>1
  <2> HIDE DEF u
  <2>4. \A p \in SomePacket : HeldAt(table', p) <=> HeldAt(table, p)
    BY <1>1, <2>2, <2>3, HeldSame
  <2>5. f.sha = a
    BY <1>7, <2>1 DEF Heard, IsData
  <2>6. ~IsData(r)
    BY DEF IsData, Arp
  <2> HIDE DEF r
  <2>7. net' = Appended(c, n, a, r)
    BY <2>1, <2>5 DEF Appended
  <2>8. Lines(net') /\ \A p \in SomePacket : OnWay(net', p) <=> OnWay(c, p)
    BY <1>3, <1>4, <2>6, <2>7, AppendedData
  <2> QED
    BY <1>4, <1>9, <2>1, <2>4, <2>8
<1>15. CASE RecvReply(a, n, f)
  <2> DEFINE t == freeArpLearning(table[n], f)
             answered == {e \in t : e.ip = f.spa}
  <2>1. ~IsData(f) /\ Heard(n, a, f) /\ got' = got /\ dropped' = dropped
    BY <1>7, <1>15 DEF RecvReply, IsData
  <2>2. /\ Sound(n, t, made[n]) /\ \E e \in t : e.ip = a
        /\ \A e \in t : e.ip = a => e.mac = a
    BY <1>1, <2>1, LearnSound
  <2>3. answered # {}
    BY <2>1, <2>2 DEF Heard
  <2>4. PICK e \in answered :
          /\ table' = [table EXCEPT ![n] = (t \ {e}) \cup {[e EXCEPT !.pkt = NoPkt]}]
          /\ net' = IF e.pkt = NoPkt THEN c
                    ELSE [c EXCEPT ![n][e.mac] = Append(@, Data(e.pkt))]
    BY <1>15, <2>3 DEF RecvReply, c
  <2> DEFINE x == [e EXCEPT !.pkt = NoPkt]
             u == (t \ {e}) \cup {x}
  <2>5. e \in t /\ e.ip = a /\ e.mac = a
    BY <2>1, <2>2, <2>4 DEF Heard
  <2>6. Holding(t) = Holding(table[n])
    BY <1>12, LearnHolding
  <2> HIDE DEF t, answered
  <2>7. EntryOK(n, e, made[n]) /\ e \in EntryType
    BY <2>2, <2>5 DEF Sound, EntryOK
  <2>8. x.pkt = NoPkt
    BY <2>7 DEF EntryType
  <2>9. table' = [table EXCEPT ![n] = u]
    BY <2>4
  <2> HIDE DEF x
  <2>10. Holding(u) = Holding(table[n]) \ {e.pkt}
    BY <2>2, <2>5, <2>6, <2>8, ReplaceHolding
  <2>11. table'[n] = u /\ \A z \in Node : z # n => table'[z] = table[z]
    BY <1>1, <2>9
  <2> HIDE DEF u
  <2>12. CASE e.pkt = NoPkt
    <3>1. NoPkt \notin Holding(table[n])
      BY DEF Holding
    <3>2. Holding(u) = Holding(table[n])
      BY <2>10, <2>12, <3>1
    <3>3. \A p \in SomePacket : HeldAt(table', p) <=> HeldAt(table, p)
      BY <1>1, <2>11, <3>2, HeldSame
    <3> QED
      BY <1>4, <1>9, <2>1, <2>4, <2>12, <3>3
  <2>13. CASE e.pkt # NoPkt
    <3> DEFINE q == e.pkt
    <3>1. q \in SomePacket /\ q[1] = n /\ q[2] = a
      BY <2>5, <2>7, <2>13 DEF EntryOK, EntryType
    <3>2. q \in Holding(table[n])
      BY <2>5, <2>6, <2>13 DEF Holding
    <3>3. HeldAt(table, q)
      BY <3>1, <3>2 DEF HeldAt
    <3>4. /\ ~OnWay(net, q) /\ ~Reached(got, q) /\ q \notin dropped /\ q \notin lost
          /\ Numbered(made, q)
      BY <1>8, <3>1, <3>3 DEF Placed
    <3>5. net' = Appended(c, n, a, Data(q))
      BY <2>4, <2>5, <2>13 DEF Appended
    <3>6. Data(q).pkt = q /\ IsData(Data(q))
      BY DEF Data, IsData
    <3> HIDE DEF q
    <3>7. ~OnWay(c, q)
      BY <1>4, <3>1, <3>4
    <3>8. Lines(net') /\ \A p \in SomePacket : OnWay(net', p) <=> OnWay(c, p) \/ p = q
      BY <1>3, <1>4, <3>1, <3>5, <3>6, <3>7, AppendedData
    <3>9. ASSUME NEW p \in SomePacket
          PROVE  HeldAt(table', p) <=> HeldAt(table, p) /\ p # q
      <4>1. p[1] \in Node
        BY DEF SomePacket
      <4> QED
        BY <2>10, <2>11, <3>1, <4>1 DEF HeldAt, q
    <3>10. ASSUME NEW p \in SomePacket
           PROVE  Placed(net', table', got', dropped', lost', made', p)
      <4>1. Placed(net, table, got, dropped, lost, made, p)
        BY <1>8
      <4>2. OnWay(net', p) <=> OnWay(net, p) \/ p = q
        BY <1>4, <2>1, <3>8
      <4>3. CASE p = q
        BY <1>2, <2>1, <3>4, <3>9, <4>2, <4>3 DEF Placed
      <4>4. CASE p # q
        BY <1>2, <2>1, <3>9, <4>1, <4>2, <4>4 DEF Placed
      <4> QED
        BY <4>3, <4>4
    <3> QED
      BY <1>1, <2>1, <3>8, <3>10 DEF CInv
  <2> QED
    BY <2>12, <2>13
<1> QED
  BY <1>5, <1>10, <1>11, <1>13, <1>14, <1>15

LEMMA LosePlaces ==
  ASSUME IInv, CInv, NEW a \in Node, NEW n \in Node, Lose(a, n)
  PROVE  CInv'
<1> DEFINE f == Head(net[a][n])
           q == f.pkt
<1>1. Channels(net) /\ Lines(net) /\ Arrivals(got)
      /\ \A p \in SomePacket : Placed(net, table, got, dropped, lost, made, p)
  BY DEF IInv, CInv
<1>2. /\ net[a][n] # <<>> /\ net' = Taken(a, n) /\ table' = table /\ made' = made
      /\ got' = got /\ dropped' = dropped
      /\ lost' = IF IsData(f) THEN lost \cup {q} ELSE lost
  BY DEF Lose, IsData
<1>3. /\ Lines(net')
      /\ \A p \in SomePacket : OnWay(net', p) <=> OnWay(net, p) /\ ~(IsData(f) /\ p = q)
      /\ IsData(f) => q \in SomePacket /\ OnWay(net, q)
  BY <1>1, <1>2, TakenData
<1> HIDE DEF f, q
<1>4. ASSUME NEW p \in SomePacket
      PROVE  Placed(net', table', got', dropped', lost', made', p)
  <2>1. Placed(net, table, got, dropped, lost, made, p)
    BY <1>1
  <2>2. CASE IsData(f) /\ p = q
    BY <1>2, <1>3, <2>1, <2>2 DEF Placed
  <2>3. CASE ~(IsData(f) /\ p = q)
    <3>1. p \in lost' <=> p \in lost
      BY <1>2, <2>3
    <3> QED
      BY <1>2, <1>3, <2>1, <2>3, <3>1 DEF Placed
  <2> QED
    BY <2>2, <2>3
<1> QED
  BY <1>1, <1>2, <1>3, <1>4 DEF CInv

LEMMA FlushPlaces ==
  ASSUME IInv, CInv, NEW n \in Node, flushArpTbl(n)
  PROVE  CInv'
<1> DEFINE gone == {e \in table[n] : Expired(e)}
           u == table[n] \ gone
<1>1. Lines(net) /\ Arrivals(got) /\ table \in [Node -> SUBSET EntryType]
      /\ Sound(n, table[n], made[n])
      /\ \A p \in SomePacket : Placed(net, table, got, dropped, lost, made, p)
  BY DEF IInv, CInv, Tables
<1>2. /\ table' = [table EXCEPT ![n] = u] /\ dropped' = dropped \cup Holding(gone)
      /\ net' = net /\ made' = made /\ got' = got /\ lost' = lost
  BY DEF flushArpTbl
<1>3. gone \subseteq table[n]
  OBVIOUS
<1> HIDE DEF gone
<1>4. Holding(u) = Holding(table[n]) \ Holding(gone)
  <2>1. ASSUME NEW y \in table[n], NEW e \in gone, y.pkt = e.pkt, y.pkt # NoPkt
        PROVE  y = e
    <3>1. EntryOK(n, y, made[n]) /\ EntryOK(n, e, made[n]) /\ e \in table[n]
      BY <1>1, <1>3 DEF Sound
    <3>2. y.ip = e.ip
      BY <2>1, <3>1 DEF EntryOK
    <3> QED
      BY <1>1, <3>1, <3>2 DEF Sound, Unique
  <2> QED
    BY <1>3, <2>1 DEF Holding
<1>5. Holding(gone) \subseteq Holding(table[n])
  BY <1>3 DEF Holding
<1>6. table'[n] = u /\ \A z \in Node : z # n => table'[z] = table[z]
  BY <1>1, <1>2
<1> HIDE DEF u
<1>7. \A p \in Holding(gone) : p[1] = n
  BY <1>1, <1>5, HoldingOwn
<1>8. ASSUME NEW p \in SomePacket
      PROVE  Placed(net', table', got', dropped', lost', made', p)
  <2>1. Placed(net, table, got, dropped, lost, made, p) /\ p[1] \in Node
    BY <1>1 DEF SomePacket
  <2>2. HeldAt(table', p) <=> HeldAt(table, p) /\ p \notin Holding(gone)
    BY <1>4, <1>6, <1>7, <2>1 DEF HeldAt
  <2>3. p \in Holding(gone) => HeldAt(table, p)
    BY <1>5, <1>7 DEF HeldAt
  <2> QED
    BY <1>2, <2>1, <2>2, <2>3 DEF Placed
<1> QED
  BY <1>1, <1>2, <1>8 DEF CInv

LEMMA TickPlaces ==
  ASSUME IInv, CInv, Tick
  PROVE  CInv'
<1>1. /\ net' = net /\ made' = made /\ got' = got /\ lost' = lost /\ dropped' = dropped
      /\ table' = [n \in Node |-> IF n \in Static THEN table[n]
                                  ELSE {[e EXCEPT !.life = @ - 1] : e \in table[n]}]
  BY DEF Tick
<1>2. ASSUME NEW n \in Node
      PROVE  Holding(table'[n]) = Holding(table[n])
  <2>1. CASE n \in Static
    BY <1>1, <2>1
  <2>2. CASE n \notin Static
    <3> DEFINE old(e) == [e EXCEPT !.life = @ - 1]
    <3>1. \A e \in table[n] : old(e).pkt = e.pkt
      BY DEF IInv, Tables, EntryType
    <3>2. table'[n] = {old(e) : e \in table[n]}
      BY <1>1, <2>2
    <3> HIDE DEF old
    <3> QED
      BY <3>1, <3>2 DEF Holding
  <2> QED
    BY <2>1, <2>2
<1>3. \A p \in SomePacket : HeldAt(table', p) <=> HeldAt(table, p)
  BY <1>2 DEF HeldAt, SomePacket
<1>4. \A p \in SomePacket : Placed(net', table', got', dropped', lost', made', p)
  BY <1>1, <1>3 DEF CInv, Placed
<1> QED
  BY <1>1, <1>4 DEF CInv

LEMMA InitPlaces == Init => CInv
<1> SUFFICES ASSUME Init
             PROVE  CInv
  OBVIOUS
<1>1. /\ \A x, y \in Node : net[x][y] = <<>> /\ made[x][y] = 0
      /\ got = [n \in Node |-> <<>>] /\ dropped = {} /\ lost = {}
  BY DEF Init
<1>2. \A n \in Node : Holding(table[n]) = {}
  <2>1. \A b \in Listed : Entry(b, b, NoPkt).pkt = NoPkt
    BY DEF Entry
  <2> QED
    BY <2>1 DEF Init, Holding
<1>3. Lines(net) /\ Arrivals(got)
  BY <1>1 DEF Lines, Single, DataIn, Arrivals, Within
<1>4. ASSUME NEW p \in SomePacket
      PROVE  Placed(net, table, got, dropped, lost, made, p)
  <2>1. p[1] \in Node /\ p[2] \in Node /\ p[3] \in Nat
    BY DEF SomePacket
  <2>2. ~OnWay(net, p) /\ ~Reached(got, p)
    BY <1>1, <2>1 DEF OnWay, DataIn, Reached, Within
  <2>3. ~HeldAt(table, p)
    BY <1>2, <2>1 DEF HeldAt
  <2>4. made[p[1]][p[2]] = 0
    BY <1>1, <2>1
  <2>5. ~Numbered(made, p)
    BY <2>1, <2>4 DEF Numbered
  <2> QED
    BY <1>1, <2>2, <2>3, <2>5 DEF Placed
<1> QED
  BY <1>3, <1>4 DEF CInv

LEMMA StepPlaces == IInv /\ CInv /\ [Next]_vars => CInv'
<1> SUFFICES ASSUME IInv, CInv, [Next]_vars
             PROVE  CInv'
  OBVIOUS
<1>1. CASE Tick
  BY <1>1, TickPlaces
<1>2. CASE \E n \in Node : flushArpTbl(n)
  BY <1>2, FlushPlaces
<1>3. CASE \E a, b \in Node : Send(a, b)
  BY <1>3, SendPlaces
<1>4. CASE \E a, b \in Node : Receive(a, b)
  BY <1>4, ReceivePlaces
<1>5. CASE \E a, b \in Node : Lose(a, b)
  BY <1>5, LosePlaces
<1>6. CASE UNCHANGED vars
  BY <1>6 DEF vars, CInv
<1> QED
  BY <1>1, <1>2, <1>3, <1>4, <1>5, <1>6 DEF Next, Time

\* At most one place of a kind, and its number.
LEMMA OneOrNone ==
  ASSUME NEW S, NEW P, \A x, y \in S : x = y, P <=> S # {}
  PROVE  /\ IsFiniteSet(S)
         /\ Cardinality(S) = IF P THEN 1 ELSE 0
<1>1. CASE S = {}
  BY <1>1, FS_EmptySet
<1>2. CASE S # {}
  <2>1. PICK x : S = {x}
    BY <1>2
  <2> QED
    BY <1>2, <2>1, FS_Singleton
<1> QED
  BY <1>1, <1>2

(* No packet is lost track of and none is doubled: of every packet made    *)
(* there is one, on the way, in the buffer of an entry, delivered, dropped *)
(* or lost by the network, though replies come late, twice or unasked and  *)
(* entries are flushed (arp::send, updatePktBuf, resumeSend, flushArpTbl). *)
THEOREM PacketsKept == Spec => []PacketsConserved
<1>1. IInv /\ CInv => PacketsConserved
  <2> SUFFICES ASSUME IInv, CInv, NEW p \in Made
               PROVE  Cardinality(InNet(p)) + Cardinality(Held(p)) + Cardinality(Gotten(p))
                        + Cardinality({p} \cap dropped) + Cardinality({p} \cap lost) = 1
    BY DEF PacketsConserved
  <2> DEFINE a == p[1]
             b == p[2]
  <2>1. p \in SomePacket /\ a \in Node /\ b \in Node /\ Numbered(made, p)
    <3>1. p \in Packet /\ p[3] <= made[p[1]][p[2]]
      BY DEF Made
    <3> QED
      BY <3>1, ArpConstants DEF Packet, SomePacket, Numbered
  <2>2. Placed(net, table, got, dropped, lost, made, p)
    BY <2>1 DEF CInv
  <2>3. Cardinality(InNet(p)) = IF OnWay(net, p) THEN 1 ELSE 0
    <3> DEFINE S == InNet(p)
    <3>1. \A z \in S : \E y \in Node : \E i \in DOMAIN net[a][y] :
                         z = <<y, i>> /\ net[a][y][i] = Data(p)
      BY DEF InNet
    <3>2. ASSUME NEW y \in Node, NEW i \in DOMAIN net[a][y], net[a][y][i] = Data(p)
          PROVE  /\ y = b /\ OnWay(net, p)
                 /\ \A j \in DOMAIN net[a][y] : net[a][y][j] = Data(p) => i = j
      <4>1. IsData(net[a][y][i]) /\ net[a][y][i].pkt = p
        BY <3>2 DEF Data, IsData
      <4>2. p \in DataIn(net[a][y])
        BY <4>1 DEF DataIn
      <4>3. y = b
        BY <2>1, <4>2 DEF CInv, Lines
      <4>4. \A j \in DOMAIN net[a][y] : net[a][y][j] = Data(p) => i = j
        BY <2>1, <3>2, <4>1 DEF CInv, Lines, Single
      <4> QED
        BY <4>2, <4>3, <4>4 DEF OnWay
    <3>3. \A z, w \in S : z = w
      BY <3>1, <3>2
    <3>4. ASSUME OnWay(net, p)
          PROVE  S # {}
      <4>1. PICK i \in DOMAIN net[a][b] : IsData(net[a][b][i]) /\ net[a][b][i].pkt = p
        BY <3>4 DEF OnWay, DataIn
      <4>2. net[a][b][i] \in Frames(a, b)
        BY <2>1 DEF IInv, Channels
      <4>3. net[a][b][i] = Data(p)
        BY <4>1, <4>2 DEF Frames, IsData, Data
      <4> DEFINE here == {<<b, k>> : k \in {j \in DOMAIN net[a][b] : net[a][b][j] = Data(p)}}
      <4>4. <<b, i>> \in here
        BY <4>3
      <4>5. here \subseteq S
        BY <2>1 DEF InNet
      <4> QED
        BY <4>4, <4>5
    <3>5. OnWay(net, p) <=> S # {}
      BY <3>1, <3>2, <3>4
    <3> HIDE DEF S
    <3>6. Cardinality(S) = IF OnWay(net, p) THEN 1 ELSE 0
      BY <3>3, <3>5, OneOrNone
    <3> QED
      BY <3>6 DEF S
  <2>4. Cardinality(Held(p)) = IF HeldAt(table, p) THEN 1 ELSE 0
    <3>1. p # NoPkt
      BY <2>1 DEF SomePacket, NoPkt
    <3>2. HeldAt(table, p) <=> Held(p) # {}
      BY <3>1 DEF HeldAt, Held, Holding
    <3>3. ASSUME NEW e \in Held(p), NEW x \in Held(p)
          PROVE  e = x
      <4>1. Sound(a, table[a], made[a]) /\ e \in table[a] /\ x \in table[a]
            /\ e.pkt = p /\ x.pkt = p
        BY <2>1 DEF Held, IInv, Tables
      <4>2. EntryOK(a, e, made[a]) /\ EntryOK(a, x, made[a])
        BY <4>1 DEF Sound
      <4>3. e.ip = x.ip
        BY <3>1, <4>1, <4>2 DEF EntryOK
      <4> QED
        BY <4>1, <4>3 DEF Sound, Unique
    <3> QED
      BY <3>2, <3>3, OneOrNone
  <2>5. Cardinality(Gotten(p)) = IF Reached(got, p) THEN 1 ELSE 0
    <3>1. Reached(got, p) <=> Gotten(p) # {}
      BY DEF Reached, Gotten, Within
    <3>2. \A i, j \in Gotten(p) : i = j
      BY <2>1 DEF Gotten, CInv, Arrivals
    <3> QED
      BY <3>1, <3>2, OneOrNone
  <2>6. Cardinality({p} \cap dropped) = IF p \in dropped THEN 1 ELSE 0
    <3> DEFINE S == {p} \cap dropped
    <3>1. (\A x, y \in S : x = y) /\ (p \in dropped <=> S # {})
      OBVIOUS
    <3> HIDE DEF S
    <3>2. Cardinality(S) = IF p \in dropped THEN 1 ELSE 0
      BY <3>1, OneOrNone
    <3> QED
      BY <3>2 DEF S
  <2>7. Cardinality({p} \cap lost) = IF p \in lost THEN 1 ELSE 0
    <3> DEFINE S == {p} \cap lost
    <3>1. (\A x, y \in S : x = y) /\ (p \in lost <=> S # {})
      OBVIOUS
    <3> HIDE DEF S
    <3>2. Cardinality(S) = IF p \in lost THEN 1 ELSE 0
      BY <3>1, OneOrNone
    <3> QED
      BY <3>2 DEF S
  <2> QED
    BY <2>1, <2>2, <2>3, <2>4, <2>5, <2>6, <2>7 DEF Placed
<1> QED
  BY <1>1, Invariance, InitPlaces, StepPlaces, PTL DEF Spec

-----------------------------------------------------------------------------
(* Packets from a to b reach b in their order, unless a request of b       *)
(* resolved an entry of a that held one.  Until then the packet in a       *)
(* buffer is the newest, and the entry is the one that waits.              *)
Line(a, w, g) ==
  /\ Rising(w)
  /\ \A q \in Within(g), r \in DataIn(w) : q[1] = a => q[3] < r[3]
  /\ \A i, j \in DOMAIN g : i < j /\ g[i][1] = a /\ g[j][1] = a => g[i][3] < g[j][3]

HoldsWaiting(b, t) == \A e \in t : e.ip = b /\ e.pkt # NoPkt => e.mac = NoMac

OInv == \A a, b \in Node : <<a, b>> \notin early => /\ Line(a, net[a][b], got[b])
                                                   /\ HoldsWaiting(b, table[a])

\* A frame is sent: a packet in it has the highest number.
LEMMA LineAppend ==
  ASSUME NEW X, NEW w \in Seq(X), NEW a, NEW g, Line(a, w, g), NEW f,
         IsData(f) => /\ \A r \in DataIn(w) : r[3] < f.pkt[3]
                      /\ \A r \in Within(g) : r[1] = a => r[3] < f.pkt[3]
  PROVE  Line(a, Append(w, f), g)
<1>1. /\ DataIn(Append(w, f)) = DataIn(w) \cup (IF IsData(f) THEN {f.pkt} ELSE {})
      /\ Rising(Append(w, f))
  BY AppendData DEF Line
<1> QED
  BY <1>1 DEF Line

\* A frame leaves the channel, and a packet in it is lost or delivered.
LEMMA LineTail ==
  ASSUME NEW X, NEW w \in Seq(X), w # <<>>, Single(w), NEW a,
         NEW g \in Seq(SomePacket), Line(a, w, g)
  PROVE  /\ Line(a, Tail(w), g)
         /\ IsData(Head(w)) => Line(a, Tail(w), Append(g, Head(w).pkt))
<1> DEFINE v == Tail(w)
           h == Head(w).pkt
           k == Append(g, h)
<1>1. /\ DataIn(v) \subseteq DataIn(w) /\ Rising(v)
      /\ IsData(Head(w)) => h \in DataIn(w) /\ \A r \in DataIn(v) : h[3] < r[3]
  BY TailData DEF Line
<1>2. /\ DOMAIN k = 1 .. Len(g) + 1 /\ DOMAIN g = 1 .. Len(g) /\ Len(g) \in Nat
      /\ \A i \in 1 .. Len(g) : k[i] = g[i]
      /\ k[Len(g) + 1] = h
  OBVIOUS
<1>3. \A i : i \in DOMAIN k <=> i \in DOMAIN g \/ i = Len(g) + 1
  BY <1>2
<1>4. Within(k) = Within(g) \cup {h}
  BY AppendWithin
<1> HIDE DEF v, h, k
<1>5. Line(a, v, g)
  BY <1>1 DEF Line
<1>6. ASSUME IsData(Head(w))
      PROVE  Line(a, v, k)
  <2>1. \A q \in Within(k), r \in DataIn(v) : q[1] = a => q[3] < r[3]
    BY <1>1, <1>4, <1>5, <1>6 DEF Line
  <2>2. \A i \in DOMAIN g : g[i][1] = a => g[i][3] < h[3]
    BY <1>1, <1>6 DEF Line, Within
  <2>3. \A i, j \in DOMAIN k : i < j /\ k[i][1] = a /\ k[j][1] = a => k[i][3] < k[j][3]
    <3>1. \A i, j \in DOMAIN g : i < j /\ g[i][1] = a /\ g[j][1] = a => g[i][3] < g[j][3]
      BY DEF Line
    <3> QED
      BY <1>2, <1>3, <2>2, <3>1
  <2> QED
    BY <1>1, <2>1, <2>3 DEF Line
<1> QED
  BY <1>5, <1>6 DEF v, h, k

\* A packet of another node is delivered.
LEMMA LineOther ==
  ASSUME NEW w, NEW a, NEW g \in Seq(SomePacket), Line(a, w, g), NEW p, p[1] # a
  PROVE  Line(a, w, Append(g, p))
<1> DEFINE k == Append(g, p)
<1>1. /\ DOMAIN k = 1 .. Len(g) + 1 /\ DOMAIN g = 1 .. Len(g) /\ Len(g) \in Nat
      /\ \A i \in 1 .. Len(g) : k[i] = g[i]
      /\ k[Len(g) + 1] = p
  OBVIOUS
<1>2. \A i : i \in DOMAIN k <=> i \in DOMAIN g \/ i = Len(g) + 1
  BY <1>1
<1>3. Within(k) = Within(g) \cup {p}
  BY AppendWithin
<1> HIDE DEF k
<1>4. \A q \in Within(k), r \in DataIn(w) : q[1] = a => q[3] < r[3]
  BY <1>3 DEF Line
<1>5. \A i, j \in DOMAIN k : i < j /\ k[i][1] = a /\ k[j][1] = a => k[i][3] < k[j][3]
  <2>1. \A i, j \in DOMAIN g : i < j /\ g[i][1] = a /\ g[j][1] = a => g[i][3] < g[j][3]
    BY DEF Line
  <2> QED
    BY <1>1, <1>2, <2>1
<1> QED
  BY <1>4, <1>5 DEF Line, k

\* A new number, or the newest one while it is neither on the way nor delivered, is
\* higher than those that are.
LEMMA Newest ==
  ASSUME IInv, CInv, NEW a \in Node, NEW b \in Node, NEW p \in SomePacket,
         p[1] = a, p[2] = b, p[3] >= made[a][b], ~OnWay(net, p), ~Reached(got, p)
  PROVE  /\ \A r \in DataIn(net[a][b]) : r[3] < p[3]
         /\ \A r \in Within(got[b]) : r[1] = a => r[3] < p[3]
<1>1. ASSUME NEW r \in SomePacket, r[1] = a, r[2] = b, OnWay(net, r) \/ Reached(got, r)
      PROVE  r[3] < p[3]
  <2>1. Numbered(made, r)
    BY <1>1 DEF CInv, Placed
  <2>2. r = <<r[1], r[2], r[3]>> /\ p = <<p[1], p[2], p[3]>> /\ r[3] \in Nat /\ p[3] \in Nat
    BY DEF SomePacket
  <2>3. r # p
    BY <1>1
  <2>4. r[3] # p[3] /\ r[3] <= made[a][b] /\ made[a][b] \in Nat
    BY <1>1, <2>1, <2>2, <2>3 DEF Numbered, IInv, Tables
  <2> QED
    BY <2>2, <2>4
<1>2. ASSUME NEW r \in DataIn(net[a][b])
      PROVE  r[3] < p[3]
  <2>1. net[a][b] \in Seq(Frames(a, b))
    BY DEF IInv, Channels
  <2>2. r \in SomePacket
    <3>1. PICK i \in DOMAIN net[a][b] : IsData(net[a][b][i]) /\ r = net[a][b][i].pkt
      BY DEF DataIn
    <3>2. net[a][b][i] \in Frames(a, b)
      BY <2>1
    <3> QED
      BY <3>1, <3>2 DEF Frames, IsData
  <2>3. r[1] = a /\ r[2] = b /\ OnWay(net, r)
    BY DEF CInv, Lines, OnWay
  <2> QED
    BY <1>1, <2>2, <2>3
<1>3. ASSUME NEW r \in Within(got[b]), r[1] = a
      PROVE  r[3] < p[3]
  <2>1. r \in SomePacket /\ r[2] = b
    BY DEF CInv, Arrivals, Within
  <2> QED
    BY <1>1, <1>3, <2>1 DEF Reached
<1> QED
  BY <1>2, <1>3

LEMMA SendOrder ==
  ASSUME IInv, CInv, OInv, NEW a \in Node, NEW b \in Node, Send(a, b)
  PROVE  OInv'
<1> DEFINE q == NewPkt(a, b)
<1>0. Make(a, b)
  BY DEF Send, SendKnown, SendWaits, SendUnknown
<1>1. /\ Channels(net) /\ Tables(table, made, flush) /\ table \in [Node -> SUBSET EntryType]
      /\ Sound(a, table[a], made[a]) /\ got' = got /\ early' = early /\ a # b
  BY <1>0 DEF IInv, Tables, Make
<1>2. q \in SomePacket /\ q[1] = a /\ q[2] = b /\ ~Numbered(made, q)
  BY <1>0, <1>1, NewNumbered
<1>3. /\ \A r \in DataIn(net[a][b]) : r[3] < q[3]
      /\ \A r \in Within(got[b]) : r[1] = a => r[3] < q[3]
  <2>1. ~OnWay(net, q) /\ ~Reached(got, q)
    BY <1>2 DEF CInv, Placed
  <2>2. q[3] = made[a][b] + 1 /\ made[a][b] \in Nat
    BY <1>1 DEF NewPkt, Tables
  <2>3. q[3] >= made[a][b]
    BY <2>2
  <2> HIDE DEF q
  <2> QED
    BY <1>2, <2>1, <2>3, Newest
<1> HIDE DEF q
\* Only channels and the table of the sender change.
<1>4. ASSUME \A x \in Node : x # a => table'[x] = table[x] /\ net'[x] = net[x],
             \A y \in Node : <<a, y>> \notin early => /\ Line(a, net'[a][y], got[y])
                                                      /\ HoldsWaiting(y, table'[a])
      PROVE  OInv'
  <2> SUFFICES ASSUME NEW x \in Node, NEW y \in Node, <<x, y>> \notin early
               PROVE  Line(x, net'[x][y], got'[y]) /\ HoldsWaiting(y, table'[x])
    BY <1>1 DEF OInv
  <2>1. CASE x = a
    BY <1>1, <1>4, <2>1
  <2>2. CASE x # a
    BY <1>1, <1>4, <2>2 DEF OInv
  <2> QED
    BY <2>1, <2>2
<1>5. CASE SendKnown(a, b)
  <2>1. PICK e \in table[a] :
          /\ e.ip = b /\ e.mac # NoMac
          /\ table' = [table EXCEPT ![a] = (@ \ {e}) \cup {[e EXCEPT !.life = FlushInterval]}]
          /\ net' = Unicast(a, e.mac, Data(q))
    BY <1>5 DEF SendKnown, q
  <2>2. EntryOK(a, e, made[a]) /\ e \in EntryType
    BY <1>1 DEF Sound, EntryOK
  <2> DEFINE x == [e EXCEPT !.life = FlushInterval]
             u == (table[a] \ {e}) \cup {x}
             w == Append(net[a][b], Data(q))
  <2>3. x.pkt = e.pkt /\ x.mac = e.mac /\ x.ip = e.ip /\ e.mac = b
    BY <2>1, <2>2 DEF EntryType, EntryOK
  <2>4. table'[a] = u /\ \A z \in Node : z # a => table'[z] = table[z]
    BY <1>1, <2>1
  <2>5. /\ net'[a][b] = w /\ \A y \in Node : y # b => net'[a][y] = net[a][y]
        /\ \A z \in Node : z # a => net'[z] = net[z]
    BY <1>1, <2>1, <2>3 DEF Unicast, Channels
  <2>6. Data(q).pkt = q /\ net[a][b] \in Seq(Frames(a, b))
    BY <1>1 DEF Data, Channels
  <2> HIDE DEF x
  <2>7. ASSUME NEW y \in Node, <<a, y>> \notin early
        PROVE  Line(a, net'[a][y], got[y]) /\ HoldsWaiting(y, table'[a])
    <3>1. Line(a, net[a][y], got[y]) /\ HoldsWaiting(y, table[a])
      BY <2>7 DEF OInv
    <3>2. HoldsWaiting(y, u)
      BY <2>3, <3>1 DEF HoldsWaiting
    <3>3. Line(a, net'[a][y], got[y])
      <4>1. CASE y = b
        <5> HIDE DEF u
        <5>1. Line(a, w, got[b])
          BY <1>3, <2>6, <3>1, <4>1, LineAppend
        <5> QED
          BY <2>5, <4>1, <5>1
      <4>2. CASE y # b
        BY <2>5, <3>1, <4>2
      <4> QED
        BY <4>1, <4>2
    <3> QED
      BY <2>4, <3>2, <3>3
  <2> QED
    BY <1>4, <2>4, <2>5, <2>7
<1>6. CASE SendWaits(a, b)
  <2>1. PICK e \in table[a] :
          /\ e.ip = b /\ e.mac = NoMac
          /\ table' = [table EXCEPT ![a] = (@ \ {e}) \cup {[e EXCEPT !.pkt = q]}]
          /\ net' = net
    BY <1>6 DEF SendWaits, q
  <2> DEFINE x == [e EXCEPT !.pkt = q]
             u == (table[a] \ {e}) \cup {x}
  <2>2. x.mac = NoMac
    BY <1>1, <2>1 DEF EntryType
  <2>3. table'[a] = u /\ \A z \in Node : z # a => table'[z] = table[z]
    BY <1>1, <2>1
  <2> HIDE DEF x
  <2>4. ASSUME NEW y \in Node, <<a, y>> \notin early
        PROVE  Line(a, net'[a][y], got[y]) /\ HoldsWaiting(y, table'[a])
    <3>1. Line(a, net[a][y], got[y]) /\ HoldsWaiting(y, table[a])
      BY <2>4 DEF OInv
    <3> QED
      BY <2>1, <2>2, <2>3, <3>1 DEF HoldsWaiting
  <2> QED
    BY <1>4, <2>1, <2>3, <2>4
<1>7. CASE SendUnknown(a, b)
  <2>1. CASE a \in Static
    <3>1. table' = table /\ net' = net
      BY <1>7, <2>1 DEF SendUnknown
    <3> QED
      BY <1>1, <3>1 DEF OInv
  <2>2. CASE a \notin Static
    <3> DEFINE x == Entry(b, NoMac, q)
               f == Arp("request", a, b)
    <3>1. /\ table' = [table EXCEPT ![a] = addArpTbl(@, x)]
          /\ net' = Broadcast(a, f)
      BY <1>7, <2>2 DEF SendUnknown, q
    <3>2. x.mac = NoMac /\ ~IsData(f)
      BY DEF Entry, Arp, IsData
    <3> HIDE DEF x, f
    <3>3. table'[a] \subseteq table[a] \cup {x} /\ \A z \in Node : z # a => table'[z] = table[z]
      BY <1>1, <3>1 DEF addArpTbl
    <3>4. /\ \A z \in Node : z # a => net'[z] = net[z]
          /\ \A y \in Node : net'[a][y] \in {net[a][y], Append(net[a][y], f)}
      BY <1>1, <3>1 DEF Broadcast, Channels
    <3>5. ASSUME NEW y \in Node, <<a, y>> \notin early
          PROVE  Line(a, net'[a][y], got[y]) /\ HoldsWaiting(y, table'[a])
      <4>1. Line(a, net[a][y], got[y]) /\ HoldsWaiting(y, table[a])
        BY <3>5 DEF OInv
      <4>2. net[a][y] \in Seq(Frames(a, y))
        BY <1>1 DEF Channels
      <4>3. Line(a, Append(net[a][y], f), got[y])
        BY <3>2, <4>1, <4>2, LineAppend
      <4> QED
        BY <3>2, <3>3, <3>4, <4>1, <4>3 DEF HoldsWaiting
    <3> QED
      BY <1>4, <3>3, <3>4, <3>5
  <2> QED
    BY <2>1, <2>2
<1> QED
  BY <1>5, <1>6, <1>7 DEF Send

\* An entry that holds a packet held it before, and only the sender's has changed.
LEMMA LearnEntries ==
  ASSUME NEW t, \A e \in t : e \in EntryType, NEW n, NEW a, NEW f, Heard(n, a, f)
  PROVE  \A x \in freeArpUpdate(t, f) \cup freeArpLearning(t, f) : x.pkt # NoPkt =>
           \E e \in t : e.ip = x.ip /\ e.pkt = x.pkt /\ (x.ip # a => x = e)
<1>1. ASSUME NEW x \in freeArpUpdate(t, f)
      PROVE  \E e \in t : e.ip = x.ip /\ e.pkt = x.pkt /\ (x.ip # a => x = e)
  <2>1. PICK e \in t : x = IF e.ip = f.spa THEN [e EXCEPT !.mac = f.sha, !.life = FlushInterval]
                           ELSE e
    BY DEF freeArpUpdate
  <2>2. e \in EntryType
    OBVIOUS
  <2> QED
    BY <2>1, <2>2 DEF EntryType, Heard
<1>2. ASSUME NEW x \in freeArpLearning(t, f), x.pkt # NoPkt, x \notin freeArpUpdate(t, f)
      PROVE  x \in t
  <2>1. Entry(f.spa, f.sha, NoPkt).pkt = NoPkt
    BY DEF Entry
  <2> QED
    BY <1>2, <2>1 DEF freeArpLearning, addArpTbl
<1> QED
  BY <1>1, <1>2

LEMMA ReceiveOrder ==
  ASSUME IInv, CInv, OInv, NEW a \in Node, NEW n \in Node, Receive(a, n)
  PROVE  OInv'
<1> DEFINE f == Head(net[a][n])
           c == Taken(a, n)
<1>1. /\ Channels(net) /\ Tables(table, made, flush) /\ table \in [Node -> SUBSET EntryType]
      /\ Sound(n, table[n], made[n]) /\ got \in [Node -> Seq(SomePacket)]
  BY DEF IInv, Tables, CInv, Arrivals
<1>2. net[a][n] # <<>> /\ net[a][n] \in Seq(Frames(a, n)) /\ Single(net[a][n])
  BY DEF Receive, IInv, Channels, CInv, Lines
<1>3. Channels(c) /\ f \in Frames(a, n) /\ a # n
  BY <1>1, <1>2, TakenKeeps
<1>4. c[a][n] = Tail(net[a][n]) /\ \A x, y \in Node : x # a \/ y # n => c[x][y] = net[x][y]
  BY <1>1 DEF Taken, Channels
<1>5. \/ RecvData(a, n, f) \/ RecvIgnored(a, n, f) \/ RecvOverheard(a, n, f)
      \/ RecvRequest(a, n, f) \/ RecvReply(a, n, f)
  BY DEF Receive
<1>6. ASSUME NEW x \in Node, NEW y \in Node, <<x, y>> \notin early
      PROVE  Line(x, c[x][y], got[y])
  <2>1. Line(x, net[x][y], got[y]) /\ got[y] \in Seq(SomePacket)
    BY <1>1, <1>6 DEF OInv
  <2>2. CASE x = a /\ y = n
    <3>1. Line(x, Tail(net[a][n]), got[y])
      BY <1>2, <2>1, <2>2, LineTail
    <3> QED
      BY <1>4, <2>2, <3>1
  <2>3. CASE x # a \/ y # n
    BY <1>4, <2>1, <2>3
  <2> QED
    BY <2>2, <2>3
<1>7. ASSUME <<a, n>> \notin early, IsData(f)
      PROVE  Line(a, c[a][n], Append(got[n], f.pkt))
  <2>1. Line(a, net[a][n], got[n]) /\ got[n] \in Seq(SomePacket)
    BY <1>1, <1>7 DEF OInv
  <2> QED
    BY <1>2, <1>4, <1>7, <2>1, LineTail
<1>8. IsData(f) => f.pkt[1] = a
  BY <1>1, <1>2, TakenData DEF CInv
<1> HIDE DEF f, c
<1>9. f.kind # "data" => Heard(n, a, f)
  BY <1>3 DEF Frames, Heard
<1>10. \A e \in table[n] : e \in EntryType
  BY <1>1
<1>11. CASE RecvData(a, n, f)
  <2>1. /\ IsData(f) /\ net' = c /\ table' = table /\ early' = early
        /\ got' = [got EXCEPT ![n] = Append(@, f.pkt)]
    BY <1>11 DEF RecvData, IsData, c
  <2> SUFFICES ASSUME NEW x \in Node, NEW y \in Node, <<x, y>> \notin early
               PROVE  Line(x, c[x][y], got'[y]) /\ HoldsWaiting(y, table[x])
    BY <2>1 DEF OInv
  <2>2. Line(x, c[x][y], got[y]) /\ HoldsWaiting(y, table[x])
    BY <1>6 DEF OInv
  <2>3. CASE y # n
    BY <1>1, <2>1, <2>2, <2>3
  <2>4. CASE y = n /\ x = a
    BY <1>1, <1>7, <2>1, <2>2, <2>4
  <2>5. CASE y = n /\ x # a
    <3>1. Line(x, c[x][y], Append(got[n], f.pkt))
      BY <1>1, <1>8, <2>1, <2>2, <2>5, LineOther
    <3> QED
      BY <1>1, <2>1, <2>2, <2>5, <3>1
  <2> QED
    BY <2>3, <2>4, <2>5
<1>12. CASE RecvIgnored(a, n, f)
  <2>1. net' = c /\ table' = table /\ early' = early /\ got' = got
    BY <1>12 DEF RecvIgnored, c
  <2> QED
    BY <1>6, <2>1 DEF OInv
\* A frame that is not a reply: the entry it resolves is on record.
<1>13. ASSUME Heard(n, a, f), ResolvesEarly(n, f), got' = got,
              NEW u, u \in {freeArpUpdate(table[n], f), freeArpLearning(table[n], f)},
              table' = [table EXCEPT ![n] = u],
              \A x, y \in Node : <<x, y>> \notin early => Line(x, net'[x][y], got[y])
       PROVE  OInv'
  <2>1. early' = IF \E e \in table[n] : e.ip = a /\ e.mac = NoMac
                 THEN early \cup {<<n, a>>} ELSE early
    BY <1>13 DEF ResolvesEarly, Heard
  <2>2. table'[n] = u /\ \A z \in Node : z # n => table'[z] = table[z]
    BY <1>1, <1>13
  <2> SUFFICES ASSUME NEW x \in Node, NEW y \in Node, <<x, y>> \notin early'
               PROVE  Line(x, net'[x][y], got'[y]) /\ HoldsWaiting(y, table'[x])
    BY DEF OInv
  <2>3. <<x, y>> \notin early
    BY <2>1
  <2>4. Line(x, net'[x][y], got'[y]) /\ HoldsWaiting(y, table[x])
    BY <1>13, <2>3 DEF OInv
  <2>5. CASE x # n
    BY <2>2, <2>4, <2>5
  <2>6. CASE x = n
    <3>1. ASSUME NEW z \in u, z.ip = y, z.pkt # NoPkt
          PROVE  z.mac = NoMac
      <4>1. PICK e \in table[n] : e.ip = z.ip /\ e.pkt = z.pkt /\ (z.ip # a => z = e)
        BY <1>10, <1>13, <3>1, LearnEntries
      <4>2. e.mac = NoMac
        BY <2>4, <2>6, <3>1, <4>1 DEF HoldsWaiting
      <4>3. y # a
        BY <2>1, <2>6, <3>1, <4>1, <4>2
      <4> QED
        BY <3>1, <4>1, <4>2, <4>3
    <3> QED
      BY <2>2, <2>4, <2>6, <3>1 DEF HoldsWaiting
  <2> QED
    BY <2>5, <2>6
<1>14. CASE RecvOverheard(a, n, f)
  <2>1. /\ net' = c /\ got' = got /\ ResolvesEarly(n, f) /\ f.kind # "data"
        /\ table' = [table EXCEPT ![n] = freeArpUpdate(table[n], f)]
    BY <1>14 DEF RecvOverheard, c
  <2> QED
    BY <1>6, <1>9, <1>13, <2>1
\* A frame joins the channel to the sender.
<1>15. ASSUME NEW g, net' = [c EXCEPT ![n][a] = Append(@, g)]
       PROVE  /\ net'[n][a] = Append(c[n][a], g) /\ c[n][a] \in Seq(Frames(n, a))
              /\ \A x, y \in Node : x # n \/ y # a => net'[x][y] = c[x][y]
  BY <1>3, <1>15 DEF Channels
<1>16. CASE RecvRequest(a, n, f)
  <2> DEFINE r == Arp("reply", n, f.spa)
  <2>1. /\ got' = got /\ ResolvesEarly(n, f) /\ f.kind # "data"
        /\ table' = [table EXCEPT ![n] = freeArpLearning(table[n], f)]
        /\ net' = [c EXCEPT ![n][f.sha] = Append(@, r)]
    BY <1>16 DEF RecvRequest, c
  <2>2. f.sha = a /\ ~IsData(r)
    BY <1>9, <2>1 DEF Heard, IsData, Arp
  <2> HIDE DEF r
  <2>3. /\ net'[n][a] = Append(c[n][a], r) /\ c[n][a] \in Seq(Frames(n, a))
        /\ \A x, y \in Node : x # n \/ y # a => net'[x][y] = c[x][y]
    BY <1>15, <2>1, <2>2
  <2>4. ASSUME NEW x \in Node, NEW y \in Node, <<x, y>> \notin early
        PROVE  Line(x, net'[x][y], got[y])
    <3>1. Line(x, c[x][y], got[y])
      BY <1>6, <2>4
    <3>2. CASE x = n /\ y = a
      <4>1. Line(n, Append(c[n][a], r), got[a])
        BY <2>2, <2>3, <3>1, <3>2, LineAppend
      <4> QED
        BY <2>3, <3>2, <4>1
    <3>3. CASE x # n \/ y # a
      BY <2>3, <3>1, <3>3
    <3> QED
      BY <3>2, <3>3
  <2> QED
    BY <1>9, <1>13, <2>1, <2>4
<1>17. CASE RecvReply(a, n, f)
  <2> DEFINE t == freeArpLearning(table[n], f)
             answered == {e \in t : e.ip = f.spa}
  <2>1. Heard(n, a, f) /\ got' = got /\ early' = early
    BY <1>9, <1>17 DEF RecvReply
  <2>2. /\ Sound(n, t, made[n]) /\ \E e \in t : e.ip = a
        /\ \A e \in t : e.ip = a => e.mac = a
    BY <1>1, <2>1, LearnSound
  <2>3. answered # {}
    BY <2>1, <2>2 DEF Heard
  <2>4. PICK e \in answered :
          /\ table' = [table EXCEPT ![n] = (t \ {e}) \cup {[e EXCEPT !.pkt = NoPkt]}]
          /\ net' = IF e.pkt = NoPkt THEN c
                    ELSE [c EXCEPT ![n][e.mac] = Append(@, Data(e.pkt))]
    BY <1>17, <2>3 DEF RecvReply, c
  <2> DEFINE z == [e EXCEPT !.pkt = NoPkt]
             u == (t \ {e}) \cup {z}
  <2>5. e \in t /\ e.ip = a /\ e.mac = a /\ (\A w \in t : w.ip = a => w = e)
    BY <2>1, <2>2, <2>4 DEF Heard, Sound, Unique
  <2>6. \A w \in t : w.pkt # NoPkt => \E x \in table[n] : x.ip = w.ip /\ x.pkt = w.pkt
                                                          /\ (w.ip # a => w = x)
    BY <1>10, <2>1, LearnEntries
  <2> HIDE DEF t, answered
  <2>7. z.pkt = NoPkt /\ z.ip = a
    BY <2>2, <2>5 DEF EntryType, Sound, EntryOK
  <2>8. table'[n] = u /\ \A w \in Node : w # n => table'[w] = table[w]
    BY <1>1, <2>4
  <2> HIDE DEF z
  <2>9. ASSUME NEW x \in Node, NEW y \in Node, <<x, y>> \notin early
        PROVE  HoldsWaiting(y, table'[x])
    <3>1. HoldsWaiting(y, table[x])
      BY <2>9 DEF OInv
    <3>2. CASE x # n
      BY <2>8, <3>1, <3>2
    <3>3. CASE x = n
      <4> SUFFICES ASSUME NEW w \in u, w.ip = y, w.pkt # NoPkt
                   PROVE  w.mac = NoMac
        BY <2>8, <3>3 DEF HoldsWaiting
      <4>1. w \in t /\ w.ip # a
        BY <2>5, <2>7
      <4>2. w \in table[n]
        BY <2>6, <4>1
      <4> QED
        BY <3>1, <3>3, <4>2 DEF HoldsWaiting
    <3> QED
      BY <3>2, <3>3
  <2>10. ASSUME NEW x \in Node, NEW y \in Node, <<x, y>> \notin early
         PROVE  Line(x, net'[x][y], got[y])
    <3>1. Line(x, c[x][y], got[y])
      BY <1>6, <2>10
    <3>2. CASE e.pkt = NoPkt
      BY <2>4, <3>1, <3>2
    <3>3. CASE e.pkt # NoPkt
      <4> DEFINE q == e.pkt
      <4>1. net' = [c EXCEPT ![n][a] = Append(@, Data(q))]
        BY <2>4, <2>5, <3>3
      <4>2. /\ net'[n][a] = Append(c[n][a], Data(q)) /\ c[n][a] \in Seq(Frames(n, a))
            /\ \A v, w \in Node : v # n \/ w # a => net'[v][w] = c[v][w]
        BY <1>15, <4>1
      <4>3. CASE x # n \/ y # a
        BY <3>1, <4>2, <4>3
      <4>4. CASE x = n /\ y = a
        <5>1. PICK w \in table[n] : w.ip = a /\ w.pkt = q
          BY <2>5, <2>6, <3>3
        <5>2. w.mac = NoMac /\ EntryOK(n, w, made[n])
          BY <1>1, <2>10, <3>3, <4>4, <5>1 DEF OInv, HoldsWaiting, Sound
        <5>3. q = <<n, a, made[n][a]>> /\ made[n][a] \in Nat
          BY <1>1, <5>1, <5>2 DEF EntryOK, Tables
        <5>4. q \in SomePacket /\ q[1] = n /\ q[2] = a /\ q[3] = made[n][a]
          BY <5>3 DEF SomePacket
        <5>5. HeldAt(table, q)
          BY <3>3, <5>1, <5>4 DEF HeldAt, Holding
        <5>6. ~OnWay(net, q) /\ ~Reached(got, q)
          BY <5>4, <5>5 DEF CInv, Placed
        <5> HIDE DEF q
        <5>7. q[3] >= made[n][a]
          BY <5>3, <5>4
        <5>8. /\ \A r \in DataIn(net[n][a]) : r[3] < q[3]
              /\ \A r \in Within(got[a]) : r[1] = n => r[3] < q[3]
          BY <5>4, <5>6, <5>7, Newest
        <5>9. Data(q).pkt = q /\ c[n][a] = net[n][a]
          BY <1>3, <1>4 DEF Data
        <5>10. Line(n, Append(c[n][a], Data(q)), got[a])
          BY <3>1, <4>2, <4>4, <5>8, <5>9, LineAppend
        <5> QED
          BY <4>2, <4>4, <5>10
      <4> QED
        BY <4>3, <4>4
    <3> QED
      BY <3>2, <3>3
  <2> QED
    BY <2>1, <2>9, <2>10 DEF OInv
<1> QED
  BY <1>5, <1>11, <1>12, <1>14, <1>16, <1>17

LEMMA LoseOrder ==
  ASSUME IInv, CInv, OInv, NEW a \in Node, NEW n \in Node, Lose(a, n)
  PROVE  OInv'
<1>1. /\ net[a][n] # <<>> /\ net' = Taken(a, n)
      /\ table' = table /\ got' = got /\ early' = early
  BY DEF Lose
<1>2. net[a][n] \in Seq(Frames(a, n)) /\ Single(net[a][n])
      /\ got \in [Node -> Seq(SomePacket)]
  BY DEF IInv, Channels, CInv, Lines, Arrivals
<1>3. net'[a][n] = Tail(net[a][n]) /\ \A x, y \in Node : x # a \/ y # n => net'[x][y] = net[x][y]
  BY <1>1 DEF Taken, Channels, IInv
<1> SUFFICES ASSUME NEW x \in Node, NEW y \in Node, <<x, y>> \notin early
             PROVE  Line(x, net'[x][y], got[y]) /\ HoldsWaiting(y, table[x])
  BY <1>1 DEF OInv
<1>4. Line(x, net[x][y], got[y]) /\ HoldsWaiting(y, table[x]) /\ got[y] \in Seq(SomePacket)
  BY <1>2 DEF OInv
<1>5. CASE x = a /\ y = n
  <2>1. Line(x, Tail(net[a][n]), got[y])
    BY <1>1, <1>2, <1>4, <1>5, LineTail
  <2> QED
    BY <1>3, <1>4, <1>5, <2>1
<1>6. CASE x # a \/ y # n
  BY <1>3, <1>4, <1>6
<1> QED
  BY <1>5, <1>6

LEMMA TimeOrder ==
  ASSUME IInv, OInv, Time
  PROVE  OInv'
<1>1. net' = net /\ got' = got /\ early' = early
  BY DEF Time, Tick, flushArpTbl
<1>2. table \in [Node -> SUBSET EntryType]
  BY DEF IInv, Tables
<1>3. ASSUME NEW n \in Node, NEW e \in table'[n]
      PROVE  \E x \in table[n] : x.ip = e.ip /\ x.mac = e.mac /\ x.pkt = e.pkt
  <2>1. CASE Tick
    <3>1. table'[n] = IF n \in Static THEN table[n]
                      ELSE {[x EXCEPT !.life = @ - 1] : x \in table[n]}
      BY <2>1 DEF Tick
    <3>2. \A x \in table[n] : /\ [x EXCEPT !.life = @ - 1].ip = x.ip
                              /\ [x EXCEPT !.life = @ - 1].mac = x.mac
                              /\ [x EXCEPT !.life = @ - 1].pkt = x.pkt
      BY <1>2 DEF EntryType
    <3>3. CASE n \in Static
      BY <1>3, <3>1, <3>3
    <3>4. CASE n \notin Static
      <4>1. PICK x \in table[n] : e = [x EXCEPT !.life = @ - 1]
        BY <1>3, <3>1, <3>4
      <4> QED
        BY <3>2, <4>1
    <3> QED
      BY <3>3, <3>4
  <2>2. CASE \E x \in Node : flushArpTbl(x)
    <3>1. table'[n] \subseteq table[n]
      BY <1>2, <2>2 DEF flushArpTbl
    <3> QED
      BY <1>3, <3>1
  <2> QED
    BY <2>1, <2>2 DEF Time
<1> QED
  BY <1>1, <1>3 DEF OInv, HoldsWaiting

LEMMA InitOrder == Init => OInv
<1> SUFFICES ASSUME Init, NEW a \in Node, NEW b \in Node
             PROVE  Line(a, net[a][b], got[b]) /\ HoldsWaiting(b, table[a])
  BY DEF OInv
<1>1. net[a][b] = <<>> /\ got[b] = <<>>
  BY DEF Init
<1>2. \A x \in Listed : Entry(x, x, NoPkt).pkt = NoPkt
  BY DEF Entry
<1>3. HoldsWaiting(b, table[a])
  BY <1>2 DEF Init, HoldsWaiting
<1>4. Line(a, net[a][b], got[b])
  BY <1>1 DEF Line, Rising, DataIn, Within
<1> QED
  BY <1>3, <1>4

LEMMA StepOrder == IInv /\ CInv /\ OInv /\ [Next]_vars => OInv'
<1> SUFFICES ASSUME IInv, CInv, OInv, [Next]_vars
             PROVE  OInv'
  OBVIOUS
<1>1. CASE Time
  BY <1>1, TimeOrder
<1>2. CASE \E a, b \in Node : Send(a, b)
  BY <1>2, SendOrder
<1>3. CASE \E a, b \in Node : Receive(a, b)
  BY <1>3, ReceiveOrder
<1>4. CASE \E a, b \in Node : Lose(a, b)
  BY <1>4, LoseOrder
<1>5. CASE UNCHANGED vars
  BY <1>5 DEF vars, OInv
<1> QED
  BY <1>1, <1>2, <1>3, <1>4, <1>5 DEF Next

(* A packet that overtakes another one did so because a request of its     *)
(* destination had resolved the entry whose buffer held the other (recv,   *)
(* freeArpUpdate); nothing else, no loss, flush or late reply, reorders.   *)
THEOREM OnlyEarlyOvertaken == Spec => []OvertakenOnlyIfEarly
<1>1. CInv /\ OInv => OvertakenOnlyIfEarly
  <2> SUFFICES ASSUME CInv, OInv, NEW n \in Node, NEW i \in DOMAIN got[n],
                      NEW j \in DOMAIN got[n], i < j, got[n][i][1] = got[n][j][1],
                      got[n][i][3] > got[n][j][3], <<got[n][i][1], n>> \notin early
               PROVE  FALSE
    BY DEF OvertakenOnlyIfEarly
  <2>1. got[n][i] \in SomePacket /\ got[n][j] \in SomePacket
    BY DEF CInv, Arrivals
  <2> DEFINE p == got[n][i]
             q == got[n][j]
  <2>2. p[1] \in Node /\ p[3] \in Nat /\ q[3] \in Nat
    BY <2>1 DEF SomePacket
  <2>3. p[3] < q[3]
    BY <2>2 DEF OInv, Line
  <2> QED
    BY <2>2, <2>3
<1> QED
  BY <1>1, Invariance, InitPlaces, StepPlaces, InitOrder, StepOrder, PTL DEF Spec
=============================================================================
