--------------------------------- MODULE Arp ---------------------------------
(***************************************************************************)
(* The arp modules (arp.cc) of the nodes of one network.  A node stands    *)
(* for its IP and its MAC address.  Below the modules are interface        *)
(* queues, MACs and wires: between two nodes frames keep their order and   *)
(* any of them may be lost.  An IP broadcast passes arp unchanged and is   *)
(* left out.  Time is counted in ticks of which FlushInterval make up      *)
(* flushInterval_.                                                         *)
(***************************************************************************)
EXTENDS Integers, Sequences, FiniteSets

CONSTANTS Node,
          NoMac,          \* ETHER_NULLADDR
          Static,         \* nodes with ARP_MODE KnowInAdvance
          Listed,         \* nodes listed in the table file of those
          FlushInterval, MaxEntries,
          Lossy, Prompt,  \* the network may lose frames; takes no time
          Talks,          \* bound: pairs of nodes that exchange packets
          MaxPackets      \* bound: packets the layers above send, in all

ASSUME ArpConstants ==
  /\ IsFiniteSet(Node) /\ NoMac \notin Node
  /\ Static \subseteq Node /\ Listed \subseteq Node
  /\ FlushInterval \in Nat \ {0} /\ MaxPackets \in Nat
  /\ MaxEntries \in Nat /\ {Lossy, Prompt} \subseteq BOOLEAN

(* ARP_TBL_MAX_ENTRYS is 65536: more than there are nodes. *)
ASSUME TableLargeEnough == Cardinality(Node) <= MaxEntries + 1

VARIABLES table,    \* arpTable: entries [ip, mac, pkt, life], life = timestamp - now
          flush,    \* ticks until flushTimer expires
          net,      \* frames under way from a node to a node
          made,     \* packets a node has sent to a node
          got,      \* packets delivered to a node, in order
          dropped,  \* history: packets arp gave up
          lost,     \* history: packets the network lost
          crashed,  \* resumeSend followed a null pointer
          early,    \* history: <<n, b>> when a request of b resolved a waiting entry of n
          unasked   \* history: <<n, b>> when the request or its reply was lost

vars == <<table, flush, net, made, got, dropped, lost,
          crashed, early, unasked>>

NoPkt == <<>>                       \* a packet is <<source, destination, number>>

Entry(ip, mac, pkt) == [ip |-> ip, mac |-> mac, pkt |-> pkt, life |-> FlushInterval]

Data(p) == [kind |-> "data", pkt |-> p]
Arp(kind, spa, tpa) == [kind |-> kind, spa |-> spa, sha |-> spa, tpa |-> tpa]

Init == /\ table = [n \in Node |-> IF n \in Static
                                   THEN {Entry(b, b, NoPkt) : b \in Listed \ {n}} ELSE {}]
        /\ flush = [n \in Node |-> FlushInterval]
        /\ net = [a \in Node |-> [b \in Node |-> <<>>]]
        /\ made = [a \in Node |-> [b \in Node |-> 0]]
        /\ got = [n \in Node |-> <<>>]
        /\ crashed = FALSE
        /\ dropped = {} /\ lost = {} /\ early = {} /\ unasked = {}

-----------------------------------------------------------------------------
Full_OffByOne(t) == Cardinality(t) + 1 >= MaxEntries
Full(t) == Cardinality(t) >= MaxEntries

addArpTbl(t, e) == IF Full(t) THEN t ELSE t \cup {e}

Holding(t) == {e.pkt : e \in {x \in t : x.pkt # NoPkt}}

(* atchMacHdr and NslObject::send. *)
Unicast(a, mac, f) == [net EXCEPT ![a][mac] = Append(@, f)]
Broadcast(a, f) ==
  [net EXCEPT ![a] = [b \in Node |-> IF b = a THEN @[b] ELSE Append(@[b], f)]]

Packet == Node \X Node \X (1 .. MaxPackets)

Made == {p \in Packet : p[3] <= made[p[1]][p[2]]}

Make(a, b) == /\ a # b /\ <<a, b>> \in Talks /\ Cardinality(Made) < MaxPackets
              /\ made' = [made EXCEPT ![a][b] = @ + 1]
              /\ UNCHANGED <<flush, got, lost, crashed, early>>
NewPkt(a, b) == <<a, b, made[a][b] + 1>>

(* arp::send: the address is known; looking it up renews the entry. *)
SendKnown(a, b) ==
  \E e \in table[a] :
    /\ e.ip = b /\ e.mac # NoMac
    /\ Make(a, b)
    /\ table' = [table EXCEPT ![a] = (@ \ {e}) \cup {[e EXCEPT !.life = FlushInterval]}]
    /\ net' = Unicast(a, e.mac, Data(NewPkt(a, b)))
    /\ UNCHANGED <<dropped, unasked>>

SendWaits_Floods(a, b) ==
  \E e \in table[a] :
    /\ e.ip = b /\ e.mac = NoMac
    /\ Make(a, b)
    /\ net' = Broadcast(a, Data(NewPkt(a, b)))
    /\ UNCHANGED <<table, dropped, unasked>>

(* An answer is awaited (updatePktBuf): the packet takes the buffer. *)
SendWaits(a, b) ==
  \E e \in table[a] :
    /\ e.ip = b /\ e.mac = NoMac
    /\ Make(a, b)
    /\ table' = [table EXCEPT ![a] = (@ \ {e}) \cup {[e EXCEPT !.pkt = NewPkt(a, b)]}]
    /\ dropped' = dropped \cup {e.pkt}
    /\ UNCHANGED <<net, unasked>>

(* Nothing is known: the packet waits in a new entry, if there is room.  *)
SendUnknown(a, b) ==
  LET p == NewPkt(a, b)
  IN  /\ \A e \in table[a] : e.ip # b
      /\ Make(a, b)
      /\ IF a \in Static
         THEN dropped' = dropped \cup {p} /\ UNCHANGED <<table, net, unasked>>
         ELSE /\ table' = [table EXCEPT ![a] = addArpTbl(@, Entry(b, NoMac, p))]
              /\ dropped' = IF Full(table[a]) THEN dropped \cup {p} ELSE dropped
              /\ net' = Broadcast(a, Arp("request", a, b))
              /\ unasked' = unasked \ {<<a, b>>}

-----------------------------------------------------------------------------
(* freeArpUpdate: the sender of an ARP frame, if known at all, is renewed. *)
freeArpUpdate(t, f) ==
  {IF e.ip = f.spa THEN [e EXCEPT !.mac = f.sha, !.life = FlushInterval] ELSE e : e \in t}

(* freeArpLearning: it becomes known if the frame was for this node. *)
freeArpLearning(t, f) == IF \E e \in t : e.ip = f.spa THEN freeArpUpdate(t, f)
                         ELSE addArpTbl(t, Entry(f.spa, f.sha, NoPkt))

Taken(a, n) == [net EXCEPT ![a][n] = Tail(@)]

RecvData(a, n, f) ==
  /\ f.kind = "data"
  /\ net' = Taken(a, n)
  /\ got' = [got EXCEPT ![n] = Append(@, f.pkt)]
  /\ UNCHANGED <<table, dropped, crashed, early, unasked>>

RecvIgnored(a, n, f) ==
  /\ f.kind # "data" /\ n \in Static
  /\ net' = Taken(a, n)
  /\ UNCHANGED <<table, got, dropped, crashed, early, unasked>>

(* A request resolves the entry that waits for its sender; the packet in   *)
(* the entry's buffer stays there.                                         *)
ResolvesEarly(n, f) == early' = IF \E e \in table[n] : e.ip = f.spa /\ e.mac = NoMac
                                THEN early \cup {<<n, f.spa>>} ELSE early

(* An ARP frame that asks for another node. *)
RecvOverheard(a, n, f) ==
  /\ f.kind # "data" /\ n \notin Static /\ f.tpa # n
  /\ table' = [table EXCEPT ![n] = freeArpUpdate(@, f)]
  /\ net' = Taken(a, n)
  /\ ResolvesEarly(n, f)
  /\ UNCHANGED <<got, dropped, crashed, unasked>>

RecvRequest_StrangersOnly(a, n, f) ==
  /\ f.kind = "request" /\ n \notin Static /\ f.tpa = n
  /\ table' = [table EXCEPT ![n] = freeArpLearning(@, f)]
  /\ net' = IF \E e \in table[n] : e.ip = f.spa THEN Taken(a, n)
            ELSE [Taken(a, n) EXCEPT ![n][f.sha] = Append(@, Arp("reply", n, f.spa))]
  /\ ResolvesEarly(n, f)
  /\ UNCHANGED <<got, dropped, crashed, unasked>>

(* A request for this node is answered (arpReply). *)
RecvRequest(a, n, f) ==
  /\ f.kind = "request" /\ n \notin Static /\ f.tpa = n
  /\ table' = [table EXCEPT ![n] = freeArpLearning(@, f)]
  /\ net' = [Taken(a, n) EXCEPT ![n][f.sha] = Append(@, Arp("reply", n, f.spa))]
  /\ ResolvesEarly(n, f)
  /\ UNCHANGED <<got, dropped, crashed, unasked>>

RecvReply_KeepsPkt(a, n, f) ==
  LET t == freeArpLearning(table[n], f)
      answered == {e \in t : e.ip = f.spa}
  IN  /\ f.kind = "reply" /\ n \notin Static /\ f.tpa = n
      /\ table' = [table EXCEPT ![n] = t]
      /\ \E e \in answered :
           net' = IF e.pkt = NoPkt THEN Taken(a, n)
                  ELSE [Taken(a, n) EXCEPT ![n][e.mac] = Append(@, Data(e.pkt))]
      /\ UNCHANGED <<got, dropped, crashed, early, unasked>>

(* resumeSend: a reply lets out the packet that waited for it, if any. *)
RecvReply(a, n, f) ==
  LET t == freeArpLearning(table[n], f)
      answered == {e \in t : e.ip = f.spa}
  IN  /\ f.kind = "reply" /\ n \notin Static /\ f.tpa = n
      /\ crashed' = (answered = {})
      /\ IF answered = {} THEN UNCHANGED <<table, net>>
         ELSE \E e \in answered :
                /\ table' = [table EXCEPT ![n] = (t \ {e}) \cup {[e EXCEPT !.pkt = NoPkt]}]
                /\ net' = IF e.pkt = NoPkt THEN Taken(a, n)
                          ELSE [Taken(a, n) EXCEPT ![n][e.mac] = Append(@, Data(e.pkt))]
      /\ UNCHANGED <<got, dropped, early, unasked>>

Receive(a, n) == /\ net[a][n] # <<>>
                 /\ LET f == Head(net[a][n])
                    IN  \/ RecvData(a, n, f) \/ RecvIgnored(a, n, f)
                        \/ RecvOverheard(a, n, f)
                        \/ RecvRequest(a, n, f) \/ RecvReply(a, n, f)
                 /\ UNCHANGED <<flush, made, lost>>

Lose(a, n) ==
  LET f == Head(net[a][n])
  IN  /\ Lossy /\ net[a][n] # <<>>
      /\ net' = Taken(a, n)
      /\ lost' = IF f.kind = "data" THEN lost \cup {f.pkt} ELSE lost
      /\ unasked' = IF f.kind = "request" /\ f.tpa = n THEN unasked \cup {<<a, n>>}
                    ELSE IF f.kind = "reply" THEN unasked \cup {<<n, a>>} ELSE unasked
      /\ UNCHANGED <<table, flush, made, got, dropped, crashed, early>>

-----------------------------------------------------------------------------
Expired_Late(e) == e.life < 0
Expired(e) == e.life <= 0

flushArpTbl(n) ==
  LET gone == {e \in table[n] : Expired(e)}
  IN  /\ n \notin Static /\ flush[n] = 0
      /\ table' = [table EXCEPT ![n] = @ \ gone]
      /\ dropped' = dropped \cup Holding(gone)
      /\ flush' = [flush EXCEPT ![n] = FlushInterval]
      /\ UNCHANGED <<net, made, got, lost, crashed, early, unasked>>

(* Entries of a table that is never flushed do not age. *)
Tick ==
  /\ \A n \in Node \ Static : flush[n] > 0
  /\ Prompt => \A a, b \in Node : net[a][b] = <<>>
  /\ flush' = [n \in Node |-> IF n \in Static THEN flush[n] ELSE flush[n] - 1]
  /\ table' = [n \in Node |-> IF n \in Static THEN table[n]
                              ELSE {[e EXCEPT !.life = @ - 1] : e \in table[n]}]
  /\ UNCHANGED <<net, made, got, dropped, lost, crashed, early, unasked>>

Send(a, b) == SendKnown(a, b) \/ SendWaits(a, b) \/ SendUnknown(a, b)

Time == Tick \/ \E n \in Node : flushArpTbl(n)

Next == \/ Time
        \/ \E a, b \in Node : Send(a, b) \/ Receive(a, b) \/ Lose(a, b)

Spec == Init /\ [][Next]_vars

(* Timers expire and frames arrive. *)
FairSpec == Spec /\ WF_vars(Time) /\ \A a, b \in Node : WF_vars(Receive(a, b))

-----------------------------------------------------------------------------
(* Every field keeps its type. *)
TypeOK ==
  /\ \A n \in Node : \A e \in table[n] :
       /\ e.ip \in Node \ {n} /\ e.mac \in Node \cup {NoMac}
       /\ e.pkt \in Packet \cup {NoPkt}
       /\ e.life \in -FlushInterval .. FlushInterval
  /\ flush \in [Node -> 0 .. FlushInterval]
  /\ made \in [Node -> [Node -> 0 .. MaxPackets]]
  /\ dropped \cup lost \subseteq Packet
  /\ crashed \in BOOLEAN

(* resumeSend finds the entry it answers, though the table may have been   *)
(* flushed since the request went out.                                     *)
NoCrash == ~crashed

(* A table has one entry per address, maps it to its owner's MAC address,  *)
(* and an entry without one holds the newest packet for that address.      *)
SoundTable(n) ==
  \A e \in table[n] :
    /\ \A x \in table[n] : x.ip = e.ip => x = e
    /\ e.mac \in {e.ip, NoMac}
    /\ e.mac = NoMac => e.pkt = <<n, e.ip, made[n][e.ip]>>
    /\ e.pkt # NoPkt => e.pkt[1] = n /\ e.pkt[2] = e.ip

TablesSound == \A n \in Node : SoundTable(n)

(* An expired entry goes with the next expiry of the flush timer: a node   *)
(* that fell silent, or never answered, is forgotten in less than two      *)
(* flush intervals.                                                        *)
NoStaleEntry == \A n \in Node \ Static : \A e \in table[n] : e.life > flush[n] - FlushInterval

(* The places a packet may be in. *)
InNet(p) == UNION {{<<b, i>> : i \in {j \in DOMAIN net[p[1]][b] : net[p[1]][b][j] = Data(p)}} :
                    b \in Node}
Held(p) == {e \in table[p[1]] : e.pkt = p}
Gotten(p) == {i \in DOMAIN got[p[2]] : got[p[2]][i] = p}

(* Every packet is on the way, held, delivered, dropped or lost, and in    *)
(* one such place only: the buffer is not sent twice and not leaked, also  *)
(* when replies come late, twice or unasked.                               *)
PacketsConserved ==
  \A p \in Made :
    Cardinality(InNet(p)) + Cardinality(Held(p)) + Cardinality(Gotten(p))
      + Cardinality({p} \cap dropped) + Cardinality({p} \cap lost) = 1

(* Packets reach a node in the order they were sent, unless a request of   *)
(* that node resolved an entry while a packet waited in it: later packets  *)
(* then pass the one in the buffer, which leaves only with the reply.      *)
OvertakenOnlyIfEarly ==
  \A n \in Node : \A i, j \in DOMAIN got[n] :
    i < j /\ got[n][i][1] = got[n][j][1] /\ got[n][i][3] > got[n][j][3]
      => <<got[n][i][1], n>> \in early

(* An entry that waits does so for a request or a reply under way, or for  *)
(* one the network lost: no module swallows a question.                    *)
WaitsForAnswer ==
  \A n \in Node : \A e \in table[n] :
    LET b == e.ip
    IN  e.mac = NoMac /\ b \notin Static =>
          \/ \E i \in DOMAIN net[n][b] : net[n][b][i] = Arp("request", n, b)
          \/ \E i \in DOMAIN net[b][n] : net[b][n][i] = Arp("reply", b, n)
          \/ <<n, b>> \in unasked

(* In a network that loses nothing and is faster than the flush timer, a   *)
(* packet is delivered unless a newer one took its place in the buffer.    *)
Delivered ==
  \A p \in Packet :
    p \in Made ~> \/ Gotten(p) # {}
                  \/ p \in dropped /\ p[3] < made[p[1]][p[2]]

=============================================================================
