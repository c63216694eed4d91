------------------------- MODULE SpanningTreeProofs -------------------------
(* Why no switch ever believes in a path that is too short.  A switch       *)
(* learns of a root in three steps: a neighbour announces its own cost, the *)
(* announcement waits on the link or in the record of the port, and the     *)
(* switch takes it with one hop added.  Each of the three places is judged  *)
(* by itself, against the distances over the links that have ever worked:   *)
(* what is on a link or in a record is at least the distance from the       *)
(* switch that sent it, and only a link that has worked delivers.  A link   *)
(* that works for the first time makes no distance longer, and whatever     *)
(* else happens to links makes no distance or cost smaller.                 *)
EXTENDS SpanningTree, TLAPS

\* What a switch may hold, what may be on the link that leaves port q, and what port p
\* may have recorded, when the links at the ports D have never worked.
OwnEntry(D, b) ==
  {o \in [RootID : Bridge, Cost : Nat, Bridge : Bridge, RootPort : Port \cup {None}] :
     o.Cost >= Hops[D][o.RootID][b]}

Announcement(D, q) ==
  {m \in [type : {"bpdu"}, RootID : Bridge, Cost : Nat, Bridge : Bridge,
          tca : BOOLEAN, flush : BOOLEAN] : m.Cost >= Hops[D][m.RootID][At[q]]}

Frame(D, q) == Announcement(D, q) \cup {TCN}

Record(D, p) ==
  {r \in [RootID : Bridge, Cost : Nat, Bridge : Bridge] :
     p \notin D /\ Peer[p] # None /\ r.Cost >= Hops[D][r.RootID][At[Peer[p]]]} \cup {NoData}

Function(f, D) == f = [x \in D |-> f[x]]

OwnSound(D, o)  == Function(o, Bridge) /\ \A b \in Bridge : o[b] \in OwnEntry(D, b)
RecSound(D, r)  == Function(r, Port) /\ \A p \in Port : r[p] \in Record(D, p)
ChanSound(D, c) == Function(c, Port) /\ \A q \in Port : c[q] \in Seq(Frame(D, q))

Flags ==
  /\ age \in [Port -> 0 .. MaxAge] /\ stableAge \in [Bridge -> 0 .. MaxAge]
  /\ open \subseteq Port /\ opening \subseteq Port /\ down \subseteq Port
  /\ tcn \subseteq Bridge /\ flush \subseteq Bridge /\ stable \subseteq Bridge
  /\ todo \subseteq Bridge

Sound(D) ==
  /\ D \in EndsOfLinks /\ D \subseteq down
  /\ OwnSound(D, own) /\ RecSound(D, rec) /\ ChanSound(D, chan) /\ Flags

IInv == Sound(failures.never)

-----------------------------------------------------------------------------
(* The helpers of the handlers.                                            *)

\* put leaves sound links behind.
LEMMA SentSound ==
  ASSUME NEW D, NEW c, ChanSound(D, c), NEW p \in Port, NEW m \in Frame(D, p)
  PROVE  ChanSound(D, Sent(c, p, m))
<1>1. c[p] \in Seq(Frame(D, p)) BY DEF ChanSound
<1>2. Append(c[p], m) \in Seq(Frame(D, p)) BY <1>1
<1>3. CASE Peer[p] = None \/ p \in down BY <1>3 DEF Sent
<1>4. CASE ~(Peer[p] = None \/ p \in down)
  <2>1. Sent(c, p, m) = [c EXCEPT ![p] = Append(@, m)] BY <1>4 DEF Sent
  <2> DEFINE d == [c EXCEPT ![p] = Append(@, m)]
  <2>2. d = [q \in Port |-> IF q = p THEN Append(c[p], m) ELSE c[q]]
    BY DEF ChanSound, Function
  <2>3. Function(d, Port) BY <2>2 DEF Function
  <2>4. \A q \in Port : d[q] \in Seq(Frame(D, q)) BY <1>2, <2>2 DEF ChanSound
  <2>5. QED BY <2>1, <2>3, <2>4 DEF ChanSound
<1>5. QED BY <1>3, <1>4

\* A notification may be sent on any port.
LEMMA NotificationSound == \A D, q : TCN \in Frame(D, q)
BY DEF Frame

\* What follows from a change of the tree.
LEMMA ChangeSound ==
  ASSUME NEW D, OwnSound(D, own), Flags, NEW b \in Bridge, NEW c, ChanSound(D, c), SpanTreeChange(b, c)
  PROVE  /\ ChanSound(D, chan')
         /\ stable' \subseteq Bridge /\ stableAge' \in [Bridge -> 0 .. MaxAge]
<1>1. ChanSound(D, chan')
  <2>1. own[b].RootPort \in Port \cup {None} BY DEF OwnSound, OwnEntry
  <2>2. QED BY <2>1, SentSound, NotificationSound DEF SpanTreeChange
<1>2. stable' \subseteq Bridge BY DEF SpanTreeChange, Flags
<1>3. stableAge' \in [Bridge -> 0 .. MaxAge]
  <2>1. 0 \in 0 .. MaxAge BY SpanningTreeConstants
  <2>2. QED BY <2>1 DEF SpanTreeChange, Flags
<1>4. QED BY <1>1, <1>2, <1>3

\* A switch announces what it holds.
LEMMA AnnouncedSound ==
  ASSUME NEW D, OwnSound(D, own), NEW b \in Bridge, NEW p \in Ports(b),
         NEW ack \in BOOLEAN, NEW fl \in BOOLEAN
  PROVE  BPDU(Announced(b), ack, fl) \in Frame(D, p)
<1>1. own[b] \in OwnEntry(D, b) BY DEF OwnSound
<1>2. /\ Announced(b).RootID = own[b].RootID /\ Announced(b).Cost = own[b].Cost
      /\ Announced(b).Bridge = b
  BY <1>1 DEF Announced, OwnEntry
<1>3. /\ own[b].RootID \in Bridge /\ own[b].Cost \in Nat
      /\ own[b].Cost >= Hops[D][own[b].RootID][b]
  BY <1>1 DEF OwnEntry
<1>4. At[p] = b BY DEF Ports
<1>5. QED BY <1>2, <1>3, <1>4 DEF Frame, Announcement, BPDU

\* What a record becomes, from an announcement on the link into its port.
LEMMA RecordedSound ==
  ASSUME NEW D, NEW p \in Port \ D, Peer[p] # None, NEW r \in Record(D, p),
         NEW m \in Announcement(D, Peer[p])
  PROVE  Recorded(r, m) \in Record(D, p)
BY DEF Recorded, Heard, Record, Announcement

\* One hop more, at most, over a link that has worked.
LEMMA HopSound ==
  ASSUME NEW D \in EndsOfLinks, NEW r \in Bridge, NEW p \in Port \ D, Peer[p] # None
  PROVE  /\ Hops[D][r][At[p]] \in Nat /\ Hops[D][r][At[Peer[p]]] \in Nat
         /\ Hops[D][r][At[p]] <= Hops[D][r][At[Peer[p]]] + 1
<1>1. Peer[p] \in Port BY SpanningTreeConstants
<1>2. At[p] \in Bridge /\ At[Peer[p]] \in Bridge BY <1>1, SpanningTreeConstants
<1>3. Hops[D][r] \in [Bridge -> Nat] BY HopsAssumption
<1>4. QED BY <1>2, <1>3, HopsAssumption

\* Following the root port adds the hop over its link.
LEMMA FollowedSound ==
  ASSUME NEW D \in EndsOfLinks, NEW p \in Port \ D, Peer[p] # None, NEW r,
         NEW m \in Announcement(D, Peer[p]),
         NEW o \in OwnEntry(D, At[p])
  PROVE  Followed(o, p, r, m) \in OwnEntry(D, At[p])
<1>1. /\ m.RootID \in Bridge /\ m.Cost \in Nat
      /\ m.Cost >= Hops[D][m.RootID][At[Peer[p]]]
  BY DEF Announcement
<1>2. /\ Hops[D][m.RootID][At[p]] \in Nat /\ Hops[D][m.RootID][At[Peer[p]]] \in Nat
      /\ Hops[D][m.RootID][At[p]] <= Hops[D][m.RootID][At[Peer[p]]] + 1
  BY <1>1, HopSound
<1>3. m.Cost + 1 >= Hops[D][m.RootID][At[p]] BY <1>1, <1>2
<1>4. [o EXCEPT !.RootID = m.RootID, !.Cost = m.Cost + 1] \in OwnEntry(D, At[p])
  <2> DEFINE n == [o EXCEPT !.RootID = m.RootID, !.Cost = m.Cost + 1]
  <2>0. o \in [RootID : Bridge, Cost : Nat, Bridge : Bridge, RootPort : Port \cup {None}]
        /\ m.Cost + 1 \in Nat
    BY <1>1 DEF OwnEntry
  <2>1. /\ n \in [RootID : Bridge, Cost : Nat, Bridge : Bridge, RootPort : Port \cup {None}]
        /\ n.Cost = m.Cost + 1 /\ n.RootID = m.RootID
    BY <1>1, <2>0
  <2> HIDE DEF n
  <2>2. n \in OwnEntry(D, At[p]) BY <2>1, <1>3 DEF OwnEntry
  <2>3. QED BY <2>2 DEF n
<1>5. QED BY <1>4 DEF Followed

\* So does electing a port.
LEMMA ElectedSound ==
  ASSUME NEW D \in EndsOfLinks, NEW p \in Port, NEW r \in Record(D, p),
         NEW o \in OwnEntry(D, At[p])
  PROVE  Elected(o, p, r) \in OwnEntry(D, At[p])
<1>1. CASE r = NoData BY <1>1 DEF Elected, NoData
<1>2. CASE r # NoData
  <2>1. /\ p \notin D /\ Peer[p] # None /\ r.RootID \in Bridge /\ r.Cost \in Nat /\ r.Bridge \in Bridge
        /\ r.Cost >= Hops[D][r.RootID][At[Peer[p]]]
    BY <1>2 DEF Record
  <2>2. /\ Hops[D][r.RootID][At[p]] \in Nat /\ Hops[D][r.RootID][At[Peer[p]]] \in Nat
        /\ Hops[D][r.RootID][At[p]] <= Hops[D][r.RootID][At[Peer[p]]] + 1
    BY <2>1, HopSound
  <2>3. r.Cost + 1 >= Hops[D][r.RootID][At[p]] BY <2>1, <2>2
  <2>4. [RootID |-> r.RootID, Cost |-> r.Cost + 1, Bridge |-> r.Bridge, RootPort |-> p]
          \in OwnEntry(D, At[p])
    BY <2>1, <2>3 DEF OwnEntry
  <2>5. QED BY <2>4 DEF Elected
<1>3. QED BY <1>1, <1>2

\* A switch that takes itself for the root is at no distance from it.
LEMMA SelfSound ==
  ASSUME NEW D \in EndsOfLinks, NEW b \in Bridge
  PROVE  Self(b) \in OwnEntry(D, b)
BY HopsAssumption DEF Self, OwnEntry

-----------------------------------------------------------------------------
(* The steps.                                                              *)

\* Init gives every switch itself, no records and empty links.
LEMMA InitSound == Init => IInv
<1> SUFFICES ASSUME Init PROVE IInv OBVIOUS
<1>1. PICK D : D \in EndsOfLinks /\ D = down /\ D = failures.never
  <2>1. PICK c \in Cases : down = c.down /\ failures = [left |-> c.changes, count |-> 0,
                                                        never |-> c.down]
    BY DEF Init
  <2>2. c.down \in EndsOfLinks BY SpanningTreeConstants DEF EndsOfLinks
  <2>3. QED BY <2>1, <2>2
<1>2. OwnSound(D, own) BY <1>1, SelfSound DEF Init, OwnSound, Function
<1>3. RecSound(D, rec) BY DEF Init, RecSound, Function, Record
<1>4. ChanSound(D, chan)
  <2>1. \A q \in Port : <<>> \in Seq(Frame(D, q)) OBVIOUS
  <2>2. QED BY <2>1 DEF Init, ChanSound, Function
<1>5. Flags
  <2>1. 0 \in 0 .. MaxAge BY SpanningTreeConstants
  <2>2. down \subseteq Port BY <1>1 DEF EndsOfLinks
  <2>3. QED BY <2>1, <2>2 DEF Init, Flags
<1>6. QED BY <1>1, <1>2, <1>3, <1>4, <1>5 DEF IInv, Sound

\* SendSpanTreePacket sends only what the switch holds.
LEMMA HelloSound ==
  ASSUME NEW D, Sound(D), NEW b \in Bridge, Hello(b)
  PROVE  Sound(D)'
<1> DEFINE changed == b \in tcn
           speak   == {p \in Ports(b) : Speaks(b, p)}
           close   == {p \in Ports(b) : Closes(b, p)}
           m       == BPDU(Announced(b), changed, b \in flush)
           first   == IF changed /\ own[b].RootPort # None
                        THEN Sent(chan, own[b].RootPort, TCN) ELSE chan
           c       == [p \in Port |-> IF p \in speak THEN Sent(first, p, m)[p] ELSE first[p]]
<1>1. D \in EndsOfLinks /\ OwnSound(D, own) /\ RecSound(D, rec) /\ ChanSound(D, chan) /\ Flags
  BY DEF Sound
<1>2. own[b].RootPort \in Port \cup {None} BY <1>1 DEF OwnSound, OwnEntry
<1>3. ChanSound(D, first) BY <1>1, <1>2, SentSound, NotificationSound
<1>4. \A p \in Ports(b) : m \in Frame(D, p)
  <2>1. changed \in BOOLEAN /\ (b \in flush) \in BOOLEAN OBVIOUS
  <2> HIDE DEF changed
  <2>2. QED BY <1>1, <2>1, AnnouncedSound
<1>5. ChanSound(D, c)
  <2> HIDE DEF first, m
  <2>1. \A p \in speak : p \in Port /\ ChanSound(D, Sent(first, p, m))
    BY <1>3, <1>4, SentSound DEF Ports
  <2> HIDE DEF speak
  <2>2. \A q \in Port : c[q] \in Seq(Frame(D, q)) BY <1>3, <2>1 DEF ChanSound
  <2>3. Function(c, Port) BY DEF Function
  <2>4. QED BY <2>2, <2>3 DEF ChanSound
<1>6. \/ SpanTreeChange(b, c)
      \/ /\ chan' = c /\ stable' = stable \ {b} /\ stableAge' = [stableAge EXCEPT ![b] = 0]
      \/ NoChange(b, c)
  BY DEF Hello
<1>7. ChanSound(D, chan') /\ stable' \subseteq Bridge /\ stableAge' \in [Bridge -> 0 .. MaxAge]
  <2> HIDE DEF c
  <2>1. 0 \in 0 .. MaxAge BY SpanningTreeConstants
  <2>2. CASE SpanTreeChange(b, c) BY <1>1, <1>5, <2>2, ChangeSound
  <2>3. CASE /\ chan' = c /\ stable' = stable \ {b}
             /\ stableAge' = [stableAge EXCEPT ![b] = 0]
    BY <1>1, <1>5, <2>1, <2>3 DEF Flags
  <2>4. CASE NoChange(b, c) BY <1>1, <1>5, <2>4 DEF NoChange, Flags
  <2>5. QED BY <1>6, <2>2, <2>3, <2>4
<1>8. /\ open' \subseteq Port /\ opening' \subseteq Port /\ tcn' \subseteq Bridge
      /\ flush' \subseteq Bridge /\ todo' \subseteq Bridge
  BY <1>1 DEF Hello, Flags, Ports
<1>9. UNCHANGED <<own, rec, age, down>> BY DEF Hello, tree
<1>10. Flags' BY <1>1, <1>7, <1>8, <1>9 DEF Flags
<1>11. QED BY <1>1, <1>7, <1>9, <1>10 DEF Sound, OwnSound, RecSound, ChanSound

\* A frame that is taken off a link was sound, and the rest is.
LEMMA ReachesSound ==
  ASSUME NEW D, Sound(D), NEW p \in Port, NEW m, Reaches(At[p], p, m)
  PROVE  Peer[p] # None /\ m \in Frame(D, Peer[p]) /\ ChanSound(D, chan')
<1>1. Peer[p] \in Port /\ Peer[p] # None BY SpanningTreeConstants DEF Reaches
<1> DEFINE q == Peer[p]
<1>2. chan[q] \in Seq(Frame(D, q)) /\ chan[q] # <<>> BY <1>1 DEF Sound, ChanSound, Reaches
<1>3. Head(chan[q]) \in Frame(D, q) /\ Tail(chan[q]) \in Seq(Frame(D, q))
  <2>1. ASSUME NEW X, NEW t \in Seq(X), t # <<>> PROVE Head(t) \in X /\ Tail(t) \in Seq(X)
    BY <2>1
  <2>2. QED BY <1>2, <2>1
<1>4. chan' = [x \in Port |-> IF x = q THEN Tail(chan[q]) ELSE chan[x]]
  BY <1>1 DEF Reaches, Sound, ChanSound, Function
<1>5. \A x \in Port : chan'[x] \in Seq(Frame(D, x)) BY <1>3, <1>4 DEF Sound, ChanSound
<1>6. Function(chan', Port) BY <1>4 DEF Function
<1>7. QED BY <1>1, <1>3, <1>5, <1>6 DEF Reaches, ChanSound

\* Only a link that has worked delivers.
LEMMA ArrivesSound ==
  ASSUME NEW D, Sound(D), NEW p \in Port, NEW m, Arrives(At[p], p, m)
  PROVE  p \notin D /\ Peer[p] # None /\ m \in Frame(D, Peer[p]) /\ ChanSound(D, chan')
<1>1. p \notin D BY DEF Arrives, Sound
<1>2. QED BY <1>1, ReachesSound DEF Arrives

\* The others only empty the link.
LEMMA FreedSound ==
  ASSUME NEW D, Sound(D), NEW p \in Port, NEW m, Freed(At[p], p, m)
  PROVE  Sound(D)'
<1>1. ChanSound(D, chan') BY ReachesSound DEF Freed
<1>2. Flags' BY DEF Sound, Flags, Freed, tree, flags, clock
<1>3. QED BY <1>1, <1>2 DEF Sound, OwnSound, RecSound, ChanSound, Freed, tree

\* GetSpanTreeChange leaves tables alone.
LEMMA NotifiedSound ==
  ASSUME NEW D, Sound(D), NEW p \in Port, NEW m, GetSpanTreeChange(At[p], p, m)
  PROVE  Sound(D)'
<1>1. ChanSound(D, chan') BY ArrivesSound DEF GetSpanTreeChange
<1>2. At[p] \in Bridge BY SpanningTreeConstants
<1>3. Flags' BY <1>2 DEF Sound, Flags, GetSpanTreeChange, clock, tree
<1>4. QED BY <1>1, <1>3 DEF Sound, OwnSound, RecSound, ChanSound, GetSpanTreeChange, tree

\* GetSpanTreePacket: record, follow, elect.
LEMMA HeardSound ==
  ASSUME NEW D, Sound(D), NEW p \in Port, NEW m, GetSpanTreePacket(At[p], p, m)
  PROVE  Sound(D)'
<1> DEFINE b == At[p]
<1>1. p \notin D /\ Peer[p] # None /\ m \in Frame(D, Peer[p]) /\ ChanSound(D, chan')
  BY ArrivesSound DEF GetSpanTreePacket
<1>2. m \in Announcement(D, Peer[p]) BY <1>1 DEF Frame, TCN, GetSpanTreePacket
<1>3. b \in Bridge BY SpanningTreeConstants
<1>4. D \in EndsOfLinks /\ D \subseteq down /\ OwnSound(D, own) /\ RecSound(D, rec) /\ Flags
  BY DEF Sound
<1>5. rec' = [x \in Port |-> IF x = p THEN Recorded(rec[p], m) ELSE rec[x]]
  BY <1>4 DEF GetSpanTreePacket, RecSound, Function
<1>6. RecSound(D, rec')
  <2>1. Recorded(rec[p], m) \in Record(D, p) BY <1>1, <1>2, <1>4, RecordedSound DEF RecSound
  <2>2. \A x \in Port : rec'[x] \in Record(D, x) BY <1>4, <1>5, <2>1 DEF RecSound
  <2>3. Function(rec', Port) BY <1>5 DEF Function
  <2>4. QED BY <2>2, <2>3 DEF RecSound
<1>7. OwnSound(D, own')
  <2> DEFINE o == Followed(own[b], p, rec[p], m)
  <2>1. own[b] \in OwnEntry(D, b) BY <1>3, <1>4 DEF OwnSound
  <2>2. o \in OwnEntry(D, b) BY <1>1, <1>2, <1>4, <2>1, FollowedSound
  <2>3. rec'[p] \in Record(D, p) BY <1>6 DEF RecSound
  <2> HIDE DEF o
  <2>4. Elected(o, p, rec'[p]) \in OwnEntry(D, b) BY <2>2, <2>3, <1>4, ElectedSound
  <2>5. own' = [x \in Bridge |-> IF x = b THEN Elected(o, p, rec'[p]) ELSE own[x]]
    BY <1>3, <1>4 DEF GetSpanTreePacket, OwnSound, Function, o
  <2>6. \A x \in Bridge : own'[x] \in OwnEntry(D, x) BY <1>4, <2>4, <2>5 DEF OwnSound
  <2>7. Function(own', Bridge) BY <2>5 DEF Function
  <2>8. QED BY <2>6, <2>7 DEF OwnSound
<1>8. Flags'
  <2>1. 0 \in 0 .. MaxAge BY SpanningTreeConstants
  <2>2. QED BY <1>3, <1>4, <2>1 DEF Flags, GetSpanTreePacket, AgeAfter, clock
<1>9. down' = down BY DEF GetSpanTreePacket
<1>10. QED BY <1>1, <1>4, <1>6, <1>7, <1>8, <1>9 DEF Sound

\* OpenSpanTreePort may send a notification.
LEMMA OpenSound ==
  ASSUME NEW D, Sound(D), NEW p \in Port, OpenSpanTreePort(At[p], p)
  PROVE  Sound(D)'
<1> DEFINE b == At[p]
<1>1. b \in Bridge BY SpanningTreeConstants
<1>2. OwnSound(D, own) /\ ChanSound(D, chan) /\ Flags BY DEF Sound
<1>3. ChanSound(D, chan') /\ stable' \subseteq Bridge /\ stableAge' \in [Bridge -> 0 .. MaxAge]
  <2>1. SpanTreeChange(b, chan) \/ NoChange(b, chan) BY DEF OpenSpanTreePort
  <2>2. CASE SpanTreeChange(b, chan) BY <1>1, <1>2, <2>2, ChangeSound
  <2>3. CASE NoChange(b, chan) BY <1>2, <2>3 DEF NoChange, Flags
  <2>4. QED BY <2>1, <2>2, <2>3
<1>4. /\ open' \subseteq Port /\ opening' \subseteq Port /\ tcn' \subseteq Bridge
  BY <1>1, <1>2 DEF OpenSpanTreePort, Flags
<1>5. UNCHANGED <<own, rec, age, flush, down, todo>> BY DEF OpenSpanTreePort, tree, clock
<1>6. Flags' BY <1>2, <1>3, <1>4, <1>5 DEF Flags
<1>7. QED BY <1>3, <1>5, <1>6 DEF Sound, OwnSound, RecSound, ChanSound

\* CheckTimeOut forgets records, and a switch may fall back to itself.
LEMMA TimeOutSound ==
  ASSUME NEW D, Sound(D), NEW b \in Bridge, CheckTimeOut(b)
  PROVE  Sound(D)'
<1> DEFINE dead   == {p \in Ports(b) : age[p] = MaxAge - 1}
           opened == dead \ open
           older  == IF stableAge[b] < MaxAge THEN stableAge[b] + 1 ELSE MaxAge
<1>1. D \in EndsOfLinks /\ OwnSound(D, own) /\ RecSound(D, rec) /\ ChanSound(D, chan) /\ Flags
  BY DEF Sound
<1>2. OwnSound(D, own')
  <2>1. own' = IF own[b].RootPort \in dead THEN [own EXCEPT ![b] = Self(b)] ELSE own
    BY DEF CheckTimeOut
  <2>2. CASE own' = own BY <1>1, <2>2
  <2>3. CASE own' = [own EXCEPT ![b] = Self(b)]
    <3>1. own' = [x \in Bridge |-> IF x = b THEN Self(b) ELSE own[x]]
      BY <1>1, <2>3 DEF OwnSound, Function
    <3>2. \A x \in Bridge : own'[x] \in OwnEntry(D, x) BY <1>1, <3>1, SelfSound DEF OwnSound
    <3>3. Function(own', Bridge) BY <3>1 DEF Function
    <3>4. QED BY <3>2, <3>3 DEF OwnSound
  <2>4. QED BY <2>1, <2>2, <2>3
<1>3. RecSound(D, rec')
  <2>1. rec' = [p \in Port |-> IF p \in dead THEN NoData ELSE rec[p]] BY DEF CheckTimeOut
  <2> HIDE DEF dead
  <2>2. \A p \in Port : rec'[p] \in Record(D, p) BY <1>1, <2>1 DEF RecSound, Record
  <2>3. Function(rec', Port) BY <2>1 DEF Function
  <2>4. QED BY <2>2, <2>3 DEF RecSound
<1>4. older \in 0 .. MaxAge
  <2>1. stableAge[b] \in 0 .. MaxAge /\ MaxAge \in Nat
    BY <1>1, SpanningTreeConstants DEF Flags
  <2>2. QED BY <2>1
<1>5. ChanSound(D, chan') /\ stable' \subseteq Bridge /\ stableAge' \in [Bridge -> 0 .. MaxAge]
  <2>1. CASE opened # {}
    <3>1. SpanTreeChange(b, chan) BY <2>1 DEF CheckTimeOut
    <3>2. QED BY <1>1, <3>1, ChangeSound
  <2>2. CASE opened = {}
    <3>1. /\ chan' = chan /\ stableAge' = [stableAge EXCEPT ![b] = older]
          /\ stable' \in {stable \cup {b}, stable}
      BY <2>2 DEF CheckTimeOut
    <3> HIDE DEF older
    <3>2. QED BY <1>1, <1>4, <3>1 DEF Flags
  <2>3. QED BY <2>1, <2>2
<1>6. age' \in [Port -> 0 .. MaxAge]
  <2>1. age' = [p \in Port |-> IF p \in Ports(b) /\ age[p] < MaxAge
                                 THEN age[p] + 1 ELSE age[p]]
    BY DEF CheckTimeOut
  <2>2. MaxAge \in Nat /\ \A p \in Port : age[p] \in 0 .. MaxAge
    BY <1>1, SpanningTreeConstants DEF Flags
  <2>3. QED BY <2>1, <2>2
<1>7. /\ open' \subseteq Port /\ tcn' \subseteq Bridge /\ todo' \subseteq Bridge
      /\ UNCHANGED <<flush, opening, down>>
  <2>1. open' = open \cup opened /\ todo' = todo \ {b} /\ UNCHANGED <<flush, opening, down>>
    BY DEF CheckTimeOut
  <2>2. tcn' \in {tcn \cup {b}, tcn} BY DEF CheckTimeOut
  <2>3. QED BY <1>1, <2>1, <2>2 DEF Flags, Ports
<1>8. Flags' BY <1>1, <1>5, <1>6, <1>7 DEF Flags
<1>9. D \in EndsOfLinks /\ D \subseteq down BY DEF Sound
<1>10. QED BY <1>2, <1>3, <1>5, <1>7, <1>8, <1>9 DEF Sound

\* The end of a switch's turn and of a part of the round.
LEMMA TurnSound ==
  ASSUME NEW D, Sound(D), (\E b \in Bridge : Done(b)) \/ NextPhase
  PROVE  Sound(D)'
BY DEF Sound, OwnSound, RecSound, ChanSound, Flags, Done, NextPhase, tree, flags

\* A link that works for the first time: what was sound stays so.
LEMMA FirstTime ==
  ASSUME NEW D \in EndsOfLinks, NEW p \in Port, Peer[p] # None
  PROVE  /\ D \ {p, Peer[p]} \in EndsOfLinks
         /\ \A r, b \in Bridge : /\ Hops[D \ {p, Peer[p]}][r][b] \in Nat /\ Hops[D][r][b] \in Nat
                                 /\ Hops[D \ {p, Peer[p]}][r][b] <= Hops[D][r][b]
<1> DEFINE E == D \ {p, Peer[p]}
<1>1. Peer[Peer[p]] = p BY SpanningTreeConstants
<1>2. \A x \in D : x \in Port /\ Peer[x] \in D /\ Peer[Peer[x]] = x
  BY SpanningTreeConstants DEF EndsOfLinks
<1>3. E \in EndsOfLinks BY <1>1, <1>2 DEF EndsOfLinks
<1>4. \A F \in EndsOfLinks : \A r, b \in Bridge : Hops[F][r][b] \in Nat
  <2>1. \A F \in EndsOfLinks : Hops[F] \in [Bridge -> [Bridge -> Nat]] BY HopsAssumption
  <2>2. QED BY <2>1
<1>5. \A r, b \in Bridge : Hops[E][r][b] <= Hops[D][r][b]
  <2>1. CASE p \in D BY <2>1, HopsAssumption
  <2>2. CASE p \notin D
    <3>1. E = D BY <1>1, <1>2, <2>2
    <3>2. \A r, b \in Bridge : Hops[D][r][b] <= Hops[D][r][b] BY <1>4
    <3>3. QED BY <3>1, <3>2
  <2>3. QED BY <2>1, <2>2
<1>6. QED BY <1>3, <1>4, <1>5

\* A link that fails or comes back.
LEMMA LinkSound ==
  ASSUME IInv, NEW p \in Port, LinkChanges(p)
  PROVE  IInv'
<1>0. PICK D, E : D = failures.never /\ E = D \ {p, Peer[p]} OBVIOUS
<1>1. Peer[p] # None /\ Peer[p] \in Port BY SpanningTreeConstants DEF LinkChanges
<1>2. D \in EndsOfLinks /\ D \subseteq down /\ OwnSound(D, own) /\ RecSound(D, rec)
      /\ ChanSound(D, chan) /\ Flags
  BY <1>0 DEF IInv, Sound
<1>3. failures'.never = E BY <1>0 DEF LinkChanges
<1>4. UNCHANGED <<tree, open, flags, opening, chan, clock>> BY DEF LinkChanges
<1>5. down' = IF p \in down THEN down \ {p, Peer[p]} ELSE down \cup {p, Peer[p]}
  BY DEF LinkChanges
<1>6. /\ E \in EndsOfLinks
      /\ \A r, b \in Bridge : /\ Hops[E][r][b] \in Nat /\ Hops[D][r][b] \in Nat
                              /\ Hops[E][r][b] <= Hops[D][r][b]
  BY <1>0, <1>1, <1>2, FirstTime
<1>7. E \subseteq down' /\ down' \subseteq Port BY <1>0, <1>1, <1>2, <1>5 DEF Flags
<1>8. \A q \in Port : At[q] \in Bridge BY SpanningTreeConstants
<1>9. \A q \in Port : Peer[q] # None => Peer[q] \in Port BY SpanningTreeConstants
<1>10. OwnSound(E, own)
  <2>1. \A b \in Bridge : own[b] \in OwnEntry(E, b)
    <3> SUFFICES ASSUME NEW b \in Bridge PROVE own[b] \in OwnEntry(E, b) OBVIOUS
    <3>1. own[b] \in OwnEntry(D, b) BY <1>2 DEF OwnSound
    <3>2. own[b].RootID \in Bridge /\ own[b].Cost \in Nat BY <3>1 DEF OwnEntry
    <3>3. own[b].Cost >= Hops[E][own[b].RootID][b] BY <1>6, <3>1, <3>2 DEF OwnEntry
    <3>4. QED BY <3>1, <3>3 DEF OwnEntry
  <2>2. QED BY <1>2, <2>1 DEF OwnSound
<1>11. RecSound(E, rec)
  <2>1. \A q \in Port : rec[q] \in Record(E, q)
    <3> SUFFICES ASSUME NEW q \in Port, rec[q] # NoData PROVE rec[q] \in Record(E, q)
      BY DEF Record
    <3>1. rec[q] \in Record(D, q) BY <1>2 DEF RecSound
    <3>2. /\ q \notin D /\ Peer[q] # None /\ rec[q].Cost >= Hops[D][rec[q].RootID][At[Peer[q]]]
          /\ rec[q] \in [RootID : Bridge, Cost : Nat, Bridge : Bridge]
      BY <3>1 DEF Record
    <3>3. rec[q].RootID \in Bridge /\ rec[q].Cost \in Nat /\ At[Peer[q]] \in Bridge
      BY <1>8, <1>9, <3>2
    <3>4. rec[q].Cost >= Hops[E][rec[q].RootID][At[Peer[q]]] BY <1>6, <3>2, <3>3
    <3>5. q \notin E BY <1>0, <3>2
    <3>6. QED BY <3>2, <3>4, <3>5 DEF Record
  <2>2. QED BY <1>2, <2>1 DEF RecSound
<1>12. ChanSound(E, chan)
  <2>1. \A q \in Port : Frame(D, q) \subseteq Frame(E, q)
    <3> SUFFICES ASSUME NEW q \in Port, NEW m \in Announcement(D, q)
                 PROVE  m \in Announcement(E, q)
      BY DEF Frame
    <3>1. /\ m \in [type : {"bpdu"}, RootID : Bridge, Cost : Nat, Bridge : Bridge,
                    tca : BOOLEAN, flush : BOOLEAN]
          /\ m.Cost >= Hops[D][m.RootID][At[q]]
      BY DEF Announcement
    <3>2. m.RootID \in Bridge /\ m.Cost \in Nat /\ At[q] \in Bridge BY <1>8, <3>1
    <3>3. m.Cost >= Hops[E][m.RootID][At[q]] BY <1>6, <3>1, <3>2
    <3>4. QED BY <3>1, <3>3 DEF Announcement
  <2>2. \A q \in Port : chan[q] \in Seq(Frame(E, q))
    <3>1. ASSUME NEW S, NEW T, S \subseteq T, NEW t \in Seq(S) PROVE t \in Seq(T) BY <3>1
    <3>2. \A q \in Port : chan[q] \in Seq(Frame(D, q)) BY <1>2 DEF ChanSound
    <3>3. QED BY <2>1, <3>1, <3>2
  <2>3. QED BY <1>2, <2>2 DEF ChanSound
<1>13. Flags' BY <1>2, <1>4, <1>7 DEF Flags, tree, flags, clock
<1>14. Sound(E)'
  BY <1>4, <1>6, <1>7, <1>10, <1>11, <1>12, <1>13 DEF Sound, OwnSound, RecSound, ChanSound, tree
<1>15. QED BY <1>3, <1>14 DEF IInv

\* Every step keeps the invariant.
LEMMA NextSound == IInv /\ [Next]_vars => IInv'
<1> SUFFICES ASSUME IInv, [Next]_vars PROVE IInv' OBVIOUS
<1>1. PICK D : D = failures.never OBVIOUS
<1>2. Sound(D) BY <1>1 DEF IInv
<1>3. ASSUME UNCHANGED failures, Sound(D)' PROVE IInv' BY <1>1, <1>3 DEF IInv
<1>4. ASSUME NEW b \in Bridge, Hello(b) PROVE IInv'
  BY <1>2, <1>3, <1>4, HelloSound DEF Hello
<1>5. ASSUME NEW b \in Bridge, CheckTimeOut(b) PROVE IInv'
  BY <1>2, <1>3, <1>5, TimeOutSound DEF CheckTimeOut
<1>6. ASSUME NEW b \in Bridge, Done(b) PROVE IInv' BY <1>2, <1>3, <1>6, TurnSound DEF Done
<1>7. ASSUME NEW p \in Port, OpenSpanTreePort(At[p], p) PROVE IInv'
  BY <1>2, <1>3, <1>7, OpenSound DEF OpenSpanTreePort
<1>8. ASSUME NextPhase PROVE IInv' BY <1>2, <1>3, <1>8, TurnSound DEF NextPhase
<1>9. ASSUME NEW p \in Port, NEW m, GetSpanTreeChange(At[p], p, m) PROVE IInv'
  BY <1>2, <1>3, <1>9, NotifiedSound DEF GetSpanTreeChange
<1>10. ASSUME NEW p \in Port, NEW m, GetSpanTreePacket(At[p], p, m) PROVE IInv'
  BY <1>2, <1>3, <1>10, HeardSound DEF GetSpanTreePacket
<1>11. ASSUME NEW p \in Port, NEW m, Freed(At[p], p, m) PROVE IInv'
  BY <1>2, <1>3, <1>11, FreedSound DEF Freed
<1>12. ASSUME NEW p \in Port, LinkChanges(p) PROVE IInv' BY <1>12, LinkSound
<1>13. CASE UNCHANGED vars
  BY <1>13 DEF IInv, Sound, OwnSound, RecSound, ChanSound, Flags, vars, tree, flags, clock
<1>14. QED
  BY <1>4, <1>5, <1>6, <1>7, <1>8, <1>9, <1>10, <1>11, <1>12, <1>13 DEF Next, Timers, Frames

\* What a switch holds, hears and sends is sound at any time.
THEOREM Invariance == Spec => []IInv
BY InitSound, NextSound, PTL DEF Spec

(* The entries, records and flags of every switch have their types.        *)
THEOREM Typed == Spec => []TypeOK
<1>1. IInv => TypeOK
  <2> SUFFICES ASSUME IInv PROVE TypeOK OBVIOUS
  <2>1. own \in [Bridge -> [RootID : Bridge, Cost : Nat, Bridge : Bridge,
                             RootPort : Port \cup {None}]]
    <3>1. \A b \in Bridge : own[b] \in [RootID : Bridge, Cost : Nat, Bridge : Bridge,
                                          RootPort : Port \cup {None}]
      BY DEF IInv, Sound, OwnSound, OwnEntry
    <3>2. own = [b \in Bridge |-> own[b]] BY DEF IInv, Sound, OwnSound, Function
    <3>3. QED BY <3>1, <3>2
  <2>2. rec \in [Port -> [RootID : Bridge, Cost : Nat, Bridge : Bridge] \cup {NoData}]
    <3>1. \A p \in Port : rec[p] \in [RootID : Bridge, Cost : Nat, Bridge : Bridge]
                                        \cup {NoData}
      BY DEF IInv, Sound, RecSound, Record
    <3>2. rec = [p \in Port |-> rec[p]] BY DEF IInv, Sound, RecSound, Function
    <3>3. QED BY <3>1, <3>2
  <2>3. QED BY <2>1, <2>2 DEF IInv, Sound, Flags, TypeOK
<1>2. QED BY <1>1, Invariance, PTL

(* Whatever links do and in whatever order announcements arrive, no switch *)
(* believes a path to a root that is shorter than the links that have      *)
(* worked so far allow (GetSpanTreePacket, CheckTimeOut).                  *)
THEOREM NeverBelievesTooMuch == Spec => []NeverTooClose
<1>1. IInv => NeverTooClose BY DEF IInv, Sound, OwnSound, OwnEntry, NeverTooClose
<1>2. QED BY <1>1, Invariance, PTL
=============================================================================
