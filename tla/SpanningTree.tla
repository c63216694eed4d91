---------------------------- MODULE SpanningTree ----------------------------
(***************************************************************************)
(* The spanning tree protocol of the switches (module/sw/sw.cc) on a       *)
(* network of point-to-point links, some of which may fail and come back   *)
(* (phy.cc).  All switches start at the same virtual time with the same    *)
(* HelloTime, so their timers fire together; a round is one HelloTime:     *)
(*   hello    SendSpanTreePacket of every switch                           *)
(*   bpdu     what was sent arrives                                        *)
(*   open     ForwardDelay later: the OpenSpanTreePort events              *)
(*   tcn      the topology changes those announced arrive                  *)
(*   timeout  CheckTimeOut of every switch, which may announce changes     *)
(*   late     some of these arrive before the next hello, others after     *)
(* Handlers of different switches at one instant touch different state, so *)
(* the switches take their turns in one order; what arrives at a switch    *)
(* from different links comes in any order.                                *)
(***************************************************************************)
EXTENDS Integers, FiniteSets, Sequences, FiniteSetsExt

CONSTANTS Bridge,      \* node ids of the switches
          Port,        \* the ports of all switches
          At,          \* the switch of a port
          Peer,        \* the port at the other end of its link, or None
          None,        \* RootPort = 0; no switch behind a port
          Hops,        \* Hops[D][r][b]: least number of links between two switches
                       \* when the links at the ports D do not work
          MaxAge,      \* MaxAge, in rounds
          Cases,       \* bound: ports whose links fail from the start, and how many
                       \* links fail or come back later
          MaxCost      \* bound: highest cost a switch announces

ASSUME SpanningTreeConstants ==
  /\ Bridge \subseteq Nat \ {0} /\ IsFiniteSet(Bridge)
  /\ At \in [Port -> Bridge] /\ Peer \in [Port -> Port \cup {None}] /\ None \notin Port
  /\ \A p \in Port : Peer[p] # None => Peer[Peer[p]] = p /\ At[Peer[p]] # At[p]
  /\ Cases \subseteq [down : SUBSET Port, changes : Nat]
  /\ \A c \in Cases : \A p \in c.down : Peer[p] \in c.down
  /\ MaxAge \in Nat \ {0} /\ MaxCost \in Nat

\* The ports of some of the links.
EndsOfLinks == {D \in SUBSET Port : \A p \in D : Peer[p] \in D}

\* What is used of the distances: over a working link at most one hop more, and no
\* switch gets farther away when a link works that did not.
ASSUME HopsAssumption ==
  /\ Hops \in [EndsOfLinks -> [Bridge -> [Bridge -> Nat]]]
  /\ \A D \in EndsOfLinks, r \in Bridge :
       /\ Hops[D][r][r] = 0
       /\ \A p \in Port \ D : Peer[p] # None =>
            Hops[D][r][At[p]] <= Hops[D][r][At[Peer[p]]] + 1
       /\ \A p \in D, b \in Bridge : Hops[D \ {p, Peer[p]}][r][b] <= Hops[D][r][b]

VARIABLES
  own,        \* SpanTreeTbl0 of a switch
  rec,        \* RootID, Cost, Bridge of a port: the best its neighbour announced
  age,        \* Age of a port
  open,       \* ports with PortState 1
  tcn, flush, \* switches whose TCNFlag, FlushSwTblFlag is '1'
  stable,     \* switches whose STABLE is '1'
  stableAge,  \* STABLEage
  opening,    \* ports with an OpenSpanTreePort event pending
  chan,       \* frames sent by a port and not yet received
  down,       \* ports whose link fails
  phase, todo, \* part of the round, and the switches still to act in it
  failures    \* how often links fail or come back: still, and so far; and the
              \* ports whose links have never worked

tree == <<own, rec, age>>
flags == <<tcn, flush, stable, stableAge>>
clock == <<phase, todo>>
vars == <<tree, open, flags, opening, chan, down, clock, failures>>

NoData == [RootID |-> 0, Cost |-> 0, Bridge |-> 0]
Self(b) == [RootID |-> b, Cost |-> 0, Bridge |-> b, RootPort |-> None]

TCN == [type |-> "tcn"]
BPDU(t, ack, fl) ==
  [type |-> "bpdu", RootID |-> t.RootID, Cost |-> t.Cost, Bridge |-> t.Bridge,
   tca |-> ack, flush |-> fl]

Ports(b) == {p \in Port : At[p] = b}

Init ==
  /\ own = [b \in Bridge |-> Self(b)]
  /\ rec = [p \in Port |-> NoData] /\ age = [p \in Port |-> 0]
  /\ open = {} /\ opening = {}
  /\ tcn = {} /\ flush = {} /\ stable = {} /\ stableAge = [b \in Bridge |-> 0]
  /\ chan = [p \in Port |-> <<>>]
  /\ \E c \in Cases : /\ down = c.down
                        /\ failures = [left |-> c.changes, count |-> 0, never |-> c.down]
  /\ phase = "hello" /\ todo = Bridge

-----------------------------------------------------------------------------
(* a is the better of two announcements. *)
Better(a, b) ==
  \/ a.RootID < b.RootID
  \/ a.RootID = b.RootID /\ a.Cost < b.Cost
  \/ a.RootID = b.RootID /\ a.Cost = b.Cost /\ a.Bridge < b.Bridge

(* send of phy: a failing link and a port without neighbour swallow the frame. *)
Sent(c, p, m) == IF Peer[p] = None \/ p \in down THEN c
                 ELSE [c EXCEPT ![p] = Append(@, m)]

(* SpanTreeChange of switch b: not stable any more, and tell the root      *)
(* port.  Several at one instant send one notification here.               *)
SpanTreeChange(b, c) ==
  /\ stable' = stable \ {b} /\ stableAge' = [stableAge EXCEPT ![b] = 0]
  /\ chan' = IF own[b].RootPort = None THEN c ELSE Sent(c, own[b].RootPort, TCN)

NoChange(b, c) == chan' = c /\ UNCHANGED <<stable, stableAge>>

Turn(b) == todo # {} /\ b = Min(todo)

-----------------------------------------------------------------------------
(* What a switch would announce. *)
Announced(b) == [own[b] EXCEPT !.Bridge = b]

(* The ports that get this switch's announcement: all if it takes itself   *)
(* for the root, else those without data and those where it is the better. *)
Speaks(b, p) ==
  \/ own[b].RootID = b \/ rec[p] = NoData
  \/ p # own[b].RootPort /\ Better(Announced(b), rec[p])

\* mutant: a port once open stays open
Closes_Never(b, p) == FALSE

(* The ports it closes: somebody else is the better there. *)
Closes(b, p) == p \in open /\ p # own[b].RootPort /\ ~Speaks(b, p)

(* SendSpanTreePacket. *)
Hello(b) ==
  /\ phase = "hello" /\ Turn(b)
  /\ own[b].Cost <= MaxCost
  /\ LET changed == b \in tcn
         speak   == {p \in Ports(b) : Speaks(b, p)}
         close   == {p \in Ports(b) : Closes(b, p)}
         m       == BPDU(Announced(b), changed, b \in flush)
         first   == IF changed /\ own[b].RootPort # None
                      THEN Sent(chan, own[b].RootPort, TCN) ELSE chan
         c       == [p \in Port |-> IF p \in speak THEN Sent(first, p, m)[p] ELSE first[p]]
     IN  /\ open' = open \ close
         /\ opening' = opening \cup {p \in Ports(b) \ open :
                                       p \in speak \/ p = own[b].RootPort}
         /\ tcn' = IF own[b].RootPort = None THEN tcn \ {b}
                   ELSE IF close # {} THEN tcn \cup {b} ELSE tcn
         /\ IF close # {} /\ ~changed THEN SpanTreeChange(b, c)
            ELSE IF close # {} \/ (changed /\ own[b].RootPort # None)
            THEN /\ chan' = c
                 /\ stable' = stable \ {b} /\ stableAge' = [stableAge EXCEPT ![b] = 0]
            ELSE NoChange(b, c)
  /\ flush' = flush \ {b}
  /\ todo' = todo \ {b}
  /\ UNCHANGED <<tree, down, phase, failures>>

-----------------------------------------------------------------------------
Receiving == phase \in {"bpdu", "tcn", "late"}

(* The first frame on the link into port p; b is p's switch. *)
Reaches(b, p, m) ==
  /\ Receiving /\ Turn(b) /\ At[p] = b /\ Peer[p] # None
  /\ chan[Peer[p]] # <<>> /\ m = Head(chan[Peer[p]])
  /\ chan' = [chan EXCEPT ![Peer[p]] = Tail(@)]

(* recv of phy: a frame that was sent before the link failed is freed. *)
Freed(b, p, m) ==
  /\ Reaches(b, p, m) /\ p \in down
  /\ UNCHANGED <<tree, open, flags, opening, down, clock, failures>>

Arrives(b, p, m) == Reaches(b, p, m) /\ p \notin down

(* GetSpanTreeChange; the table flush is module Switch's. *)
GetSpanTreeChange(b, p, m) ==
  /\ Arrives(b, p, m) /\ m.type = "tcn"
  /\ tcn' = tcn \cup {b}
  /\ flush' = IF own[b].RootPort = None THEN flush \cup {b} ELSE flush
  /\ UNCHANGED <<tree, open, stable, stableAge, opening, down, clock, failures>>

Heard(m) == [RootID |-> m.RootID, Cost |-> m.Cost, Bridge |-> m.Bridge]

\* mutant: only better announcements replace a record
Recorded_Better(r, m) == IF r.Bridge = 0 \/ Better(Heard(m), r) THEN Heard(m) ELSE r

(* The port's record after an announcement: the first, one of the same     *)
(* switch, or a better one replaces it.                                    *)
Recorded(r, m) ==
  IF r.Bridge = 0 \/ r.Bridge = m.Bridge \/ Better(Heard(m), r) THEN Heard(m) ELSE r

(* The switch's own entry: it follows its root port wherever that goes,    *)
(* and takes a port that is better.                                        *)
Followed(o, p, r, m) ==
  IF r.Bridge # 0 /\ r.Bridge = m.Bridge /\ p = o.RootPort
    THEN [o EXCEPT !.RootID = m.RootID, !.Cost = m.Cost + 1] ELSE o

\* mutant: the cost is the hop to the neighbour, without what the neighbour announced
Elected_OneHop(o, p, r) ==
  IF r.Bridge # 0 /\ Better([r EXCEPT !.Cost = 1], o)
    THEN [RootID |-> r.RootID, Cost |-> 1, Bridge |-> r.Bridge, RootPort |-> p] ELSE o

Elected(o, p, r) ==
  IF r.Bridge # 0 /\ Better([r EXCEPT !.Cost = @ + 1], o)
    THEN [RootID |-> r.RootID, Cost |-> r.Cost + 1, Bridge |-> r.Bridge, RootPort |-> p]
    ELSE o

AgeAfter(p) == [age EXCEPT ![p] = 0]

(* GetSpanTreePacket. *)
GetSpanTreePacket(b, p, m) ==
  /\ Arrives(b, p, m) /\ m.type = "bpdu"
  /\ age' = AgeAfter(p)
  /\ tcn' = IF p = own[b].RootPort /\ m.tca THEN tcn \ {b} ELSE tcn
  /\ flush' = IF p = own[b].RootPort /\ m.flush THEN flush \cup {b} ELSE flush
  /\ rec' = [rec EXCEPT ![p] = Recorded(@, m)]
  /\ own' = [own EXCEPT ![b] = Elected(Followed(@, p, rec[p], m), p, rec'[p])]
  /\ UNCHANGED <<open, stable, stableAge, opening, down, clock, failures>>

-----------------------------------------------------------------------------
(* OpenSpanTreePort's comparison: the cost is compared with a root id, and *)
(* the neighbour with the switch's own parent.                             *)
HighOrderPort(b, p) ==
  LET o == own[b] r == rec[p]
  IN  \/ o.RootID < r.RootID
      \/ o.RootID = r.RootID /\ o.Cost < r.RootID
      \/ o.RootID = r.RootID /\ o.Cost = r.RootID /\ o.Bridge < r.Bridge

(* OpenSpanTreePort. *)
OpenSpanTreePort(b, p) ==
  /\ phase = "open" /\ Turn(b) /\ At[p] = b /\ p \in opening
  /\ opening' = opening \ {p}
  /\ IF p \notin open /\ ( \/ p = own[b].RootPort \/ own[b].RootID = b
                           \/ rec[p] = NoData \/ HighOrderPort(b, p) )
       THEN open' = open \cup {p} /\ tcn' = tcn \cup {b} /\ SpanTreeChange(b, chan)
       ELSE UNCHANGED <<open, tcn>> /\ NoChange(b, chan)
  /\ UNCHANGED <<tree, flush, down, clock, failures>>

(* CheckTimeOut: a port that heard nothing for MaxAge opens and forgets    *)
(* its neighbour; without its root port a switch takes itself for the root.*)
CheckTimeOut(b) ==
  /\ phase = "timeout" /\ Turn(b)
  /\ LET dead   == {p \in Ports(b) : age[p] = MaxAge - 1}
         opened == dead \ open
         older  == IF stableAge[b] < MaxAge THEN stableAge[b] + 1 ELSE MaxAge
     IN  /\ age' = [p \in Port |-> IF p \in Ports(b) /\ age[p] < MaxAge
                                     THEN age[p] + 1 ELSE age[p]]
         /\ rec' = [p \in Port |-> IF p \in dead THEN NoData ELSE rec[p]]
         /\ own' = IF own[b].RootPort \in dead THEN [own EXCEPT ![b] = Self(b)] ELSE own
         /\ open' = open \cup opened
         /\ IF opened # {}
              THEN tcn' = tcn \cup {b} /\ SpanTreeChange(b, chan)
              ELSE /\ UNCHANGED <<tcn, chan>>
                   /\ stableAge' = [stableAge EXCEPT ![b] = older]
                   /\ stable' = IF older = MaxAge THEN stable \cup {b} ELSE stable
  /\ todo' = todo \ {b}
  /\ UNCHANGED <<flush, opening, down, phase, failures>>

-----------------------------------------------------------------------------
(* A switch has nothing left to do in this part of the round; only what    *)
(* CheckTimeOut announced may still be under way when the next one begins. *)
Done(b) ==
  /\ Turn(b)
  /\ phase \in {"bpdu", "tcn"} => \A p \in Ports(b) : Peer[p] # None => chan[Peer[p]] = <<>>
  /\ phase = "open" => opening \cap Ports(b) = {}
  /\ phase \in {"bpdu", "tcn", "open", "late"}
  /\ todo' = todo \ {b}
  /\ UNCHANGED <<tree, open, flags, opening, chan, down, phase, failures>>

After == [hello |-> "bpdu", bpdu |-> "open", open |-> "tcn", tcn |-> "timeout",
          timeout |-> "late", late |-> "hello"]

NextPhase ==
  /\ todo = {}
  /\ phase' = After[phase] /\ todo' = Bridge
  /\ UNCHANGED <<tree, open, flags, opening, chan, down, failures>>

(* TurnOnLinkFailFlag and TurnOffLinkFailFlag of both ends of a link, at   *)
(* any time; what is under way then is judged when it arrives.             *)
LinkChanges(p) ==
  /\ failures.left > 0 /\ Peer[p] # None
  /\ down' = IF p \in down THEN down \ {p, Peer[p]} ELSE down \cup {p, Peer[p]}
  /\ failures' = [left |-> failures.left - 1, count |-> failures.count + 1,
                  never |-> failures.never \ {p, Peer[p]}]
  /\ UNCHANGED <<tree, open, flags, opening, chan, clock>>

Timers ==
  \/ \E b \in Bridge : Hello(b) \/ CheckTimeOut(b) \/ Done(b)
  \/ \E p \in Port : OpenSpanTreePort(At[p], p)
  \/ NextPhase

Frames ==
  \E p \in Port : Peer[p] # None /\ chan[Peer[p]] # <<>> /\
    LET m == Head(chan[Peer[p]])
    IN  Freed(At[p], p, m) \/ GetSpanTreeChange(At[p], p, m) \/ GetSpanTreePacket(At[p], p, m)

Next == Timers \/ Frames \/ \E p \in Port : LinkChanges(p)

Spec == Init /\ [][Next]_vars

(* The engine runs every event: virtual time does not stop. *)
FairSpec == Spec /\ WF_vars(Timers \/ Frames)

-----------------------------------------------------------------------------
(* Working links whose both ends are open, and those that carry data: get drops    *)
(* frames while its switch is not stable.                                  *)
Links      == {{p, Peer[p]} : p \in {q \in Port : Peer[q] # None}}
Alive      == {l \in Links : l \cap down = {}}
OpenLinks  == {l \in Alive : l \subseteq open}
Forwarding == {l \in OpenLinks : \A p \in l : At[p] \in stable}

Touching(L, b) == {l \in L : \E p \in l : At[p] = b}

(* Some of the links form a circle. *)
Loop(L) == \E C \in SUBSET L : C # {} /\ \A b \in Bridge : Cardinality(Touching(C, b)) # 1

(* The records and flags have their types. *)
TypeOK ==
  /\ own \in [Bridge -> [RootID : Bridge, Cost : Nat, Bridge : Bridge, RootPort : Port \cup {None}]]
  /\ rec \in [Port -> [RootID : Bridge, Cost : Nat, Bridge : Bridge] \cup {NoData}]
  /\ age \in [Port -> 0 .. MaxAge] /\ stableAge \in [Bridge -> 0 .. MaxAge]
  /\ open \subseteq Port /\ opening \subseteq Port /\ down \subseteq Port
  /\ tcn \subseteq Bridge /\ flush \subseteq Bridge /\ stable \subseteq Bridge

(* "STABLE means the spanning tree stable": while links stay as they are,  *)
(* data never finds a circle of open ports through switches that all call  *)
(* the tree stable.                                                        *)
NoLoop == failures.count = 0 => ~Loop(Forwarding)

\* The switches a working path leads to from b.
Reachable(b) ==
  {c \in Bridge : \A S \in SUBSET Bridge :
     b \in S /\ (\A l \in Alive : {At[p] : p \in l} \subseteq S
                                   \/ {At[p] : p \in l} \cap S = {}) => c \in S}

(* In every part of the network one root that is part of it, everybody     *)
(* stable, and the open links a tree that reaches every switch of the part.*)
Settled ==
  /\ stable = Bridge
  /\ \A b \in Bridge : /\ own[b].RootID \in Reachable(b)
                       /\ \A c \in Reachable(b) : own[c].RootID = own[b].RootID
  /\ ~Loop(OpenLinks)
  /\ Cardinality(OpenLinks)
       = Cardinality(Bridge) - Cardinality({Reachable(b) : b \in Bridge})

Converged == Settled /\ \A b \in Bridge : own[b].RootID = Min(Bridge)

(* Whatever the order of arrivals, the switches settle on such a tree.     *)
Converges == <>[]Converged

(* Whatever links did, once they stay as they are the switches agree again.*)
Settles == <>[]Settled

(* No switch ever believes or announces a path shorter than the links that *)
(* have worked so far allow, whatever is stale or lost, nor a root that    *)
(* none of them leads to.                                                  *)
NeverTooClose == \A b \in Bridge : own[b].Cost >= Hops[failures.never][own[b].RootID][b]
=============================================================================
