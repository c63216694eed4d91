------------------------------- MODULE Switch -------------------------------
(***************************************************************************)
(* The learning switch (module/sw/sw.cc): the table of learnt stations,    *)
(* the permanent table an access point fills, forwarding, and the periodic *)
(* flush.  The spanning tree part (module SpanningTree) appears here only  *)
(* through what it does to forwarding: it opens and closes ports, declares *)
(* the tree stable or not, and calls flushSwTbl on a topology change.      *)
(* A table is a set of entries: the list's order cannot be observed as     *)
(* long as no station has two entries (OneEntryPerMac).                    *)
(***************************************************************************)
EXTENDS Integers, FiniteSets, Sequences

CONSTANTS Mac,            \* station addresses
          Port,           \* the switch's ports
          Broadcast,      \* ETHER_BROADCAST
          None,
          TblMax,         \* SW_TBL_MAX_ENTRYS
          FlushInterval,  \* flushInterval_, in ticks
          Modes,          \* how the switch may be set up: "learning" and "known" are the
                          \* SWITCH_MODEs RunLearningBridgeProtocol and KnowInAdvance,
                          \* "stp" is the former with SpanningTreeProtocol on
          TableFiles,     \* KnowInAdvance: what a switch table file may hold
          MaxTime         \* bound: ticks of a behaviour

Entry     == [mac : Mac, port : Port, stamp : Nat]
PmntEntry == [mac : Mac, port : Port]

ASSUME SwitchConstants ==
  /\ TblMax \in Nat \ {0} /\ FlushInterval \in Nat \ {0} /\ MaxTime \in Nat
  /\ Modes \subseteq {"learning", "known", "stp"}
  /\ TableFiles \subseteq Seq(PmntEntry)
  /\ Broadcast \notin Mac /\ None \notin Port
  /\ IsFiniteSet(Mac) /\ IsFiniteSet(Port)

VARIABLES
  mode,         \* how the switch is set up
  file,         \* lines of the table file init has not read yet
  swTable,      \* learnt entries
  pmntSwTable,  \* entries an access point asked for
  now, flushAt, \* the clock and the expiry of flushTimer
  open,         \* ports whose PortState is not 0
  stable,       \* STABLE = '1'
  seen,         \* history: port of the last frame taken from a station
  since,        \* history: when the station was first seen at that port
  heard,        \* history: when the station was last seen
  took          \* history: what the table made of that frame

setup   == <<mode, file>>
tables  == <<swTable, pmntSwTable>>
tree    == <<open, stable>>
history == <<seen, since, heard, took>>
vars == <<setup, tables, now, flushAt, tree, history>>

Learning == mode # "known"
Stp      == mode = "stp"

-----------------------------------------------------------------------------
(* findSwTbl's answer; a miss also deletes the entry of another port.      *)
Found(t, m, p) == \E e \in t : e.mac = m /\ e.port = p

Without(t, m) == {e \in t : e.mac # m}

findport(m, t) == IF \E e \in t : e.mac = m
                    THEN (CHOOSE e \in t : e.mac = m).port ELSE None

Full(t) == Cardinality(t) >= TblMax

(* addSwTbl on swTable, with both tables before and after: a full table    *)
(* refuses before it looks for the station, and a station that has a       *)
(* permanent entry for this port is not entered.                           *)
Learnt(sw, pm, m, p, t) ==
  LET new == [mac |-> m, port |-> p, stamp |-> t + FlushInterval]
  IN  IF Full(sw) THEN <<sw, pm>>
      ELSE IF Found(sw, m, p) THEN <<Without(sw, m) \cup {new}, pm>>
      ELSE IF Found(pm, m, p) THEN <<Without(sw, m), pm>>
      ELSE <<Without(sw, m) \cup {new}, Without(pm, m)>>

(* addSwTbl on pmntSwTable. *)
Added(pm, m, p) == IF Full(pm) \/ Found(pm, m, p) THEN pm
                   ELSE Without(pm, m) \cup {[mac |-> m, port |-> p]}

-----------------------------------------------------------------------------
Init ==
  /\ mode \in Modes /\ file \in IF Learning THEN {<<>>} ELSE TableFiles
  /\ swTable = {} /\ pmntSwTable = {}
  /\ now = 0 /\ flushAt = FlushInterval
  /\ open = {} /\ stable = FALSE
  /\ seen = [m \in Mac |-> None] /\ took = [m \in Mac |-> "nothing"]
  /\ since = [m \in Mac |-> 0] /\ heard = [m \in Mac |-> 0]

(* init reads the file line by line before anything else happens. *)
Ready == file = <<>>

LoadLine ==
  /\ ~Ready
  /\ swTable' = Learnt(swTable, pmntSwTable, Head(file).mac, Head(file).port, 0)[1]
  /\ file' = Tail(file)
  /\ UNCHANGED <<mode, pmntSwTable, now, flushAt, tree, history>>

(* get: with the protocol on, a closed port or an unstable tree drops the frame. *)
Passes(p) == Ready /\ (Stp => p \in open /\ stable)
Usable(p) == Stp => p \in open

(* send's choice of ports, with the tables as learning left them.  A       *)
(* permanent entry is used whatever its port.                              *)
Egress(sw, pm, dst, p) ==
  IF findport(dst, pm) # None THEN {findport(dst, pm)}
  ELSE IF findport(dst, sw) # None THEN {q \in {findport(dst, sw)} : q # p /\ Usable(q)}
  ELSE IF ~Learning /\ dst # Broadcast THEN {}
  ELSE {q \in Port : q # p /\ Usable(q)}

(* History: a frame of m was taken at port p. *)
Sighting(m, p, result) ==
  /\ seen' = [seen EXCEPT ![m] = p]
  /\ since' = IF seen[m] = p THEN since ELSE [since EXCEPT ![m] = now]
  /\ heard' = [heard EXCEPT ![m] = now]
  /\ took' = [took EXCEPT ![m] = result]

(* get and send for a data frame of src, whatever its destination: learn,  *)
(* then copy it out of the ports of Egress.                                *)
Frame(src, p) ==
  /\ Passes(p)
  /\ LET t == IF Learning THEN Learnt(swTable, pmntSwTable, src, p, now) ELSE tables
     IN  swTable' = t[1] /\ pmntSwTable' = t[2]
  /\ Sighting(src, p, IF ~Learning \/ Full(swTable) THEN "refused"
                      ELSE IF Found(pmntSwTable, src, p) /\ ~Found(swTable, src, p)
                      THEN "permanent" ELSE "learnt")
  /\ UNCHANGED <<setup, now, flushAt, tree>>

(* send for ETHER_MULTICAST1 with AddEn: an access point announces a       *)
(* station that associated.                                                *)
AddEn(m, p) ==
  /\ Passes(p)
  /\ pmntSwTable' = Added(pmntSwTable, m, p)
  /\ Sighting(m, p, "announced")
  /\ UNCHANGED <<setup, swTable, now, flushAt, tree>>

(* The same with DelEn: the station left. *)
DelEn(m, p) ==
  /\ Passes(p)
  /\ pmntSwTable' = Without(pmntSwTable, m)
  /\ UNCHANGED <<setup, swTable, now, flushAt, tree, history>>

\* mutants: one tick too late, one too early
ExpiredLate(t)  == {e \in swTable : t > e.stamp}
ExpiredEarly(t) == {e \in swTable : t + 1 >= e.stamp}

Expired(t) == {e \in swTable : t >= e.stamp}

(* flushSwTbl: take away what expired, start flushTimer anew. *)
flushSwTbl ==
  /\ swTable' = swTable \ Expired(now)
  /\ flushAt' = now + FlushInterval
  /\ UNCHANGED <<setup, pmntSwTable, now, tree, history>>

FlushTimer == Learning /\ now = flushAt /\ flushSwTbl

(* GetSpanTreeChange and GetSpanTreePacket. *)
TopologyChange == Stp /\ flushSwTbl

(* OpenSpanTreePort, SendSpanTreePacket and CheckTimeOut, seen from here. *)
TreeChange ==
  /\ Stp
  /\ open' \in SUBSET Port /\ stable' \in BOOLEAN
  /\ UNCHANGED <<setup, tables, now, flushAt, history>>

(* The clock does not pass a pending timer. *)
Tick ==
  /\ Ready /\ now < MaxTime
  /\ Learning => now < flushAt
  /\ now' = now + 1
  /\ UNCHANGED <<setup, tables, flushAt, tree, history>>

Next ==
  \/ LoadLine
  \/ \E m \in Mac, p \in Port : Frame(m, p) \/ AddEn(m, p) \/ DelEn(m, p)
  \/ FlushTimer
  \/ TopologyChange
  \/ TreeChange
  \/ Tick

Spec == Init /\ [][Next]_vars

-----------------------------------------------------------------------------
(* The tables hold entries, the histories sightings. *)
TypeOK ==
  /\ mode \in Modes /\ file \in Seq(PmntEntry)
  /\ swTable \in SUBSET Entry /\ pmntSwTable \in SUBSET PmntEntry
  /\ now \in Nat /\ flushAt \in Nat
  /\ open \in SUBSET Port /\ stable \in BOOLEAN
  /\ seen \in [Mac -> Port \cup {None}]
  /\ since \in [Mac -> Nat] /\ heard \in [Mac -> Nat]
  /\ took \in [Mac -> {"nothing", "learnt", "permanent", "refused", "announced"}]

(* A station has at most one entry in a table, wherever it moves and in    *)
(* whichever order its frames, announcements and flushes come: the lookups *)
(* stop at the first match and would miss a second one.                    *)
OneEntryPerMac ==
  \A t \in {swTable, pmntSwTable} : \A e, f \in t : e.mac = f.mac => e = f

(* An entry that points where its station no longer is disappears within   *)
(* two flush intervals of the move, also when the table was full and       *)
(* addSwTbl refused to correct it.                                         *)
StaleBounded ==
  Learning => \A e \in swTable :
                e.port # seen[e.mac] => now < since[e.mac] + 2 * FlushInterval

(* A frame for a station that was learnt less than a flush interval ago    *)
(* goes where the station is and nowhere else: it is neither flooded nor   *)
(* lost to an early flush, unless a permanent entry overrides the table.   *)
DirectedFrame(src, dst, p) ==
  Frame(src, p) /\ took'[dst] = "learnt" /\ now < heard'[dst] + FlushInterval
    /\ findport(dst, pmntSwTable') = None
  => Egress(swTable', pmntSwTable', dst, p) = {q \in {seen'[dst]} : q # p /\ Usable(q)}

Directed == [][\A src, dst \in Mac, p \in Port : DirectedFrame(src, dst, p)]_vars

(* "delete this entry because it is invalid": no permanent entry survives  *)
(* the frame that shows its station at another port.                       *)
PermanentIsCurrent ==
  \A e \in pmntSwTable : took[e.mac] = "learnt" => e.port = seen[e.mac]
=============================================================================
