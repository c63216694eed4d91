---------------------------- MODULE SwitchProofs ----------------------------
(***************************************************************************)
(* The learning switch for any stations, ports, table size, flush interval *)
(* and table file, in all its modes: no station has two entries, a wrong   *)
(* entry is gone after two flush intervals even when the table was too     *)
(* full to be corrected, and a station learnt lately gets its frames at    *)
(* its port and nowhere else.                                              *)
(***************************************************************************)
EXTENDS Switch, TLAPS

OneEach(t) == \A e, f \in t : e.mac = f.mac => e = f

NewEntry(m, p, t) == [mac |-> m, port |-> p, stamp |-> t + FlushInterval]

(* In learning mode there is no file to read, in the other nothing is learnt. *)
Config == /\ Learning => file = <<>>
          /\ ~Learning => \A m \in Mac : took[m] # "learnt"

(* The flush is due within an interval; an entry outlives it by at most    *)
(* one more, and one that is wrong is older than the station's move.       *)
Timely == Learning =>
  /\ now <= flushAt /\ flushAt <= now + FlushInterval
  /\ \A e \in swTable :
       /\ e.stamp > flushAt - FlushInterval /\ e.stamp <= now + FlushInterval
       /\ e.port # seen[e.mac] => e.stamp <= since[e.mac] + FlushInterval

(* A station learnt less than an interval ago is in the table. *)
Remembered == Learning =>
  \A m \in Mac : took[m] = "learnt" /\ now < heard[m] + FlushInterval =>
    NewEntry(m, seen[m], heard[m]) \in swTable

IInv == TypeOK /\ OneEntryPerMac /\ Config /\ Timely /\ Remembered

-----------------------------------------------------------------------------
(* addSwTbl on the learnt table: what is in it was there or is the new     *)
(* entry, other stations keep theirs, and a refusal changes nothing.       *)
LEMMA LearntIs ==
  ASSUME NEW sw \in SUBSET Entry, NEW pm \in SUBSET PmntEntry,
         NEW m \in Mac, NEW p \in Port, NEW t \in Nat, OneEach(sw), OneEach(pm)
  PROVE  LET r == Learnt(sw, pm, m, p, t)
         IN  /\ r = <<r[1], r[2]>>
             /\ r[1] \in SUBSET Entry /\ OneEach(r[1])
             /\ r[2] \in SUBSET pm /\ OneEach(r[2])
             /\ \A e \in r[1] : e \in sw \/ e = NewEntry(m, p, t)
             /\ \A e \in sw : e.mac # m => e \in r[1]
             /\ ~Full(sw) /\ ~(Found(pm, m, p) /\ ~Found(sw, m, p)) =>
                  NewEntry(m, p, t) \in r[1]
<1> DEFINE new == NewEntry(m, p, t)
           with == Without(sw, m) \cup {new}
<1>1. /\ new \in Entry /\ new.mac = m
      /\ with \in SUBSET Entry /\ OneEach(with)
      /\ \A e \in with : e \in sw \/ e = new
      /\ \A e \in sw : e.mac # m => e \in with
  BY SwitchConstants DEF NewEntry, Entry, Without, OneEach
<1>2. /\ Without(sw, m) \in SUBSET sw /\ OneEach(Without(sw, m))
      /\ \A e \in sw : e.mac # m => e \in Without(sw, m)
  BY DEF Without, OneEach
<1>3. Without(pm, m) \in SUBSET pm /\ OneEach(Without(pm, m))
  BY DEF Without, OneEach
<1>4. CASE Full(sw)
  <2>1. Learnt(sw, pm, m, p, t) = <<sw, pm>>  BY <1>4 DEF Learnt
  <2> QED  BY <2>1, <1>4
<1>5. CASE ~Full(sw) /\ Found(sw, m, p)
  <2>1. Learnt(sw, pm, m, p, t) = <<with, pm>>  BY <1>5 DEF Learnt, NewEntry
  <2> QED  BY ONLY <2>1, <1>1, OneEach(pm), pm \in SUBSET PmntEntry DEF with
<1>6. CASE ~Full(sw) /\ ~Found(sw, m, p) /\ Found(pm, m, p)
  <2>1. Learnt(sw, pm, m, p, t) = <<Without(sw, m), pm>>  BY <1>6 DEF Learnt
  <2> QED  BY <2>1, <1>2, <1>6
<1>7. CASE ~Full(sw) /\ ~Found(sw, m, p) /\ ~Found(pm, m, p)
  <2>1. Learnt(sw, pm, m, p, t) = <<with, Without(pm, m)>>  BY <1>7 DEF Learnt, NewEntry
  <2> QED  BY ONLY <2>1, <1>1, <1>3 DEF with
<1> QED  BY <1>4, <1>5, <1>6, <1>7

(* addSwTbl on the permanent table. *)
LEMMA AddedIs ==
  ASSUME NEW pm \in SUBSET PmntEntry, NEW m \in Mac, NEW p \in Port, OneEach(pm)
  PROVE  Added(pm, m, p) \in SUBSET PmntEntry /\ OneEach(Added(pm, m, p))
<1> DEFINE with == Without(pm, m) \cup {[mac |-> m, port |-> p]}
<1>1. with \in SUBSET PmntEntry /\ OneEach(with)
  BY DEF PmntEntry, Without, OneEach
<1> QED  BY <1>1 DEF Added

-----------------------------------------------------------------------------
LEMMA InitHolds == Init => IInv
<1> SUFFICES ASSUME Init PROVE IInv  OBVIOUS
<1>1. TypeOK
  <2>1. <<>> \in Seq(PmntEntry)
    OBVIOUS
  <2>2. file \in Seq(PmntEntry)
    BY <2>1, SwitchConstants DEF Init
  <2> QED  BY <2>2, SwitchConstants DEF Init, TypeOK
<1> QED
  BY <1>1, SwitchConstants DEF Init, IInv, OneEntryPerMac, Config, Timely, Remembered

LEMMA LoadLineKeeps == IInv /\ LoadLine => IInv'
<1> SUFFICES ASSUME IInv, LoadLine PROVE IInv'  OBVIOUS
<1> DEFINE l == Head(file)
           r == Learnt(swTable, pmntSwTable, l.mac, l.port, 0)
<1>1. file # <<>> /\ ~Learning  BY DEF IInv, Config, LoadLine, Ready
<1>2. l.mac \in Mac /\ l.port \in Port /\ Tail(file) \in Seq(PmntEntry)
  <2>1. file \in Seq(PmntEntry)  BY DEF IInv, TypeOK
  <2>2. l \in PmntEntry /\ Tail(file) \in Seq(PmntEntry)  BY <1>1, <2>1
  <2> QED  BY <2>2 DEF PmntEntry
<1>3. /\ swTable \in SUBSET Entry /\ pmntSwTable \in SUBSET PmntEntry
      /\ OneEach(swTable) /\ OneEach(pmntSwTable)
  BY DEF IInv, TypeOK, OneEntryPerMac, OneEach
<1>4. r[1] \in SUBSET Entry /\ OneEach(r[1])
  BY <1>2, <1>3, LearntIs
<1>5. /\ swTable' = r[1] /\ file' = Tail(file)
      /\ UNCHANGED <<mode, pmntSwTable, now, flushAt, open, stable, seen, since, heard, took>>
  BY DEF LoadLine, tree, history
<1>6. TypeOK'  BY <1>2, <1>4, <1>5 DEF IInv, TypeOK
<1>7. OneEntryPerMac'  BY <1>3, <1>4, <1>5 DEF OneEntryPerMac, OneEach
<1>8. ~Learning'  BY <1>1, <1>5 DEF Learning
<1>9. Config'  BY <1>1, <1>5, <1>8 DEF IInv, Config
<1> QED  BY <1>6, <1>7, <1>8, <1>9 DEF IInv, Timely, Remembered

(* What a sighting leaves behind. *)
LEMMA SightingIs ==
  ASSUME TypeOK, NEW m \in Mac, NEW p \in Port,
         NEW result \in {"learnt", "permanent", "refused", "announced"}, Sighting(m, p, result)
  PROVE  /\ seen' \in [Mac -> Port \cup {None}] /\ since' \in [Mac -> Nat]
         /\ heard' \in [Mac -> Nat]
         /\ took' \in [Mac -> {"nothing", "learnt", "permanent", "refused", "announced"}]
         /\ seen'[m] = p /\ heard'[m] = now /\ took'[m] = result
         /\ since'[m] = IF seen[m] = p THEN since[m] ELSE now
         /\ \A k \in Mac : k # m => /\ seen'[k] = seen[k] /\ since'[k] = since[k]
                                    /\ heard'[k] = heard[k] /\ took'[k] = took[k]
BY DEF TypeOK, Sighting

LEMMA FrameKeeps ==
  ASSUME IInv, NEW src \in Mac, NEW p \in Port, Frame(src, p)
  PROVE  IInv'
<1> DEFINE r == Learnt(swTable, pmntSwTable, src, p, now)
           new == NewEntry(src, p, now)
           result == IF ~Learning \/ Full(swTable) THEN "refused"
                     ELSE IF Found(pmntSwTable, src, p) /\ ~Found(swTable, src, p)
                     THEN "permanent" ELSE "learnt"
<1>1. /\ TypeOK /\ now \in Nat /\ flushAt \in Nat
      /\ swTable \in SUBSET Entry /\ pmntSwTable \in SUBSET PmntEntry
      /\ OneEach(swTable) /\ OneEach(pmntSwTable)
  BY DEF IInv, TypeOK, OneEntryPerMac, OneEach
<1>2. /\ r[1] \in SUBSET Entry /\ OneEach(r[1])
      /\ r[2] \in SUBSET pmntSwTable /\ OneEach(r[2])
      /\ \A e \in r[1] : e \in swTable \/ e = new
      /\ \A e \in swTable : e.mac # src => e \in r[1]
      /\ ~Full(swTable) /\ ~(Found(pmntSwTable, src, p) /\ ~Found(swTable, src, p)) => new \in r[1]
  BY <1>1, LearntIs
<1>3. /\ IF Learning THEN swTable' = r[1] /\ pmntSwTable' = r[2]
                     ELSE swTable' = swTable /\ pmntSwTable' = pmntSwTable
      /\ Sighting(src, p, result)
      /\ UNCHANGED <<mode, file, now, flushAt, open, stable>>
  <2>1. /\ LET t == IF Learning THEN r ELSE <<swTable, pmntSwTable>>
           IN  swTable' = t[1] /\ pmntSwTable' = t[2]
        /\ Sighting(src, p, result) /\ UNCHANGED <<setup, now, flushAt, tree>>
    BY DEF Frame, tables
  <2> HIDE DEF r, result
  <2> QED  BY <2>1 DEF setup, tree
<1>4. result \in {"learnt", "permanent", "refused", "announced"}
  OBVIOUS
<1> HIDE DEF r, result
<1>5. /\ seen' \in [Mac -> Port \cup {None}] /\ since' \in [Mac -> Nat]
      /\ heard' \in [Mac -> Nat]
      /\ took' \in [Mac -> {"nothing", "learnt", "permanent", "refused", "announced"}]
      /\ seen'[src] = p /\ heard'[src] = now /\ took'[src] = result
      /\ since'[src] = IF seen[src] = p THEN since[src] ELSE now
      /\ \A k \in Mac : k # src => /\ seen'[k] = seen[k] /\ since'[k] = since[k]
                                   /\ heard'[k] = heard[k] /\ took'[k] = took[k]
  BY <1>1, <1>3, <1>4, SightingIs
<1>6. Learning' = Learning  BY <1>3 DEF Learning
<1>7. TypeOK'
  BY <1>1, <1>2, <1>3, <1>5 DEF TypeOK
<1>8. OneEntryPerMac'
  BY <1>1, <1>2, <1>3 DEF OneEntryPerMac, OneEach
<1>9. Config'
  BY <1>3, <1>5, <1>6 DEF IInv, Config, result
<1>10. Timely'
  <2> SUFFICES ASSUME Learning, NEW e \in swTable'
               PROVE  /\ e.stamp > flushAt - FlushInterval /\ e.stamp <= now + FlushInterval
                      /\ e.port # seen'[e.mac] => e.stamp <= since'[e.mac] + FlushInterval
    BY <1>3, <1>6 DEF Timely, IInv
  <2>1. now <= flushAt /\ flushAt <= now + FlushInterval /\ FlushInterval \in Nat \ {0}
    BY SwitchConstants DEF IInv, Timely
  <2>2. e \in swTable \/ e = new
    BY <1>2, <1>3
  <2>3. CASE e = new
    <3>1. e.mac = src /\ e.port = p /\ e.stamp = now + FlushInterval
      BY <2>3 DEF NewEntry
    <3> QED  BY <3>1, <2>1, <1>1, <1>5
  <2>4. CASE e \in swTable
    <3>1. /\ e \in Entry
          /\ e.stamp > flushAt - FlushInterval /\ e.stamp <= now + FlushInterval
          /\ e.port # seen[e.mac] => e.stamp <= since[e.mac] + FlushInterval
      BY <2>4, <1>1 DEF IInv, Timely
    <3>2. CASE e.mac = src
      <4>1. CASE seen[src] = p
        BY <3>1, <3>2, <4>1, <1>5
      <4>2. CASE seen[src] # p
        BY <3>1, <3>2, <4>2, <1>5
      <4> QED  BY <4>1, <4>2
    <3>3. CASE e.mac # src
      BY <3>1, <3>3, <1>5 DEF Entry
    <3> QED  BY <3>2, <3>3
  <2> QED  BY <2>2, <2>3, <2>4
<1>11. Remembered'
  <2> SUFFICES ASSUME Learning, NEW m \in Mac, took'[m] = "learnt",
                      now < heard'[m] + FlushInterval
               PROVE  NewEntry(m, seen'[m], heard'[m]) \in r[1]
    BY <1>3, <1>6 DEF Remembered
  <2>1. CASE m = src
    <3>1. ~Full(swTable) /\ ~(Found(pmntSwTable, src, p) /\ ~Found(swTable, src, p))
      BY <2>1, <1>5 DEF result
    <3> QED  BY <3>1, <2>1, <1>2, <1>5
  <2>2. CASE m # src
    <3>1. NewEntry(m, seen[m], heard[m]) \in swTable
      BY <2>2, <1>5 DEF IInv, Remembered
    <3>2. NewEntry(m, seen[m], heard[m]).mac # src
      BY <2>2 DEF NewEntry
    <3> QED  BY <3>1, <3>2, <2>2, <1>2, <1>5
  <2> QED  BY <2>1, <2>2
<1> QED  BY <1>7, <1>8, <1>9, <1>10, <1>11 DEF IInv

LEMMA AddEnKeeps ==
  ASSUME IInv, NEW m \in Mac, NEW p \in Port, AddEn(m, p)
  PROVE  IInv'
<1>1. /\ TypeOK /\ now \in Nat /\ pmntSwTable \in SUBSET PmntEntry /\ OneEach(pmntSwTable)
      /\ swTable \in SUBSET Entry
  BY DEF IInv, TypeOK, OneEntryPerMac, OneEach
<1>2. /\ pmntSwTable' = Added(pmntSwTable, m, p) /\ Sighting(m, p, "announced")
      /\ UNCHANGED <<mode, file, swTable, now, flushAt, open, stable>>
  BY DEF AddEn, setup, tree
<1>3. pmntSwTable' \in SUBSET PmntEntry /\ OneEach(pmntSwTable')
  BY <1>1, <1>2, AddedIs
<1>4. /\ seen' \in [Mac -> Port \cup {None}] /\ since' \in [Mac -> Nat]
      /\ heard' \in [Mac -> Nat]
      /\ took' \in [Mac -> {"nothing", "learnt", "permanent", "refused", "announced"}]
      /\ seen'[m] = p /\ took'[m] = "announced"
      /\ since'[m] = IF seen[m] = p THEN since[m] ELSE now
      /\ \A k \in Mac : k # m => /\ seen'[k] = seen[k] /\ since'[k] = since[k]
                                 /\ heard'[k] = heard[k] /\ took'[k] = took[k]
  BY <1>1, <1>2, SightingIs
<1>5. Learning' = Learning  BY <1>2 DEF Learning
<1>6. TypeOK'  BY <1>1, <1>2, <1>3, <1>4 DEF TypeOK
<1>7. OneEntryPerMac'  BY <1>2, <1>3 DEF IInv, OneEntryPerMac, OneEach
<1>8. Config'  BY <1>2, <1>4, <1>5 DEF IInv, Config
<1>9. Timely'
  <2> SUFFICES ASSUME Learning, NEW e \in swTable, e.port # seen'[e.mac]
               PROVE  e.stamp <= since'[e.mac] + FlushInterval
    BY <1>2, <1>5 DEF IInv, Timely
  <2>1. /\ e.mac \in Mac /\ e.stamp \in Nat /\ e.stamp <= now + FlushInterval
        /\ e.port # seen[e.mac] => e.stamp <= since[e.mac] + FlushInterval
    BY <1>1 DEF IInv, Timely, Entry
  <2>2. CASE e.mac = m  BY <2>1, <2>2, <1>4
  <2>3. CASE e.mac # m  BY <2>1, <2>3, <1>4
  <2> QED  BY <2>2, <2>3
<1>10. Remembered'
  <2> SUFFICES ASSUME Learning, NEW k \in Mac, took'[k] = "learnt",
                      now < heard'[k] + FlushInterval
               PROVE  NewEntry(k, seen'[k], heard'[k]) \in swTable
    BY <1>2, <1>5 DEF Remembered
  <2> QED  BY <1>4 DEF IInv, Remembered
<1> QED  BY <1>6, <1>7, <1>8, <1>9, <1>10 DEF IInv

LEMMA DelEnKeeps ==
  ASSUME IInv, NEW m \in Mac, NEW p \in Port, DelEn(m, p)
  PROVE  IInv'
<1>1. /\ pmntSwTable' \in SUBSET pmntSwTable
      /\ UNCHANGED <<mode, file, swTable, now, flushAt, open, stable, seen, since, heard, took>>
  BY DEF DelEn, Without, setup, tree, history
<1> QED
  BY <1>1 DEF IInv, TypeOK, OneEntryPerMac, Config, Timely, Remembered, Learning

(* A flush takes away what expired, and the next is an interval away. *)
LEMMA FlushKeeps == IInv /\ flushSwTbl => IInv'
<1> SUFFICES ASSUME IInv, flushSwTbl PROVE IInv'  OBVIOUS
<1>1. /\ swTable' = swTable \ Expired(now) /\ flushAt' = now + FlushInterval
      /\ UNCHANGED <<mode, file, pmntSwTable, now, open, stable, seen, since, heard, took>>
  BY DEF flushSwTbl, setup, tree, history
<1>2. now \in Nat /\ FlushInterval \in Nat \ {0} /\ swTable \in SUBSET Entry
  BY SwitchConstants DEF IInv, TypeOK
<1>3. TypeOK' /\ OneEntryPerMac' /\ Config' /\ Learning' = Learning
  BY <1>1, <1>2 DEF IInv, TypeOK, OneEntryPerMac, Config, Learning
<1>4. Timely'
  <2> SUFFICES ASSUME Learning
               PROVE  /\ now <= now + FlushInterval
                      /\ \A e \in swTable' :
                           /\ e.stamp > (now + FlushInterval) - FlushInterval
                           /\ e.stamp <= now + FlushInterval
                           /\ e.port # seen[e.mac] => e.stamp <= since[e.mac] + FlushInterval
    BY <1>1, <1>2, <1>3 DEF Timely
  <2>1. \A e \in swTable' : e \in swTable /\ e.stamp \in Nat /\ ~(now >= e.stamp)
    BY <1>1, <1>2 DEF Expired, Entry
  <2> QED  BY <1>2, <2>1 DEF IInv, Timely
<1>5. Remembered'
  <2> SUFFICES ASSUME Learning, NEW m \in Mac, took[m] = "learnt",
                      now < heard[m] + FlushInterval
               PROVE  NewEntry(m, seen[m], heard[m]) \in swTable'
    BY <1>1, <1>3 DEF Remembered
  <2>1. NewEntry(m, seen[m], heard[m]) \in swTable  BY DEF IInv, Remembered
  <2>2. heard[m] \in Nat  BY DEF IInv, TypeOK
  <2>3. NewEntry(m, seen[m], heard[m]).stamp = heard[m] + FlushInterval  BY DEF NewEntry
  <2> QED  BY <1>1, <1>2, <2>1, <2>2, <2>3 DEF Expired
<1> QED  BY <1>3, <1>4, <1>5 DEF IInv

LEMMA TickKeeps == IInv /\ Tick => IInv'
<1> SUFFICES ASSUME IInv, Tick PROVE IInv'  OBVIOUS
<1>1. /\ Learning => now < flushAt
      /\ now' = now + 1
      /\ UNCHANGED <<mode, file, swTable, pmntSwTable, flushAt, open, stable, seen, since, heard, took>>
  BY DEF Tick, setup, tables, tree, history
<1>2. now \in Nat /\ flushAt \in Nat /\ FlushInterval \in Nat \ {0} /\ swTable \in SUBSET Entry
  BY SwitchConstants DEF IInv, TypeOK
<1>3. TypeOK' /\ OneEntryPerMac' /\ Config' /\ Learning' = Learning
  BY <1>1, <1>2 DEF IInv, TypeOK, OneEntryPerMac, Config, Learning
<1>4. Timely'
  <2>1. \A e \in swTable : e.stamp \in Nat  BY <1>2 DEF Entry
  <2> QED  BY <1>1, <1>2, <1>3, <2>1 DEF IInv, Timely
<1>5. Remembered'
  <2>1. heard \in [Mac -> Nat]  BY DEF IInv, TypeOK
  <2> QED  BY <1>1, <1>2, <1>3, <2>1 DEF IInv, Remembered
<1> QED  BY <1>3, <1>4, <1>5 DEF IInv

LEMMA StepKeeps == IInv /\ [Next]_vars => IInv'
<1> SUFFICES ASSUME IInv, [Next]_vars PROVE IInv'  OBVIOUS
<1>1. CASE LoadLine  BY <1>1, LoadLineKeeps
<1>2. ASSUME NEW m \in Mac, NEW p \in Port, Frame(m, p) PROVE IInv'
  BY <1>2, FrameKeeps
<1>3. ASSUME NEW m \in Mac, NEW p \in Port, AddEn(m, p) PROVE IInv'
  BY <1>3, AddEnKeeps
<1>4. ASSUME NEW m \in Mac, NEW p \in Port, DelEn(m, p) PROVE IInv'
  BY <1>4, DelEnKeeps
<1>5. CASE flushSwTbl  BY <1>5, FlushKeeps
<1>6. CASE TreeChange
  BY <1>6 DEF TreeChange, setup, tables, history, IInv, TypeOK, OneEntryPerMac, Config,
              Timely, Remembered, Learning
<1>7. CASE Tick  BY <1>7, TickKeeps
<1>8. CASE UNCHANGED vars
  BY <1>8 DEF vars, setup, tables, tree, history, IInv, TypeOK, OneEntryPerMac, Config,
              Timely, Remembered, Learning
<1> QED
  BY <1>1, <1>2, <1>3, <1>4, <1>5, <1>6, <1>7, <1>8 DEF Next, FlushTimer, TopologyChange

-----------------------------------------------------------------------------
(* The invariant holds throughout. *)
THEOREM Invariance == Spec => []IInv
BY InitHolds, StepKeeps, PTL DEF Spec

(* A station has at most one entry in each table, whatever the file holds  *)
(* and however stations move: the lookups may stop at the first match.     *)
THEOREM OneEntryEach == Spec => []OneEntryPerMac
<1>1. IInv => OneEntryPerMac  BY DEF IInv
<1> QED  BY Invariance, <1>1, PTL

(* A wrong entry is gone within two flush intervals of the move, however   *)
(* full the table was and however often a topology change put the flush    *)
(* off.                                                                    *)
THEOREM StaleGone == Spec => []StaleBounded
<1>1. IInv => StaleBounded
  <2> SUFFICES ASSUME IInv, Learning, NEW e \in swTable, e.port # seen[e.mac]
               PROVE  now < since[e.mac] + 2 * FlushInterval
    BY DEF StaleBounded
  <2>1. /\ now \in Nat /\ flushAt \in Nat /\ FlushInterval \in Nat
        /\ e.stamp \in Nat /\ since[e.mac] \in Nat
    BY SwitchConstants DEF IInv, TypeOK, Entry
  <2>2. /\ now <= flushAt /\ e.stamp > flushAt - FlushInterval
        /\ e.stamp <= since[e.mac] + FlushInterval
    BY DEF IInv, Timely
  <2> QED  BY <2>1, <2>2
<1> QED  BY Invariance, <1>1, PTL

(* A frame for a station learnt less than a flush interval ago goes to the *)
(* port where the station is, and nowhere else.                            *)
THEOREM FramesDirected == Spec => Directed
<1>1. IInv' /\ [Next]_vars =>
        [\A src, dst \in Mac, p \in Port : DirectedFrame(src, dst, p)]_vars
  <2> SUFFICES ASSUME IInv', NEW src \in Mac, NEW dst \in Mac, NEW p \in Port,
                      Frame(src, p), took'[dst] = "learnt", now < heard'[dst] + FlushInterval,
                      findport(dst, pmntSwTable') = None
               PROVE  Egress(swTable', pmntSwTable', dst, p) = {q \in {seen'[dst]} : q # p /\ Usable(q)}
    BY DEF DirectedFrame
  <2>1. now' = now /\ mode' = mode  BY DEF Frame, setup
  <2>2. Learning'  BY DEF IInv, Config
  <2> DEFINE e == NewEntry(dst, seen'[dst], heard'[dst])
  <2>3. e \in swTable' /\ e.mac = dst /\ e.port = seen'[dst]
    BY <2>1, <2>2 DEF IInv, Remembered, NewEntry
  <2>4. \A f \in swTable' : f.mac = dst => f = e
    BY <2>3 DEF IInv, OneEntryPerMac
  <2> HIDE DEF e
  <2>5. findport(dst, swTable') = seen'[dst]
    <3>1. (CHOOSE f \in swTable' : f.mac = dst) = e  BY <2>3, <2>4
    <3> QED  BY <2>3, <3>1 DEF findport
  <2>6. seen'[dst] # None
    BY <2>3, SwitchConstants DEF IInv, TypeOK, Entry
  <2> QED  BY <2>5, <2>6 DEF Egress
<1> QED  BY Invariance, <1>1, PTL DEF Spec, Directed
=============================================================================
