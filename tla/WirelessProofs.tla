--------------------------- MODULE WirelessProofs ---------------------------
(***************************************************************************)
(* Safety of the 802.11 MAC for any number of nodes, any channel, any      *)
(* traffic and any timing: no assertion fails, the backoff runs on an idle *)
(* medium only, no packet is left without a timer except where a CTS is    *)
(* refused, none is passed up twice while the caches have room, and what a *)
(* MAC takes for acknowledged has been passed up while numbers are fresh.  *)
(* As in EthernetProofs every handler is a function from station to        *)
(* station, and the argument is a lemma for each: a Sound station, one of  *)
(* its timers just reset, is left Sound.                                   *)
(***************************************************************************)
EXTENDS Wireless, TLAPS

Ticks == Nat \cup {Off}

Frame ==
  [type : {"RTS", "CTS", "ACK", "DATA"}, from : Station, to : Station \cup {Broadcast},
   dur : Nat, pkt : Packet \cup {NoPkt}, seq : Nat, retry : BOOLEAN, err : BOOLEAN]

(* A frame some station has sent. *)
Proper(f) == /\ f \in Frame
             /\ f.type = "RTS" => f.dur >= CtlTime + SIFS
             /\ f.type = "DATA" => f.pkt \in Packet /\ f.to = f.pkt.to
             /\ f.type = "ACK" => f.to \in Station

StationType ==
  [me : Station, txs : TxState, rxs : RxState, active : BOOLEAN,
   ctrl : Frame \cup {NoFrame}, rts : BOOLEAN, tx : Packet \cup {NoPkt}, seq : Nat,
   retry : BOOLEAN, rx : Frame \cup {NoFrame},
   nav : Ticks, send : Ticks, defer : Ticks, backoff : Ticks, paused : BOOLEAN,
   ifc : Ticks, recv : Ticks, ssrc : Nat, slrc : Nat, cw : CWmin .. CWmax,
   cache : SUBSET (Station \X Nat), out : Frame \cup {NoFrame},
   up : Packet \cup {NoPkt}, fault : BOOLEAN]

(* What the MAC has to send. *)
SameTask(n, m) == /\ n.me = m.me /\ n.ctrl = m.ctrl /\ n.rts = m.rts /\ n.tx = m.tx
                  /\ n.seq = m.seq /\ n.retry = m.retry

(* What it hears. *)
SameEar(n, m) == /\ n.rxs = m.rxs /\ n.rx = m.rx /\ n.recv = m.recv /\ n.nav = m.nav

SameVoice(n, m) == n.active = m.active /\ n.ifc = m.ifc /\ n.out = m.out

SameRecord(n, m) == n.cache = m.cache /\ n.up = m.up /\ n.fault = m.fault

Spoiled(f) == [f EXCEPT !.err = TRUE]

Same(n, m) == SameTask(n, m) /\ SameEar(n, m) /\ SameVoice(n, m) /\ SameRecord(n, m)

SameState(n, m) == /\ n.txs = m.txs /\ n.send = m.send /\ n.defer = m.defer
                   /\ n.backoff = m.backoff /\ n.paused = m.paused

(* The backoff after a change of state of the MAC. *)
Steady(m) == /\ m.backoff # Off => (m.paused <=> ~Idle(m))
             /\ m.backoff = Off => ~m.paused

-----------------------------------------------------------------------------
(* The pieces the handlers are made of. *)

LEMMA CheckBackoffSteadies ==
  ASSUME NEW m \in StationType, m.backoff = Off => ~m.paused
  PROVE  LET n == CheckBackoff(m)
         IN  /\ n \in StationType /\ Steady(n)
             /\ SameTask(n, m) /\ SameEar(n, m) /\ SameVoice(n, m) /\ SameRecord(n, m)
             /\ n.txs = m.txs /\ n.send = m.send /\ n.defer = m.defer
             /\ n.backoff = Off <=> m.backoff = Off
<1>1. CASE Idle(m) /\ m.paused
  <2> DEFINE b == m.backoff + DIFS
             n == [m EXCEPT !.paused = FALSE, !.backoff = b]
  <2>1. b \in Nat
    BY <1>1 DEF StationType, Ticks, DIFS, SIFS, SlotTime, Off
  <2>5. CheckBackoff(m) = n
    BY <1>1 DEF CheckBackoff
  <2> HIDE DEF b
  <2>2. n \in StationType
    <3>1. b \in Ticks
      BY <2>1 DEF Ticks
    <3> QED
      BY <3>1 DEF StationType
  <2>3. n.backoff # Off
    BY <2>1 DEF StationType, Off
  <2>4. /\ SameTask(n, m) /\ SameEar(n, m) /\ SameVoice(n, m) /\ SameRecord(n, m)
        /\ n.txs = m.txs /\ n.send = m.send /\ n.defer = m.defer /\ ~n.paused
    BY DEF StationType, SameTask, SameEar, SameVoice, SameRecord
  <2> HIDE DEF n
  <2>6. Steady(n)
    BY <1>1, <2>3, <2>4 DEF Steady, Idle, SameEar
  <2> QED
    BY <1>1, <2>2, <2>3, <2>4, <2>5, <2>6
<1>2. CASE ~(Idle(m) /\ m.paused) /\ ~Idle(m) /\ m.backoff # Off
  <2> DEFINE n == [m EXCEPT !.paused = TRUE]
  <2>2. n \in StationType
    BY DEF StationType
  <2>4. /\ SameTask(n, m) /\ SameEar(n, m) /\ SameVoice(n, m) /\ SameRecord(n, m)
        /\ n.txs = m.txs /\ n.send = m.send /\ n.defer = m.defer /\ n.paused
        /\ n.backoff = m.backoff
    BY DEF StationType, SameTask, SameEar, SameVoice, SameRecord
  <2>5. CheckBackoff(m) = n
    BY <1>2 DEF CheckBackoff
  <2> HIDE DEF n
  <2>6. Steady(n)
    BY <1>2, <2>4 DEF Steady, Idle, SameEar
  <2> QED
    BY <2>2, <2>4, <2>5, <2>6
<1>3. CASE ~(Idle(m) /\ m.paused) /\ ~(~Idle(m) /\ m.backoff # Off)
  <2>1. CheckBackoff(m) = m
    BY <1>3 DEF CheckBackoff
  <2>2. m.paused \in BOOLEAN
    BY DEF StationType
  <2> QED
    BY <1>3, <2>1, <2>2 DEF Steady, SameTask, SameEar, SameVoice, SameRecord
<1> QED
  BY <1>1, <1>2, <1>3

LEMMA BackoffStarts ==
  ASSUME NEW m \in StationType, NEW space \in {SIFS, DIFS}, NEW r \in Nat
  PROVE  LET n == start_backoff(m, space, r)
         IN  /\ n \in StationType /\ Steady(n) /\ n.backoff # Off
             /\ SameTask(n, m) /\ SameEar(n, m) /\ SameVoice(n, m) /\ SameRecord(n, m)
             /\ n.txs = m.txs /\ n.send = m.send /\ n.defer = m.defer
<1> DEFINE b == (r % m.cw) * SlotTime + space
           i == ~Idle(m)
           n == [m EXCEPT !.backoff = b, !.paused = i]
<1>1. b \in Nat
  <2>1. m.cw \in Nat /\ m.cw > 0
    BY DEF StationType, CWmin, CWmax
  <2>2. r % m.cw \in Nat
    BY <2>1
  <2>3. space \in Nat
    BY DEF SIFS, DIFS, SlotTime
  <2> QED
    BY <2>2, <2>3 DEF SlotTime
<1>2. start_backoff(m, space, r) = n
  BY DEF start_backoff
<1>3. i \in BOOLEAN /\ (i <=> ~Idle(m))
  BY DEF Idle
<1>4. b \in Ticks /\ b # Off
  BY <1>1 DEF Ticks, Off
<1> HIDE DEF b, i
<1>5. n \in StationType
  BY <1>3, <1>4, ZenonT(60) DEF StationType
<1>6. /\ SameTask(n, m) /\ SameEar(n, m) /\ SameVoice(n, m) /\ SameRecord(n, m)
      /\ n.txs = m.txs /\ n.send = m.send /\ n.defer = m.defer
      /\ n.backoff = b /\ n.paused = i
  BY DEF StationType, SameTask, SameEar, SameVoice, SameRecord
<1> HIDE DEF n
<1>7. Steady(n)
  BY <1>3, <1>4, <1>6 DEF Steady, Idle, SameEar
<1> QED
  BY <1>2, <1>4, <1>5, <1>6, <1>7

LEMMA TxChanges ==
  ASSUME NEW m \in StationType, m.backoff = Off => ~m.paused, NEW x \in TxState
  PROVE  LET n == SetTx(m, x)
         IN  /\ n \in StationType /\ Steady(n) /\ n.txs = x
             /\ SameTask(n, m) /\ SameEar(n, m) /\ SameVoice(n, m) /\ SameRecord(n, m)
             /\ n.send = m.send /\ n.defer = m.defer
             /\ n.backoff = Off <=> m.backoff = Off
<1> DEFINE a == [m EXCEPT !.txs = x]
<1>1. a \in StationType
  BY DEF StationType
<1>2. /\ SameTask(a, m) /\ SameEar(a, m) /\ SameVoice(a, m) /\ SameRecord(a, m)
      /\ a.txs = x /\ a.send = m.send /\ a.defer = m.defer
      /\ a.backoff = m.backoff /\ a.paused = m.paused
  BY DEF StationType, SameTask, SameEar, SameVoice, SameRecord
<1>3. SetTx(m, x) = CheckBackoff(a)
  BY DEF SetTx
<1> HIDE DEF a
<1> QED
  BY <1>1, <1>2, <1>3, CheckBackoffSteadies DEF SameTask, SameEar, SameVoice, SameRecord

LEMMA RxChanges ==
  ASSUME NEW m \in StationType, m.backoff = Off => ~m.paused, NEW x \in RxState
  PROVE  LET n == SetRx(m, x)
         IN  /\ n \in StationType /\ Steady(n) /\ n.rxs = x
             /\ SameTask(n, m) /\ SameVoice(n, m) /\ SameRecord(n, m)
             /\ n.rx = m.rx /\ n.recv = m.recv /\ n.nav = m.nav
             /\ n.txs = m.txs /\ n.send = m.send /\ n.defer = m.defer
             /\ n.backoff = Off <=> m.backoff = Off
<1> DEFINE a == [m EXCEPT !.rxs = x]
<1>1. a \in StationType
  BY DEF StationType
<1>2. /\ SameTask(a, m) /\ SameVoice(a, m) /\ SameRecord(a, m)
      /\ a.rxs = x /\ a.rx = m.rx /\ a.recv = m.recv /\ a.nav = m.nav
      /\ a.txs = m.txs /\ a.send = m.send /\ a.defer = m.defer
      /\ a.backoff = m.backoff /\ a.paused = m.paused
  BY DEF StationType, SameTask, SameVoice, SameRecord
<1>3. SetRx(m, x) = CheckBackoff(a)
  BY DEF SetRx
<1> HIDE DEF a
<1> QED
  BY <1>1, <1>2, <1>3, CheckBackoffSteadies DEF SameTask, SameEar, SameVoice, SameRecord

(* The condition under which tx_resume starts the deferral. *)
Waiting(m) == m.ctrl # NoFrame \/ (m.tx # NoPkt /\ m.backoff = Off)

LEMMA Resumes ==
  ASSUME NEW m \in StationType, m.backoff = Off => ~m.paused, m.send = Off,
         m.rts => m.tx # NoPkt
  PROVE  LET n == tx_resume(m)
         IN  /\ n \in StationType /\ Steady(n)
             /\ SameTask(n, m) /\ SameEar(n, m) /\ SameVoice(n, m) /\ SameRecord(n, m)
             /\ n.txs = "IDLE" /\ n.send = Off
             /\ n.defer # Off <=> m.defer # Off \/ Waiting(m)
             /\ n.backoff = Off <=> m.backoff = Off
<1> DEFINE dt == CASE m.ctrl # NoFrame -> SIFS
                   [] m.ctrl = NoFrame /\ m.rts -> DIFS
                   [] OTHER -> IF Long(m.tx) THEN SIFS ELSE DIFS
           d == IF Waiting(m) THEN dt ELSE m.defer
           a == [m EXCEPT !.defer = d]
<1>1. dt \in {SIFS, DIFS}
  OBVIOUS
<1>2. Waiting(m) <=> m.ctrl # NoFrame \/ ((m.rts \/ m.tx # NoPkt) /\ m.backoff = Off)
  BY DEF Waiting
<1>3. tx_resume(m) = SetTx(a, "IDLE")
  <2>1. CASE Waiting(m)
    BY <1>2, <2>1 DEF tx_resume, Asserting
  <2>2. CASE ~Waiting(m)
    <3>1. a = m
      BY <2>2 DEF StationType
    <3>2. tx_resume(m) = SetTx(m, "IDLE")
      BY <1>2, <2>2 DEF tx_resume, Asserting
    <3> QED
      BY <3>1, <3>2
  <2> QED
    BY <2>1, <2>2
<1> HIDE DEF dt
<1>4. d \in Ticks /\ (d # Off <=> m.defer # Off \/ Waiting(m))
  <2>1. CASE Waiting(m)
    BY <1>1, <2>1 DEF SIFS, DIFS, SlotTime, Off, Ticks
  <2>2. CASE ~Waiting(m)
    BY <2>2 DEF StationType
  <2> QED
    BY <2>1, <2>2
<1> HIDE DEF d
<1>5. a \in StationType
  BY <1>4 DEF StationType
<1>6. /\ SameTask(a, m) /\ SameEar(a, m) /\ SameVoice(a, m) /\ SameRecord(a, m)
      /\ a.txs = m.txs /\ a.send = m.send /\ a.defer = d
      /\ a.backoff = m.backoff /\ a.paused = m.paused
  BY DEF StationType, SameTask, SameEar, SameVoice, SameRecord
<1> HIDE DEF a
<1>7. LET n == SetTx(a, "IDLE")
      IN  /\ n \in StationType /\ Steady(n) /\ n.txs = "IDLE"
          /\ SameTask(n, a) /\ SameEar(n, a) /\ SameVoice(n, a) /\ SameRecord(n, a)
          /\ n.send = a.send /\ n.defer = a.defer
          /\ n.backoff = Off <=> a.backoff = Off
  BY <1>5, <1>6, TxChanges DEF TxState
<1> QED
  BY <1>3, <1>4, <1>6, <1>7 DEF SameTask, SameEar, SameVoice, SameRecord

LEMMA WindowChanges ==
  ASSUME NEW m \in StationType
  PROVE  /\ rst_CW(m) \in StationType /\ Same(rst_CW(m), m) /\ SameState(rst_CW(m), m)
         /\ inc_CW(m) \in StationType /\ Same(inc_CW(m), m) /\ SameState(inc_CW(m), m)
<1>1. ASSUME NEW c \in CWmin .. CWmax
      PROVE  LET n == [m EXCEPT !.cw = c]
             IN  n \in StationType /\ Same(n, m) /\ SameState(n, m)
  BY DEF StationType, Same, SameTask, SameEar, SameVoice, SameRecord, SameState
<1>2. rst_CW(m) = [m EXCEPT !.cw = CWmin] /\ CWmin \in CWmin .. CWmax
  BY DEF rst_CW, CWmin, CWmax
<1>3. PICK c \in CWmin .. CWmax : inc_CW(m) = [m EXCEPT !.cw = c]
  <2> DEFINE c == IF 2 * m.cw + 1 > CWmax THEN CWmax ELSE 2 * m.cw + 1
  <2>1. m.cw \in CWmin .. CWmax
    BY DEF StationType
  <2>2. c \in CWmin .. CWmax
    <3>1. m.cw \in Int /\ 31 <= m.cw /\ m.cw <= 1023
      BY <2>1, SMTT(40) DEF CWmin, CWmax
    <3>2. CASE 2 * m.cw + 1 > CWmax
      BY <3>2 DEF CWmin, CWmax
    <3>3. CASE ~(2 * m.cw + 1 > CWmax)
      BY <3>1, <3>3 DEF CWmin, CWmax
    <3> QED
      BY <3>2, <3>3
  <2>3. inc_CW(m) = [m EXCEPT !.cw = c]
    BY DEF inc_CW
  <2> QED
    BY <2>2, <2>3
<1> QED
  BY <1>1, <1>2, <1>3

LEMMA NavChanges ==
  ASSUME NEW m \in StationType, NEW d \in Nat
  PROVE  LET n == set_NAV(m, d)
         IN  /\ n \in StationType /\ SameTask(n, m) /\ SameVoice(n, m) /\ SameRecord(n, m)
             /\ SameState(n, m) /\ n.rxs = m.rxs /\ n.rx = m.rx /\ n.recv = m.recv
             /\ n.nav \in {m.nav, d} /\ n.nav >= m.nav
<1>1. d \in Ticks /\ m.nav \in Ticks
  BY DEF Ticks, StationType
<1>2. LET n == [m EXCEPT !.nav = d]
      IN  /\ n \in StationType /\ SameTask(n, m) /\ SameVoice(n, m) /\ SameRecord(n, m)
          /\ SameState(n, m) /\ n.rxs = m.rxs /\ n.rx = m.rx /\ n.recv = m.recv /\ n.nav = d
  BY <1>1 DEF StationType, SameTask, SameVoice, SameRecord, SameState
<1>3. m.nav <= m.nav
  BY <1>1 DEF Ticks, Off
<1>4. CASE d > m.nav
  BY <1>1, <1>2, <1>4 DEF set_NAV, Ticks, Off
<1>5. CASE ~(d > m.nav)
  BY <1>3, <1>5 DEF set_NAV, SameTask, SameVoice, SameRecord, SameState
<1> QED
  BY <1>4, <1>5

LEMMA AirtimeType ==
  ASSUME NEW f, Proper(f)
  PROVE  Airtime(f) \in Nat
<1>1. f.type \in {"RTS", "CTS", "ACK", "DATA"}
  BY DEF Proper, Frame
<1>2. f.type = "DATA" => f.pkt.size \in Size
  BY DEF Proper, Packet
<1> QED
  BY <1>1, <1>2, RadioConstants DEF Airtime

(* A frame that starts while another is being received is an ACK, and      *)
(* spoils it.                                                              *)
LEMMA Transmits ==
  ASSUME NEW m \in StationType, m.backoff = Off => ~m.paused,
         NEW x \in {"RTS", "CTS", "SEND", "ACK"}, NEW f, Proper(f), NEW t \in Nat,
         m.rx # NoFrame => Proper(m.rx),
         m.rxs = "IDLE" => m.rx = NoFrame,
         m.rxs # "IDLE" => m.rx # NoFrame /\ f.type = "ACK"
  PROVE  LET n == transmit(SetTx(m, x), f, t)
         IN  /\ n \in StationType /\ Steady(n) /\ n.txs = x /\ n.send = t
             /\ n.active /\ n.ifc = Airtime(f) /\ n.out = f
             /\ SameTask(n, m) /\ SameRecord(n, m) /\ n.defer = m.defer
             /\ n.rxs = m.rxs /\ n.recv = m.recv /\ n.nav = m.nav
             /\ n.rx = NoFrame <=> m.rx = NoFrame
             /\ n.rx # NoFrame => n.rx = Spoiled(m.rx) /\ Proper(n.rx)
             /\ n.backoff = Off <=> m.backoff = Off
<1> DEFINE a == SetTx(m, x)
           A == Airtime(f)
           b == [a EXCEPT !.active = TRUE, !.send = t, !.ifc = A, !.out = f]
           g == Spoiled(a.rx)
           c == [b EXCEPT !.rx = g]
<1>1. /\ a \in StationType /\ Steady(a) /\ a.txs = x
      /\ SameTask(a, m) /\ SameEar(a, m) /\ SameVoice(a, m) /\ SameRecord(a, m)
      /\ a.send = m.send /\ a.defer = m.defer
      /\ a.backoff = Off <=> m.backoff = Off
  <2>1. x \in TxState
    BY DEF TxState
  <2> QED
    BY <2>1, TxChanges
<1>2. A \in Ticks /\ t \in Ticks
  BY AirtimeType DEF Ticks
<1>3. f \in Frame
  BY DEF Proper
<1>4. transmit(a, f, t) = IF a.rxs = "IDLE" THEN b
                          ELSE Asserting(f.type = "ACK" /\ a.rx # NoFrame, c)
  BY DEF transmit, Spoiled
<1> HIDE DEF a, A
<1>5. b \in StationType
  BY <1>1, <1>2, <1>3, ZenonT(60) DEF StationType
<1>6. /\ SameTask(b, a) /\ SameEar(b, a) /\ SameRecord(b, a)
      /\ b.txs = a.txs /\ b.send = t /\ b.defer = a.defer /\ b.backoff = a.backoff
      /\ b.paused = a.paused /\ b.active /\ b.ifc = A /\ b.out = f
  BY <1>1 DEF StationType, SameTask, SameEar, SameRecord
<1> HIDE DEF b
<1>7. Steady(b)
  BY <1>1, <1>6 DEF Steady, Idle, SameEar
<1>8. CASE m.rxs = "IDLE"
  <2>1. transmit(a, f, t) = b
    BY <1>1, <1>4, <1>8 DEF SameEar
  <2> QED
    BY <1>1, <1>5, <1>6, <1>7, <1>8, <2>1 DEF a, A, SameTask, SameEar, SameRecord
<1>9. CASE m.rxs # "IDLE"
  <2>1. transmit(a, f, t) = c
    BY <1>1, <1>4, <1>9 DEF SameEar, Asserting, Spoiled
  <2>2. a.rx = m.rx /\ Proper(a.rx) /\ m.rx # NoFrame
    BY <1>1, <1>9 DEF SameEar
  <2>3. g \in Frame /\ Proper(g)
    BY <2>2 DEF Proper, Frame, Spoiled
  <2>4. g # NoFrame
    BY <2>3 DEF Frame, NoFrame
  <2>5. g = Spoiled(m.rx)
    BY <2>2
  <2> HIDE DEF g
  <2>6. c \in StationType
    BY <1>5, <2>3 DEF StationType
  <2>7. /\ SameTask(c, b) /\ SameRecord(c, b) /\ SameVoice(c, b) /\ c.rx = g
        /\ c.rxs = b.rxs /\ c.recv = b.recv /\ c.nav = b.nav
        /\ c.txs = b.txs /\ c.send = b.send /\ c.defer = b.defer /\ c.backoff = b.backoff
        /\ c.paused = b.paused
    BY <1>5 DEF StationType, SameTask, SameVoice, SameRecord
  <2> HIDE DEF c
  <2>8. Steady(c)
    BY <1>7, <2>7 DEF Steady, Idle
  <2> QED
    BY <1>1, <1>6, <2>1, <2>2, <2>3, <2>4, <2>5, <2>6, <2>7, <2>8
       DEF a, A, SameTask, SameEar, SameVoice, SameRecord
<1> QED
  BY <1>8, <1>9

(* A timer that is started anew runs for SIFS at least. *)
Held(n, m) ==
  /\ n.defer \in {m.defer, Off} \/ n.defer >= SIFS
  /\ n.backoff = Off \/ n.backoff >= SIFS \/ (m.backoff # Off /\ n.backoff >= m.backoff)

LEMMA HeldStill ==
  ASSUME NEW m \in StationType, NEW n, n.defer \in {m.defer, Off}, n.backoff \in {m.backoff, Off}
  PROVE  Held(n, m)
BY DEF Held, StationType, Ticks, Off

LEMMA HeldTwice ==
  ASSUME NEW m \in StationType, NEW a \in StationType, NEW n \in StationType,
         Held(n, a), Held(a, m)
  PROVE  Held(n, m)
BY DEF Held, StationType, Ticks, Off, SIFS

LEMMA CheckHeld ==
  ASSUME NEW m \in StationType
  PROVE  Held(CheckBackoff(m), m)
<1> DEFINE b == m.backoff + DIFS
<1>1. CASE Idle(m) /\ m.paused
  <2>1. CheckBackoff(m) = [m EXCEPT !.paused = FALSE, !.backoff = b]
    BY <1>1 DEF CheckBackoff
  <2>2. b >= SIFS
    BY DEF StationType, Ticks, DIFS, SIFS, SlotTime, Off
  <2> HIDE DEF b
  <2>3. /\ CheckBackoff(m).defer = m.defer
        /\ CheckBackoff(m).backoff = b
    BY <2>1 DEF StationType
  <2> QED
    BY <2>2, <2>3 DEF Held
<1>2. CASE ~(Idle(m) /\ m.paused)
  <2>1. CheckBackoff(m) \in {m, [m EXCEPT !.paused = TRUE]}
    BY <1>2 DEF CheckBackoff
  <2>2. CheckBackoff(m).defer = m.defer /\ CheckBackoff(m).backoff = m.backoff
    BY <2>1 DEF StationType
  <2> QED
    BY <2>2, HeldStill
<1> QED
  BY <1>1, <1>2

LEMMA TxHeld ==
  ASSUME NEW m \in StationType, NEW x \in TxState
  PROVE  Held(SetTx(m, x), m)
<1> DEFINE a == [m EXCEPT !.txs = x]
<1>1. a \in StationType /\ a.defer = m.defer /\ a.backoff = m.backoff
  BY DEF StationType
<1>2. SetTx(m, x) = CheckBackoff(a)
  BY DEF SetTx
<1> HIDE DEF a
<1> QED
  BY <1>1, <1>2, CheckHeld DEF Held

LEMMA RxHeld ==
  ASSUME NEW m \in StationType, NEW x \in RxState
  PROVE  Held(SetRx(m, x), m)
<1> DEFINE a == [m EXCEPT !.rxs = x]
<1>1. a \in StationType /\ a.defer = m.defer /\ a.backoff = m.backoff
  BY DEF StationType
<1>2. SetRx(m, x) = CheckBackoff(a)
  BY DEF SetRx
<1> HIDE DEF a
<1> QED
  BY <1>1, <1>2, CheckHeld DEF Held

LEMMA BackoffHeld ==
  ASSUME NEW m \in StationType, NEW space \in {SIFS, DIFS}, NEW r \in Nat
  PROVE  Held(start_backoff(m, space, r), m)
<1> DEFINE b == (r % m.cw) * SlotTime + space
<1>1. b >= SIFS
  <2>1. m.cw \in Nat /\ m.cw > 0
    BY DEF StationType, CWmin, CWmax
  <2>2. r % m.cw \in Nat
    BY <2>1
  <2>3. space \in Nat /\ space >= SIFS
    BY DEF SIFS, DIFS, SlotTime
  <2> QED
    BY <2>2, <2>3 DEF SlotTime, SIFS
<1>2. start_backoff(m, space, r) = [m EXCEPT !.backoff = b, !.paused = ~Idle(m)]
  BY DEF start_backoff
<1> HIDE DEF b
<1>3. /\ start_backoff(m, space, r).backoff = b
      /\ start_backoff(m, space, r).defer = m.defer
  BY <1>2 DEF StationType
<1> QED
  BY <1>1, <1>3 DEF Held

(* An answer that waits for the medium is sent SIFS after the MAC resumes. *)
LEMMA ResumeHeld ==
  ASSUME NEW m \in StationType, m.backoff = Off => ~m.paused, m.send = Off
  PROVE  LET n == tx_resume(m)
         IN  Held(n, m) /\ (m.ctrl # NoFrame => n.defer = SIFS)
<1> DEFINE dt == CASE m.ctrl # NoFrame -> SIFS
                   [] m.ctrl = NoFrame /\ m.rts -> DIFS
                   [] OTHER -> IF Long(m.tx) THEN SIFS ELSE DIFS
           w == m.ctrl # NoFrame \/ ((m.rts \/ m.tx # NoPkt) /\ m.backoff = Off)
           d == IF w THEN dt ELSE m.defer
           a == [m EXCEPT !.defer = d]
<1>1. /\ dt \in {SIFS, DIFS}
      /\ m.ctrl # NoFrame => dt = SIFS
  OBVIOUS
<1>2. tx_resume(m) = SetTx(a, "IDLE")
  <2>1. CASE w
    BY <2>1 DEF tx_resume, Asserting
  <2>2. CASE ~w
    <3>1. a = m
      BY <2>2 DEF StationType
    <3>2. tx_resume(m) = SetTx(m, "IDLE")
      BY <2>2 DEF tx_resume, Asserting
    <3> QED
      BY <3>1, <3>2
  <2> QED
    BY <2>1, <2>2
<1> HIDE DEF dt
<1>3. /\ d \in Ticks
      /\ d = m.defer \/ d >= SIFS
      /\ m.ctrl # NoFrame => d = SIFS
  <2>1. m.defer \in Ticks
    BY DEF StationType
  <2> QED
    BY <1>1, <2>1 DEF SIFS, DIFS, SlotTime, Ticks
<1> HIDE DEF d
<1>4. /\ a \in StationType /\ a.defer = d /\ a.backoff = m.backoff /\ a.paused = m.paused
  BY <1>3 DEF StationType
<1> HIDE DEF a
<1>5. SetTx(a, "IDLE") \in StationType /\ SetTx(a, "IDLE").defer = a.defer
  BY <1>4, TxChanges DEF TxState
<1>6. Held(SetTx(a, "IDLE"), a)
  BY <1>4, TxHeld DEF TxState
<1>7. Held(a, m)
  BY <1>3, <1>4, HeldStill DEF Held, StationType, Ticks
<1> QED
  BY <1>2, <1>3, <1>4, <1>5, <1>6, <1>7, HeldTwice

LEMMA TransmitHeld ==
  ASSUME NEW m \in StationType, m.backoff = Off => ~m.paused, NEW x \in TxState,
         NEW f, NEW t
  PROVE  Held(transmit(SetTx(m, x), f, t), m)
<1> DEFINE a == SetTx(m, x)
           n == transmit(a, f, t)
<1>1. a \in StationType => n.defer = a.defer /\ n.backoff = a.backoff
  BY DEF transmit, Asserting, StationType
<1>2. Held(a, m)
  BY TxHeld
<1>3. a \in StationType
  BY TxChanges
<1> HIDE DEF a, n
<1> QED
  BY <1>1, <1>2, <1>3 DEF Held, a, n

-----------------------------------------------------------------------------
(* What the assertions of the handlers rely on. *)

Hears(m) == /\ m.rxs = "IDLE" <=> m.rx = NoFrame
            /\ m.rxs = "IDLE" <=> m.recv = Off
            /\ m.rx # NoFrame => Proper(m.rx)

Speaks(m) == m.active <=> m.ifc # Off

(* An answer waits for its SIFS, or for the end of what is being sent. *)
Answers(m) ==
  /\ m.ctrl # NoFrame => /\ Proper(m.ctrl) /\ m.ctrl.type \in {"CTS", "ACK"}
                         /\ m.ctrl.from = m.me
                         /\ m.defer # Off \/ m.txs # "IDLE"
  /\ m.txs \in {"CTS", "ACK"} => m.ctrl # NoFrame

Sends(m) ==
  /\ m.txs = "IDLE" <=> m.send = Off
  /\ m.rts => m.tx # NoPkt
  /\ m.txs \in {"RTS", "SEND"} => /\ m.tx # NoPkt /\ m.backoff = Off
                                  /\ m.rts <=> m.txs = "RTS"

(* The deferral and the backoff run together for an answer only. *)
Defers(m) ==
  m.defer # Off => /\ m.txs = "IDLE"
                   /\ m.ctrl # NoFrame \/ (m.backoff = Off /\ m.tx # NoPkt)

(* BackoffFrozen, for one station. *)
Frozen(m) ==
  /\ m.backoff # Off => (m.paused <=> ~Idle(m)) \/ (m.paused /\ m.nav = 0)
  /\ m.backoff = Off => ~m.paused

(* Who sends a broadcast takes no acknowledgement for it: whatever began   *)
(* to arrive meanwhile is spoilt, and the interface is busy to the end.    *)
Announces(m) ==
  m.txs = "SEND" /\ ~Unicast(m.tx) => /\ m.rx # NoFrame => m.rx.err
                                      /\ m.active => m.ifc = m.send
                                      /\ ~m.active => m.send = 0

Sound(m) == /\ m \in StationType /\ ~m.fault
            /\ Hears(m) /\ Speaks(m) /\ Answers(m) /\ Sends(m) /\ Defers(m)
            /\ Frozen(m) /\ Announces(m)

(* The time for the acknowledgement is over. *)
Unanswered(m) == m.txs = "SEND" /\ m.send = 0 /\ Unicast(m.tx)

(* From m to n the MAC goes on with its packet; a packet is sent as a      *)
(* first try at most once.                                                 *)
Advances(n, m) ==
  /\ n.me = m.me /\ n.seq = m.seq /\ n.tx \in {m.tx, NoPkt}
  /\ n.retry = m.retry \/ (n.retry /\ Unanswered(m))
  /\ m.txs = "SEND" => IF n.txs = "SEND" THEN n.send = m.send /\ n.tx = m.tx
                                                /\ n.retry = m.retry
                       ELSE n.retry \/ n.tx = NoPkt
  /\ m.txs # "SEND" /\ n.txs = "SEND" =>
       /\ n.out = DataFrame(m) /\ n.tx = m.tx /\ m.tx # NoPkt
       /\ Unicast(m.tx) => n.send = ACKTimeout(m.tx)
  /\ n.out # NoFrame => /\ Proper(n.out) /\ n.out.from = m.me
                        /\ n.out.type = "DATA" => m.txs # "SEND" /\ n.txs = "SEND"

(* Nothing else is heard from m to n, though what is may be spoilt. *)
Overhears(n, m) ==
  /\ n.cache = m.cache /\ n.up = m.up /\ n.recv = m.recv
  /\ n.rx = m.rx \/ (m.rx # NoFrame /\ n.rx = Spoiled(m.rx))

LEMMA OwnFrames ==
  ASSUME NEW m \in StationType, m.tx # NoPkt
  PROVE  /\ Proper(RTSFrame(m)) /\ RTSFrame(m).from = m.me /\ RTSFrame(m).type = "RTS"
         /\ Proper(DataFrame(m)) /\ DataFrame(m).from = m.me
         /\ DataFrame(m).type = "DATA"
<1>1. /\ m.me \in Station /\ m.tx \in Packet /\ m.seq \in Nat /\ m.retry \in BOOLEAN
  BY DEF StationType
<1>2. m.tx.size \in Size /\ m.tx.to \in Station \cup {Broadcast}
  BY <1>1 DEF Packet
<1>3. DataTime[m.tx.size] \in Nat /\ DataTime[m.tx.size] > HdrTime /\ HdrTime \in Nat
      /\ CtlTime \in Nat
  BY <1>2, RadioConstants
<1> DEFINE d == 3 * SIFS + 2 * CtlTime + DataTime[m.tx.size] - HdrTime
           e == IF Unicast(m.tx) THEN CtlTime + SIFS ELSE 0
<1>4. d \in Nat /\ d >= CtlTime + SIFS /\ e \in Nat
  BY <1>3 DEF SIFS
<1>5. RTSFrame(m) = [type |-> "RTS", from |-> m.me, to |-> m.tx.to, dur |-> d,
                     pkt |-> NoPkt, seq |-> 0, retry |-> FALSE, err |-> FALSE]
  BY DEF RTSFrame, Control
<1>6. DataFrame(m) = [type |-> "DATA", from |-> m.me, to |-> m.tx.to, dur |-> e,
                      pkt |-> m.tx, seq |-> m.seq, retry |-> m.retry, err |-> FALSE]
  BY DEF DataFrame
<1> HIDE DEF d, e
<1>7. RTSFrame(m) \in Frame /\ DataFrame(m) \in Frame
  BY <1>1, <1>2, <1>4, <1>5, <1>6 DEF Frame
<1> QED
  BY <1>1, <1>4, <1>5, <1>6, <1>7 DEF Proper

LEMMA RTSPrepared ==
  ASSUME NEW m \in StationType, m.tx # NoPkt, ~m.rts
  PROVE  LET n == sendRTS(m)
         IN  /\ n \in StationType /\ SameState(n, m)
             /\ SameEar(n, m) /\ SameVoice(n, m) /\ SameRecord(n, m)
             /\ n.me = m.me /\ n.ctrl = m.ctrl /\ n.tx = m.tx /\ n.seq = m.seq
             /\ n.retry = m.retry
<1> DEFINE l == m.rts \/ (Long(m.tx) /\ Unicast(m.tx))
           n == [m EXCEPT !.rts = l]
<1>1. sendRTS(m) = n
  BY DEF sendRTS, Asserting
<1>2. l \in BOOLEAN
  BY DEF Long, Unicast, StationType
<1> HIDE DEF l
<1>3. n \in StationType
  BY <1>2 DEF StationType
<1>4. /\ SameState(n, m) /\ SameEar(n, m) /\ SameVoice(n, m) /\ SameRecord(n, m)
      /\ n.me = m.me /\ n.ctrl = m.ctrl /\ n.tx = m.tx /\ n.seq = m.seq
      /\ n.retry = m.retry
  BY DEF StationType, SameState, SameEar, SameVoice, SameRecord
<1> QED
  BY <1>1, <1>3, <1>4

-----------------------------------------------------------------------------
(* The handlers of the timers, each called with its own timer reset. *)

(* The MAC waits for nothing but its own packet. *)
Own(m) == /\ m \in StationType /\ ~m.fault /\ Hears(m) /\ Speaks(m)
          /\ m.txs = "IDLE" /\ m.send = Off /\ m.defer = Off /\ m.backoff = Off
          /\ ~m.paused /\ m.ctrl = NoFrame /\ m.out = NoFrame
          /\ m.rts => m.tx # NoPkt

LEMMA OwnTransmits ==
  ASSUME NEW m, Own(m), m.rxs = "IDLE", m.tx # NoPkt,
         NEW x \in {"RTS", "SEND"}, m.rts <=> x = "RTS", NEW t \in Nat, NEW f,
         \/ x = "RTS" /\ f = RTSFrame(m)
         \/ /\ x = "SEND" /\ f = DataFrame(m)
            /\ Unicast(m.tx) => t = ACKTimeout(m.tx)
            /\ ~Unicast(m.tx) => t = Airtime(f)
  PROVE  LET n == transmit(SetTx(m, x), f, t)
         IN  Sound(n) /\ Advances(n, m) /\ Overhears(n, m) /\ ~Stuck(n)
<1> DEFINE n == transmit(SetTx(m, x), f, t)
<1>1. Proper(f) /\ f.from = m.me /\ (f.type = "DATA" <=> x = "SEND")
  BY OwnFrames DEF Own
<1>2. /\ n \in StationType /\ Steady(n) /\ n.txs = x /\ n.send = t
      /\ n.active /\ n.ifc = Airtime(f) /\ n.out = f
      /\ SameTask(n, m) /\ SameRecord(n, m) /\ n.defer = m.defer
      /\ n.rxs = m.rxs /\ n.recv = m.recv /\ n.nav = m.nav
      /\ n.rx = NoFrame <=> m.rx = NoFrame
      /\ n.backoff = Off <=> m.backoff = Off
  <2>1. x \in {"RTS", "CTS", "SEND", "ACK"}
    OBVIOUS
  <2>2. /\ m \in StationType /\ ~m.paused
        /\ m.rx # NoFrame => Proper(m.rx)
        /\ m.rxs = "IDLE" => m.rx = NoFrame
    BY DEF Own, Hears
  <2>3. /\ m.backoff = Off => ~m.paused
        /\ m.rxs # "IDLE" => m.rx # NoFrame /\ f.type = "ACK"
    BY <2>2
  <2> QED
    BY <1>1, <2>1, <2>2, <2>3, Transmits
<1>3. Airtime(f) \in Nat
  BY <1>1, AirtimeType
<1> HIDE DEF n
<1>4. n.rx = NoFrame /\ m.rx = NoFrame
  BY <1>2 DEF Own, Hears
<1>5. Hears(n) /\ Speaks(n)
  BY <1>2, <1>3, <1>4 DEF Own, Hears, Speaks, Off
<1>6. Answers(n) /\ Defers(n) /\ Frozen(n)
  BY <1>2 DEF Own, Answers, Defers, Frozen, Steady, SameTask
<1>7. Sends(n)
  BY <1>2 DEF Own, Sends, SameTask, Off
<1>8. Announces(n)
  BY <1>2, <1>4 DEF Announces, SameTask
<1>9. Advances(n, m)
  BY <1>1, <1>2 DEF Own, Advances, SameTask
<1>10. Overhears(n, m) /\ ~Stuck(n) /\ ~n.fault
  BY <1>2, <1>4 DEF Own, Overhears, Stuck, SameRecord, Off
<1> QED
  BY <1>2, <1>5, <1>6, <1>7, <1>8, <1>9, <1>10 DEF Sound, n

LEMMA OwnBacksOff ==
  ASSUME NEW m, Own(m), m.tx # NoPkt, NEW a \in StationType,
         SameState(a, m), SameEar(a, m), SameVoice(a, m), SameRecord(a, m),
         a.me = m.me, a.ctrl = m.ctrl, a.tx = m.tx, a.seq = m.seq, a.retry = m.retry,
         NEW space \in {SIFS, DIFS}, NEW r \in Nat
  PROVE  LET n == start_backoff(a, space, r)
         IN  Sound(n) /\ Advances(n, m) /\ Overhears(n, m) /\ ~Stuck(n)
<1> DEFINE n == start_backoff(a, space, r)
<1>1. /\ n \in StationType /\ Steady(n) /\ n.backoff # Off
      /\ SameTask(n, a) /\ SameEar(n, a) /\ SameVoice(n, a) /\ SameRecord(n, a)
      /\ n.txs = a.txs /\ n.send = a.send /\ n.defer = a.defer
  BY BackoffStarts
<1> HIDE DEF n
<1>2. Hears(n) /\ Speaks(n)
  BY <1>1 DEF Own, Hears, Speaks, SameEar, SameVoice
<1>3. Answers(n) /\ Defers(n) /\ Frozen(n) /\ Sends(n) /\ Announces(n)
  BY <1>1 DEF Own, Answers, Defers, Frozen, Sends, Announces, Steady, SameTask, SameState
<1>4. Advances(n, m)
  BY <1>1 DEF Own, Advances, SameTask, SameState, SameVoice
<1>5. Overhears(n, m) /\ ~Stuck(n) /\ ~n.fault
  BY <1>1 DEF Own, Overhears, Stuck, SameRecord, SameEar
<1> QED
  BY <1>1, <1>2, <1>3, <1>4, <1>5 DEF Sound, n

LEMMA OwnFrameGoesOn ==
  ASSUME NEW m, Own(m), NEW r \in Nat
  PROVE  LET n == check_own(m, r)
         IN  Sound(n) /\ Advances(n, m) /\ Overhears(n, m) /\ ~Stuck(n)
<1>0. m \in StationType
  BY DEF Own
<1>1. CASE m.rts /\ ~Idle(m)
  <2>1. check_own(m, r) = start_backoff(inc_CW(m), DIFS, r)
    BY <1>1 DEF check_own
  <2>2. inc_CW(m) \in StationType /\ Same(inc_CW(m), m) /\ SameState(inc_CW(m), m)
    BY <1>0, WindowChanges
  <2> QED
    BY <1>1, <2>1, <2>2, OwnBacksOff DEF Same, SameTask, Own
<1>2. CASE m.rts /\ Idle(m)
  <2>1. check_own(m, r) = transmit(SetTx(m, "RTS"), RTSFrame(m), CTSTimeout)
    BY <1>2 DEF check_own
  <2>2. CTSTimeout \in Nat
    BY RadioConstants DEF CTSTimeout, SIFS
  <2>3. m.tx # NoPkt /\ m.rxs = "IDLE"
    BY <1>2 DEF Own, Idle
  <2> QED
    BY <1>2, <2>1, <2>2, <2>3, OwnTransmits
<1>3. CASE ~m.rts /\ m.tx # NoPkt /\ ~Idle(m)
  <2> DEFINE a == sendRTS(m)
             b == inc_CW(a)
  <2>1. check_own(m, r) = start_backoff(b, Space(m.tx), r)
    BY <1>3 DEF check_own
  <2>2. /\ a \in StationType /\ SameState(a, m)
        /\ SameEar(a, m) /\ SameVoice(a, m) /\ SameRecord(a, m)
        /\ a.me = m.me /\ a.ctrl = m.ctrl /\ a.tx = m.tx /\ a.seq = m.seq
        /\ a.retry = m.retry
    BY <1>0, <1>3, RTSPrepared
  <2> HIDE DEF a
  <2>3. b \in StationType /\ Same(b, a) /\ SameState(b, a)
    BY <2>2, WindowChanges
  <2>4. Space(m.tx) \in {SIFS, DIFS}
    BY DEF Space
  <2> HIDE DEF b
  <2>5. /\ SameState(b, m) /\ SameEar(b, m) /\ SameVoice(b, m) /\ SameRecord(b, m)
        /\ b.me = m.me /\ b.ctrl = m.ctrl /\ b.tx = m.tx /\ b.seq = m.seq
        /\ b.retry = m.retry
    BY <2>2, <2>3 DEF Same, SameTask, SameState, SameEar, SameVoice, SameRecord
  <2> QED
    BY <1>3, <2>1, <2>3, <2>4, <2>5, OwnBacksOff
<1>4. CASE ~m.rts /\ m.tx # NoPkt /\ Idle(m)
  <2> DEFINE t == IF Unicast(m.tx) THEN ACKTimeout(m.tx) ELSE DataTime[m.tx.size]
  <2>1. check_own(m, r) = transmit(SetTx(m, "SEND"), DataFrame(m), t)
    BY <1>4 DEF check_own
  <2>2. m.tx.size \in Size
    BY <1>0, <1>4 DEF StationType, Packet
  <2>3. t \in Nat
    BY <2>2, RadioConstants DEF ACKTimeout, SIFS, DIFS, SlotTime
  <2>4. Airtime(DataFrame(m)) = DataTime[m.tx.size]
    BY DEF Airtime, DataFrame
  <2>5. m.rxs = "IDLE"
    BY <1>4 DEF Idle
  <2>6. /\ Unicast(m.tx) => t = ACKTimeout(m.tx)
        /\ ~Unicast(m.tx) => t = Airtime(DataFrame(m))
    BY <2>4
  <2> HIDE DEF t
  <2> QED
    BY <1>4, <2>1, <2>3, <2>5, <2>6, OwnTransmits
<1>5. CASE ~m.rts /\ m.tx = NoPkt
  <2>1. check_own(m, r) = m
    BY <1>5 DEF check_own
  <2>2. m.tx \in Packet \cup {NoPkt} /\ m.retry \in BOOLEAN
    BY <1>0 DEF StationType
  <2>3. Sound(m)
    BY DEF Own, Sound, Answers, Sends, Defers, Frozen, Announces
  <2>4. Advances(m, m) /\ Overhears(m, m) /\ ~Stuck(m)
    BY <1>5, <2>2 DEF Own, Advances, Overhears, Stuck
  <2> QED
    BY <2>1, <2>3, <2>4
<1> QED
  BY <1>0, <1>1, <1>2, <1>3, <1>4, <1>5 DEF StationType

(* The station between two events. *)
Ready(m) == Sound(m) /\ m.out = NoFrame /\ m.up = NoPkt

Handled(n, m) == Sound(n) /\ Advances(n, m) /\ Overhears(n, m)

LEMMA NavHandled ==
  ASSUME NEW m, Ready(m), m.nav = 0
  PROVE  LET n == navHandler([m EXCEPT !.nav = Off])
         IN  Handled(n, m) /\ (Stuck(n) => Stuck(m))
<1> DEFINE a == [m EXCEPT !.nav = Off]
           b == a.backoff + DIFS
           c == [a EXCEPT !.paused = FALSE, !.backoff = b]
<1>0. m \in StationType /\ ~m.fault /\ m.out = NoFrame
  BY DEF Ready, Sound
<1>1. a \in StationType
  <2>1. Off \in Ticks
    BY DEF Ticks
  <2> QED
    BY <1>0, <2>1 DEF StationType
<1>2. /\ SameTask(a, m) /\ SameVoice(a, m) /\ SameRecord(a, m) /\ SameState(a, m)
      /\ a.rxs = m.rxs /\ a.rx = m.rx /\ a.recv = m.recv /\ a.nav = Off
  BY <1>0 DEF StationType, SameTask, SameVoice, SameRecord, SameState
<1>3. navHandler(a) = IF Idle(a) /\ a.paused THEN c ELSE a
  BY DEF navHandler
<1> HIDE DEF a
<1>4. Idle(a) <=> Idle(m)
  BY <1>2 DEF Idle, SameState, Off
<1>5. CASE Idle(a) /\ a.paused
  <2>1. a.backoff # Off /\ b \in Nat
    BY <1>0, <1>1, <1>2, <1>5 DEF Ready, Sound, Frozen, SameState, StationType, Ticks,
       DIFS, SIFS, SlotTime, Off
  <2>2. b \in Ticks /\ b # Off
    BY <2>1 DEF Ticks, Off
  <2> HIDE DEF b
  <2>3. c \in StationType
    BY <1>1, <2>2 DEF StationType
  <2>4. /\ SameTask(c, m) /\ SameVoice(c, m) /\ SameRecord(c, m)
        /\ c.rxs = m.rxs /\ c.rx = m.rx /\ c.recv = m.recv /\ c.nav = Off
        /\ c.txs = m.txs /\ c.send = m.send /\ c.defer = m.defer
        /\ c.backoff # Off /\ ~c.paused
    BY <1>1, <1>2, <2>2 DEF StationType, SameTask, SameVoice, SameRecord, SameState
  <2>5. navHandler(a) = c
    BY <1>3, <1>5
  <2> HIDE DEF c
  <2>6. m.backoff # Off
    BY <1>2, <2>1 DEF SameState
  <2>7. Hears(c) /\ Speaks(c) /\ Answers(c) /\ Sends(c) /\ Defers(c) /\ Announces(c)
    BY <2>4, <2>6 DEF Ready, Sound, Hears, Speaks, Answers, Sends, Defers, Announces,
       SameTask, SameVoice
  <2>8. Frozen(c)
    BY <1>2, <1>5, <2>4 DEF Frozen, Idle, SameState
  <2>9. Advances(c, m) /\ Overhears(c, m) /\ (Stuck(c) => Stuck(m)) /\ ~c.fault
    BY <1>0, <2>4 DEF Advances, Overhears, SameTask, SameVoice, SameRecord, Stuck,
       StationType
  <2> QED
    BY <2>3, <2>5, <2>7, <2>8, <2>9 DEF Handled, Sound, a
<1>6. CASE ~(Idle(a) /\ a.paused)
  <2>1. Hears(a) /\ Speaks(a) /\ Answers(a) /\ Sends(a) /\ Defers(a) /\ Announces(a)
    BY <1>2 DEF Ready, Sound, Hears, Speaks, Answers, Sends, Defers, Announces,
       SameTask, SameVoice, SameState
  <2>2. Frozen(a)
    BY <1>0, <1>2, <1>4, <1>6 DEF Ready, Sound, Frozen, SameState, StationType
  <2>3. Advances(a, m) /\ Overhears(a, m) /\ (Stuck(a) => Stuck(m)) /\ ~a.fault
    BY <1>0, <1>2 DEF Advances, Overhears, SameTask, SameVoice, SameRecord, SameState,
       Stuck, StationType
  <2> QED
    BY <1>1, <1>3, <1>6, <2>1, <2>2, <2>3 DEF Handled, Sound, a
<1> QED
  BY <1>5, <1>6

(* The interface is done with the frame. *)
LEMMA InterfaceHandled ==
  ASSUME NEW m, Ready(m), m.ifc = 0
  PROVE  LET n == txHandler([m EXCEPT !.ifc = Off])
         IN  Handled(n, m) /\ (Stuck(n) => Stuck(m)) /\ ~n.active
             /\ n.txs = m.txs /\ n.tx = m.tx /\ n.send = m.send
<1> DEFINE n == [m EXCEPT !.ifc = Off, !.active = FALSE]
<1>0. m \in StationType /\ ~m.fault /\ m.out = NoFrame /\ Off \in Ticks
  BY DEF Ready, Sound, Ticks
<1>1. n \in StationType
  <2>1. m \in StationType /\ Off \in Ticks
    BY <1>0
  <2> QED
    BY <2>1 DEF StationType
<1>2. /\ SameTask(n, m) /\ SameEar(n, m) /\ SameRecord(n, m) /\ SameState(n, m)
      /\ n.ifc = Off /\ ~n.active /\ n.out = m.out
  BY <1>0 DEF StationType, SameTask, SameEar, SameRecord, SameState
<1>3. txHandler([m EXCEPT !.ifc = Off]) = n
  BY DEF txHandler
<1> HIDE DEF n
<1>4. Hears(n) /\ Speaks(n) /\ Answers(n) /\ Sends(n) /\ Defers(n) /\ Frozen(n)
  BY <1>2 DEF Ready, Sound, Hears, Speaks, Answers, Sends, Defers, Frozen, Idle,
     SameTask, SameEar, SameState
<1>5. Announces(n)
  BY <1>2 DEF Ready, Sound, Announces, Speaks, SameTask, SameEar, SameState, Off
<1>6. Advances(n, m) /\ Overhears(n, m) /\ (Stuck(n) => Stuck(m)) /\ ~n.fault
  BY <1>0, <1>2 DEF Advances, Overhears, SameTask, SameEar, SameRecord, SameState, Stuck,
     StationType
<1> QED
  BY <1>1, <1>2, <1>3, <1>4, <1>5, <1>6 DEF Handled, Sound, SameTask, SameState

(* An answer whose SIFS is over. *)
LEMMA AnswerHandled ==
  ASSUME NEW m, m \in StationType, ~m.fault, m.out = NoFrame,
         Hears(m), Speaks(m), Frozen(m), Sends(m),
         m.txs = "IDLE", m.defer = Off, m.ctrl # NoFrame, Proper(m.ctrl),
         m.ctrl.type \in {"CTS", "ACK"}, m.ctrl.from = m.me
  PROVE  LET n == check_pktCTRL(m)
         IN  /\ Handled(n, m)
             /\ Stuck(n) => m.ctrl.type = "CTS" /\ ~Idle(m)
<1>1. ASSUME NEW x \in {"CTS", "ACK"}, NEW t \in Nat,
             m.rxs # "IDLE" => m.ctrl.type = "ACK"
      PROVE  LET n == transmit(SetTx(m, x), m.ctrl, t)
             IN  Handled(n, m) /\ ~Stuck(n)
  <2> DEFINE n == transmit(SetTx(m, x), m.ctrl, t)
             f == m.ctrl
  <2>1. /\ m.backoff = Off => ~m.paused
        /\ m.rx # NoFrame => Proper(m.rx)
        /\ m.rxs = "IDLE" => m.rx = NoFrame
        /\ m.rxs # "IDLE" => m.rx # NoFrame /\ f.type = "ACK"
    BY <1>1 DEF Frozen, Hears
  <2>2. x \in {"RTS", "CTS", "SEND", "ACK"}
    OBVIOUS
  <2>3. /\ n \in StationType /\ Steady(n) /\ n.txs = x /\ n.send = t
        /\ n.active /\ n.ifc = Airtime(f) /\ n.out = f
        /\ SameTask(n, m) /\ SameRecord(n, m) /\ n.defer = m.defer
        /\ n.rxs = m.rxs /\ n.recv = m.recv /\ n.nav = m.nav
        /\ n.rx = NoFrame <=> m.rx = NoFrame
        /\ n.rx # NoFrame => n.rx = Spoiled(m.rx) /\ Proper(n.rx)
        /\ n.backoff = Off <=> m.backoff = Off
    BY <2>1, <2>2, Transmits
  <2>4. Airtime(f) \in Nat
    BY AirtimeType
  <2> HIDE DEF n
  <2>5. Hears(n) /\ Speaks(n)
    BY <2>3, <2>4 DEF Hears, Speaks, Off
  <2>6. Answers(n) /\ Defers(n) /\ Frozen(n) /\ Announces(n)
    BY <2>3 DEF Answers, Defers, Frozen, Announces, Steady, SameTask
  <2>7. Sends(n)
    BY <2>3 DEF Sends, SameTask, Off
  <2>8. Advances(n, m)
    BY <2>3 DEF Advances, SameTask
  <2>9. Overhears(n, m) /\ ~Stuck(n) /\ ~n.fault
    BY <2>3 DEF Overhears, Stuck, SameRecord, Off
  <2> QED
    BY <2>3, <2>5, <2>6, <2>7, <2>8, <2>9 DEF Handled, Sound, n
<1>2. CtlTime \in Nat /\ m.ctrl.dur \in Nat /\ m.ctrl.dur + CtlTime \in Nat
  BY RadioConstants DEF Proper, Frame
<1>3. CASE m.ctrl.type = "ACK"
  BY <1>1, <1>2, <1>3 DEF check_pktCTRL
<1>4. CASE m.ctrl.type = "CTS" /\ Idle(m)
  <2>1. check_pktCTRL(m) = transmit(SetTx(m, "CTS"), m.ctrl, m.ctrl.dur + CtlTime)
    BY <1>4 DEF check_pktCTRL
  <2>2. m.rxs = "IDLE"
    BY <1>4 DEF Idle
  <2> QED
    BY <1>1, <1>2, <1>4, <2>1, <2>2
<1>5. CASE m.ctrl.type = "CTS" /\ ~Idle(m)
  <2> DEFINE n == [m EXCEPT !.ctrl = NoFrame]
  <2>1. n \in StationType
    BY DEF StationType
  <2>2. /\ SameState(n, m) /\ SameEar(n, m) /\ SameVoice(n, m) /\ SameRecord(n, m)
        /\ n.me = m.me /\ n.ctrl = NoFrame /\ n.tx = m.tx /\ n.seq = m.seq
        /\ n.retry = m.retry /\ n.rts = m.rts
    BY DEF StationType, SameState, SameEar, SameVoice, SameRecord
  <2>3. check_pktCTRL(m) = n
    BY <1>5 DEF check_pktCTRL
  <2> HIDE DEF n
  <2>4. Hears(n) /\ Speaks(n) /\ Frozen(n) /\ Sends(n) /\ Answers(n) /\ Defers(n)
        /\ Announces(n)
    BY <2>2 DEF Hears, Speaks, Frozen, Sends, Answers, Defers, Announces, Idle,
       SameState, SameEar, SameVoice
  <2>5. Advances(n, m) /\ Overhears(n, m) /\ ~n.fault
    BY <2>2 DEF Advances, Overhears, SameState, SameEar, SameVoice, SameRecord,
       StationType
  <2> QED
    BY <1>5, <2>1, <2>3, <2>4, <2>5 DEF Handled, Sound
<1> QED
  BY <1>3, <1>4, <1>5 DEF Idle

LEMMA DeferHandled ==
  ASSUME NEW m, Ready(m), m.defer = 0, NEW r \in Nat
  PROVE  LET n == deferHandler([m EXCEPT !.defer = Off], r)
         IN  /\ Handled(n, m)
             /\ Stuck(n) => m.ctrl # NoFrame /\ m.ctrl.type = "CTS"
<1> DEFINE a == [m EXCEPT !.defer = Off]
<1>0. m \in StationType /\ ~m.fault /\ m.out = NoFrame
  BY DEF Ready, Sound
<1>1. a \in StationType
  <2>1. Off \in Ticks
    BY DEF Ticks
  <2> QED
    BY <1>0, <2>1 DEF StationType
<1>2. /\ SameTask(a, m) /\ SameEar(a, m) /\ SameVoice(a, m) /\ SameRecord(a, m)
      /\ a.txs = m.txs /\ a.send = m.send /\ a.backoff = m.backoff
      /\ a.paused = m.paused /\ a.defer = Off
  BY <1>0 DEF StationType, SameTask, SameEar, SameVoice, SameRecord
<1>3. m.txs = "IDLE" /\ (m.ctrl # NoFrame \/ (m.backoff = Off /\ m.tx # NoPkt))
  BY DEF Ready, Sound, Defers, Off
<1> HIDE DEF a
<1>4. Hears(a) /\ Speaks(a) /\ Frozen(a) /\ Sends(a)
  BY <1>2 DEF Ready, Sound, Hears, Speaks, Frozen, Sends, Idle, SameTask, SameEar,
     SameVoice
<1>5. \A n : Advances(n, a) /\ Overhears(n, a) => Advances(n, m) /\ Overhears(n, m)
  BY <1>2, <1>3 DEF Advances, Unanswered, Overhears, DataFrame, SameTask,
     SameEar, SameRecord
<1>6. CASE m.ctrl # NoFrame
  <2>1. deferHandler(a, r) = check_pktCTRL(a)
    BY <1>2, <1>3, <1>6 DEF deferHandler, SameTask
  <2>2. /\ a.txs = "IDLE" /\ a.ctrl # NoFrame /\ Proper(a.ctrl) /\ ~a.fault
        /\ a.ctrl.type \in {"CTS", "ACK"} /\ a.ctrl.from = a.me /\ a.out = NoFrame
    BY <1>0, <1>2, <1>3, <1>6 DEF Ready, Sound, Answers, SameTask, SameRecord, SameVoice
  <2>3. LET n == check_pktCTRL(a)
        IN  Handled(n, a) /\ (Stuck(n) => a.ctrl.type = "CTS")
    BY <1>1, <1>2, <1>4, <2>2, AnswerHandled
  <2> QED
    BY <1>2, <1>5, <1>6, <2>1, <2>3 DEF Handled, SameTask, a
<1>7. CASE m.ctrl = NoFrame
  <2>1. m.backoff = Off /\ m.tx # NoPkt /\ a.backoff = Off /\ a.tx # NoPkt
        /\ a.ctrl = NoFrame
    BY <1>2, <1>3, <1>7 DEF SameTask
  <2>2. deferHandler(a, r) = check_own(a, r)
    BY <2>1 DEF deferHandler, Asserting
  <2>3. Own(a)
    BY <1>0, <1>1, <1>2, <1>3, <1>4, <2>1 DEF Own, Frozen, Sends, SameRecord, SameVoice
  <2>4. LET n == check_own(a, r)
        IN  Sound(n) /\ Advances(n, a) /\ Overhears(n, a) /\ ~Stuck(n)
    BY <2>3, OwnFrameGoesOn
  <2> QED
    BY <1>5, <2>2, <2>4 DEF Handled, a
<1> QED
  BY <1>6, <1>7

LEMMA BackoffHandled ==
  ASSUME NEW m, Ready(m), m.backoff = 0, ~m.paused, NEW r \in Nat
  PROVE  LET n == backoffHandler([m EXCEPT !.backoff = Off], r)
         IN  Handled(n, m) /\ ~Stuck(n)
<1> DEFINE a == [m EXCEPT !.backoff = Off]
<1>0. m \in StationType /\ ~m.fault /\ m.out = NoFrame
  BY DEF Ready, Sound
<1>1. a \in StationType
  <2>1. Off \in Ticks
    BY DEF Ticks
  <2> QED
    BY <1>0, <2>1 DEF StationType
<1>2. /\ SameTask(a, m) /\ SameEar(a, m) /\ SameVoice(a, m) /\ SameRecord(a, m)
      /\ a.txs = m.txs /\ a.send = m.send /\ a.defer = m.defer
      /\ a.paused = m.paused /\ a.backoff = Off
  BY <1>0 DEF StationType, SameTask, SameEar, SameVoice, SameRecord
<1>3. Idle(m) /\ m.backoff # Off
  BY DEF Ready, Sound, Frozen, Off
<1>4. m.txs = "IDLE" /\ m.rxs = "IDLE"
  BY <1>3 DEF Idle
<1> HIDE DEF a
<1>5. Hears(a) /\ Speaks(a) /\ Frozen(a) /\ Sends(a)
  BY <1>2, <1>4 DEF Ready, Sound, Hears, Speaks, Frozen, Sends, SameTask, SameEar, SameVoice
<1>6. \A n : Advances(n, a) /\ Overhears(n, a) => Advances(n, m) /\ Overhears(n, m)
  BY <1>2, <1>4 DEF Advances, Unanswered, Overhears, DataFrame, SameTask,
     SameEar, SameRecord
<1>7. CASE m.ctrl # NoFrame
  <2>1. m.defer # Off
    BY <1>4, <1>7 DEF Ready, Sound, Answers
  <2>2. backoffHandler(a, r) = a
    BY <1>2, <1>7, <2>1 DEF backoffHandler, Asserting, SameTask
  <2>3. Answers(a) /\ Defers(a) /\ Announces(a)
    BY <1>2, <1>4, <1>7 DEF Ready, Sound, Answers, Defers, Announces, SameTask
  <2>4. Advances(a, m) /\ Overhears(a, m) /\ ~Stuck(a) /\ ~a.fault
    BY <1>0, <1>2, <1>4, <2>1 DEF Advances, Overhears, SameTask, SameEar, SameVoice,
       SameRecord, Stuck, StationType
  <2> QED
    BY <1>1, <1>5, <2>2, <2>3, <2>4 DEF Handled, Sound, a
<1>8. CASE m.ctrl = NoFrame
  <2>1. backoffHandler(a, r) = check_own(a, r)
    BY <1>2, <1>8 DEF backoffHandler, SameTask
  <2>2. m.defer = Off
    BY <1>3, <1>8 DEF Ready, Sound, Defers
  <2>3. Own(a)
    BY <1>0, <1>1, <1>2, <1>4, <1>5, <1>8, <2>2
       DEF Own, Frozen, Sends, SameTask, SameRecord, SameVoice
  <2>4. LET n == check_own(a, r)
        IN  Sound(n) /\ Advances(n, a) /\ Overhears(n, a) /\ ~Stuck(n)
    BY <2>3, OwnFrameGoesOn
  <2> QED
    BY <1>6, <2>1, <2>4 DEF Handled, a
<1> QED
  BY <1>7, <1>8

(* Sound but for what the MAC hears, and how the backoff stands to it. *)
Core(m) == /\ m \in StationType /\ ~m.fault
           /\ Speaks(m) /\ Answers(m) /\ Sends(m) /\ Defers(m)
           /\ m.backoff = Off => ~m.paused

(* tx_resume may be called. *)
Resumable(a) ==
  /\ a \in StationType /\ ~a.fault /\ Speaks(a)
  /\ a.send = Off /\ (a.rts => a.tx # NoPkt) /\ (a.backoff = Off => ~a.paused)
  /\ a.ctrl # NoFrame => /\ Proper(a.ctrl) /\ a.ctrl.type \in {"CTS", "ACK"}
                         /\ a.ctrl.from = a.me
  /\ a.defer # Off => Waiting(a)

(* The MAC is done with a frame, or has an answer to give, where it was m. *)
Done(a, m) ==
  /\ a.me = m.me /\ a.seq = m.seq /\ a.tx \in {m.tx, NoPkt} /\ a.out = NoFrame
  /\ a.retry = m.retry \/ (a.retry /\ Unanswered(m))
  /\ m.txs = "SEND" => a.retry \/ a.tx = NoPkt

LEMMA ResumeSound ==
  ASSUME NEW m, NEW a, Resumable(a), Done(a, m)
  PROVE  LET n == tx_resume(a)
         IN  /\ Core(n) /\ Steady(n) /\ n.txs = "IDLE" /\ ~Stuck(n)
             /\ SameEar(n, a) /\ SameRecord(n, a) /\ SameTask(n, a) /\ SameVoice(n, a)
             /\ Advances(n, m)
<1> DEFINE n == tx_resume(a)
<1>1. /\ n \in StationType /\ Steady(n)
      /\ SameTask(n, a) /\ SameEar(n, a) /\ SameVoice(n, a) /\ SameRecord(n, a)
      /\ n.txs = "IDLE" /\ n.send = Off
      /\ n.defer # Off <=> a.defer # Off \/ Waiting(a)
      /\ n.backoff = Off <=> a.backoff = Off
  BY Resumes DEF Resumable
<1> HIDE DEF n
<1>2. ~n.fault /\ Speaks(n)
  BY <1>1 DEF Resumable, Speaks, SameVoice, SameRecord
<1>3. Answers(n)
  BY <1>1 DEF Resumable, Answers, SameTask, Waiting
<1>4. Sends(n) /\ Defers(n)
  BY <1>1 DEF Resumable, Sends, Defers, SameTask, Waiting
<1>5. Advances(n, m)
  BY <1>1 DEF Advances, Done, SameTask, SameVoice
<1>6. ~Stuck(n)
  BY <1>1 DEF Stuck, SameTask, Waiting
<1> QED
  BY <1>1, <1>2, <1>3, <1>4, <1>5, <1>6 DEF Core, Steady, n

-----------------------------------------------------------------------------
(* The frame is over, or the answer to it is not to be expected any more.  *)

Leaves(a, m) == /\ Resumable(a) /\ Done(a, m) /\ SameEar(a, m) /\ SameRecord(a, m)
                /\ Held(a, m) /\ SameVoice(a, m)
                /\ a.ctrl = IF m.txs \in {"CTS", "ACK"} THEN NoFrame ELSE m.ctrl

LEMMA LeavesHandled ==
  ASSUME NEW m, Ready(m), NEW a, Leaves(a, m)
  PROVE  LET n == tx_resume(a) IN Handled(n, m) /\ ~Stuck(n)
<1> DEFINE n == tx_resume(a)
<1>1. /\ Core(n) /\ Steady(n) /\ n.txs = "IDLE" /\ ~Stuck(n)
      /\ SameEar(n, a) /\ SameRecord(n, a) /\ Advances(n, m)
  BY ResumeSound DEF Leaves
<1> HIDE DEF n
<1>2. Hears(n)
  BY <1>1 DEF Leaves, Ready, Sound, Hears, SameEar
<1>3. Frozen(n) /\ Announces(n)
  BY <1>1 DEF Frozen, Steady, Announces
<1>4. Overhears(n, m)
  BY <1>1 DEF Leaves, Overhears, SameEar, SameRecord
<1> QED
  BY <1>1, <1>2, <1>3, <1>4 DEF Core, Sound, Handled, n

(* The timer of what the MAC was sending has been reset. *)
SendReset(a, m) == /\ a \in StationType /\ Same(a, m) /\ a.txs = m.txs /\ a.send = Off
                   /\ a.defer = Off /\ a.backoff = m.backoff /\ a.paused = m.paused

LEMMA RTSHandled ==
  ASSUME NEW m, Ready(m), m.txs = "RTS", NEW a, SendReset(a, m), NEW r \in Nat
  PROVE  Leaves(retransmitRTS(a, r), m)
<1>0. m \in StationType
  BY DEF Ready, Sound
<1>1. a.rts /\ a.tx # NoPkt /\ a.backoff = Off /\ ~a.paused /\ ~a.fault
  BY DEF Ready, Sound, Sends, Frozen, SendReset, Same, SameTask, SameRecord
<1> DEFINE s == a.ssrc + 1
           b == [a EXCEPT !.ssrc = s]
<1>2. s \in Nat
  BY DEF SendReset, StationType
<1> HIDE DEF s
<1>3. b \in StationType /\ Same(b, a) /\ SameState(b, a) /\ b.ssrc = s
  <2>1. a \in StationType
    BY DEF SendReset
  <2> QED
    BY <1>2, <2>1 DEF StationType, Same, SameTask, SameEar, SameVoice, SameRecord, SameState
<1>4. retransmitRTS(a, r) =
        IF b.ssrc >= ShortLimit
        THEN rst_CW([b EXCEPT !.rts = FALSE, !.tx = NoPkt, !.ssrc = 0])
        ELSE start_backoff(inc_CW(b), DIFS, r)
  BY <1>1 DEF retransmitRTS, Asserting, s
<1> HIDE DEF b
<1>5. CASE b.ssrc >= ShortLimit
  <2> DEFINE c == [b EXCEPT !.rts = FALSE, !.tx = NoPkt, !.ssrc = 0]
             n == rst_CW(c)
  <2>1. c \in StationType
    BY <1>3 DEF StationType
  <2>2. /\ c.me = b.me /\ c.ctrl = b.ctrl /\ ~c.rts /\ c.tx = NoPkt /\ c.seq = b.seq
        /\ c.retry = b.retry
        /\ SameEar(c, b) /\ SameVoice(c, b) /\ SameRecord(c, b) /\ SameState(c, b)
    BY <1>3 DEF StationType, SameEar, SameVoice, SameRecord, SameState
  <2>3. retransmitRTS(a, r) = n
    BY <1>4, <1>5
  <2> HIDE DEF c
  <2>4. n \in StationType /\ Same(n, c) /\ SameState(n, c)
    BY <2>1, WindowChanges
  <2> HIDE DEF n
  <2>5. Resumable(n)
    BY <1>1, <1>3, <2>2, <2>4 DEF Resumable, SendReset, Ready, Sound, Speaks, Answers, Same,
       SameTask, SameVoice, SameRecord, SameState
  <2>6. Done(n, m)
    BY <1>3, <2>2, <2>4 DEF Done, SendReset, Ready, Same, SameTask, SameVoice
  <2>7. SameEar(n, m) /\ SameRecord(n, m) /\ SameVoice(n, m) /\ n.ctrl = m.ctrl
    BY <1>3, <2>2, <2>4 DEF SendReset, Same, SameEar, SameRecord, SameTask, SameVoice
  <2>8. Held(n, m)
    BY <1>0, <1>3, <2>2, <2>4, HeldStill DEF SendReset, SameState
  <2> QED
    BY <2>3, <2>5, <2>6, <2>7, <2>8 DEF Leaves
<1>6. CASE ~(b.ssrc >= ShortLimit)
  <2> DEFINE c == inc_CW(b)
             n == start_backoff(c, DIFS, r)
  <2>1. c \in StationType /\ Same(c, b) /\ SameState(c, b)
    BY <1>3, WindowChanges
  <2>2. retransmitRTS(a, r) = n
    BY <1>4, <1>6
  <2> HIDE DEF c
  <2>3. /\ n \in StationType /\ Steady(n) /\ n.backoff # Off
        /\ SameTask(n, c) /\ SameEar(n, c) /\ SameVoice(n, c) /\ SameRecord(n, c)
        /\ n.txs = c.txs /\ n.send = c.send /\ n.defer = c.defer
    BY <2>1, BackoffStarts
  <2>8. Held(n, c)
    BY <2>1, BackoffHeld
  <2> HIDE DEF n
  <2>4. Resumable(n)
    BY <1>1, <1>3, <2>1, <2>3 DEF Resumable, SendReset, Ready, Sound, Speaks, Answers, Same,
       SameTask, SameVoice, SameRecord, SameState
  <2>5. Done(n, m)
    BY <1>3, <2>1, <2>3 DEF Done, SendReset, Ready, Same, SameTask, SameVoice
  <2>6. SameEar(n, m) /\ SameRecord(n, m) /\ SameVoice(n, m) /\ n.ctrl = m.ctrl
    BY <1>3, <2>1, <2>3 DEF SendReset, Same, SameEar, SameRecord, SameTask, SameVoice
  <2>7. Held(n, m)
    BY <1>0, <1>3, <2>1, <2>3, <2>8, HeldStill, HeldTwice DEF SendReset, SameState
  <2> QED
    BY <2>2, <2>4, <2>5, <2>6, <2>7 DEF Leaves
<1> QED
  BY <1>5, <1>6

LEMMA AnswerGiven ==
  ASSUME NEW m, Ready(m), m.txs \in {"CTS", "ACK"}, NEW a, SendReset(a, m)
  PROVE  Leaves(Asserting(a.ctrl # NoFrame, [a EXCEPT !.ctrl = NoFrame]), m)
<1> DEFINE n == [a EXCEPT !.ctrl = NoFrame]
<1>1. a \in StationType /\ a.ctrl # NoFrame
  BY DEF SendReset, Ready, Sound, Answers, Same, SameTask
<1>2. n \in StationType
  BY <1>1 DEF StationType
<1>3. /\ n.me = a.me /\ n.ctrl = NoFrame /\ n.rts = a.rts /\ n.tx = a.tx /\ n.seq = a.seq
      /\ n.retry = a.retry
      /\ SameEar(n, a) /\ SameVoice(n, a) /\ SameRecord(n, a) /\ SameState(n, a)
  BY <1>1 DEF StationType, SameEar, SameVoice, SameRecord, SameState
<1>4. Asserting(a.ctrl # NoFrame, n) = n
  BY <1>1 DEF Asserting
<1> HIDE DEF n
<1>5. Resumable(n)
  BY <1>2, <1>3 DEF Resumable, SendReset, Ready, Sound, Speaks, Sends, Frozen, Same, SameTask,
     SameVoice, SameRecord, SameState
<1>6. Done(n, m)
  BY <1>3 DEF Done, SendReset, Ready, Same, SameTask, SameVoice
<1>7. SameEar(n, m) /\ SameRecord(n, m) /\ SameVoice(n, m)
  BY <1>3 DEF SendReset, Same, SameEar, SameRecord, SameVoice
<1>8. Held(n, m)
  BY <1>3, HeldStill DEF SendReset, SameState, Ready, Sound
<1> QED
  BY <1>3, <1>4, <1>5, <1>6, <1>7, <1>8 DEF Leaves, n

LEMMA CountChanges ==
  ASSUME NEW a \in StationType
  PROVE  /\ LET n == [a EXCEPT !.ssrc = @ + 1]
            IN  n \in StationType /\ Same(n, a) /\ SameState(n, a)
         /\ LET n == [a EXCEPT !.slrc = @ + 1]
            IN  n \in StationType /\ Same(n, a) /\ SameState(n, a)
<1>1. a.ssrc + 1 \in Nat /\ a.slrc + 1 \in Nat
  BY DEF StationType
<1>2. ASSUME NEW s \in Nat
      PROVE  /\ LET n == [a EXCEPT !.ssrc = s]
                IN  n \in StationType /\ Same(n, a) /\ SameState(n, a)
             /\ LET n == [a EXCEPT !.slrc = s]
                IN  n \in StationType /\ Same(n, a) /\ SameState(n, a)
  BY DEF StationType, Same, SameTask, SameEar, SameVoice, SameRecord, SameState
<1> QED
  BY <1>1, <1>2

LEMMA DataHandled ==
  ASSUME NEW m, Ready(m), Unanswered(m), NEW a, SendReset(a, m), NEW r \in Nat
  PROVE  Leaves(retransmitDATA(a, r), m)
<1>1. a.tx # NoPkt /\ ~a.rts /\ a.backoff = Off /\ ~a.paused /\ ~a.fault
  BY DEF Unanswered, Ready, Sound, Sends, Frozen, SendReset, Same, SameTask, SameRecord
<1>2. a \in StationType /\ m \in StationType /\ m.txs = "SEND"
  BY DEF SendReset, Ready, Sound, Unanswered
<1> DEFINE b == IF Long(a.tx) THEN [a EXCEPT !.slrc = @ + 1] ELSE [a EXCEPT !.ssrc = @ + 1]
           over == IF Long(a.tx) THEN b.slrc > LongLimit ELSE b.ssrc > ShortLimit
<1>3. b \in StationType /\ Same(b, a) /\ SameState(b, a)
  BY <1>2, CountChanges
<1>4. retransmitDATA(a, r) =
        IF over
        THEN rst_CW(IF Long(a.tx) THEN [b EXCEPT !.tx = NoPkt, !.slrc = 0]
                    ELSE [b EXCEPT !.tx = NoPkt, !.ssrc = 0])
        ELSE start_backoff(inc_CW(sendRTS([b EXCEPT !.retry = TRUE])), Space(a.tx), r)
  BY <1>1 DEF retransmitDATA, Asserting
<1> HIDE DEF b, over
<1>5. CASE over
  <2> DEFINE c == IF Long(a.tx) THEN [b EXCEPT !.tx = NoPkt, !.slrc = 0]
                  ELSE [b EXCEPT !.tx = NoPkt, !.ssrc = 0]
             n == rst_CW(c)
  <2>1. c \in StationType
    <3>1. [b EXCEPT !.tx = NoPkt, !.slrc = 0] \in StationType
      BY <1>3 DEF StationType
    <3>2. [b EXCEPT !.tx = NoPkt, !.ssrc = 0] \in StationType
      BY <1>3 DEF StationType
    <3> QED
      BY <3>1, <3>2
  <2>2. /\ c.me = b.me /\ c.ctrl = b.ctrl /\ c.rts = b.rts /\ c.tx = NoPkt /\ c.seq = b.seq
        /\ c.retry = b.retry
        /\ SameEar(c, b) /\ SameVoice(c, b) /\ SameRecord(c, b) /\ SameState(c, b)
    BY <1>3 DEF StationType, SameEar, SameVoice, SameRecord, SameState
  <2>3. retransmitDATA(a, r) = n
    BY <1>4, <1>5
  <2> HIDE DEF c
  <2>4. n \in StationType /\ Same(n, c) /\ SameState(n, c)
    BY <2>1, WindowChanges
  <2> HIDE DEF n
  <2>5. Resumable(n)
    BY <1>1, <1>3, <2>2, <2>4 DEF Resumable, SendReset, Ready, Sound, Speaks, Answers, Same,
       SameTask, SameVoice, SameRecord, SameState
  <2>6. Done(n, m)
    BY <1>3, <2>2, <2>4 DEF Done, SendReset, Ready, Same, SameTask, SameVoice
  <2>7. SameEar(n, m) /\ SameRecord(n, m) /\ SameVoice(n, m) /\ n.ctrl = m.ctrl
    BY <1>3, <2>2, <2>4 DEF SendReset, Same, SameEar, SameRecord, SameTask, SameVoice
  <2>8. Held(n, m)
    BY <1>2, <1>3, <2>2, <2>4, HeldStill DEF SendReset, SameState
  <2> QED
    BY <1>2, <2>3, <2>5, <2>6, <2>7, <2>8 DEF Leaves
<1>6. CASE ~over
  <2> DEFINE c == [b EXCEPT !.retry = TRUE]
             d == sendRTS(c)
             e == inc_CW(d)
             n == start_backoff(e, Space(a.tx), r)
  <2>1. retransmitDATA(a, r) = n
    BY <1>4, <1>6
  <2>2. c \in StationType
    BY <1>3 DEF StationType
  <2>3. /\ c.me = b.me /\ c.ctrl = b.ctrl /\ c.rts = b.rts /\ c.tx = b.tx /\ c.seq = b.seq
        /\ c.retry
        /\ SameEar(c, b) /\ SameVoice(c, b) /\ SameRecord(c, b) /\ SameState(c, b)
    BY <1>3 DEF StationType, SameEar, SameVoice, SameRecord, SameState
  <2> HIDE DEF c
  <2>4. /\ d \in StationType /\ SameState(d, c)
        /\ SameEar(d, c) /\ SameVoice(d, c) /\ SameRecord(d, c)
        /\ d.me = c.me /\ d.ctrl = c.ctrl /\ d.tx = c.tx /\ d.seq = c.seq /\ d.retry = c.retry
    <3>1. c.tx # NoPkt /\ ~c.rts
      BY <1>1, <1>3, <2>3 DEF Same, SameTask
    <3> QED
      BY <2>2, <3>1, RTSPrepared
  <2> HIDE DEF d
  <2>5. e \in StationType /\ Same(e, d) /\ SameState(e, d)
    BY <2>4, WindowChanges
  <2> HIDE DEF e
  <2>6. Space(a.tx) \in {SIFS, DIFS}
    BY DEF Space
  <2>7. /\ n \in StationType /\ Steady(n) /\ n.backoff # Off
        /\ SameTask(n, e) /\ SameEar(n, e) /\ SameVoice(n, e) /\ SameRecord(n, e)
        /\ n.txs = e.txs /\ n.send = e.send /\ n.defer = e.defer
    BY <2>5, <2>6, BackoffStarts
  <2>11. Held(n, e)
    BY <2>5, <2>6, BackoffHeld
  <2> HIDE DEF n
  <2>8. Resumable(n)
    <3>1. /\ n.tx = a.tx /\ n.ctrl = a.ctrl /\ n.me = a.me /\ n.fault = a.fault
          /\ n.active = a.active /\ n.ifc = a.ifc /\ n.send = Off /\ n.defer = Off
      BY <1>3, <2>3, <2>4, <2>5, <2>7 DEF SendReset, Same, SameTask, SameVoice, SameRecord,
         SameState
    <3> QED
      BY <1>1, <2>7, <3>1 DEF Resumable, SendReset, Ready, Sound, Speaks, Answers, Same,
         SameTask, SameVoice
  <2>9. Done(n, m)
    BY <1>3, <2>3, <2>4, <2>5, <2>7 DEF Done, SendReset, Ready, Same, SameTask, SameVoice
  <2>10. SameEar(n, m) /\ SameRecord(n, m) /\ SameVoice(n, m) /\ n.ctrl = m.ctrl
    BY <1>3, <2>3, <2>4, <2>5, <2>7
       DEF SendReset, Same, SameEar, SameRecord, SameTask, SameVoice
  <2>12. Held(n, m)
    <3>1. e.defer = Off /\ e.backoff = m.backoff
      BY <1>3, <2>3, <2>4, <2>5 DEF SendReset, SameState
    <3> QED
      BY <1>2, <2>5, <2>7, <2>11, <3>1, HeldStill, HeldTwice
  <2> QED
    BY <1>2, <2>1, <2>8, <2>9, <2>10, <2>12 DEF Leaves
<1> QED
  BY <1>5, <1>6

LEMMA BroadcastHandled ==
  ASSUME NEW m, Ready(m), m.txs = "SEND", NEW a, SendReset(a, m), NEW r \in Nat,
         NEW space \in {SIFS, DIFS}
  PROVE  Leaves(start_backoff(rst_CW([a EXCEPT !.tx = NoPkt]), space, r), m)
<1>1. a.tx # NoPkt /\ ~a.rts /\ a.backoff = Off /\ ~a.paused /\ ~a.fault
  BY DEF Ready, Sound, Sends, Frozen, SendReset, Same, SameTask, SameRecord
<1>2. a \in StationType /\ m \in StationType
  BY DEF SendReset, Ready, Sound
<1> DEFINE b == [a EXCEPT !.tx = NoPkt]
           c == rst_CW(b)
           n == start_backoff(c, space, r)
<1>3. b \in StationType
  BY <1>2 DEF StationType
<1>4. /\ b.me = a.me /\ b.ctrl = a.ctrl /\ b.rts = a.rts /\ b.tx = NoPkt /\ b.seq = a.seq
      /\ b.retry = a.retry
      /\ SameEar(b, a) /\ SameVoice(b, a) /\ SameRecord(b, a) /\ SameState(b, a)
  BY <1>2 DEF StationType, SameEar, SameVoice, SameRecord, SameState
<1> HIDE DEF b
<1>5. c \in StationType /\ Same(c, b) /\ SameState(c, b)
  BY <1>3, WindowChanges
<1> HIDE DEF c
<1>6. /\ n \in StationType /\ Steady(n) /\ n.backoff # Off
      /\ SameTask(n, c) /\ SameEar(n, c) /\ SameVoice(n, c) /\ SameRecord(n, c)
      /\ n.txs = c.txs /\ n.send = c.send /\ n.defer = c.defer
  BY <1>5, BackoffStarts
<1>10. Held(n, c)
  BY <1>5, BackoffHeld
<1> HIDE DEF n
<1>7. Resumable(n)
  BY <1>1, <1>4, <1>5, <1>6 DEF Resumable, SendReset, Ready, Sound, Speaks, Answers, Same,
     SameTask, SameVoice, SameRecord, SameState
<1>8. Done(n, m)
  BY <1>4, <1>5, <1>6 DEF Done, SendReset, Ready, Same, SameTask, SameVoice
<1>9. SameEar(n, m) /\ SameRecord(n, m) /\ SameVoice(n, m) /\ n.ctrl = m.ctrl
  BY <1>4, <1>5, <1>6 DEF SendReset, Same, SameEar, SameRecord, SameTask, SameVoice
<1>11. Held(n, m)
  BY <1>2, <1>4, <1>5, <1>6, <1>10, HeldStill, HeldTwice DEF SendReset, SameState
<1> QED
  BY <1>7, <1>8, <1>9, <1>11 DEF Leaves, n, c, b

LEMMA SendLeaves ==
  ASSUME NEW m, Ready(m), m.send = 0, NEW r \in Nat, NEW space \in {SIFS, DIFS}
  PROVE  \E b : /\ sendHandler([m EXCEPT !.send = Off], r, space) = tx_resume(b)
                /\ Leaves(b, m)
<1> DEFINE a == [m EXCEPT !.send = Off]
<1>0. m \in StationType /\ m.txs # "IDLE"
  BY DEF Ready, Sound, Sends, Off
<1>1. SendReset(a, m)
  <2>1. Off \in Ticks
    BY DEF Ticks
  <2>2. a \in StationType
    BY <1>0, <2>1 DEF StationType
  <2>3. /\ Same(a, m) /\ a.txs = m.txs /\ a.send = Off /\ a.defer = m.defer
        /\ a.backoff = m.backoff /\ a.paused = m.paused
    BY <1>0 DEF StationType, Same, SameTask, SameEar, SameVoice, SameRecord
  <2>4. m.defer = Off
    BY <1>0 DEF Ready, Sound, Defers
  <2> QED
    BY <2>2, <2>3, <2>4 DEF SendReset
<1> HIDE DEF a
<1>2. a.txs = m.txs /\ m.txs \in {"RTS", "CTS", "ACK", "SEND"}
  BY <1>0, <1>1 DEF SendReset, StationType, TxState
<1>3. CASE m.txs = "RTS"
  <2>1. sendHandler(a, r, space) = tx_resume(retransmitRTS(a, r))
    BY <1>2, <1>3 DEF sendHandler
  <2> QED
    BY <1>1, <1>3, <2>1, RTSHandled DEF a
<1>4. CASE m.txs \in {"CTS", "ACK"}
  <2>1. sendHandler(a, r, space)
          = tx_resume(Asserting(a.ctrl # NoFrame, [a EXCEPT !.ctrl = NoFrame]))
    BY <1>2, <1>4 DEF sendHandler
  <2> QED
    BY <1>1, <1>4, <2>1, AnswerGiven DEF a
<1>5. CASE m.txs = "SEND" /\ Unicast(a.tx)
  <2>1. sendHandler(a, r, space) = tx_resume(retransmitDATA(a, r))
    BY <1>2, <1>5 DEF sendHandler
  <2>2. Unanswered(m)
    BY <1>1, <1>5 DEF Unanswered, SendReset, Same, SameTask
  <2> QED
    BY <1>1, <1>5, <2>1, <2>2, DataHandled DEF a
<1>6. CASE m.txs = "SEND" /\ ~Unicast(a.tx)
  <2>1. sendHandler(a, r, space)
          = tx_resume(start_backoff(rst_CW([a EXCEPT !.tx = NoPkt]), space, r))
    BY <1>2, <1>6 DEF sendHandler
  <2> QED
    BY <1>1, <1>6, <2>1, BroadcastHandled DEF a
<1> QED
  BY <1>2, <1>3, <1>4, <1>5, <1>6 DEF a

LEMMA SendHandled ==
  ASSUME NEW m, Ready(m), m.send = 0, NEW r \in Nat, NEW space \in {SIFS, DIFS}
  PROVE  LET n == sendHandler([m EXCEPT !.send = Off], r, space)
         IN  Handled(n, m) /\ ~Stuck(n)
BY SendLeaves, LeavesHandled

-----------------------------------------------------------------------------
(* The frame f has arrived as a whole. *)

(* f is passed up at most, and then remembered if there is room.  The      *)
(* retry bit and the cache keep back what has been passed up before.       *)
Learns(n, m, f) ==
  LET e == <<f.from, f.seq>>
  IN  /\ n.up # NoPkt => /\ n.up = f.pkt /\ f.type = "DATA" /\ ~f.err /\ m.rxs = "RECV"
                         /\ f.to \in {m.me, Broadcast}
                         /\ Unicast(f.pkt) /\ f.retry => e \notin m.cache
      /\ Cardinality(m.cache) < CacheSize =>
           /\ m.cache \subseteq n.cache
           /\ n.up # NoPkt /\ Unicast(f.pkt) => e \in n.cache

Announcing(m) ==
  m.txs = "SEND" /\ ~Unicast(m.tx) => /\ m.active => m.ifc = m.send
                                      /\ ~m.active => m.send = 0

(* x is what the frame makes of m, before rx_resume. *)
Received(x, m, f) == /\ Core(x) /\ x.recv = Off /\ Announcing(x) /\ Advances(x, m)
                     /\ Learns(x, m, f) /\ (Stuck(x) => Stuck(m))

(* The receive timer has been reset, and the NAV set or not. *)
Heard(b, m) == /\ b \in StationType /\ b.recv = Off /\ SameTask(b, m) /\ SameVoice(b, m)
               /\ SameRecord(b, m) /\ SameState(b, m)

LEMMA RxResumes ==
  ASSUME NEW m, NEW f, NEW x, Received(x, m, f)
  PROVE  LET n == rx_resume(x)
         IN  /\ Sound(n) /\ Advances(n, m) /\ Learns(n, m, f) /\ (Stuck(n) => Stuck(m))
             /\ n.rx = NoFrame /\ n.recv = Off
<1> DEFINE a == [x EXCEPT !.rx = NoFrame]
           n == SetRx(a, "IDLE")
<1>0. x \in StationType
  BY DEF Received, Core
<1>1. a \in StationType
  BY <1>0 DEF StationType
<1>2. /\ SameTask(a, x) /\ SameVoice(a, x) /\ SameRecord(a, x) /\ SameState(a, x)
      /\ a.rx = NoFrame /\ a.recv = x.recv
  BY <1>0 DEF StationType, SameTask, SameVoice, SameRecord, SameState
<1>3. rx_resume(x) = n
  BY DEF rx_resume, Asserting, Received
<1> HIDE DEF a
<1>4. /\ n \in StationType /\ Steady(n) /\ n.rxs = "IDLE"
      /\ SameTask(n, a) /\ SameVoice(n, a) /\ SameRecord(n, a)
      /\ n.rx = a.rx /\ n.recv = a.recv /\ n.nav = a.nav
      /\ n.txs = a.txs /\ n.send = a.send /\ n.defer = a.defer
      /\ n.backoff = Off <=> a.backoff = Off
  <2>1. "IDLE" \in RxState /\ (a.backoff = Off => ~a.paused)
    BY <1>2 DEF RxState, Received, Core, SameState
  <2> QED
    BY <1>1, <2>1, RxChanges
<1> HIDE DEF n
<1>5. /\ SameTask(n, x) /\ SameVoice(n, x) /\ SameRecord(n, x)
      /\ n.txs = x.txs /\ n.send = x.send /\ n.defer = x.defer
      /\ n.backoff = Off <=> x.backoff = Off
  BY <1>2, <1>4 DEF SameTask, SameVoice, SameRecord, SameState
<1>6. Hears(n) /\ Speaks(n)
  BY <1>2, <1>4, <1>5 DEF Hears, Speaks, Received, Core, SameVoice
<1>7. Answers(n) /\ Sends(n) /\ Defers(n)
  BY <1>5 DEF Answers, Sends, Defers, Received, Core, SameTask
<1>8. Frozen(n) /\ Announces(n) /\ ~n.fault
  BY <1>2, <1>4, <1>5 DEF Frozen, Steady, Announces, Announcing, Received, Core, SameTask,
     SameVoice, SameRecord
<1>9. Advances(n, m)
  BY <1>5 DEF Advances, Received, SameTask, SameVoice
<1>10. Learns(n, m, f) /\ (Stuck(n) => Stuck(m))
  BY <1>5 DEF Learns, Received, Stuck, SameTask, SameRecord
<1> QED
  BY <1>2, <1>3, <1>4, <1>6, <1>7, <1>8, <1>9, <1>10 DEF Sound, Received

(* A frame that changes nothing but the NAV. *)
LEMMA HeardOnly ==
  ASSUME NEW m, Ready(m), NEW f, NEW b, Heard(b, m)
  PROVE  Received(b, m, f)
<1>1. Core(b)
  BY DEF Core, Heard, Ready, Sound, Speaks, Answers, Sends, Defers, Frozen, SameTask,
     SameVoice, SameRecord, SameState
<1>2. Announcing(b)
  BY DEF Announcing, Heard, Ready, Sound, Announces, SameTask, SameVoice, SameState
<1>3. Advances(b, m)
  BY DEF Advances, Heard, Ready, SameTask, SameVoice, SameState, StationType
<1>4. Learns(b, m, f) /\ (Stuck(b) => Stuck(m))
  BY DEF Learns, Heard, Ready, SameTask, SameRecord, SameState, Stuck
<1> QED
  BY <1>1, <1>2, <1>3, <1>4 DEF Received, Heard

(* A frame after which the MAC resumes. *)
LEMMA ResumeReceived ==
  ASSUME NEW m, NEW f, NEW a, Resumable(a), Done(a, m), a.recv = Off, Learns(a, m, f)
  PROVE  Received(tx_resume(a), m, f)
<1> DEFINE n == tx_resume(a)
<1>1. /\ Core(n) /\ n.txs = "IDLE" /\ ~Stuck(n)
      /\ SameEar(n, a) /\ SameRecord(n, a) /\ Advances(n, m)
  BY ResumeSound
<1> HIDE DEF n
<1>2. Learns(n, m, f) /\ n.recv = Off /\ Announcing(n)
  BY <1>1 DEF Learns, Announcing, SameEar, SameRecord
<1> QED
  BY <1>1, <1>2 DEF Received, n

LEMMA NothingLearnt ==
  ASSUME NEW m, Ready(m), NEW f, NEW a, SameRecord(a, m)
  PROVE  Learns(a, m, f)
BY DEF Learns, Ready, SameRecord

(* a is what a frame makes of m when the MAC has to resume for it. *)
Turns(a, m) == /\ Resumable(a) /\ Done(a, m) /\ a.recv = Off /\ SameRecord(a, m)
               /\ Held(a, m) /\ SameVoice(a, m)

LEMMA RTSTurns ==
  ASSUME NEW m, Ready(m), NEW f, Proper(f), f.type = "RTS", NEW b, Heard(b, m),
         b.txs = "IDLE", b.ctrl = NoFrame
  PROVE  \E a : /\ recvRTS(b, f) = tx_resume(a) /\ Turns(a, m)
                /\ a.tx = m.tx /\ a.ctrl # NoFrame /\ a.ctrl.type = "CTS"
<1> DEFINE d == f.dur - (CtlTime + SIFS)
           g == Control("CTS", b, f.from, d)
           a == [b EXCEPT !.ctrl = g, !.defer = Off]
<1>1. d \in Nat
  BY RadioConstants DEF Proper, Frame, SIFS
<1>2. recvRTS(b, f) = tx_resume(a)
  BY DEF recvRTS
<1> HIDE DEF d
<1>3. g \in Frame /\ Proper(g) /\ g.type = "CTS" /\ g.from = b.me /\ g # NoFrame
  <2>1. b.me \in Station /\ f.from \in Station
    BY DEF Heard, StationType, Proper, Frame
  <2>2. g = [type |-> "CTS", from |-> b.me, to |-> f.from, dur |-> d, pkt |-> NoPkt,
             seq |-> 0, retry |-> FALSE, err |-> FALSE]
    BY DEF Control
  <2> HIDE DEF g
  <2>3. g \in Frame /\ g.type = "CTS" /\ g.from = b.me
    BY <1>1, <2>1, <2>2 DEF Frame
  <2>4. g # NoFrame
    BY <2>3 DEF Frame, NoFrame
  <2> QED
    BY <2>3, <2>4 DEF Proper
<1> HIDE DEF g
<1>4. b \in StationType /\ Off \in Ticks
  BY DEF Heard, Ticks
<1>5. a \in StationType
  BY <1>3, <1>4, ZenonT(60) DEF StationType
<1>6. /\ a.ctrl = g /\ a.defer = Off /\ a.me = b.me /\ a.rts = b.rts /\ a.tx = b.tx
      /\ a.seq = b.seq /\ a.retry = b.retry /\ a.txs = b.txs /\ a.send = b.send
      /\ a.backoff = b.backoff /\ a.paused = b.paused
      /\ SameEar(a, b) /\ SameVoice(a, b) /\ SameRecord(a, b)
  BY <1>4 DEF StationType, SameEar, SameVoice, SameRecord
<1> HIDE DEF a
<1>7. Resumable(a)
  BY <1>3, <1>5, <1>6 DEF Resumable, Heard, Ready, Sound, Speaks, Sends, Frozen,
     SameTask, SameVoice, SameRecord, SameState
<1>8. Done(a, m)
  BY <1>6 DEF Done, Heard, Ready, SameTask, SameVoice, SameState
<1>9. a.recv = Off /\ SameRecord(a, m) /\ SameVoice(a, m) /\ a.tx = m.tx
  BY <1>6 DEF Heard, SameEar, SameRecord, SameVoice, SameTask
<1>10. Held(a, m)
  BY <1>6, HeldStill DEF Heard, SameState, Ready, Sound
<1> QED
  BY <1>2, <1>3, <1>6, <1>7, <1>8, <1>9, <1>10 DEF Turns

LEMMA RTSReceived ==
  ASSUME NEW m, Ready(m), NEW f, Proper(f), f.type = "RTS", NEW b, Heard(b, m)
  PROVE  Received(recvRTS(b, f), m, f)
<1>1. CASE b.txs # "IDLE" \/ b.ctrl # NoFrame
  BY <1>1, HeardOnly DEF recvRTS
<1>2. CASE b.txs = "IDLE" /\ b.ctrl = NoFrame
  BY <1>2, RTSTurns, ResumeReceived, NothingLearnt DEF Turns
<1> QED
  BY <1>1, <1>2

LEMMA CTSTurns ==
  ASSUME NEW m, Ready(m), NEW b, Heard(b, m), b.txs = "RTS"
  PROVE  \E a : /\ recvCTS(b) = tx_resume(a) /\ Turns(a, m)
                /\ a.tx = m.tx /\ a.ctrl = m.ctrl
<1> DEFINE c == [b EXCEPT !.rts = FALSE, !.send = Off, !.ssrc = 0]
           a == rst_CW(c)
<1>1. b.rts /\ b.tx # NoPkt /\ m.defer = Off
  BY DEF Heard, Ready, Sound, Sends, Defers, SameTask, SameState
<1>2. recvCTS(b) = tx_resume(a)
  BY <1>1 DEF recvCTS, Asserting
<1>3. b \in StationType /\ Off \in Ticks
  BY DEF Heard, Ticks
<1>4. c \in StationType
  BY <1>3 DEF StationType
<1>5. /\ ~c.rts /\ c.send = Off /\ c.me = b.me /\ c.ctrl = b.ctrl /\ c.tx = b.tx
      /\ c.seq = b.seq /\ c.retry = b.retry /\ c.txs = b.txs /\ c.defer = b.defer
      /\ c.backoff = b.backoff /\ c.paused = b.paused
      /\ SameEar(c, b) /\ SameVoice(c, b) /\ SameRecord(c, b)
  BY <1>3 DEF StationType, SameEar, SameVoice, SameRecord
<1> HIDE DEF c
<1>6. a \in StationType /\ Same(a, c) /\ SameState(a, c)
  BY <1>4, WindowChanges
<1> HIDE DEF a
<1>7. Resumable(a)
  BY <1>1, <1>5, <1>6 DEF Resumable, Heard, Ready, Sound, Speaks, Answers, Frozen, Same,
     SameTask, SameVoice, SameRecord, SameState
<1>8. Done(a, m)
  BY <1>5, <1>6 DEF Done, Heard, Ready, Same, SameTask, SameVoice, SameState
<1>9. a.recv = Off /\ SameRecord(a, m) /\ SameVoice(a, m) /\ a.tx = m.tx
      /\ a.ctrl = m.ctrl
  BY <1>5, <1>6 DEF Heard, Same, SameEar, SameRecord, SameVoice, SameTask
<1>10. Held(a, m)
  BY <1>5, <1>6, HeldStill DEF Heard, SameState, Ready, Sound
<1> QED
  BY <1>2, <1>7, <1>8, <1>9, <1>10 DEF Turns

LEMMA CTSReceived ==
  ASSUME NEW m, Ready(m), NEW f, NEW b, Heard(b, m)
  PROVE  Received(recvCTS(b), m, f)
<1>1. CASE b.txs # "RTS"
  BY <1>1, HeardOnly DEF recvCTS
<1>2. CASE b.txs = "RTS"
  BY <1>2, CTSTurns, ResumeReceived, NothingLearnt DEF Turns
<1> QED
  BY <1>1, <1>2

(* A beacon is sent to all, and takes no acknowledgement. *)
LEMMA ACKTurns ==
  ASSUME NEW m, Ready(m), NEW b, Heard(b, m), NEW r \in Nat,
         NEW space \in {SIFS, DIFS},
         m.txs = "SEND" => m.tx.kind # "beacon", b.txs = "SEND"
  PROVE  \E a : /\ recvACK(b, r, space) = tx_resume(a) /\ Turns(a, m)
                /\ a.ctrl = m.ctrl
<1> DEFINE s == IF Long(b.tx) THEN b.ssrc ELSE 0
           l == IF Long(b.tx) THEN 0 ELSE b.slrc
           c == [b EXCEPT !.tx = NoPkt, !.send = Off, !.ssrc = s, !.slrc = l]
           d == rst_CW(c)
           a == start_backoff(d, space, r)
<1>1. /\ m.txs = "SEND" /\ b.tx # NoPkt /\ b.tx.kind # "beacon" /\ b.backoff = Off
      /\ ~b.rts /\ m.defer = Off
  BY DEF Heard, Ready, Sound, Sends, Defers, SameTask, SameState
<1>2. recvACK(b, r, space) = tx_resume(a)
  BY <1>1 DEF recvACK, Asserting
<1>3. b \in StationType /\ Off \in Ticks
  BY DEF Heard, Ticks
<1>4. s \in Nat /\ l \in Nat
  BY <1>3 DEF StationType
<1> HIDE DEF s, l
<1>5. c \in StationType
  BY <1>3, <1>4 DEF StationType
<1>6. /\ c.rts = b.rts /\ c.send = Off /\ c.me = b.me /\ c.ctrl = b.ctrl /\ c.tx = NoPkt
      /\ c.seq = b.seq /\ c.retry = b.retry /\ c.txs = b.txs /\ c.defer = b.defer
      /\ c.backoff = b.backoff /\ c.paused = b.paused
      /\ SameEar(c, b) /\ SameVoice(c, b) /\ SameRecord(c, b)
  BY <1>3 DEF StationType, SameEar, SameVoice, SameRecord
<1> HIDE DEF c
<1>7. d \in StationType /\ Same(d, c) /\ SameState(d, c)
  BY <1>5, WindowChanges
<1> HIDE DEF d
<1>8. /\ a \in StationType /\ Steady(a) /\ a.backoff # Off /\ Same(a, d)
      /\ a.txs = d.txs /\ a.send = d.send /\ a.defer = d.defer
  BY <1>7, BackoffStarts DEF Same
<1>9. Held(a, d)
  BY <1>7, BackoffHeld
<1> HIDE DEF a
<1>10. Resumable(a)
  BY <1>1, <1>6, <1>7, <1>8 DEF Resumable, Heard, Ready, Sound, Speaks, Answers, Frozen,
     Same, SameTask, SameVoice, SameRecord, SameState
<1>11. Done(a, m)
  BY <1>1, <1>6, <1>7, <1>8 DEF Done, Heard, Ready, Same, SameTask, SameVoice
<1>12. a.recv = Off /\ SameRecord(a, m) /\ SameVoice(a, m) /\ a.ctrl = m.ctrl
  BY <1>6, <1>7, <1>8 DEF Heard, Same, SameEar, SameRecord, SameVoice, SameTask
<1>13. Held(a, m)
  <2>1. d.defer = m.defer /\ d.backoff = m.backoff
    BY <1>6, <1>7 DEF Heard, SameState
  <2> QED
    BY <1>7, <1>8, <1>9, <2>1, HeldStill, HeldTwice DEF Ready, Sound
<1> QED
  BY <1>2, <1>10, <1>11, <1>12, <1>13 DEF Turns

LEMMA ACKReceived ==
  ASSUME NEW m, Ready(m), NEW f, NEW b, Heard(b, m), NEW r \in Nat,
         NEW space \in {SIFS, DIFS},
         m.txs = "SEND" => m.tx.kind # "beacon"
  PROVE  Received(recvACK(b, r, space), m, f)
<1>1. CASE b.txs # "SEND"
  BY <1>1, HeardOnly DEF recvACK
<1>2. CASE b.txs = "SEND"
  BY <1>2, ACKTurns, ResumeReceived, NothingLearnt DEF Turns
<1> QED
  BY <1>1, <1>2

LEMMA ACKPrepared ==
  ASSUME NEW b \in StationType, b.ctrl = NoFrame, NEW to \in Station
  PROVE  LET n == sendACK(b, to)
         IN  /\ n \in StationType /\ SameState(n, b)
             /\ SameEar(n, b) /\ SameVoice(n, b) /\ SameRecord(n, b)
             /\ n.me = b.me /\ n.rts = b.rts /\ n.tx = b.tx /\ n.seq = b.seq
             /\ n.retry = b.retry
             /\ n.ctrl # NoFrame /\ Proper(n.ctrl) /\ n.ctrl.type = "ACK"
             /\ n.ctrl.from = b.me /\ n.ctrl.to = to
<1> DEFINE g == Control("ACK", b, to, 0)
           n == [b EXCEPT !.ctrl = g]
<1>1. sendACK(b, to) = n
  BY DEF sendACK, Asserting
<1>2. g = [type |-> "ACK", from |-> b.me, to |-> to, dur |-> 0, pkt |-> NoPkt,
           seq |-> 0, retry |-> FALSE, err |-> FALSE]
  BY DEF Control
<1>3. b.me \in Station
  BY DEF StationType
<1> HIDE DEF g
<1>4. g \in Frame /\ g.type = "ACK" /\ g.from = b.me /\ g.to = to
  BY <1>2, <1>3 DEF Frame
<1>5. g # NoFrame /\ Proper(g)
  BY <1>4 DEF Frame, NoFrame, Proper
<1>6. n \in StationType
  BY <1>4 DEF StationType
<1>7. /\ SameState(n, b) /\ SameEar(n, b) /\ SameVoice(n, b) /\ SameRecord(n, b)
      /\ n.me = b.me /\ n.rts = b.rts /\ n.tx = b.tx /\ n.seq = b.seq
      /\ n.retry = b.retry /\ n.ctrl = g
  BY DEF StationType, SameState, SameEar, SameVoice, SameRecord
<1> QED
  BY <1>1, <1>4, <1>5, <1>6, <1>7

LEMMA AnswerTurns ==
  ASSUME NEW m, Ready(m), NEW f, Proper(f), NEW b, Heard(b, m), ~Refuses(b, f),
         LongWithHeader(f.pkt) \/ b.send = Off
  PROVE  \E a : /\ Acknowledge(b, f) = tx_resume(a) /\ Turns(a, m)
                /\ a.tx = m.tx /\ a.ctrl.type = "ACK" /\ a.ctrl.to = f.from
                /\ m.txs \in {"IDLE", "CTS"} /\ (m.txs = "IDLE" => m.ctrl = NoFrame)
<1>0. f.from \in Station /\ b \in StationType /\ m \in StationType /\ Off \in Ticks
  BY DEF Proper, Frame, Heard, Ticks, Ready, Sound
<1>1. CASE LongWithHeader(f.pkt)
  <2> DEFINE c == [b EXCEPT !.ctrl = NoFrame, !.send = Off, !.ssrc = 0]
             d == rst_CW(c)
             a == sendACK(d, f.from)
  <2>1. b.txs = "CTS" /\ m.txs = "CTS" /\ b.ctrl # NoFrame /\ m.defer = Off
    BY <1>1 DEF Refuses, Heard, Ready, Sound, Answers, Defers, SameTask, SameState
  <2>2. Acknowledge(b, f) = tx_resume(a)
    BY <1>1, <2>1 DEF Acknowledge, Asserting
  <2>3. c \in StationType
    BY <1>0, ZenonT(60) DEF StationType
  <2>4. /\ c.rts = b.rts /\ c.send = Off /\ c.me = b.me /\ c.ctrl = NoFrame /\ c.tx = b.tx
        /\ c.seq = b.seq /\ c.retry = b.retry /\ c.txs = b.txs /\ c.defer = b.defer
        /\ c.backoff = b.backoff /\ c.paused = b.paused
        /\ SameEar(c, b) /\ SameVoice(c, b) /\ SameRecord(c, b)
    BY <1>0 DEF StationType, SameEar, SameVoice, SameRecord
  <2> HIDE DEF c
  <2>5. d \in StationType /\ Same(d, c) /\ SameState(d, c)
    BY <2>3, WindowChanges
  <2> HIDE DEF d
  <2>6. d.ctrl = NoFrame
    BY <2>4, <2>5 DEF Same, SameTask
  <2>7. /\ a \in StationType /\ SameState(a, d)
        /\ SameEar(a, d) /\ SameVoice(a, d) /\ SameRecord(a, d)
        /\ a.me = d.me /\ a.rts = d.rts /\ a.tx = d.tx /\ a.seq = d.seq
        /\ a.retry = d.retry
        /\ a.ctrl # NoFrame /\ Proper(a.ctrl) /\ a.ctrl.type = "ACK"
        /\ a.ctrl.from = d.me /\ a.ctrl.to = f.from
    BY <1>0, <2>5, <2>6, ACKPrepared
  <2> HIDE DEF a
  <2>8. Resumable(a)
    BY <2>1, <2>4, <2>5, <2>7 DEF Resumable, Heard, Ready, Sound, Speaks, Sends, Frozen,
       Same, SameTask, SameVoice, SameRecord, SameState, Waiting
  <2>9. Done(a, m)
    BY <2>1, <2>4, <2>5, <2>7 DEF Done, Heard, Ready, Same, SameTask, SameVoice, SameState
  <2>10. a.recv = Off /\ SameRecord(a, m) /\ SameVoice(a, m) /\ a.tx = m.tx
    BY <2>4, <2>5, <2>7 DEF Heard, Same, SameEar, SameRecord, SameVoice, SameTask
  <2>11. Held(a, m)
    BY <1>0, <2>4, <2>5, <2>7, HeldStill DEF Heard, SameState
  <2> QED
    BY <2>1, <2>2, <2>7, <2>8, <2>9, <2>10, <2>11 DEF Turns
<1>2. CASE ~LongWithHeader(f.pkt)
  <2> DEFINE a == sendACK(b, f.from)
  <2>1. b.ctrl = NoFrame /\ b.send = Off
    BY <1>2 DEF Refuses
  <2>2. /\ a \in StationType /\ SameState(a, b)
        /\ SameEar(a, b) /\ SameVoice(a, b) /\ SameRecord(a, b)
        /\ a.me = b.me /\ a.rts = b.rts /\ a.tx = b.tx /\ a.seq = b.seq
        /\ a.retry = b.retry
        /\ a.ctrl # NoFrame /\ Proper(a.ctrl) /\ a.ctrl.type = "ACK"
        /\ a.ctrl.from = b.me /\ a.ctrl.to = f.from
    BY <1>0, <2>1, ACKPrepared
  <2>3. Acknowledge(b, f) = tx_resume(a)
    BY <1>2, <2>1, <2>2 DEF Acknowledge, SameState
  <2> HIDE DEF a
  <2>4. m.txs = "IDLE" /\ m.ctrl = NoFrame
    BY <2>1 DEF Heard, Ready, Sound, Sends, SameState, SameTask
  <2>5. Resumable(a)
    BY <2>1, <2>2 DEF Resumable, Heard, Ready, Sound, Speaks, Sends, Frozen,
       SameTask, SameVoice, SameRecord, SameState, Waiting
  <2>6. Done(a, m)
    BY <2>2, <2>4 DEF Done, Heard, Ready, SameTask, SameVoice
  <2>7. a.recv = Off /\ SameRecord(a, m) /\ SameVoice(a, m) /\ a.tx = m.tx
    BY <2>2 DEF Heard, SameEar, SameRecord, SameVoice, SameTask
  <2>8. Held(a, m)
    BY <1>0, <2>2, HeldStill DEF Heard, SameState
  <2> QED
    BY <2>2, <2>3, <2>4, <2>5, <2>6, <2>7, <2>8 DEF Turns
<1> QED
  BY <1>1, <1>2

LEMMA Acknowledges ==
  ASSUME NEW m, Ready(m), NEW f, Proper(f), NEW b, Heard(b, m), ~Refuses(b, f)
  PROVE  LET n == Acknowledge(b, f)
         IN  /\ Core(n) /\ n.recv = Off /\ Announcing(n) /\ Advances(n, m) /\ ~Stuck(n)
             /\ SameRecord(n, m)
<1>0. f.from \in Station /\ b \in StationType
  BY DEF Proper, Frame, Heard
<1>1. CASE LongWithHeader(f.pkt) \/ b.send = Off
  <2>1. PICK a : Acknowledge(b, f) = tx_resume(a) /\ Turns(a, m)
    BY <1>1, AnswerTurns
  <2>2. LET n == tx_resume(a)
        IN  /\ Core(n) /\ n.txs = "IDLE" /\ ~Stuck(n)
            /\ SameEar(n, a) /\ SameRecord(n, a) /\ Advances(n, m)
    BY <2>1, ResumeSound DEF Turns
  <2> QED
    BY <2>1, <2>2 DEF Turns, Announcing, SameEar, SameRecord
<1>2. CASE ~(LongWithHeader(f.pkt) \/ b.send = Off)
  <2> DEFINE a == sendACK(b, f.from)
  <2>1. b.ctrl = NoFrame
    BY <1>2 DEF Refuses
  <2>2. /\ a \in StationType /\ SameState(a, b)
        /\ SameEar(a, b) /\ SameVoice(a, b) /\ SameRecord(a, b)
        /\ a.me = b.me /\ a.rts = b.rts /\ a.tx = b.tx /\ a.seq = b.seq
        /\ a.retry = b.retry
        /\ a.ctrl # NoFrame /\ Proper(a.ctrl) /\ a.ctrl.type = "ACK"
        /\ a.ctrl.from = b.me
    BY <1>0, <2>1, ACKPrepared
  <2>3. Acknowledge(b, f) = a /\ a.send # Off
    BY <1>2, <2>2 DEF Acknowledge, SameState
  <2> HIDE DEF a
  <2>4. a.recv = Off /\ SameRecord(a, m)
    BY <2>2 DEF Heard, SameEar, SameRecord
  <2>5. Core(a)
    BY <2>1, <2>2, <2>3 DEF Core, Heard, Ready, Sound, Speaks, Answers, Sends, Defers, Frozen,
       SameTask, SameVoice, SameRecord, SameState
  <2>6. Announcing(a)
    BY <2>2 DEF Announcing, Heard, Ready, Sound, Announces, SameTask, SameVoice, SameState
  <2>7. Advances(a, m)
    BY <2>2 DEF Advances, Heard, Ready, SameTask, SameVoice, SameState, StationType
  <2>8. ~Stuck(a)
    BY <2>3 DEF Stuck
  <2> QED
    BY <2>3, <2>4, <2>5, <2>6, <2>7, <2>8
<1> QED
  BY <1>1, <1>2

(* The cache, and what is passed up, are no concern of the rest. *)
LEMMA RecordOnly ==
  ASSUME NEW m, NEW f, NEW a, Core(a), a.recv = Off, Announcing(a), Advances(a, m),
         Stuck(a) => Stuck(m),
         NEW x, x \in StationType, SameTask(x, a), SameState(x, a), SameVoice(x, a),
         x.recv = a.recv, x.fault = a.fault, Learns(x, m, f)
  PROVE  Received(x, m, f)
<1>1. Core(x)
  BY DEF Core, Speaks, Answers, Sends, Defers, SameTask, SameState, SameVoice
<1>2. Announcing(x) /\ (Stuck(x) => Stuck(m))
  BY DEF Announcing, Stuck, SameTask, SameState, SameVoice
<1>3. Advances(x, m)
  BY DEF Advances, SameTask, SameState, SameVoice
<1> QED
  BY <1>1, <1>2, <1>3 DEF Received

LEMMA Remembers ==
  ASSUME NEW a \in StationType, NEW e \in Station \X Nat, NEW stale
  PROVE  LET n == update_dcache(a, e, stale)
         IN  /\ n \in StationType /\ SameTask(n, a) /\ SameState(n, a) /\ SameVoice(n, a)
             /\ SameEar(n, a) /\ n.fault = a.fault /\ n.up = a.up
             /\ n.cache \subseteq a.cache \cup {e} /\ (e \in a.cache => n = a)
             /\ Cardinality(a.cache) < CacheSize => a.cache \subseteq n.cache /\ e \in n.cache
<1>1. ASSUME NEW C \in SUBSET (Station \X Nat)
      PROVE  LET n == [a EXCEPT !.cache = C]
             IN  /\ n \in StationType /\ SameTask(n, a) /\ SameState(n, a)
                 /\ SameVoice(n, a) /\ SameEar(n, a) /\ n.fault = a.fault /\ n.up = a.up
                 /\ n.cache = C
  BY DEF StationType, SameTask, SameState, SameVoice, SameEar
<1>2. a.cache \in SUBSET (Station \X Nat)
  BY DEF StationType
<1>3. (a.cache \cup {e}) \in SUBSET (Station \X Nat)
  BY <1>2
<1>4. ((a.cache \ stale) \cup {e}) \in SUBSET (Station \X Nat)
  BY <1>2
<1>5. CASE e \in a.cache \/ (~(Cardinality(a.cache) < CacheSize) /\ stale = {})
  <2>1. update_dcache(a, e, stale) = a
    BY <1>5 DEF update_dcache
  <2> QED
    BY <1>5, <2>1 DEF SameTask, SameState, SameVoice, SameEar
<1>6. CASE e \notin a.cache /\ Cardinality(a.cache) < CacheSize
  <2> DEFINE C == a.cache \cup {e}
  <2>1. update_dcache(a, e, stale) = [a EXCEPT !.cache = C]
    BY <1>6 DEF update_dcache
  <2>2. a.cache \subseteq C /\ e \in C /\ C \subseteq a.cache \cup {e}
    OBVIOUS
  <2>3. C \in SUBSET (Station \X Nat)
    BY <1>3
  <2> HIDE DEF C
  <2>4. LET n == [a EXCEPT !.cache = C]
        IN  /\ n \in StationType /\ SameTask(n, a) /\ SameState(n, a)
            /\ SameVoice(n, a) /\ SameEar(n, a) /\ n.fault = a.fault /\ n.up = a.up
            /\ n.cache = C
    BY <1>1, <2>3
  <2> QED
    BY <1>6, <2>1, <2>2, <2>4
<1>7. CASE e \notin a.cache /\ ~(Cardinality(a.cache) < CacheSize) /\ stale # {}
  <2> DEFINE C == (a.cache \ stale) \cup {e}
  <2>1. update_dcache(a, e, stale) = [a EXCEPT !.cache = C]
    BY <1>7 DEF update_dcache
  <2>2. C \in SUBSET (Station \X Nat) /\ C \subseteq a.cache \cup {e}
    BY <1>4
  <2> HIDE DEF C
  <2>3. LET n == [a EXCEPT !.cache = C]
        IN  /\ n \in StationType /\ SameTask(n, a) /\ SameState(n, a)
            /\ SameVoice(n, a) /\ SameEar(n, a) /\ n.fault = a.fault /\ n.up = a.up
            /\ n.cache = C
    BY <1>1, <2>2
  <2> QED
    BY <1>7, <2>1, <2>2, <2>3
<1> QED
  BY <1>5, <1>6, <1>7

LEMMA DATAReceived ==
  ASSUME NEW m, Ready(m), NEW f, Proper(f), f.type = "DATA", ~f.err, m.rxs = "RECV",
         f.to \in {m.me, Broadcast}, NEW b, Heard(b, m), NEW stale
  PROVE  Received(recvDATA(b, f, stale), m, f)
<1>0. f.pkt \in Packet /\ f.from \in Station /\ f.seq \in Nat /\ f.pkt # NoPkt
  <2>1. f.pkt \in Packet /\ f.from \in Station /\ f.seq \in Nat
    BY DEF Proper, Frame
  <2>2. f.pkt.id # 0 /\ NoPkt.id = 0
    BY <2>1 DEF Packet, NoPkt
  <2> QED
    BY <2>1, <2>2
<1>1. ASSUME NEW a \in StationType
      PROVE  LET n == [a EXCEPT !.up = f.pkt]
             IN  /\ n \in StationType /\ SameTask(n, a) /\ SameState(n, a) /\ SameVoice(n, a)
                 /\ SameEar(n, a) /\ n.fault = a.fault /\ n.cache = a.cache
                 /\ n.up = f.pkt
  BY <1>0 DEF StationType, SameTask, SameState, SameVoice, SameEar
<1>2. CASE ~Unicast(f.pkt)
  <2> DEFINE n == [b EXCEPT !.up = f.pkt]
  <2>1. Received(b, m, f)
    BY HeardOnly
  <2>2. /\ n \in StationType /\ SameTask(n, b) /\ SameState(n, b) /\ SameVoice(n, b)
        /\ SameEar(n, b) /\ n.fault = b.fault /\ n.cache = b.cache /\ n.up = f.pkt
    BY <1>1 DEF Heard
  <2>3. recvDATA(b, f, stale) = n
    BY <1>2 DEF recvDATA
  <2> HIDE DEF n
  <2>4. Learns(n, m, f)
    BY <1>2, <2>2 DEF Learns, Heard, SameRecord
  <2> QED
    BY <2>1, <2>2, <2>3, <2>4, RecordOnly DEF Received, SameEar
<1>3. CASE Unicast(f.pkt) /\ Refuses(b, f)
  BY <1>3, HeardOnly DEF recvDATA
<1>4. CASE Unicast(f.pkt) /\ ~Refuses(b, f)
  <2> DEFINE e == <<f.from, f.seq>>
             a == Acknowledge(b, f)
             c == update_dcache(a, e, stale)
             n == [c EXCEPT !.up = f.pkt]
  <2>1. /\ Core(a) /\ a.recv = Off /\ Announcing(a) /\ Advances(a, m) /\ ~Stuck(a)
        /\ SameRecord(a, m)
    BY <1>4, Acknowledges
  <2>2. a.cache = m.cache /\ a.up = NoPkt /\ b.cache = m.cache
    BY <2>1 DEF SameRecord, Ready, Heard
  <2>3. recvDATA(b, f, stale) = IF f.retry /\ e \in b.cache THEN c ELSE n
    BY <1>4 DEF recvDATA
  <2>4. e \in Station \X Nat
    BY <1>0
  <2>5. e = <<f.from, f.seq>>
    OBVIOUS
  <2> HIDE DEF a, e
  <2>6. /\ c \in StationType /\ SameTask(c, a) /\ SameState(c, a) /\ SameVoice(c, a)
        /\ SameEar(c, a) /\ c.fault = a.fault /\ c.up = a.up
        /\ Cardinality(a.cache) < CacheSize => a.cache \subseteq c.cache /\ e \in c.cache
    BY <2>1, <2>4, Remembers DEF Core
  <2> HIDE DEF c
  <2>7. CASE f.retry /\ e \in b.cache
    <3>1. Learns(c, m, f)
      BY <2>2, <2>5, <2>6 DEF Learns
    <3>2. c.recv = a.recv
      BY <2>6 DEF SameEar
    <3>3. Received(c, m, f)
      BY <2>1, <2>6, <3>1, <3>2, RecordOnly
    <3> QED
      BY <2>3, <2>7, <3>3
  <2>8. CASE ~(f.retry /\ e \in b.cache)
    <3>1. /\ n \in StationType /\ SameTask(n, c) /\ SameState(n, c) /\ SameVoice(n, c)
          /\ SameEar(n, c) /\ n.fault = c.fault /\ n.cache = c.cache /\ n.up = f.pkt
      BY <1>1, <2>6
    <3> HIDE DEF n
    <3>2. Learns(n, m, f)
      BY <2>2, <2>5, <2>6, <2>8, <3>1 DEF Learns
    <3>3. /\ SameTask(n, a) /\ SameState(n, a) /\ SameVoice(n, a) /\ n.recv = a.recv
          /\ n.fault = a.fault
      BY <2>6, <3>1 DEF SameTask, SameState, SameVoice, SameEar
    <3>4. Received(n, m, f)
      BY <2>1, <3>1, <3>2, <3>3, RecordOnly
    <3> QED
      BY <2>3, <2>8, <3>4
  <2> QED
    BY <2>7, <2>8
<1> QED
  BY <1>2, <1>3, <1>4

LEMMA RecvHandled ==
  ASSUME NEW m, Ready(m), m.recv = 0, NEW r \in Nat, NEW space \in {SIFS, DIFS}, NEW stale,
         m.tx # NoPkt /\ m.tx.kind = "beacon" => ~Unicast(m.tx)
  PROVE  LET n == recvHandler([m EXCEPT !.recv = Off], r, space, stale)
         IN  /\ Sound(n) /\ Advances(n, m) /\ Learns(n, m, m.rx) /\ (Stuck(n) => Stuck(m))
             /\ m.rx # NoFrame /\ Proper(m.rx)
             /\ n.rx = NoFrame /\ n.recv = Off
<1> DEFINE a == [m EXCEPT !.recv = Off]
           f == m.rx
           n == IF f.to # a.me THEN set_NAV(a, f.dur) ELSE a
           h == recvHandler(a, r, space, stale)
<1>1. m.rx # NoFrame /\ Proper(m.rx) /\ m.rxs # "IDLE"
  BY DEF Ready, Sound, Hears, Off
<1>2. m \in StationType
  BY DEF Ready, Sound
<1>3. /\ a \in StationType /\ SameTask(a, m) /\ SameVoice(a, m) /\ SameRecord(a, m)
      /\ SameState(a, m) /\ a.recv = Off /\ a.rx = m.rx /\ a.rxs = m.rxs
  <2>1. Off \in Ticks
    BY DEF Ticks
  <2>2. a \in StationType
    BY <1>2, <2>1 DEF StationType
  <2> QED
    BY <1>2, <2>2 DEF StationType, SameTask, SameVoice, SameRecord, SameState
<1> HIDE DEF a
<1>4. Heard(a, m)
  BY <1>3 DEF Heard
<1>5. ASSUME NEW d \in Nat
      PROVE  Heard(set_NAV(a, d), m)
  <2>1. LET b == set_NAV(a, d)
        IN  /\ b \in StationType /\ SameTask(b, a) /\ SameVoice(b, a) /\ SameRecord(b, a)
            /\ SameState(b, a) /\ b.recv = a.recv
    BY <1>3, NavChanges
  <2> QED
    BY <1>3, <2>1 DEF Heard, SameTask, SameVoice, SameRecord, SameState
<1>6. f.dur \in Nat /\ EIFS \in Nat /\ f.type \in {"RTS", "CTS", "ACK", "DATA"}
  BY <1>1, RadioConstants DEF Proper, Frame, EIFS, DIFS, SIFS, SlotTime
<1>7. Heard(n, m)
  BY <1>4, <1>5, <1>6
<1>8. a.me = m.me /\ a.active = m.active
  BY <1>3 DEF SameTask, SameVoice
<1>9. PICK x : h = rx_resume(x) /\ Received(x, m, f)
  <2>1. CASE a.active
    <3>1. h = rx_resume(a)
      BY <2>1 DEF recvHandler
    <3> QED
      BY <1>4, <3>1, HeardOnly
  <2>2. CASE ~a.active /\ (a.rxs = "COLL" \/ f.err)
    <3>1. h = rx_resume(set_NAV(a, EIFS))
      BY <1>3, <2>2 DEF recvHandler
    <3> QED
      BY <1>5, <1>6, <3>1, HeardOnly
  <2>3. CASE ~a.active /\ ~(a.rxs = "COLL" \/ f.err) /\ f.to \notin {a.me, Broadcast}
    <3>1. h = rx_resume(n)
      BY <1>3, <2>3 DEF recvHandler
    <3> QED
      BY <1>7, <3>1, HeardOnly
  <2>4. CASE ~a.active /\ ~(a.rxs = "COLL" \/ f.err) /\ f.to \in {a.me, Broadcast}
    <3> HIDE DEF h
    <3>1. ASSUME NEW x, Received(x, m, f), h = rx_resume(x)
          PROVE  \E y : h = rx_resume(y) /\ Received(y, m, f)
      BY <3>1
    <3>2. CASE f.type = "RTS"
      <4>1. h = rx_resume(recvRTS(n, f))
        BY <1>3, <2>4, <3>2 DEF recvHandler, h
      <4> QED
        BY <1>1, <1>7, <3>1, <3>2, <4>1, RTSReceived
    <3>3. CASE f.type = "CTS"
      <4>1. h = rx_resume(recvCTS(n))
        BY <1>3, <2>4, <3>3 DEF recvHandler, h
      <4> QED
        BY <1>7, <3>1, <4>1, CTSReceived
    <3>4. CASE f.type = "ACK"
      <4>1. h = rx_resume(recvACK(n, r, space))
        BY <1>3, <2>4, <3>4 DEF recvHandler, h
      <4>2. m.txs = "SEND" => m.tx.kind # "beacon"
        BY <1>1, <1>3, <2>4 DEF Ready, Sound, Announces, Sends
      <4> QED
        BY <1>7, <3>1, <4>1, <4>2, ACKReceived
    <3>5. CASE f.type = "DATA"
      <4>1. h = rx_resume(recvDATA(n, f, stale))
        BY <1>3, <2>4, <3>5 DEF recvHandler, h
      <4>2. m.rxs = "RECV" /\ ~f.err /\ f.to \in {m.me, Broadcast}
        BY <1>1, <1>2, <1>3, <1>8, <2>4 DEF StationType, RxState
      <4> QED
        BY <1>1, <1>7, <3>1, <3>5, <4>1, <4>2, DATAReceived
    <3> QED
      BY <1>6, <3>2, <3>3, <3>4, <3>5
  <2>5. a.active \in BOOLEAN /\ f.err \in BOOLEAN
    BY <1>1, <1>3 DEF StationType, Proper, Frame
  <2> QED
    BY <2>1, <2>2, <2>3, <2>4, <2>5
<1> QED
  BY <1>1, <1>9, RxResumes DEF a

-----------------------------------------------------------------------------
(* A frame begins to arrive, a packet is handed down, time passes. *)

(* The frame being received is not spoilt yet. *)
Clear(m) == m.rxs = "RECV" /\ ~m.rx.err

LEMMA ArrivalHandled ==
  ASSUME NEW m, Ready(m), NEW f, Proper(f),
         m.txs = "SEND" /\ ~Unicast(m.tx) => m.active
  PROVE  LET n == recv(m, f)
         IN  /\ Sound(n) /\ Advances(n, m) /\ (Stuck(n) => Stuck(m))
             /\ n.cache = m.cache /\ n.up = NoPkt
             /\ SameTask(n, m) /\ SameVoice(n, m) /\ n.txs = m.txs /\ n.send = m.send
             /\ n.defer = m.defer
             /\ \/ n.rx = m.rx /\ n.recv = m.recv
                \/ n.rx \in {f, Spoiled(f)} /\ n.recv = Airtime(f)
             /\ Held(n, m)
             /\ Clear(n) => \/ Clear(m) /\ n.rx = m.rx /\ n.recv = m.recv
                            \/ ~m.active /\ n.rx = f /\ n.recv = Airtime(f)
<1> DEFINE e == f.err \/ m.active
           g == [f EXCEPT !.err = e]
           A == Airtime(f)
           n == recv(m, f)
<1>0. m \in StationType /\ ~m.fault /\ m.out = NoFrame
  BY DEF Ready, Sound
<1>1. e \in BOOLEAN /\ (m.active => e) /\ f \in Frame
  BY <1>0 DEF StationType, Proper, Frame
<1> HIDE DEF e
<1>2. g \in Frame /\ g.err = e /\ g \in {f, Spoiled(f)} /\ Airtime(g) = A
      /\ (~g.err => g = f)
  <2>1. g \in Frame /\ g.err = e /\ g.type = f.type /\ g.pkt = f.pkt
    BY <1>1 DEF Frame
  <2>2. ASSUME e = TRUE PROVE g = Spoiled(f)
    BY <2>2 DEF Spoiled
  <2>3. ASSUME e = FALSE PROVE g = f
    <3>1. f.err = FALSE
      BY <1>1, <2>3 DEF e, Frame
    <3> QED
      BY <1>1, <2>3, <3>1 DEF Frame
  <2> QED
    BY <1>1, <2>1, <2>2, <2>3 DEF Airtime
<1>3. Proper(g)
  BY <1>1, <1>2 DEF Proper, Frame
<1>4. g # NoFrame
  BY <1>2 DEF Frame, NoFrame
<1>5. A \in Ticks /\ A # Off
  BY AirtimeType DEF Ticks, Off
<1>6. n = IF m.rxs = "IDLE"
          THEN Asserting(m.rx = NoFrame, [SetRx(m, "RECV") EXCEPT !.rx = g, !.recv = A])
          ELSE IF <<m.me, m.rx.from, f.from>> \in Louder THEN capture(m, f)
          ELSE collision(m, g)
  BY DEF recv, e
<1> HIDE DEF A, n, g
(* What is left to show where the MAC hears a frame it did not. *)
<1>7. ASSUME NEW b, b \in StationType, Steady(b), SameTask(b, m), SameVoice(b, m),
             SameRecord(b, m), b.txs = m.txs, b.send = m.send, b.defer = m.defer,
             b.backoff = Off <=> m.backoff = Off,
             b.rxs # "IDLE", b.recv # Off,
             \/ b.rx = m.rx /\ b.recv = m.recv /\ m.rx # NoFrame
             \/ b.rx = g /\ b.recv = A
      PROVE  /\ Sound(b) /\ Advances(b, m) /\ (Stuck(b) => Stuck(m))
             /\ b.cache = m.cache /\ b.up = NoPkt
  <2>1. Hears(b)
    BY <1>3, <1>4, <1>7 DEF Hears, Ready, Sound
  <2>2. Speaks(b) /\ Answers(b) /\ Sends(b) /\ Defers(b)
    BY <1>7 DEF Ready, Sound, Speaks, Answers, Sends, Defers, SameTask, SameVoice
  <2>3. Frozen(b) /\ ~b.fault
    BY <1>0, <1>7 DEF Frozen, Steady, SameRecord
  <2>4. Announces(b)
    BY <1>1, <1>2, <1>7 DEF Ready, Sound, Announces, SameTask, SameVoice
  <2>5. Advances(b, m)
    BY <1>0, <1>7 DEF Advances, SameTask, SameVoice, StationType
  <2>6. (Stuck(b) => Stuck(m)) /\ b.cache = m.cache /\ b.up = NoPkt
    BY <1>7 DEF Stuck, Ready, SameTask, SameRecord
  <2> QED
    BY <1>7, <2>1, <2>2, <2>3, <2>4, <2>5, <2>6 DEF Sound
<1>8. CASE m.rxs = "IDLE"
  <2> DEFINE a == SetRx(m, "RECV")
             b == [a EXCEPT !.rx = g, !.recv = A]
  <2>1. /\ a \in StationType /\ Steady(a) /\ a.rxs = "RECV"
        /\ SameTask(a, m) /\ SameVoice(a, m) /\ SameRecord(a, m)
        /\ a.nav = m.nav
        /\ a.txs = m.txs /\ a.send = m.send /\ a.defer = m.defer
        /\ a.backoff = Off <=> m.backoff = Off
    <3>1. "RECV" \in RxState /\ (m.backoff = Off => ~m.paused)
      BY DEF RxState, Ready, Sound, Frozen
    <3> QED
      BY <1>0, <3>1, RxChanges
  <2>2. n = b
    BY <1>6, <1>8 DEF Asserting, Ready, Sound, Hears
  <2>7. Held(a, m)
    BY <1>0, RxHeld DEF RxState
  <2> HIDE DEF a
  <2>3. b \in StationType
    BY <1>2, <1>5, <2>1, ZenonT(60) DEF StationType
  <2>4. /\ SameTask(b, a) /\ SameVoice(b, a) /\ SameRecord(b, a) /\ SameState(b, a)
        /\ b.rxs = a.rxs /\ b.nav = a.nav /\ b.rx = g /\ b.recv = A
    BY <2>1 DEF StationType, SameTask, SameVoice, SameRecord, SameState
  <2> HIDE DEF b
  <2>5. Steady(b)
    BY <2>1, <2>4 DEF Steady, Idle, SameState
  <2>6. /\ SameTask(b, m) /\ SameVoice(b, m) /\ SameRecord(b, m)
        /\ b.txs = m.txs /\ b.send = m.send /\ b.defer = m.defer
        /\ b.backoff = Off <=> m.backoff = Off
        /\ b.rxs # "IDLE" /\ b.recv # Off
    BY <1>5, <2>1, <2>4 DEF SameTask, SameVoice, SameRecord, SameState
  <2>8. Held(b, m)
    BY <2>4, <2>7 DEF Held, SameState
  <2>9. Clear(b) => ~m.active /\ b.rx = f /\ b.recv = A
    BY <1>1, <1>2, <2>4 DEF Clear
  <2> QED
    BY <1>2, <1>7, <2>2, <2>3, <2>4, <2>5, <2>6, <2>8, <2>9 DEF n, A
<1>9. CASE m.rxs # "IDLE"
  <2>0. m.rx # NoFrame /\ m.recv # Off
    BY <1>9 DEF Ready, Sound, Hears
  <2>1. CASE <<m.me, m.rx.from, f.from>> \in Louder
    <3> DEFINE b == set_NAV(m, A + EIFS)
    <3>1. A + EIFS \in Nat
      BY AirtimeType, RadioConstants DEF A, EIFS, DIFS, SIFS, SlotTime
    <3>2. /\ b \in StationType /\ SameTask(b, m) /\ SameVoice(b, m) /\ SameRecord(b, m)
          /\ SameState(b, m) /\ b.rxs = m.rxs /\ b.rx = m.rx /\ b.recv = m.recv
      BY <1>0, <3>1, NavChanges
    <3>3. n = b
      BY <1>6, <1>9, <2>1 DEF capture, A
    <3> HIDE DEF b
    <3>4. Steady(b)
      BY <1>9, <3>2 DEF Steady, Idle, Ready, Sound, Frozen, SameState, StationType
    <3>5. Held(b, m)
      BY <1>0, <3>2, HeldStill DEF SameState
    <3>6. Clear(b) => Clear(m)
      BY <3>2 DEF Clear
    <3> QED
      BY <1>7, <1>9, <2>0, <3>2, <3>3, <3>4, <3>5, <3>6 DEF n, SameState
  <2>2. CASE <<m.me, m.rx.from, f.from>> \notin Louder
    <3> DEFINE a == IF m.rxs = "RECV" THEN SetRx(m, "COLL") ELSE m
               b == [a EXCEPT !.rx = g, !.recv = A]
    <3>0. Held(a, m)
      BY <1>0, HeldStill, RxHeld DEF RxState
    <3>1. /\ a \in StationType /\ Steady(a) /\ a.rxs = "COLL"
          /\ SameTask(a, m) /\ SameVoice(a, m) /\ SameRecord(a, m)
          /\ a.nav = m.nav /\ a.rx = m.rx /\ a.recv = m.recv
          /\ a.txs = m.txs /\ a.send = m.send /\ a.defer = m.defer
          /\ a.backoff = Off <=> m.backoff = Off
      <4>1. CASE m.rxs = "RECV"
        <5>1. "COLL" \in RxState /\ (m.backoff = Off => ~m.paused)
          BY DEF RxState, Ready, Sound, Frozen
        <5> QED
          BY <1>0, <4>1, <5>1, RxChanges
      <4>2. CASE m.rxs # "RECV"
        <5>1. Steady(m)
          BY <1>0, <1>9 DEF Steady, Idle, Ready, Sound, Frozen, StationType
        <5> QED
          BY <1>0, <1>9, <4>2, <5>1 DEF SameTask, SameVoice, SameRecord, StationType, RxState
      <4> QED
        BY <4>1, <4>2
    <3>2. n = IF A > m.recv THEN b ELSE a
      BY <1>2, <1>6, <1>9, <2>0, <2>2 DEF collision, Asserting
    <3> HIDE DEF a
    <3>3. CASE A > m.recv
      <4>1. b \in StationType
        BY <1>2, <1>5, <3>1, ZenonT(60) DEF StationType
      <4>2. /\ SameTask(b, a) /\ SameVoice(b, a) /\ SameRecord(b, a) /\ SameState(b, a)
            /\ b.rxs = a.rxs /\ b.nav = a.nav /\ b.rx = g /\ b.recv = A
        BY <3>1 DEF StationType, SameTask, SameVoice, SameRecord, SameState
      <4> HIDE DEF b
      <4>3. Steady(b)
        BY <3>1, <4>2 DEF Steady, Idle, SameState
      <4>4. /\ SameTask(b, m) /\ SameVoice(b, m) /\ SameRecord(b, m)
            /\ b.txs = m.txs /\ b.send = m.send /\ b.defer = m.defer
            /\ b.backoff = Off <=> m.backoff = Off
            /\ b.rxs # "IDLE" /\ b.recv # Off
        BY <1>5, <3>1, <4>2 DEF SameTask, SameVoice, SameRecord, SameState
      <4>5. Held(b, m) /\ ~Clear(b)
        BY <3>0, <3>1, <4>2 DEF Held, SameState, Clear
      <4> QED
        BY <1>2, <1>7, <3>2, <3>3, <4>1, <4>2, <4>3, <4>4, <4>5 DEF n, A
    <3>4. CASE ~(A > m.recv)
      <4>1. n = a
        BY <3>2, <3>4
      <4>2. /\ Sound(a) /\ Advances(a, m) /\ (Stuck(a) => Stuck(m))
            /\ a.cache = m.cache /\ a.up = NoPkt
        BY <1>7, <2>0, <3>1
      <4> QED
        BY <3>0, <3>1, <4>1, <4>2 DEF n, Clear
    <3> QED
      BY <3>3, <3>4
  <2> QED
    BY <2>1, <2>2
<1> QED
  BY <1>8, <1>9

(* A new packet is a first try, and has a timer from the start. *)
Takes(n, m, p) ==
  /\ n.tx = p /\ ~n.retry /\ n.me = m.me /\ n.txs = m.txs /\ n.txs # "SEND"
  /\ n.rx = m.rx /\ n.recv = m.recv /\ n.cache = m.cache
  /\ n.seq = (m.seq + 1) % SeqSpace
  /\ n.ctrl = m.ctrl /\ n.send = m.send /\ n.rxs = m.rxs
  /\ n.active = m.active /\ n.ifc = m.ifc
  /\ Held(n, m) /\ (m.ctrl # NoFrame => n.defer = m.defer)

LEMMA PacketTaken ==
  ASSUME NEW m, Ready(m), m.tx = NoPkt, NEW p \in Packet, NEW r \in Nat
  PROVE  LET n == send(m, p, r) IN Ready(n) /\ ~Stuck(n) /\ Takes(n, m, p)
<1> DEFINE q == (m.seq + 1) % SeqSpace
           a == [m EXCEPT !.tx = p, !.retry = FALSE, !.seq = q]
           b == sendRTS(a)
           d == (r % b.cw) * SlotTime + Space(p)
           c == [b EXCEPT !.defer = d]
           n == send(m, p, r)
<1>0. m \in StationType /\ ~m.fault /\ m.out = NoFrame /\ m.up = NoPkt
  BY DEF Ready, Sound
<1>1. p # NoPkt
  <2>1. p.id # 0 /\ NoPkt.id = 0
    BY DEF Packet, NoPkt
  <2> QED
    BY <2>1
<1>2. ~m.rts /\ m.txs \notin {"RTS", "SEND"} /\ (m.defer # Off => m.ctrl # NoFrame)
  BY DEF Ready, Sound, Sends, Defers
<1>3. q \in Nat
  <2>1. m.seq \in Nat /\ SeqSpace \in Nat /\ SeqSpace > 0
    BY <1>0, RadioConstants DEF StationType
  <2> QED
    BY <2>1
<1>4. n = IF b.backoff # Off THEN b
          ELSE IF ~Idle(b) THEN start_backoff(b, Space(p), r)
          ELSE IF b.defer # Off THEN b ELSE c
  BY DEF send
<1> HIDE DEF q
<1>5. a \in StationType
  <2>1. m \in StationType /\ q \in Nat /\ p \in Packet
    BY <1>0, <1>3
  <2> DEFINE a0 == [m EXCEPT !.tx = p]
             a1 == [a0 EXCEPT !.retry = FALSE]
  <2>2. a0 \in StationType
    BY <2>1 DEF StationType
  <2>3. a = [a1 EXCEPT !.seq = q]
    BY <2>1 DEF StationType
  <2> HIDE DEF a, a0
  <2>4. a1 \in StationType
    BY <2>2, ZenonT(60) DEF StationType
  <2> HIDE DEF a1
  <2> QED
    BY <2>1, <2>3, <2>4 DEF StationType
<1>6. /\ a.tx = p /\ ~a.retry /\ a.seq = q /\ a.me = m.me /\ a.ctrl = m.ctrl /\ ~a.rts
      /\ SameState(a, m) /\ SameEar(a, m) /\ SameVoice(a, m) /\ SameRecord(a, m)
  BY <1>0, <1>2 DEF StationType, SameState, SameEar, SameVoice, SameRecord
<1> HIDE DEF a
<1>7. /\ b \in StationType /\ SameState(b, a)
      /\ SameEar(b, a) /\ SameVoice(b, a) /\ SameRecord(b, a)
      /\ b.me = a.me /\ b.ctrl = a.ctrl /\ b.tx = a.tx /\ b.seq = a.seq
      /\ b.retry = a.retry
  BY <1>1, <1>5, <1>6, RTSPrepared
<1> HIDE DEF b, n
<1>8. /\ b.me = m.me /\ b.ctrl = m.ctrl /\ b.tx = p /\ b.seq = q /\ ~b.retry
      /\ SameState(b, m) /\ SameEar(b, m) /\ SameVoice(b, m) /\ SameRecord(b, m)
  BY <1>6, <1>7 DEF SameState, SameEar, SameVoice, SameRecord
(* What is left to show is that some timer will send the packet. *)
<1>9. ASSUME NEW x, x \in StationType, SameTask(x, b), SameEar(x, b), SameVoice(x, b),
             SameRecord(x, b), x.txs = b.txs, x.send = b.send, Frozen(x), Defers(x),
             b.defer # Off => x.defer # Off,
             x.send # Off \/ x.defer # Off \/ x.backoff # Off,
             Held(x, m), m.ctrl # NoFrame => x.defer = m.defer
      PROVE  Ready(x) /\ ~Stuck(x) /\ Takes(x, m, p)
  <2>1. Hears(x) /\ Speaks(x)
    BY <1>8, <1>9 DEF Ready, Sound, Hears, Speaks, SameEar, SameVoice
  <2>2. Answers(x)
    BY <1>8, <1>9 DEF Ready, Sound, Answers, SameTask, SameState
  <2>3. Sends(x) /\ Announces(x)
    BY <1>1, <1>2, <1>8, <1>9 DEF Ready, Sound, Sends, Announces, SameTask, SameState
  <2>4. ~x.fault /\ x.out = NoFrame /\ x.up = NoPkt /\ ~Stuck(x)
    BY <1>0, <1>8, <1>9 DEF Stuck, SameVoice, SameRecord
  <2>5. Takes(x, m, p)
    BY <1>2, <1>8, <1>9 DEF Takes, q, SameTask, SameState, SameEar, SameRecord, SameVoice
  <2> QED
    BY <1>9, <2>1, <2>2, <2>3, <2>4, <2>5 DEF Ready, Sound
<1>10. Frozen(b) /\ Defers(b)
  BY <1>2, <1>8 DEF Ready, Sound, Frozen, Defers, Idle, SameState, SameEar
<1>11. SameTask(b, b) /\ SameEar(b, b) /\ SameVoice(b, b) /\ SameRecord(b, b)
  BY DEF SameTask, SameEar, SameVoice, SameRecord
<1>12. Space(p) \in {SIFS, DIFS}
  BY DEF Space
<1>17. Held(b, m) /\ b.defer = m.defer
  BY <1>0, <1>8, HeldStill DEF SameState
<1>13. CASE b.backoff # Off
  BY <1>4, <1>7, <1>9, <1>10, <1>11, <1>13, <1>17 DEF n
<1>14. CASE b.backoff = Off /\ ~Idle(b)
  <2> DEFINE x == start_backoff(b, Space(p), r)
  <2>1. /\ x \in StationType /\ Steady(x) /\ x.backoff # Off
        /\ SameTask(x, b) /\ SameEar(x, b) /\ SameVoice(x, b) /\ SameRecord(x, b)
        /\ x.txs = b.txs /\ x.send = b.send /\ x.defer = b.defer
    BY <1>7, <1>12, BackoffStarts
  <2>2. n = x
    BY <1>4, <1>14
  <2>5. Held(x, b)
    BY <1>7, <1>12, BackoffHeld
  <2> HIDE DEF x
  <2>3. Frozen(x)
    BY <2>1 DEF Frozen, Steady
  <2>4. Defers(x)
    BY <1>2, <1>8, <1>10, <2>1 DEF Defers, SameTask, SameState
  <2>6. Held(x, m)
    BY <1>0, <1>7, <1>17, <2>1, <2>5, HeldTwice
  <2> QED
    BY <1>9, <1>17, <2>1, <2>2, <2>3, <2>4, <2>6 DEF n
<1>15. CASE b.backoff = Off /\ Idle(b) /\ b.defer # Off
  BY <1>4, <1>7, <1>9, <1>10, <1>11, <1>15, <1>17 DEF n
<1>16. CASE b.backoff = Off /\ Idle(b) /\ b.defer = Off
  <2>1. d \in Nat /\ d >= SIFS
    <3>1. b.cw \in Nat /\ b.cw > 0
      BY <1>7 DEF StationType, CWmin, CWmax
    <3>2. r % b.cw \in Nat
      BY <3>1
    <3>3. Space(p) \in Nat /\ Space(p) >= SIFS
      BY <1>12 DEF SIFS, DIFS, SlotTime
    <3> QED
      BY <3>2, <3>3 DEF SlotTime, SIFS
  <2>2. d \in Ticks /\ d # Off
    BY <2>1 DEF Ticks, Off
  <2>3. n = c
    BY <1>4, <1>16
  <2> HIDE DEF d
  <2>4. c \in StationType
    BY <1>7, <2>2 DEF StationType
  <2>5. /\ SameTask(c, b) /\ SameEar(c, b) /\ SameVoice(c, b) /\ SameRecord(c, b)
        /\ c.txs = b.txs /\ c.send = b.send /\ c.defer = d /\ c.backoff = b.backoff
        /\ c.paused = b.paused
    BY <1>7 DEF StationType, SameTask, SameEar, SameVoice, SameRecord
  <2> HIDE DEF c
  <2>6. Frozen(c)
    BY <1>10, <2>5 DEF Frozen, Idle, SameEar
  <2>7. Defers(c)
    BY <1>1, <1>8, <1>16, <2>5 DEF Defers, Idle, SameTask
  <2>8. Held(c, m)
    BY <1>17, <2>1, <2>5 DEF Held
  <2>9. m.ctrl = NoFrame
    BY <1>8, <1>16 DEF Ready, Sound, Answers, Idle, SameState
  <2> QED
    BY <1>9, <2>2, <2>3, <2>4, <2>5, <2>6, <2>7, <2>8, <2>9 DEF n
<1> QED
  BY <1>13, <1>14, <1>15, <1>16

(* The clock moves on by no more than any timer of the station has left. *)
Elapsed(m, d) == [m EXCEPT !.nav = Later(@, d), !.send = Later(@, d),
                           !.defer = Later(@, d), !.ifc = Later(@, d),
                           !.recv = Later(@, d),
                           !.backoff = IF m.paused THEN @ ELSE Later(@, d)]

LEMMA LaterType ==
  ASSUME NEW x \in Ticks, NEW d \in Nat, x # Off => d <= x
  PROVE  /\ Later(x, d) \in Ticks
         /\ Later(x, d) = Off <=> x = Off
         /\ x # Off => Later(x, d) = x - d
BY DEF Later, Ticks, Off

LEMMA TimePasses ==
  ASSUME NEW m, Ready(m), NEW d \in Nat, d > 0, \A t \in Timers(m) : d <= t
  PROVE  LET n == Elapsed(m, d)
         IN  /\ Ready(n) /\ (Stuck(n) => Stuck(m)) /\ SameTask(n, m) /\ SameRecord(n, m)
             /\ n.txs = m.txs /\ n.rxs = m.rxs /\ n.rx = m.rx /\ n.active = m.active
             /\ m.txs = "SEND" => n.send = m.send - d
             /\ m.rx # NoFrame => n.recv = m.recv - d
             /\ ~(m.txs = "SEND" /\ ~Unicast(m.tx) /\ ~m.active)
<1> DEFINE a1 == Later(m.nav, d)
           a2 == Later(m.send, d)
           a3 == Later(m.defer, d)
           a4 == Later(m.ifc, d)
           a5 == Later(m.recv, d)
           a6 == IF m.paused THEN m.backoff ELSE Later(m.backoff, d)
           n == [m EXCEPT !.nav = a1, !.send = a2, !.defer = a3, !.ifc = a4, !.recv = a5,
                          !.backoff = a6]
<1>0. m \in StationType
  BY DEF Ready, Sound
<1>1. /\ m.nav \in Ticks /\ m.send \in Ticks /\ m.defer \in Ticks /\ m.ifc \in Ticks
      /\ m.recv \in Ticks /\ m.backoff \in Ticks
  BY <1>0 DEF StationType
<1>2. /\ m.nav # Off => d <= m.nav
      /\ m.send # Off => d <= m.send
      /\ m.defer # Off => d <= m.defer
      /\ m.ifc # Off => d <= m.ifc
      /\ m.recv # Off => d <= m.recv
      /\ m.backoff # Off /\ ~m.paused => d <= m.backoff
  BY DEF Timers
<1>3. Elapsed(m, d) = n
  BY DEF Elapsed
<1>4. /\ a1 \in Ticks /\ (a1 = Off <=> m.nav = Off) /\ (m.nav # Off => a1 = m.nav - d)
      /\ a2 \in Ticks /\ (a2 = Off <=> m.send = Off) /\ (m.send # Off => a2 = m.send - d)
      /\ a3 \in Ticks /\ (a3 = Off <=> m.defer = Off)
      /\ a4 \in Ticks /\ (a4 = Off <=> m.ifc = Off) /\ (m.ifc # Off => a4 = m.ifc - d)
      /\ a5 \in Ticks /\ (a5 = Off <=> m.recv = Off) /\ (m.recv # Off => a5 = m.recv - d)
  BY <1>1, <1>2, LaterType
<1>5. a6 \in Ticks /\ (a6 = Off <=> m.backoff = Off)
  BY <1>1, <1>2, LaterType
<1> HIDE DEF a1, a2, a3, a4, a5, a6
<1>6. n \in StationType
  BY <1>0, <1>4, <1>5 DEF StationType
<1>7. /\ SameTask(n, m) /\ SameRecord(n, m) /\ n.txs = m.txs /\ n.rxs = m.rxs
      /\ n.rx = m.rx /\ n.active = m.active /\ n.out = m.out /\ n.paused = m.paused
      /\ n.nav = a1 /\ n.send = a2 /\ n.defer = a3 /\ n.ifc = a4 /\ n.recv = a5
      /\ n.backoff = a6
  BY <1>0 DEF StationType, SameTask, SameRecord
<1> HIDE DEF n
<1>8. Hears(n) /\ Speaks(n)
  BY <1>4, <1>7 DEF Ready, Sound, Hears, Speaks
<1>9. Answers(n) /\ Sends(n) /\ Defers(n)
  BY <1>4, <1>5, <1>7 DEF Ready, Sound, Answers, Sends, Defers, SameTask
<1>10. Frozen(n)
  <2>1. CASE m.nav = Off
    BY <1>4, <1>5, <1>7, <2>1 DEF Ready, Sound, Frozen, Idle, Off
  <2>2. CASE m.nav # Off
    <3>1. m.nav \in Nat /\ d <= m.nav /\ a1 = m.nav - d
      BY <1>1, <1>2, <1>4, <2>2 DEF Ticks
    <3>2. ~(m.nav <= 0) /\ (a1 <= 0 <=> a1 = 0) /\ m.nav # 0
      BY <3>1
    <3> QED
      BY <1>5, <1>7, <3>2 DEF Ready, Sound, Frozen, Idle
  <2> QED
    BY <2>1, <2>2
<1>11. m.txs = "SEND" => m.send # Off /\ m.send # 0
  <2>1. m.txs = "SEND" => m.send # Off
    BY DEF Ready, Sound, Sends
  <2> QED
    BY <1>1, <1>2, <2>1 DEF Ticks
<1>12. ~(m.txs = "SEND" /\ ~Unicast(m.tx) /\ ~m.active)
  BY <1>11 DEF Ready, Sound, Announces
<1>13. Announces(n)
  <2>1. SUFFICES ASSUME n.txs = "SEND", ~Unicast(n.tx)
                 PROVE  /\ n.rx # NoFrame => n.rx.err
                        /\ n.active => n.ifc = n.send
                        /\ ~n.active => n.send = 0
    BY DEF Announces
  <2>2. /\ m.txs = "SEND" /\ m.active /\ m.ifc = m.send /\ m.rx # NoFrame => m.rx.err
    BY <1>7, <1>12, <2>1 DEF Ready, Sound, Announces, SameTask
  <2> QED
    BY <1>4, <1>7, <1>11, <1>12, <2>1, <2>2 DEF Ready, Sound, Announces, SameTask
<1>14. ~n.fault /\ n.out = NoFrame /\ n.up = NoPkt
  BY <1>7 DEF Ready, Sound, SameRecord
<1>15. Stuck(n) => Stuck(m)
  BY <1>4, <1>5, <1>7 DEF Stuck, SameTask
<1>16. m.rx # NoFrame => m.recv # Off
  BY DEF Ready, Sound, Hears
<1> QED
  BY <1>3, <1>4, <1>6, <1>7, <1>8, <1>9, <1>10, <1>11, <1>12, <1>13, <1>14, <1>15, <1>16
     DEF Ready, Sound

-----------------------------------------------------------------------------
(* The inductive invariant: every station is Sound between its events, and *)
(* the packets and the frames are ones somebody sends.                     *)

Copy == [at : Station, frame : Frame, left : Nat]

Traffic == /\ DOMAIN due \subseteq Packet /\ due \in [DOMAIN due -> Ticks]
           /\ \A p \in DOMAIN due : p.kind = "beacon" => ~Unicast(p)
           /\ queue \in [Station -> Seq(DOMAIN due)]

Stations == /\ st \in [Station -> StationType]
            /\ \A s \in Station : /\ Ready(st[s]) /\ st[s].me = s
                                  /\ st[s].tx \in DOMAIN due \cup {NoPkt}

Channel == \A c \in air : c \in Copy /\ Proper(c.frame)

(* A broadcast is over for its sender's interface at the instant it is     *)
(* over for its MAC: no frame arrives in between.                          *)
Hushed == \A s \in Station :
            st[s].txs = "SEND" /\ ~Unicast(st[s].tx) /\ ~st[s].active => Quiet

Inv == Traffic /\ Stations /\ Channel /\ Hushed

Cleared(n) == [n EXCEPT !.out = NoFrame, !.up = NoPkt]

LEMMA ClearedReady ==
  ASSUME NEW n, Sound(n)
  PROVE  LET k == Cleared(n)
         IN  /\ Ready(k) /\ k \in StationType /\ (Stuck(k) <=> Stuck(n))
             /\ SameTask(k, n) /\ SameEar(k, n) /\ SameState(k, n)
             /\ k.active = n.active /\ k.ifc = n.ifc /\ k.cache = n.cache
<1> DEFINE k == Cleared(n)
<1>0. n \in StationType
  BY DEF Sound
<1>1. k \in StationType
  BY <1>0 DEF Cleared, StationType
<1>2. /\ SameTask(k, n) /\ SameEar(k, n) /\ SameState(k, n)
      /\ k.active = n.active /\ k.ifc = n.ifc /\ k.cache = n.cache /\ k.fault = n.fault
      /\ k.out = NoFrame /\ k.up = NoPkt
  BY <1>0 DEF Cleared, StationType, SameTask, SameEar, SameState
<1> HIDE DEF k
<1>3. Hears(k) /\ Speaks(k) /\ Announces(k)
  BY <1>2 DEF Sound, Hears, Speaks, Announces, SameTask, SameEar, SameState
<1>4. Answers(k) /\ Sends(k) /\ Defers(k)
  BY <1>2 DEF Sound, Answers, Sends, Defers, SameTask, SameState
<1>5. Frozen(k)
  BY <1>2 DEF Sound, Frozen, Idle, SameEar, SameState
<1>6. Stuck(k) <=> Stuck(n)
  BY <1>2 DEF Stuck, SameTask, SameState
<1> QED
  BY <1>1, <1>2, <1>3, <1>4, <1>5, <1>6 DEF Ready, Sound, k

(* The binder is polled when an event has left station s as k. *)
LEMMA PolledReady ==
  ASSUME Traffic, Stations, NEW s \in Station, NEW k, Ready(k), k.me = s,
         k.tx \in DOMAIN due \cup {NoPkt}, NEW q \in Seq(DOMAIN due), Polled(s, k, q)
  PROVE  /\ st' \in [Station -> StationType] /\ queue' \in [Station -> Seq(DOMAIN due)]
         /\ \A u \in Station \ {s} : st'[u] = st[u] /\ queue'[u] = queue[u]
         /\ Ready(st'[s]) /\ st'[s].me = s /\ st'[s].tx \in DOMAIN due \cup {NoPkt}
         /\ Stuck(st'[s]) => Stuck(k)
         /\ \/ st'[s] = k /\ queue'[s] = q
            \/ /\ k.tx = NoPkt /\ q # <<>> /\ queue'[s] = Tail(q)
               /\ Takes(st'[s], k, Head(q))
<1>0. st \in [Station -> StationType] /\ queue \in [Station -> Seq(DOMAIN due)]
  BY DEF Stations, Traffic
<1>1. CASE k.tx = NoPkt /\ q # <<>>
  <2>1. Head(q) \in DOMAIN due /\ Tail(q) \in Seq(DOMAIN due)
    BY <1>1
  <2>2. PICK r \in Rand : st' = [st EXCEPT ![s] = send(k, Head(q), r)]
    BY <1>1 DEF Polled
  <2>3. queue' = [queue EXCEPT ![s] = Tail(q)]
    BY <1>1 DEF Polled
  <2> DEFINE n == send(k, Head(q), r)
  <2>4. Ready(n) /\ ~Stuck(n) /\ Takes(n, k, Head(q))
    <3>1. Head(q) \in Packet /\ r \in Nat
      BY <2>1, ChannelConstants DEF Traffic
    <3> QED
      BY <1>1, <3>1, PacketTaken
  <2>5. n \in StationType /\ n.me = s /\ n.tx = Head(q)
    BY <2>4 DEF Ready, Sound, Takes
  <2> HIDE DEF n
  <2>6. st' = [st EXCEPT ![s] = n]
    BY <2>2 DEF n
  <2> QED
    BY <1>0, <1>1, <2>1, <2>3, <2>4, <2>5, <2>6
<1>2. CASE ~(k.tx = NoPkt /\ q # <<>>)
  <2>1. st' = [st EXCEPT ![s] = k] /\ queue' = [queue EXCEPT ![s] = q]
    BY <1>2 DEF Polled
  <2>2. k \in StationType
    BY DEF Ready, Sound
  <2> QED
    BY <1>0, <2>1, <2>2
<1> QED
  BY <1>1, <1>2

LEMMA CopiesProper ==
  ASSUME NEW f, f # NoFrame => Proper(f)
  PROVE  \A c \in Copies(f) : /\ c \in Copy /\ Proper(c.frame) /\ c.left = Prop
                              /\ f # NoFrame /\ c.frame = f
<1>1. CASE f = NoFrame
  BY <1>1 DEF Copies
<1>2. CASE f # NoFrame
  <2>1. f \in Frame /\ Prop \in Nat
    BY <1>2, ChannelConstants DEF Proper
  <2>2. ASSUME NEW c \in Copies(f)
        PROVE  /\ c \in Copy /\ Proper(c.frame) /\ c.left = Prop
               /\ f # NoFrame /\ c.frame = f
    <3>1. PICK u \in Station : c = [at |-> u, frame |-> f, left |-> Prop]
      BY <1>2, <2>2 DEF Copies
    <3> QED
      BY <1>2, <2>1, <3>1 DEF Copy
  <2> QED
    BY <2>2
<1> QED
  BY <1>1, <1>2

(* An event leaves station s as n. *)
LEMMA BecomesSound ==
  ASSUME Inv, NEW s \in Station, NEW n, Sound(n), Advances(n, st[s]),
         NEW a, a \subseteq air, NEW how, Becomes(s, n, a, how), due' = due
  PROVE  /\ Traffic' /\ Stations' /\ Channel'
         /\ \A u \in Station \ {s} : st'[u] = st[u] /\ queue'[u] = queue[u]
         /\ Stuck(st'[s]) => Stuck(n)
         /\ \/ st'[s] = Cleared(n) /\ queue'[s] = queue[s]
            \/ /\ n.tx = NoPkt /\ queue[s] # <<>> /\ queue'[s] = Tail(queue[s])
               /\ Takes(st'[s], Cleared(n), Head(queue[s]))
<1> DEFINE k == Cleared(n)
<1>1. /\ Ready(k) /\ k \in StationType /\ (Stuck(k) <=> Stuck(n))
      /\ SameTask(k, n)
  BY ClearedReady
<1>2. k.me = s /\ k.tx \in DOMAIN due \cup {NoPkt} /\ k.tx = n.tx
  BY <1>1 DEF SameTask, Advances, Inv, Stations
<1>3. Polled(s, k, queue[s]) /\ air' = a \cup Copies(n.out)
  BY DEF Becomes, Cleared
<1>4. queue[s] \in Seq(DOMAIN due)
  BY DEF Inv, Traffic
<1> HIDE DEF k
<1>5. /\ st' \in [Station -> StationType] /\ queue' \in [Station -> Seq(DOMAIN due)]
      /\ \A u \in Station \ {s} : st'[u] = st[u] /\ queue'[u] = queue[u]
      /\ Ready(st'[s]) /\ st'[s].me = s /\ st'[s].tx \in DOMAIN due \cup {NoPkt}
      /\ Stuck(st'[s]) => Stuck(k)
      /\ \/ st'[s] = k /\ queue'[s] = queue[s]
         \/ /\ k.tx = NoPkt /\ queue[s] # <<>> /\ queue'[s] = Tail(queue[s])
            /\ Takes(st'[s], k, Head(queue[s]))
  BY <1>1, <1>2, <1>3, <1>4, PolledReady DEF Inv
<1>6. Traffic'
  BY <1>5 DEF Inv, Traffic
<1>7. Stations'
  <2>1. ASSUME NEW u \in Station
        PROVE  Ready(st'[u]) /\ st'[u].me = u /\ st'[u].tx \in DOMAIN due' \cup {NoPkt}
    BY <1>5 DEF Inv, Stations
  <2> QED
    BY <1>5, <2>1 DEF Stations
<1>8. Channel'
  <2>1. n.out # NoFrame => Proper(n.out)
    BY DEF Advances
  <2>2. \A c \in Copies(n.out) : c \in Copy /\ Proper(c.frame)
    BY <2>1, CopiesProper
  <2> QED
    BY <1>3, <2>2 DEF Inv, Channel
<1> QED
  BY <1>1, <1>2, <1>5, <1>6, <1>7, <1>8 DEF k

LEMMA InitSound ==
  ASSUME Init
  PROVE  Inv
<1>1. PICK k \in Cases :
        /\ due \in [k.load -> Offsets] /\ air = {}
        /\ st = [s \in Station |-> Station0(s)]
        /\ queue = [s \in Station |-> <<>>]
  BY DEF Init
<1>2. /\ DOMAIN due = k.load /\ k.load \subseteq Packet /\ Offsets \subseteq Nat
      /\ \A p \in k.load : p.kind = "beacon" => ~Unicast(p)
  BY <1>1, ChannelConstants
<1>3. Traffic
  <2>1. due \in [DOMAIN due -> Ticks]
    BY <1>1, <1>2 DEF Ticks
  <2>2. queue \in [Station -> Seq(DOMAIN due)]
    BY <1>1
  <2> QED
    BY <1>2, <2>1, <2>2 DEF Traffic
<1>4. ASSUME NEW s \in Station
      PROVE  /\ Station0(s) \in StationType /\ Ready(Station0(s)) /\ Station0(s).me = s
             /\ Station0(s).tx = NoPkt /\ Station0(s).txs = "IDLE"
  <2> DEFINE m == Station0(s)
  <2>1. m \in StationType
    BY DEF Station0, StationType, TxState, RxState, Ticks, CWmin, CWmax
  <2>2. /\ m.me = s /\ m.txs = "IDLE" /\ m.rxs = "IDLE" /\ ~m.active /\ m.ctrl = NoFrame
        /\ ~m.rts /\ m.tx = NoPkt /\ m.rx = NoFrame /\ m.send = Off /\ m.defer = Off
        /\ m.backoff = Off /\ ~m.paused /\ m.ifc = Off /\ m.recv = Off
        /\ m.out = NoFrame /\ m.up = NoPkt /\ ~m.fault
    BY DEF Station0
  <2> HIDE DEF m
  <2>3. Hears(m) /\ Speaks(m) /\ Answers(m) /\ Sends(m) /\ Defers(m) /\ Frozen(m)
        /\ Announces(m)
    BY <2>2 DEF Hears, Speaks, Answers, Sends, Defers, Frozen, Announces
  <2> QED
    BY <2>1, <2>2, <2>3 DEF Ready, Sound, m
<1>5. Stations
  BY <1>1, <1>4 DEF Stations
<1>6. Channel /\ Hushed
  BY <1>1, <1>4 DEF Channel, Hushed
<1> QED
  BY <1>3, <1>5, <1>6 DEF Inv

(* Nothing that is due at this very instant finds a broadcast that is over *)
(* for the interface alone, and nothing starts one that is.                *)
LEMMA StaysHushed ==
  ASSUME Inv, NEW s \in Station, Ready(st'[s]),
         \A u \in Station \ {s} : st'[u] = st[u],
         st'[s].txs = "SEND" => /\ st[s].txs = "SEND" /\ st'[s].tx = st[s].tx
                                /\ st'[s].active = st[s].active,
         ~Quiet
  PROVE  Hushed'
<1>1. \A u \in Station : ~(st[u].txs = "SEND" /\ ~Unicast(st[u].tx) /\ ~st[u].active)
  BY DEF Inv, Hushed
<1> QED
  BY <1>1 DEF Hushed

LEMMA StaysQuiet ==
  ASSUME Quiet, due' = due, NEW f, f # NoFrame => Proper(f), air' = air \cup Copies(f)
  PROVE  Quiet'
<1>1. \A c \in Copies(f) : c.left = Prop /\ Prop > 0
  BY CopiesProper, ChannelConstants
<1> QED
  BY <1>1 DEF Quiet

LEMMA OfferSound ==
  ASSUME Inv, NEW p \in DOMAIN due, Offer(p)
  PROVE  /\ Inv' /\ \A s \in Station : Stuck(st'[s]) => Stuck(st[s])
<1> DEFINE s == p.from
           q == Append(queue[s], p)
<1>1. s \in Station /\ p # NoPkt
  <2>1. p \in Packet
    BY DEF Inv, Traffic
  <2> QED
    BY <2>1 DEF Packet, NoPkt
<1>2. /\ Ready(st[s]) /\ st[s].me = s /\ st[s].tx \in DOMAIN due \cup {NoPkt}
      /\ q \in Seq(DOMAIN due) /\ Traffic /\ Stations
  BY <1>1 DEF Inv, Stations, Traffic
<1>3. Polled(s, st[s], q)
  BY DEF Offer
<1> HIDE DEF q
<1>4. /\ st' \in [Station -> StationType] /\ queue' \in [Station -> Seq(DOMAIN due)]
      /\ \A u \in Station \ {s} : st'[u] = st[u] /\ queue'[u] = queue[u]
      /\ Ready(st'[s]) /\ st'[s].me = s /\ st'[s].tx \in DOMAIN due \cup {NoPkt}
      /\ Stuck(st'[s]) => Stuck(st[s])
      /\ st'[s] = st[s] \/ Takes(st'[s], st[s], Head(q))
  BY <1>1, <1>2, <1>3, PolledReady
<1>5. DOMAIN due' = DOMAIN due /\ due' \in [DOMAIN due -> Ticks] /\ air' = air
  BY DEF Offer, Inv, Traffic, Ticks
<1>6. Traffic' /\ Stations' /\ Channel'
  <2>1. Traffic'
    BY <1>4, <1>5 DEF Inv, Traffic
  <2>2. ASSUME NEW u \in Station
        PROVE  Ready(st'[u]) /\ st'[u].me = u /\ st'[u].tx \in DOMAIN due' \cup {NoPkt}
    BY <1>4, <1>5 DEF Inv, Stations
  <2>3. Channel'
    BY <1>5 DEF Inv, Channel
  <2> QED
    BY <1>4, <2>1, <2>2, <2>3 DEF Stations
<1>7. Hushed'
  <2>1. ~Quiet
    BY DEF Quiet, Offer
  <2>2. st'[s].txs = "SEND" => st'[s] = st[s]
    BY <1>4 DEF Takes
  <2> QED
    BY <1>1, <1>4, <2>1, <2>2, StaysHushed
<1> QED
  BY <1>4, <1>6, <1>7 DEF Inv

(* f is the frame g, spoilt perhaps. *)
Like(f, g) == /\ f.type = g.type /\ f.from = g.from /\ f.pkt = g.pkt
              /\ f.seq = g.seq /\ f.retry = g.retry

Carries(f, p) == f.type = "DATA" /\ f.pkt = p

Entry(f) == <<f.from, f.seq>>

(* From m to n a station goes on with what it hears, stops hearing it, or  *)
(* hears a frame of F; it passes up, and remembers, what it has heard.     *)
Receives(n, m, F) ==
  /\ n.rx = NoFrame \/ \E f \in F \cup {m.rx} : Like(n.rx, f)
  /\ m.cache \subseteq n.cache
  /\ n.up # NoPkt => /\ n.rx = NoFrame /\ Carries(m.rx, n.up)
                     /\ Unicast(n.up) =>
                          /\ Entry(m.rx) \in n.cache
                          /\ m.rx.retry => Entry(m.rx) \notin m.cache

LEMMA SpoiltAlike ==
  ASSUME NEW f, f \in Frame
  PROVE  Like(f, f) /\ Like(Spoiled(f), f) /\ Spoiled(f) \in Frame
BY DEF Like, Spoiled, Frame

LEMMA OverheardReceives ==
  ASSUME NEW m, Ready(m), NEW n, Overhears(n, m)
  PROVE  Receives(n, m, {})
<1>1. n.cache = m.cache /\ n.up = NoPkt
  BY DEF Ready, Overhears
<1>2. n.rx = NoFrame \/ Like(n.rx, m.rx)
  <2>1. CASE n.rx = m.rx
    BY <2>1 DEF Like
  <2>2. CASE m.rx # NoFrame /\ n.rx = Spoiled(m.rx)
    <3>1. m.rx \in Frame
      BY <2>2 DEF Ready, Sound, Hears, Proper
    <3> QED
      BY <2>2, <3>1, SpoiltAlike
  <2> QED
    BY <2>1, <2>2 DEF Overhears
<1> QED
  BY <1>1, <1>2 DEF Receives

LEMMA LearntReceives ==
  ASSUME NEW m, Ready(m), Cardinality(m.cache) < CacheSize, NEW n, Learns(n, m, m.rx),
         n.rx = NoFrame
  PROVE  Receives(n, m, {})
BY DEF Learns, Receives, Carries, Entry

(* The frame c arrives at a station, which is left as n. *)
ArrivesAs(c, n) ==
  LET m == st[c.at]
  IN  /\ Becomes(c.at, n, air \ {c}, "none") /\ Sound(n) /\ Advances(n, m)
      /\ (Stuck(n) => Stuck(m)) /\ SameTask(n, m) /\ SameVoice(n, m)
      /\ n.txs = m.txs /\ Receives(n, m, {c.frame})

LEMMA ArrivalTaken ==
  ASSUME Inv, NEW c \in air, Arrive(c)
  PROVE  \E n : ArrivesAs(c, n)
<1> DEFINE m == st[c.at]
           a == air \ {c}
<1>1. c.at \in Station /\ Proper(c.frame) /\ c.frame \in Frame /\ ~Quiet
  BY DEF Inv, Channel, Copy, Arrive, Quiet
<1>2. /\ Ready(m) /\ m \in StationType
      /\ m.txs = "SEND" /\ ~Unicast(m.tx) => m.active
  BY <1>1 DEF Inv, Stations, Hushed
<1>3. ASSUME NEW f, Proper(f), Like(f, c.frame), Becomes(c.at, recv(m, f), a, "none")
      PROVE  \E n : ArrivesAs(c, n)
  <2> DEFINE n == recv(m, f)
  <2>1. /\ Sound(n) /\ Advances(n, m) /\ (Stuck(n) => Stuck(m))
        /\ n.cache = m.cache /\ n.up = NoPkt
        /\ SameTask(n, m) /\ SameVoice(n, m) /\ n.txs = m.txs
        /\ n.rx = m.rx \/ n.rx \in {f, Spoiled(f)}
    BY <1>2, <1>3, ArrivalHandled
  <2> HIDE DEF n
  <2>2. f \in Frame /\ Like(Spoiled(f), f)
    BY <1>3, SpoiltAlike DEF Proper
  <2>3. \E g \in {c.frame, m.rx} : Like(n.rx, g)
    BY <1>3, <2>1, <2>2 DEF Like
  <2>4. Receives(n, m, {c.frame})
    BY <2>1, <2>3 DEF Receives
  <2> QED
    BY <1>3, <2>1, <2>4 DEF ArrivesAs, n
(* A frame that fades leaves the station as it was. *)
<1>4. CASE Becomes(c.at, m, a, "none")
  <2>1. Advances(m, m) /\ m.up = NoPkt /\ Sound(m)
    BY <1>2 DEF Advances, Ready
  <2>2. SameTask(m, m) /\ SameVoice(m, m)
    BY DEF SameTask, SameVoice
  <2>3. Receives(m, m, {c.frame})
    BY <2>1 DEF Receives, Like
  <2> QED
    BY <1>4, <2>1, <2>2, <2>3 DEF ArrivesAs
<1>5. Proper(Spoilt(c)) /\ Like(Spoilt(c), c.frame) /\ Like(c.frame, c.frame)
  <2>1. Spoilt(c) = Spoiled(c.frame)
    BY DEF Spoilt, Spoiled
  <2>2. Like(Spoiled(c.frame), c.frame) /\ Like(c.frame, c.frame)
        /\ Proper(Spoiled(c.frame))
    BY <1>1, SpoiltAlike DEF Proper, Spoiled, Frame
  <2> QED
    BY <2>1, <2>2
<1> QED
  BY <1>1, <1>3, <1>4, <1>5 DEF Arrive

LEMMA ArriveSound ==
  ASSUME Inv, NEW c \in air, Arrive(c)
  PROVE  /\ Inv' /\ \A s \in Station : Stuck(st'[s]) => Stuck(st[s])
<1> DEFINE s == c.at
           m == st[s]
           a == air \ {c}
<1>1. s \in Station /\ Proper(c.frame) /\ ~Quiet /\ a \subseteq air /\ due' = due
  BY DEF Inv, Channel, Copy, Arrive, Quiet
<1>2. /\ Ready(m) /\ m.me = s /\ m \in StationType
      /\ m.txs = "SEND" /\ ~Unicast(m.tx) => m.active
  BY <1>1 DEF Inv, Stations, Hushed
<1>3. PICK n : ArrivesAs(c, n)
  BY ArrivalTaken
<1>4. /\ Traffic' /\ Stations' /\ Channel'
      /\ \A u \in Station \ {s} : st'[u] = st[u] /\ queue'[u] = queue[u]
      /\ Stuck(st'[s]) => Stuck(n)
      /\ st'[s] = Cleared(n) \/ Takes(st'[s], Cleared(n), Head(queue[s]))
  BY <1>1, <1>3, BecomesSound DEF ArrivesAs
<1>5. Hushed'
  <2>1. SameTask(Cleared(n), n) /\ SameState(Cleared(n), n) /\ Cleared(n).active = n.active
    BY <1>3, ClearedReady DEF ArrivesAs
  <2>2. st'[s].txs = "SEND" => /\ m.txs = "SEND" /\ st'[s].tx = m.tx
                               /\ st'[s].active = m.active
    BY <1>3, <1>4, <2>1 DEF ArrivesAs, Takes, SameTask, SameState, SameVoice
  <2>3. Ready(st'[s])
    BY <1>1, <1>4 DEF Stations
  <2> QED
    BY <1>1, <1>4, <2>2, <2>3, StaysHushed
<1> QED
  BY <1>3, <1>4, <1>5 DEF Inv, ArrivesAs

(* What the expiry of a timer of station s makes of it. *)
ExpiresTo(s, n, how) == /\ Becomes(s, n, air, how) /\ Sound(n) /\ Advances(n, st[s])
                        /\ Cardinality(st[s].cache) < CacheSize =>
                             Receives(n, st[s], {})
                        /\ (Stuck(n) => Stuck(st[s])
                             \/ /\ st[s].defer = 0 /\ st[s].ctrl # NoFrame
                                /\ st[s].ctrl.type = "CTS")

LEMMA ExpiryHandled ==
  ASSUME Inv, NEW s \in Station, Expiry(s)
  PROVE  \E n, how : ExpiresTo(s, n, how)
<1> DEFINE m == st[s]
<1>1. Ready(m) /\ (m.tx # NoPkt /\ m.tx.kind = "beacon" => ~Unicast(m.tx))
  BY DEF Inv, Stations, Traffic
<1>2. Rand \subseteq Nat
  BY ChannelConstants
<1>3. CASE NavExpires(s)
  <2> DEFINE n == navHandler([m EXCEPT !.nav = Off])
  <2>1. Handled(n, m) /\ (Stuck(n) => Stuck(m))
    BY <1>1, <1>3, NavHandled DEF NavExpires
  <2>2. Becomes(s, n, air, "none")
    BY <1>3 DEF NavExpires
  <2> HIDE DEF n
  <2> QED
    BY <1>1, <2>1, <2>2, OverheardReceives DEF Handled, ExpiresTo
<1>4. CASE DeferExpires(s)
  <2>1. PICK r \in Rand :
          Becomes(s, deferHandler([m EXCEPT !.defer = Off], r), air, "none")
    BY <1>4 DEF DeferExpires
  <2> DEFINE n == deferHandler([m EXCEPT !.defer = Off], r)
  <2>2. Handled(n, m) /\ (Stuck(n) => m.ctrl # NoFrame /\ m.ctrl.type = "CTS")
        /\ m.defer = 0
    BY <1>1, <1>2, <1>4, DeferHandled DEF DeferExpires
  <2>3. Becomes(s, n, air, "none")
    BY <2>1
  <2> HIDE DEF n
  <2> QED
    BY <1>1, <2>2, <2>3, OverheardReceives DEF Handled, ExpiresTo
<1>5. CASE BackoffExpires(s)
  <2>1. PICK r \in Rand :
          Becomes(s, backoffHandler([m EXCEPT !.backoff = Off], r), air, "none")
    BY <1>5 DEF BackoffExpires
  <2> DEFINE n == backoffHandler([m EXCEPT !.backoff = Off], r)
  <2>2. Handled(n, m) /\ ~Stuck(n)
    BY <1>1, <1>2, <1>5, BackoffHandled DEF BackoffExpires
  <2>3. Becomes(s, n, air, "none")
    BY <2>1
  <2> HIDE DEF n
  <2> QED
    BY <1>1, <2>2, <2>3, OverheardReceives DEF Handled, ExpiresTo
<1>6. CASE SendExpires(s)
  <2>1. PICK r \in Rand, space \in {SIFS, DIFS} :
          Becomes(s, sendHandler([m EXCEPT !.send = Off], r, space), air,
                  IF m.tx # NoPkt /\ Unicast(m.tx) THEN "given up" ELSE "sent")
    BY <1>6 DEF SendExpires
  <2> DEFINE n == sendHandler([m EXCEPT !.send = Off], r, space)
  <2>2. Handled(n, m) /\ ~Stuck(n)
    BY <1>1, <1>2, <1>6, SendHandled DEF SendExpires
  <2>3. \E how : Becomes(s, n, air, how)
    BY <2>1
  <2> HIDE DEF n
  <2> QED
    BY <1>1, <2>2, <2>3, OverheardReceives DEF Handled, ExpiresTo
<1>7. CASE InterfaceExpires(s)
  <2> DEFINE n == txHandler([m EXCEPT !.ifc = Off])
  <2>1. Handled(n, m) /\ (Stuck(n) => Stuck(m))
    BY <1>1, <1>7, InterfaceHandled DEF InterfaceExpires
  <2>2. Becomes(s, n, air, "none")
    BY <1>7 DEF InterfaceExpires
  <2> HIDE DEF n
  <2> QED
    BY <1>1, <2>1, <2>2, OverheardReceives DEF Handled, ExpiresTo
<1>8. CASE RecvExpires(s)
  <2>1. PICK r \in Rand, space \in {SIFS, DIFS}, stale \in Stale(m) :
          Becomes(s, recvHandler([m EXCEPT !.recv = Off], r, space, stale), air, "acked")
    BY <1>8 DEF RecvExpires
  <2> DEFINE n == recvHandler([m EXCEPT !.recv = Off], r, space, stale)
  <2>2. /\ Sound(n) /\ Advances(n, m) /\ (Stuck(n) => Stuck(m))
        /\ Learns(n, m, m.rx) /\ n.rx = NoFrame
    BY <1>1, <1>2, <1>8, RecvHandled DEF RecvExpires
  <2>3. Becomes(s, n, air, "acked")
    BY <2>1
  <2> HIDE DEF n
  <2> QED
    BY <1>1, <2>2, <2>3, LearntReceives DEF ExpiresTo
<1> QED
  BY <1>3, <1>4, <1>5, <1>6, <1>7, <1>8 DEF Expiry

LEMMA ExpirySound ==
  ASSUME Inv, NEW s \in Station, Expiry(s)
  PROVE  /\ Inv'
         /\ \A u \in Station : Stuck(st'[u]) =>
              Stuck(st[u]) \/ /\ st[u].defer = 0 /\ st[u].ctrl # NoFrame
                              /\ st[u].ctrl.type = "CTS"
<1>1. PICK n, how : ExpiresTo(s, n, how)
  BY ExpiryHandled
<1>2. Quiet /\ due' = due
  BY DEF Expiry
<1>3. /\ Traffic' /\ Stations' /\ Channel'
      /\ \A u \in Station \ {s} : st'[u] = st[u]
      /\ Stuck(st'[s]) => Stuck(n)
  BY <1>1, <1>2, BecomesSound DEF ExpiresTo
<1>4. Quiet'
  <2>1. air' = air \cup Copies(n.out) /\ (n.out # NoFrame => Proper(n.out))
    BY <1>1 DEF ExpiresTo, Becomes, Advances
  <2> QED
    BY <1>2, <2>1, StaysQuiet
<1>5. Hushed'
  BY <1>4 DEF Hushed
<1> QED
  BY <1>1, <1>3, <1>5 DEF Inv, ExpiresTo

(* The clock moves on by d, which no timer and no copy outlasts. *)
LeapsBy(d) ==
  /\ d > 0
  /\ \A s \in Station : /\ Ready(st[s]) /\ \A t \in Timers(st[s]) : d <= t
                        /\ st'[s] = Elapsed(st[s], d)
  /\ \A c \in air : d <= c.left
  /\ \A p \in DOMAIN due : due[p] # Off => d <= due[p]
  /\ st' = [s \in Station |-> st'[s]]
  /\ air' = {[c EXCEPT !.left = @ - d] : c \in air}
  /\ due' = [p \in DOMAIN due |-> Later(due[p], d)]
  /\ queue' = queue /\ got' = got /\ again' = again

LEMMA LeapMeasured ==
  ASSUME Inv, Leap
  PROVE  \E d \in Nat : LeapsBy(d)
<1>1. PICK d \in Pending :
        /\ d > 0 /\ \A e \in Pending : d <= e
        /\ st' = [s \in Station |->
                    [st[s] EXCEPT !.nav = Later(@, d), !.send = Later(@, d),
                                  !.defer = Later(@, d), !.ifc = Later(@, d),
                                  !.recv = Later(@, d),
                                  !.backoff = IF st[s].paused THEN @ ELSE Later(@, d)]]
        /\ air' = {[c EXCEPT !.left = @ - d] : c \in air}
        /\ due' = [p \in DOMAIN due |-> Later(due[p], d)]
        /\ queue' = queue /\ got' = got /\ again' = again
  BY DEF Leap
<1>2. \A s \in Station : st'[s] = Elapsed(st[s], d)
  BY <1>1 DEF Elapsed
<1>3. /\ \A s \in Station : Timers(st[s]) \subseteq Pending
      /\ \A c \in air : c.left # Off => c.left \in Pending
      /\ \A p \in DOMAIN due : due[p] # Off => due[p] \in Pending
  <2>1. \A s \in Station : Off \notin Timers(st[s])
    BY DEF Timers
  <2>2. ASSUME NEW s \in Station PROVE Timers(st[s]) \subseteq Pending
    BY <2>1 DEF Pending
  <2>3. ASSUME NEW c \in air, c.left # Off PROVE c.left \in Pending
    <3>1. c.left \in {e.left : e \in air}
      OBVIOUS
    <3> QED
      BY <2>3, <3>1 DEF Pending
  <2>4. ASSUME NEW p \in DOMAIN due, due[p] # Off PROVE due[p] \in Pending
    <3>1. due[p] \in {due[e] : e \in DOMAIN due}
      OBVIOUS
    <3> QED
      BY <2>4, <3>1 DEF Pending
  <2> QED
    BY <2>2, <2>3, <2>4
<1>4. d \in Nat
  <2>1. \A s \in Station : Timers(st[s]) \subseteq Nat
    <3>1. ASSUME NEW s \in Station
          PROVE  Timers(st[s]) \subseteq Nat
      <4>1. st[s] \in StationType
        BY DEF Inv, Stations
      <4> QED
        BY <4>1 DEF Timers, StationType, Ticks
    <3> QED
      BY <3>1
  <2>2. \A c \in air : c.left \in Nat
    BY DEF Inv, Channel, Copy
  <2>3. \A p \in DOMAIN due : due[p] \in Ticks
    BY DEF Inv, Traffic
  <2>4. ASSUME NEW e \in Pending PROVE e \in Nat
    <3>1. CASE \E s \in Station : e \in Timers(st[s])
      BY <2>1, <3>1
    <3>2. CASE \E c \in air : e = c.left
      BY <2>2, <3>2
    <3>3. CASE \E p \in DOMAIN due : e = due[p]
      <4>1. e # Off
        BY DEF Pending
      <4> QED
        BY <2>3, <3>3, <4>1 DEF Ticks
    <3>4. \/ e \in UNION {Timers(st[s]) : s \in Station}
          \/ e \in {c.left : c \in air}
          \/ e \in {due[p] : p \in DOMAIN due}
      BY DEF Pending
    <3>5. CASE e \in UNION {Timers(st[s]) : s \in Station}
      BY <3>1, <3>5
    <3>6. CASE e \in {c.left : c \in air}
      BY <3>2, <3>6
    <3>7. CASE e \in {due[p] : p \in DOMAIN due}
      BY <3>3, <3>7
    <3> QED
      BY <3>4, <3>5, <3>6, <3>7
  <2> QED
    BY <2>4
<1>5. \A c \in air : d <= c.left
  <2>1. ASSUME NEW c \in air PROVE d <= c.left
    <3>1. c.left \in Nat
      BY DEF Inv, Channel, Copy
    <3>2. c.left # Off
      BY <3>1 DEF Off
    <3> QED
      BY <1>1, <1>3, <3>2
  <2> QED
    BY <2>1
<1>6. \A s \in Station : Ready(st[s]) /\ \A t \in Timers(st[s]) : d <= t
  BY <1>1, <1>3 DEF Inv, Stations
<1>7. st' = [s \in Station |-> st'[s]]
  BY <1>1
<1> QED
  BY <1>1, <1>2, <1>3, <1>4, <1>5, <1>6, <1>7 DEF LeapsBy

LEMMA LeapSound ==
  ASSUME Inv, Leap
  PROVE  /\ Inv' /\ \A s \in Station : Stuck(st'[s]) => Stuck(st[s])
<1>1. PICK d \in Nat : LeapsBy(d)
  BY LeapMeasured
<1>5. ASSUME NEW s \in Station
      PROVE  /\ Ready(st'[s]) /\ SameTask(st'[s], st[s]) /\ st'[s] \in StationType
             /\ Stuck(st'[s]) => Stuck(st[s])
             /\ ~(st'[s].txs = "SEND" /\ ~Unicast(st'[s].tx) /\ ~st'[s].active)
  <2>1. Ready(st[s]) /\ \A t \in Timers(st[s]) : d <= t
    BY <1>1 DEF LeapsBy
  <2> DEFINE n == Elapsed(st[s], d)
  <2>2. /\ Ready(n) /\ SameTask(n, st[s]) /\ (Stuck(n) => Stuck(st[s]))
        /\ n.txs = st[s].txs /\ n.active = st[s].active
        /\ ~(st[s].txs = "SEND" /\ ~Unicast(st[s].tx) /\ ~st[s].active)
    BY <1>1, <2>1, TimePasses DEF LeapsBy
  <2>3. st'[s] = n
    BY <1>1 DEF LeapsBy
  <2> HIDE DEF n
  <2> QED
    BY <2>2, <2>3 DEF SameTask, Ready, Sound
<1>6. DOMAIN due' = DOMAIN due /\ due' \in [DOMAIN due -> Ticks]
  <2>1. \A p \in DOMAIN due : Later(due[p], d) \in Ticks
    <3>1. ASSUME NEW p \in DOMAIN due
          PROVE  Later(due[p], d) \in Ticks
      <4>1. due[p] \in Ticks /\ (due[p] # Off => d <= due[p])
        BY <1>1 DEF LeapsBy, Inv, Traffic
      <4> QED
        BY <4>1, LaterType
    <3> QED
      BY <3>1
  <2> QED
    BY <1>1, <2>1 DEF LeapsBy
<1>7. Traffic'
  BY <1>1, <1>6 DEF LeapsBy, Inv, Traffic
<1>8. Stations'
  <2>1. st' \in [Station -> StationType]
    <3>1. st' = [s \in Station |-> st'[s]]
      BY <1>1 DEF LeapsBy
    <3> QED
      BY <1>5, <3>1
  <2>2. ASSUME NEW s \in Station
        PROVE  Ready(st'[s]) /\ st'[s].me = s /\ st'[s].tx \in DOMAIN due' \cup {NoPkt}
    BY <1>5, <1>6 DEF Inv, Stations, SameTask
  <2> QED
    BY <2>1, <2>2 DEF Stations
<1>9. Channel'
  <2>1. ASSUME NEW c \in air
        PROVE  /\ [c EXCEPT !.left = @ - d] \in Copy
               /\ Proper([c EXCEPT !.left = @ - d].frame)
    <3>1. c \in Copy /\ Proper(c.frame) /\ d <= c.left
      BY <1>1 DEF LeapsBy, Inv, Channel
    <3> QED
      BY <3>1 DEF Copy
  <2> QED
    BY <1>1, <2>1 DEF LeapsBy, Channel
<1>10. Hushed'
  BY <1>5 DEF Hushed
<1> QED
  BY <1>5, <1>7, <1>8, <1>9, <1>10 DEF Inv

LEMMA StepSound ==
  ASSUME Inv, [Next]_vars
  PROVE  /\ Inv'
         /\ \A s \in Station : Stuck(st'[s]) =>
              Stuck(st[s]) \/ /\ st[s].defer = 0 /\ st[s].ctrl # NoFrame
                              /\ st[s].ctrl.type = "CTS"
<1>1. CASE \E p \in DOMAIN due : Offer(p)
  BY <1>1, OfferSound
<1>2. CASE \E c \in air : Arrive(c)
  BY <1>2, ArriveSound
<1>3. CASE \E s \in Station : Expiry(s)
  BY <1>3, ExpirySound
<1>4. CASE Leap
  BY <1>4, LeapSound
<1>5. CASE UNCHANGED vars
  BY <1>5 DEF vars, Inv, Traffic, Stations, Channel, Hushed, Quiet
<1> QED
  BY <1>1, <1>2, <1>3, <1>4, <1>5 DEF Next

(* Every station is always Sound, whatever is on the air was sent by some      *)
(* station, and everything due is still ahead of the clock.                    *)
THEOREM Invariance == Spec => []Inv
<1>1. Init => Inv
  BY InitSound
<1>2. Inv /\ [Next]_vars => Inv'
  BY StepSound
<1> QED
  BY <1>1, <1>2, PTL DEF Spec

(* No assertion of mac-802_11-dcf.cc fails, for any stations and channel. *)
THEOREM NothingAsserted == Spec => []NoFault
<1>1. Inv => NoFault
  BY DEF Inv, Stations, Ready, Sound, NoFault
<1> QED
  BY <1>1, Invariance, PTL

(* start_backoff, CHECK_BACKOFF_TIMER and navHandler keep the backoff of   *)
(* every station in step with the medium.                                  *)
THEOREM BackoffFreezes == Spec => []BackoffFrozen
<1>1. Inv => BackoffFrozen
  BY DEF Inv, Stations, Ready, Sound, Frozen, BackoffFrozen
<1> QED
  BY <1>1, Invariance, PTL

(* deferHandler, dropping a CTS for want of an idle medium, is the only    *)
(* code that leaves the packet of a station without a timer.               *)
THEOREM OnlyRefusalsStrand == Spec => StuckByRefusedCTSOnly
<1>1. Inv /\ [Next]_vars =>
        [\A s \in Station : ~Stuck(st[s]) /\ Stuck(st[s])' =>
           st[s].ctrl # NoFrame /\ st[s].ctrl.type = "CTS" /\ st[s].defer = 0]_vars
  <2>1. ASSUME Inv, [Next]_vars, NEW s \in Station, ~Stuck(st[s]), Stuck(st[s])'
        PROVE  st[s].ctrl # NoFrame /\ st[s].ctrl.type = "CTS" /\ st[s].defer = 0
    <3>1. Stuck(st'[s])
      BY <2>1 DEF Stuck
    <3> QED
      BY <2>1, <3>1, StepSound
  <2> QED
    BY <2>1
<1> QED
  BY <1>1, Invariance, PTL DEF Spec, StuckByRefusedCTSOnly

-----------------------------------------------------------------------------
(* No packet is passed up twice.  The invariant speaks of stations S, of   *)
(* copies A, of queues Q, of packets D that are due and of packets G that  *)
(* were passed up, so that a step can be taken in two: the event, and the  *)
(* next packet the binder hands over.                                      *)

Fresh(f, p) == Carries(f, p) /\ ~f.retry

(* The first try of p is still to come. *)
Unsent(S, Q, D, p) ==
  \/ p \in DOMAIN D /\ D[p] # Off
  \/ \E i \in DOMAIN Q[p.from] : Q[p.from][i] = p
  \/ S[p.from].tx = p /\ ~S[p.from].retry /\ S[p.from].txs # "SEND"

(* A packet is in one place above the channel. *)
Handed(S, Q, D) ==
  \A s \in Station :
    /\ \A i \in DOMAIN Q[s] :
         /\ Q[s][i] \in DOMAIN D /\ D[Q[s][i]] = Off
         /\ Q[s][i].from = s /\ Q[s][i] # S[s].tx
         /\ \A j \in DOMAIN Q[s] : Q[s][j] = Q[s][i] => j = i
    /\ S[s].tx # NoPkt => /\ S[s].tx \in DOMAIN D /\ D[S[s].tx] = Off
                          /\ S[s].tx.from = s
                          /\ S[s].retry => Unicast(S[s].tx)

Untouched(S, A, G, p) ==
  /\ \A c \in A : ~Carries(c.frame, p)
  /\ \A s \in Station : ~Carries(S[s].rx, p) /\ <<s, p>> \notin G

Genuine(f, p, q) == f.from = p.from /\ f.seq = q /\ (f.retry => Unicast(p))

(* Every frame that carries p has one number, and who has passed p up      *)
(* remembers it.                                                           *)
HasNumber(S, A, G, p, q) ==
  /\ \A c \in A : Carries(c.frame, p) => Genuine(c.frame, p, q)
  /\ S[p.from].tx = p => S[p.from].seq = q
  /\ \A s \in Station : /\ Carries(S[s].rx, p) => Genuine(S[s].rx, p, q)
                        /\ <<s, p>> \in G /\ Unicast(p) => <<p.from, q>> \in S[s].cache

Numbered(S, A, G, p) == \E q \in Nat : HasNumber(S, A, G, p, q)

(* The first try of p reaches a station before any other does. *)
Ordered(S, A, p) ==
  \A c \in A : Fresh(c.frame, p) =>
    /\ ~Carries(S[c.at].rx, p)
    /\ \A k \in A : k.at = c.at /\ Carries(k.frame, p) =>
         k = c \/ (k.frame.retry /\ c.left < k.left)

(* Who has passed p up sees no first try of it any more. *)
Foregone(S, A, G, p) ==
  /\ \A c \in A : Fresh(c.frame, p) => <<c.at, p>> \notin G
  /\ \A s \in Station : Fresh(S[s].rx, p) => <<s, p>> \notin G

(* A packet is not sent again while its first try is Prop away. *)
Timed(S, A, p) ==
  \A c \in A : Fresh(c.frame, p) /\ S[p.from].tx = p /\ Unicast(p) =>
    IF S[p.from].retry THEN c.left + ACKTimeout(p) <= Prop
    ELSE S[p.from].txs = "SEND" /\ c.left + ACKTimeout(p) <= Prop + S[p.from].send

Once(S, A, Q, D, G, p) ==
  /\ Unsent(S, Q, D, p) => Untouched(S, A, G, p)
  /\ Numbered(S, A, G, p)
  /\ Ordered(S, A, p)
  /\ Foregone(S, A, G, p)
  /\ Timed(S, A, p)

LEMMA TimeoutType ==
  ASSUME NEW p \in Packet
  PROVE  ACKTimeout(p) \in Nat /\ ACKTimeout(p) > 0 /\ p # NoPkt
<1>1. p.size \in Size /\ p.id # 0
  BY DEF Packet
<1>2. DataTime[p.size] \in Nat /\ CtlTime \in Nat
  BY <1>1, RadioConstants
<1>3. p # NoPkt
  BY <1>1 DEF NoPkt
<1> QED
  BY <1>2, <1>3 DEF ACKTimeout, SIFS, DIFS, SlotTime

LEMMA OwnCopies ==
  ASSUME NEW m \in StationType, NEW n, Advances(n, m), NEW c \in Copies(n.out)
  PROVE  /\ c \in Copy /\ c.left = Prop
         /\ \A k \in Copies(n.out) : k.at = c.at => k = c
         /\ \A p : Carries(c.frame, p) =>
              /\ p = m.tx /\ p # NoPkt /\ n.tx = p /\ m.txs # "SEND" /\ n.txs = "SEND"
              /\ c.frame.from = m.me /\ c.frame.seq = m.seq /\ c.frame.retry = m.retry
              /\ n.retry = m.retry
              /\ Unicast(p) => n.send = ACKTimeout(p)
<1>1. n.out # NoFrame => Proper(n.out)
  BY DEF Advances
<1>2. \A k \in Copies(n.out) : /\ k \in Copy /\ k.left = Prop
                               /\ n.out # NoFrame /\ k.frame = n.out
  BY <1>1, CopiesProper
<1>3. \A k \in Copies(n.out) : k.at = c.at => k = c
  BY <1>2 DEF Copy
<1>4. ASSUME NEW p, Carries(c.frame, p)
      PROVE  /\ p = m.tx /\ p # NoPkt /\ n.tx = p /\ m.txs # "SEND" /\ n.txs = "SEND"
             /\ c.frame.from = m.me /\ c.frame.seq = m.seq /\ c.frame.retry = m.retry
             /\ n.retry = m.retry
             /\ Unicast(p) => n.send = ACKTimeout(p)
  <2>1. n.out = c.frame /\ n.out.type = "DATA" /\ n.out # NoFrame /\ n.out.pkt = p
    BY <1>2, <1>4 DEF Carries
  <2>2. m.txs # "SEND" /\ n.txs = "SEND"
    BY <2>1 DEF Advances
  <2>3. n.out = DataFrame(m) /\ n.tx = m.tx /\ m.tx # NoPkt
        /\ (Unicast(m.tx) => n.send = ACKTimeout(m.tx))
    BY <2>2 DEF Advances
  <2>4. c.frame.pkt = m.tx /\ c.frame.from = m.me /\ c.frame.seq = m.seq
        /\ c.frame.retry = m.retry
    BY <2>1, <2>3 DEF DataFrame
  <2>5. n.retry = m.retry
    BY <2>2 DEF Advances, Unanswered
  <2> QED
    BY <2>1, <2>2, <2>3, <2>4, <2>5
<1> QED
  BY <1>2, <1>3, <1>4

Scene(S, A, Q, D, G) ==
  /\ S \in [Station -> StationType] /\ A \subseteq Copy /\ Q \in [Station -> Seq(Packet)]
  /\ \A s \in Station : S[s].me = s /\ <<s, NoPkt>> \notin G
  /\ Handed(S, Q, D) /\ \A p \in Packet : Once(S, A, Q, D, G, p)

(* An event leaves station s as n, and then k; B stays in the air. *)
Happens(S, A, s, n, B, k) ==
  /\ n \in StationType /\ Advances(n, S[s]) /\ B \subseteq A
  /\ Receives(n, S[s], {c.frame : c \in {e \in A \ B : e.at = s /\ e.left = 0}})
  /\ k \in StationType /\ SameTask(k, n) /\ SameState(k, n)
  /\ k.rx = n.rx /\ k.cache = n.cache

LEMMA HeardFrom ==
  ASSUME NEW S, NEW A, NEW s, NEW n, NEW B, NEW k, Happens(S, A, s, n, B, k),
         NEW p, Carries(k.rx, p)
  PROVE  /\ n.up = NoPkt
         /\ \/ Carries(S[s].rx, p) /\ Like(k.rx, S[s].rx)
            \/ \E e \in A \ B : /\ e.at = s /\ e.left = 0 /\ Carries(e.frame, p)
                                /\ Like(k.rx, e.frame)
<1>1. k.rx = n.rx /\ n.rx # NoFrame
  BY DEF Happens, Carries, NoFrame
<1>2. PICK f \in {c.frame : c \in {e \in A \ B : e.at = s /\ e.left = 0}} \cup {S[s].rx} :
        Like(k.rx, f)
  BY <1>1 DEF Happens, Receives
<1>3. Carries(f, p)
  BY <1>2 DEF Carries, Like
<1>4. n.up = NoPkt
  BY <1>1 DEF Happens, Receives
<1> QED
  BY <1>2, <1>3, <1>4

(* What the event does to the packet at hand. *)
LEMMA Proceeds ==
  ASSUME NEW S, NEW A, NEW Q, NEW D, NEW G, Scene(S, A, Q, D, G),
         NEW s \in Station, NEW n, NEW B, NEW k, Happens(S, A, s, n, B, k),
         NEW p \in Packet, k.tx = p
  PROVE  /\ S[s].tx = p /\ p.from = s /\ k.seq = S[s].seq
         /\ S[s].retry => k.retry
         /\ ~S[s].retry /\ k.retry => Unanswered(S[s]) /\ S[s].send = 0
         /\ k.retry => Unicast(p)
         /\ S[s].txs = "SEND" /\ ~k.retry => k.txs = "SEND" /\ k.send = S[s].send
<1>1. p # NoPkt
  BY TimeoutType
<1>2. n.tx = p /\ n.seq = k.seq /\ n.retry = k.retry /\ n.txs = k.txs /\ n.send = k.send
  BY DEF Happens, SameTask, SameState
<1>3. S[s].tx = p /\ n.seq = S[s].seq
  BY <1>1, <1>2 DEF Happens, Advances
<1>4. p.from = s /\ (S[s].retry => Unicast(p))
  BY <1>1, <1>3 DEF Scene, Handed
<1>5. n.retry = S[s].retry \/ (n.retry /\ Unanswered(S[s]))
  BY DEF Happens, Advances
<1>6. S[s].txs = "SEND" /\ ~n.retry => n.txs = "SEND" /\ n.send = S[s].send
  BY <1>1, <1>2 DEF Happens, Advances
<1> QED
  BY <1>2, <1>3, <1>4, <1>5, <1>6 DEF Unanswered

LEMMA AtHandUnsent ==
  ASSUME NEW S, NEW Q, NEW D, NEW p,
         S[p.from].tx = p, ~S[p.from].retry, S[p.from].txs # "SEND"
  PROVE  Unsent(S, Q, D, p)
BY DEF Unsent

LEMMA UnsentBefore ==
  ASSUME NEW S, NEW A, NEW Q, NEW D, NEW G, Scene(S, A, Q, D, G),
         NEW s \in Station, NEW n, NEW B, NEW k, Happens(S, A, s, n, B, k),
         NEW p \in Packet, Unsent([S EXCEPT ![s] = k], Q, D, p)
  PROVE  Unsent(S, Q, D, p) /\ Untouched(S, A, G, p)
<1> DEFINE T == [S EXCEPT ![s] = k]
<1>1. S \in [Station -> StationType] /\ p.from \in Station
  BY DEF Scene, Packet
<1>2. T[s] = k /\ \A u \in Station \ {s} : T[u] = S[u]
  BY <1>1
<1> HIDE DEF T
<1>3. ASSUME T[p.from].tx = p, ~T[p.from].retry, T[p.from].txs # "SEND"
      PROVE  Unsent(S, Q, D, p)
  <2>1. CASE p.from = s
    <3>1. k.tx = p /\ ~k.retry /\ k.txs # "SEND"
      BY <1>2, <1>3, <2>1
    <3>2. S[s].tx = p /\ ~S[s].retry /\ S[s].txs # "SEND"
      BY <3>1, Proceeds
    <3> QED
      BY <2>1, <3>2, AtHandUnsent
  <2>2. CASE p.from # s
    <3>1. T[p.from] = S[p.from]
      BY <1>1, <1>2, <2>2
    <3> QED
      BY <1>3, <3>1, AtHandUnsent
  <2> QED
    BY <2>1, <2>2
<1>4. Unsent(S, Q, D, p)
  BY <1>3 DEF Unsent, T
<1> QED
  BY <1>4 DEF Scene, Once

(* A copy that s sends of p is not the first unless p was Unsent. *)
LEMMA SentByOwner ==
  ASSUME NEW S, NEW A, NEW Q, NEW D, NEW G, Scene(S, A, Q, D, G),
         NEW s \in Station, NEW n, NEW B, NEW k, Happens(S, A, s, n, B, k),
         NEW c \in Copies(n.out), NEW p \in Packet, Carries(c.frame, p)
  PROVE  /\ c \in Copy /\ c.left = Prop
         /\ \A e \in Copies(n.out) : e.at = c.at => e = c
         /\ S[s].tx = p /\ p.from = s /\ k.tx = p /\ k.txs = "SEND" /\ k.retry = S[s].retry
         /\ c.frame.from = s /\ c.frame.seq = S[s].seq /\ c.frame.retry = S[s].retry
         /\ Unicast(p) => k.send = ACKTimeout(p)
         /\ S[s].retry => Unicast(p)
         /\ ~S[s].retry => Untouched(S, A, G, p)
<1>1. S[s] \in StationType /\ S[s].me = s
  BY DEF Scene
<1>2. Advances(n, S[s])
  BY DEF Happens
<1>3. /\ c \in Copy /\ c.left = Prop
      /\ \A e \in Copies(n.out) : e.at = c.at => e = c
      /\ p = S[s].tx /\ p # NoPkt /\ n.tx = p /\ S[s].txs # "SEND" /\ n.txs = "SEND"
      /\ c.frame.from = s /\ c.frame.seq = S[s].seq /\ c.frame.retry = S[s].retry
      /\ n.retry = S[s].retry
      /\ Unicast(p) => n.send = ACKTimeout(p)
  BY <1>1, <1>2, OwnCopies
<1>4. k.tx = n.tx /\ k.txs = n.txs /\ k.retry = n.retry /\ k.send = n.send
  BY DEF Happens, SameTask, SameState
<1>5. p.from = s /\ (S[s].retry => Unicast(p))
  BY <1>3 DEF Scene, Handed
<1>6. ~S[s].retry => Untouched(S, A, G, p)
  BY <1>3, <1>5 DEF Unsent, Scene, Once
<1> QED
  BY <1>3, <1>4, <1>5, <1>6

LEMMA EventHanded ==
  ASSUME NEW S, NEW A, NEW Q, NEW D, NEW G, Scene(S, A, Q, D, G),
         NEW s \in Station, NEW n, NEW B, NEW k, Happens(S, A, s, n, B, k)
  PROVE  Handed([S EXCEPT ![s] = k], Q, D)
<1> DEFINE T == [S EXCEPT ![s] = k]
<1>1. S \in [Station -> StationType] /\ Q \in [Station -> Seq(Packet)]
  BY DEF Scene
<1>2. T[s] = k /\ \A u \in Station \ {s} : T[u] = S[u]
  BY <1>1
<1>3. k.tx \in {S[s].tx, NoPkt}
  BY DEF Happens, Advances, SameTask
<1>4. \A i \in DOMAIN Q[s] : Q[s][i] # NoPkt
  BY <1>1, TimeoutType
<1>5. k.tx # NoPkt => (k.retry => Unicast(k.tx))
  <2>1. k.tx \in Packet \cup {NoPkt}
    BY DEF Happens, StationType
  <2> QED
    BY <2>1, Proceeds
<1> HIDE DEF T
<1> QED
  BY <1>2, <1>3, <1>4, <1>5 DEF Scene, Handed, T

LEMMA EventNumbered ==
  ASSUME NEW S, NEW A, NEW Q, NEW D, NEW G, Scene(S, A, Q, D, G),
         NEW s \in Station, NEW n, NEW B, NEW k, Happens(S, A, s, n, B, k),
         NEW p \in Packet
  PROVE  Numbered([S EXCEPT ![s] = k], B \cup Copies(n.out),
                  IF n.up = NoPkt THEN G ELSE G \cup {<<s, n.up>>}, p)
<1> DEFINE T == [S EXCEPT ![s] = k]
           H == IF n.up = NoPkt THEN G ELSE G \cup {<<s, n.up>>}
           C == B \cup Copies(n.out)
<1>1. S \in [Station -> StationType] /\ p.from \in Station /\ B \subseteq A
  BY DEF Scene, Packet, Happens
<1>2. T[s] = k /\ \A u \in Station \ {s} : T[u] = S[u]
  BY <1>1
<1>3. PICK q \in Nat : HasNumber(S, A, G, p, q)
  BY DEF Scene, Once, Numbered
<1> HIDE DEF T
<1>4. ASSUME NEW c \in C, Carries(c.frame, p)
      PROVE  Genuine(c.frame, p, q)
  <2>1. CASE c \in B
    BY <1>1, <1>3, <1>4, <2>1 DEF HasNumber
  <2>2. CASE c \in Copies(n.out)
    <3>1. /\ S[s].tx = p /\ p.from = s /\ c.frame.from = s /\ c.frame.seq = S[s].seq
          /\ c.frame.retry = S[s].retry /\ (S[s].retry => Unicast(p))
      BY <1>4, <2>2, SentByOwner
    <3> QED
      BY <1>3, <3>1 DEF HasNumber, Genuine
  <2> QED
    BY <2>1, <2>2
<1>5. T[p.from].tx = p => T[p.from].seq = q
  <2>1. CASE p.from = s
    BY <1>2, <1>3, <2>1, Proceeds DEF HasNumber
  <2>2. CASE p.from # s
    BY <1>1, <1>2, <1>3, <2>2 DEF HasNumber
  <2> QED
    BY <2>1, <2>2
<1>6. ASSUME NEW u \in Station, Carries(T[u].rx, p)
      PROVE  Genuine(T[u].rx, p, q)
  <2>1. CASE u # s
    BY <1>2, <1>3, <1>6, <2>1 DEF HasNumber
  <2>2. CASE u = s
    <3>1. Carries(k.rx, p)
      BY <1>2, <1>6, <2>2
    <3>2. CASE Carries(S[s].rx, p) /\ Like(k.rx, S[s].rx)
      BY <1>2, <1>3, <2>2, <3>2 DEF HasNumber, Like, Genuine
    <3>3. ASSUME NEW e \in A, Carries(e.frame, p), Like(k.rx, e.frame)
          PROVE  Genuine(T[u].rx, p, q)
      BY <1>2, <1>3, <2>2, <3>3 DEF HasNumber, Like, Genuine
    <3> QED
      BY <3>1, <3>2, <3>3, HeardFrom
  <2> QED
    BY <2>1, <2>2
<1>7. ASSUME NEW u \in Station, <<u, p>> \in H, Unicast(p)
      PROVE  <<p.from, q>> \in T[u].cache
  <2>1. S[s].cache \subseteq k.cache
    BY DEF Happens, Receives
  <2>2. CASE <<u, p>> \in G
    BY <1>2, <1>3, <1>7, <2>1, <2>2 DEF HasNumber
  <2>3. CASE <<u, p>> \notin G
    <3>1. u = s /\ n.up = p /\ n.up # NoPkt
      BY <1>7, <2>3
    <3>2. Carries(S[s].rx, p) /\ Entry(S[s].rx) \in k.cache
      BY <1>7, <3>1 DEF Happens, Receives
    <3>3. Entry(S[s].rx) = <<p.from, q>>
      BY <1>3, <3>2 DEF HasNumber, Genuine, Entry
    <3> QED
      BY <1>2, <3>1, <3>2, <3>3
  <2> QED
    BY <2>2, <2>3
<1>8. HasNumber(T, C, H, p, q)
  BY <1>4, <1>5, <1>6, <1>7 DEF HasNumber
<1> QED
  BY <1>8 DEF Numbered, T, H, C

(* Whatever is heard of p after the event was there before it. *)
LEMMA HeardBefore ==
  ASSUME NEW S, S \in [Station -> StationType], NEW A, NEW G,
         NEW s \in Station, NEW n, NEW B, NEW k, Happens(S, A, s, n, B, k),
         NEW p, Untouched(S, A, G, p)
  PROVE  /\ \A u \in Station : ~Carries([S EXCEPT ![s] = k][u].rx, p)
         /\ \A c \in B : ~Carries(c.frame, p)
         /\ \A u \in Station :
              <<u, p>> \notin IF n.up = NoPkt THEN G ELSE G \cup {<<s, n.up>>}
<1>1. ASSUME NEW u \in Station, Carries([S EXCEPT ![s] = k][u].rx, p)
      PROVE  FALSE
  <2>1. CASE u = s
    <3>1. Carries(k.rx, p)
      BY <1>1, <2>1
    <3>2. Carries(S[s].rx, p) \/ \E e \in A : Carries(e.frame, p)
      BY <3>1, HeardFrom
    <3> QED
      BY <3>2 DEF Untouched
  <2>2. CASE u # s
    BY <1>1, <2>2 DEF Untouched
  <2> QED
    BY <2>1, <2>2
<1>2. \A c \in B : ~Carries(c.frame, p)
  BY DEF Untouched, Happens
<1>3. n.up # NoPkt => n.up # p
  BY DEF Happens, Receives, Untouched
<1> QED
  BY <1>1, <1>2, <1>3 DEF Untouched

LEMMA EventOrdered ==
  ASSUME NEW S, NEW A, NEW Q, NEW D, NEW G, Scene(S, A, Q, D, G),
         NEW s \in Station, NEW n, NEW B, NEW k, Happens(S, A, s, n, B, k),
         NEW p \in Packet
  PROVE  Ordered([S EXCEPT ![s] = k], B \cup Copies(n.out), p)
<1> DEFINE T == [S EXCEPT ![s] = k]
           C == B \cup Copies(n.out)
<1>1. S \in [Station -> StationType] /\ A \subseteq Copy /\ B \subseteq A
  BY DEF Scene, Happens
<1>2. T[s] = k /\ \A u \in Station \ {s} : T[u] = S[u]
  BY <1>1
<1>3. Ordered(S, A, p) /\ Timed(S, A, p)
  BY DEF Scene, Once
<1>4. ASSUME NEW c \in C, Fresh(c.frame, p)
      PROVE  ~Carries(T[c.at].rx, p)
  <2>1. CASE c \in B
    <3>1. c \in A /\ ~Carries(S[c.at].rx, p)
      BY <1>1, <1>3, <1>4, <2>1 DEF Ordered
    <3>2. ASSUME c.at = s, Carries(k.rx, p)
          PROVE  FALSE
      <4>1. PICK e \in A \ B : e.at = s /\ e.left = 0 /\ Carries(e.frame, p)
        BY <3>1, <3>2, HeardFrom
      <4>2. e = c \/ c.left < e.left
        BY <1>3, <1>4, <3>1, <3>2, <4>1 DEF Ordered
      <4>3. c.left \in Nat
        BY <1>1, <3>1 DEF Copy
      <4> QED
        BY <2>1, <4>1, <4>2, <4>3
    <3>3. c.at \in Station
      BY <1>1, <3>1 DEF Copy
    <3> QED
      BY <1>2, <3>1, <3>2, <3>3
  <2>2. CASE c \in Copies(n.out)
    <3>1. Untouched(S, A, G, p) /\ c \in Copy
      BY <1>4, <2>2, SentByOwner DEF Fresh
    <3>2. \A u \in Station : ~Carries(T[u].rx, p)
      BY <1>1, <3>1, HeardBefore
    <3> QED
      BY <3>1, <3>2 DEF Copy
  <2> QED
    BY <2>1, <2>2
<1>5. ASSUME NEW c \in C, Fresh(c.frame, p), NEW e \in C, e.at = c.at, Carries(e.frame, p)
      PROVE  e = c \/ (e.frame.retry /\ c.left < e.left)
  <2>1. CASE c \in B /\ e \in B
    BY <1>1, <1>3, <1>5, <2>1 DEF Ordered
  <2>2. CASE c \in B /\ e \in Copies(n.out)
    <3>1. /\ e.left = Prop /\ S[s].tx = p /\ p.from = s /\ e.frame.retry = S[s].retry
          /\ S[s].retry => Unicast(p)
          /\ ~S[s].retry => Untouched(S, A, G, p)
      BY <1>5, <2>2, SentByOwner
    <3>2. S[s].retry
      BY <1>1, <1>5, <2>2, <3>1 DEF Untouched, Fresh
    <3>3. c.left + ACKTimeout(p) <= Prop
      BY <1>1, <1>3, <1>5, <2>2, <3>1, <3>2 DEF Timed
    <3>4. c.left < Prop
      <4>1. c.left \in Nat /\ Prop \in Nat
        BY <1>1, <2>2, ChannelConstants DEF Copy
      <4> QED
        BY <3>3, <4>1, TimeoutType
    <3> QED
      BY <3>1, <3>2, <3>4
  <2>3. CASE c \in Copies(n.out)
    <3>1. /\ Untouched(S, A, G, p)
          /\ \A x \in Copies(n.out) : x.at = c.at => x = c
      BY <1>5, <2>3, SentByOwner DEF Fresh
    <3>2. e \in Copies(n.out)
      BY <1>1, <1>5, <3>1 DEF Untouched
    <3> QED
      BY <1>5, <3>1, <3>2
  <2> QED
    BY <2>1, <2>2, <2>3
<1> HIDE DEF T, C
<1>6. Ordered(T, C, p)
  BY <1>4, <1>5 DEF Ordered
<1> QED
  BY <1>6 DEF T, C

LEMMA EventForegone ==
  ASSUME NEW S, NEW A, NEW Q, NEW D, NEW G, Scene(S, A, Q, D, G),
         NEW s \in Station, NEW n, NEW B, NEW k, Happens(S, A, s, n, B, k),
         NEW p \in Packet
  PROVE  Foregone([S EXCEPT ![s] = k], B \cup Copies(n.out),
                  IF n.up = NoPkt THEN G ELSE G \cup {<<s, n.up>>}, p)
<1> DEFINE T == [S EXCEPT ![s] = k]
           H == IF n.up = NoPkt THEN G ELSE G \cup {<<s, n.up>>}
           C == B \cup Copies(n.out)
<1>1. S \in [Station -> StationType] /\ A \subseteq Copy /\ B \subseteq A
  BY DEF Scene, Happens
<1>2. T[s] = k /\ \A u \in Station \ {s} : T[u] = S[u]
  BY <1>1
<1>3. Ordered(S, A, p) /\ Foregone(S, A, G, p)
  BY DEF Scene, Once
<1>4. ASSUME NEW u, <<u, p>> \in H, <<u, p>> \notin G
      PROVE  u = s /\ n.rx = NoFrame /\ Carries(S[s].rx, p)
  BY <1>4 DEF Happens, Receives
<1>5. ASSUME NEW c \in C, Fresh(c.frame, p), <<c.at, p>> \in H
      PROVE  FALSE
  <2>1. CASE c \in B
    <3>1. <<c.at, p>> \notin G /\ ~Carries(S[c.at].rx, p)
      BY <1>1, <1>3, <1>5, <2>1 DEF Ordered, Foregone
    <3> QED
      BY <1>4, <1>5, <3>1
  <2>2. CASE c \in Copies(n.out)
    <3>1. Untouched(S, A, G, p) /\ c \in Copy
      BY <1>5, <2>2, SentByOwner DEF Fresh
    <3>2. <<c.at, p>> \notin H
      <4>1. c.at \in Station
        BY <3>1 DEF Copy
      <4> QED
        BY <1>1, <3>1, <4>1, HeardBefore
    <3> QED
      BY <1>5, <3>2
  <2> QED
    BY <2>1, <2>2
<1>6. ASSUME NEW u \in Station, Fresh(T[u].rx, p), <<u, p>> \in H
      PROVE  FALSE
  <2>1. CASE u # s
    <3>1. <<u, p>> \in G /\ Fresh(S[u].rx, p)
      BY <1>2, <1>4, <1>6, <2>1
    <3> QED
      BY <1>3, <3>1 DEF Foregone
  <2>2. CASE u = s
    <3>1. Fresh(k.rx, p)
      BY <1>2, <1>6, <2>2
    <3>2. n.up = NoPkt /\ \/ Fresh(S[s].rx, p)
                          \/ \E e \in A : e.at = s /\ Fresh(e.frame, p)
      BY <3>1, HeardFrom DEF Fresh, Like
    <3>3. <<s, p>> \in G
      BY <1>6, <2>2, <3>2
    <3> QED
      BY <1>3, <3>2, <3>3 DEF Foregone
  <2> QED
    BY <2>1, <2>2
<1> HIDE DEF T, C, H
<1>7. Foregone(T, C, H, p)
  BY <1>5, <1>6 DEF Foregone
<1> QED
  BY <1>7 DEF T, C, H

LEMMA EventTimed ==
  ASSUME NEW S, NEW A, NEW Q, NEW D, NEW G, Scene(S, A, Q, D, G),
         NEW s \in Station, NEW n, NEW B, NEW k, Happens(S, A, s, n, B, k),
         NEW p \in Packet
  PROVE  Timed([S EXCEPT ![s] = k], B \cup Copies(n.out), p)
<1> DEFINE T == [S EXCEPT ![s] = k]
           C == B \cup Copies(n.out)
           w == ACKTimeout(p)
<1>1. /\ S \in [Station -> StationType] /\ A \subseteq Copy /\ B \subseteq A
      /\ p.from \in Station
  BY DEF Scene, Happens, Packet
<1>2. T[s] = k /\ \A u \in Station \ {s} : T[u] = S[u]
  BY <1>1
<1>3. Timed(S, A, p)
  BY DEF Scene, Once
<1>0. w \in Nat /\ Prop \in Nat
  BY TimeoutType, ChannelConstants
<1> HIDE DEF w
<1>4. ASSUME NEW c \in C, Fresh(c.frame, p), T[p.from].tx = p, Unicast(p)
      PROVE  IF T[p.from].retry THEN c.left + w <= Prop
             ELSE T[p.from].txs = "SEND" /\ c.left + w <= Prop + T[p.from].send
  <2>1. CASE c \in Copies(n.out)
    <3>1. /\ p.from = s /\ k.txs = "SEND" /\ k.send = w /\ c.left = Prop
          /\ k.retry = c.frame.retry
      BY <1>4, <2>1, SentByOwner DEF Fresh, w
    <3>2. ~k.retry
      BY <1>4, <3>1 DEF Fresh
    <3>3. c.left + w <= Prop + k.send
      BY <1>0, <3>1
    <3> QED
      BY <1>2, <3>1, <3>2, <3>3
  <2>2. CASE c \in B /\ p.from # s
    <3>1. T[p.from] = S[p.from]
      BY <1>1, <1>2, <2>2
    <3> QED
      BY <1>1, <1>3, <1>4, <2>2, <3>1 DEF Timed, w
  <2>3. CASE c \in B /\ p.from = s
    <3>1. k.tx = p
      BY <1>2, <1>4, <2>3
    <3>2. /\ S[s].tx = p /\ (S[s].retry => k.retry)
          /\ ~S[s].retry /\ k.retry => S[s].send = 0
          /\ S[s].txs = "SEND" /\ ~k.retry => k.txs = "SEND" /\ k.send = S[s].send
      BY <3>1, Proceeds
    <3>3. IF S[s].retry THEN c.left + w <= Prop
          ELSE S[s].txs = "SEND" /\ c.left + w <= Prop + S[s].send
      BY <1>1, <1>3, <1>4, <2>3, <3>2 DEF Timed, w
    <3>4. CASE k.retry
      <4>1. c.left + w <= Prop
        BY <1>0, <3>2, <3>3, <3>4
      <4> QED
        BY <1>2, <2>3, <3>4, <4>1
    <3>5. CASE ~k.retry
      <4>1. k.txs = "SEND" /\ c.left + w <= Prop + k.send
        BY <3>2, <3>3, <3>5
      <4> QED
        BY <1>2, <2>3, <3>5, <4>1
    <3> QED
      BY <3>4, <3>5
  <2> QED
    BY <2>1, <2>2, <2>3
<1> HIDE DEF T, C
<1>5. Timed(T, C, p)
  BY <1>4 DEF Timed, w
<1> QED
  BY <1>5 DEF T, C

(* What is passed up was not passed up before. *)
LEMMA EventNew ==
  ASSUME NEW S, NEW A, NEW Q, NEW D, NEW G, Scene(S, A, Q, D, G),
         NEW s \in Station, NEW n, NEW B, NEW k, Happens(S, A, s, n, B, k)
  PROVE  <<s, n.up>> \notin G
<1>1. CASE n.up = NoPkt
  BY <1>1 DEF Scene
<1>2. CASE n.up # NoPkt
  <2> DEFINE f == S[s].rx
             p == n.up
  <2>1. /\ Carries(f, p) /\ p \in Packet
        /\ Unicast(p) => (f.retry => Entry(f) \notin S[s].cache)
    BY <1>2 DEF Happens, Receives, StationType
  <2>2. Foregone(S, A, G, p)
    BY <2>1 DEF Scene, Once
  <2>3. PICK q \in Nat : HasNumber(S, A, G, p, q)
    BY <2>1 DEF Scene, Once, Numbered
  <2>4. Entry(f) = <<p.from, q>> /\ (f.retry => Unicast(p))
    BY <2>1, <2>3 DEF HasNumber, Genuine, Entry
  <2>5. CASE f.retry
    BY <2>1, <2>3, <2>4, <2>5 DEF HasNumber
  <2>6. CASE ~f.retry
    BY <2>1, <2>2, <2>6 DEF Foregone, Fresh
  <2> QED
    BY <2>5, <2>6
<1> QED
  BY <1>1, <1>2

LEMMA EventScene ==
  ASSUME NEW S, NEW A, NEW Q, NEW D, NEW G, Scene(S, A, Q, D, G),
         NEW s \in Station, NEW n, NEW B, NEW k, Happens(S, A, s, n, B, k)
  PROVE  Scene([S EXCEPT ![s] = k], B \cup Copies(n.out), Q, D,
               IF n.up = NoPkt THEN G ELSE G \cup {<<s, n.up>>})
<1> DEFINE T == [S EXCEPT ![s] = k]
           H == IF n.up = NoPkt THEN G ELSE G \cup {<<s, n.up>>}
           C == B \cup Copies(n.out)
<1>1. /\ S \in [Station -> StationType] /\ A \subseteq Copy /\ B \subseteq A
      /\ k \in StationType
  BY DEF Scene, Happens
<1>2. T[s] = k /\ (\A u \in Station \ {s} : T[u] = S[u]) /\ T \in [Station -> StationType]
  BY <1>1
<1>3. C \subseteq Copy
  <2>1. \A c \in Copies(n.out) : c \in Copy
    BY <1>1, OwnCopies DEF Happens, Scene
  <2> QED
    BY <1>1, <2>1
<1>4. \A u \in Station : T[u].me = u /\ <<u, NoPkt>> \notin H
  <2>1. k.me = s
    BY DEF Happens, SameTask, Advances, Scene
  <2> QED
    BY <1>2, <2>1 DEF Scene
<1>5. ASSUME NEW p \in Packet, Unsent(T, Q, D, p)
      PROVE  Untouched(T, C, H, p)
  <2>1. Unsent(S, Q, D, p) /\ Untouched(S, A, G, p)
    BY <1>5, UnsentBefore
  <2>2. /\ \A u \in Station : ~Carries(T[u].rx, p) /\ <<u, p>> \notin H
        /\ \A c \in B : ~Carries(c.frame, p)
    BY <1>1, <2>1, HeardBefore
  <2>3. ASSUME NEW c \in Copies(n.out), Carries(c.frame, p)
        PROVE  FALSE
    <3>1. S[s].tx = p /\ p.from = s /\ k.txs = "SEND" /\ p # NoPkt
      BY <2>3, SentByOwner, TimeoutType
    <3>2. D[p] = Off /\ \A i \in DOMAIN Q[s] : Q[s][i] # p
      BY <3>1 DEF Scene, Handed
    <3> QED
      BY <1>2, <1>5, <3>1, <3>2 DEF Unsent
  <2> HIDE DEF T, H
  <2> QED
    BY <2>2, <2>3 DEF Untouched
<1>6. ASSUME NEW p \in Packet
      PROVE  Once(T, C, Q, D, H, p)
  <2>1. Numbered(T, C, H, p)
    BY EventNumbered
  <2>2. Ordered(T, C, p)
    BY EventOrdered
  <2>3. Foregone(T, C, H, p)
    BY EventForegone
  <2>4. Timed(T, C, p)
    BY EventTimed
  <2> QED
    BY <1>5, <2>1, <2>2, <2>3, <2>4 DEF Once
<1>7. Handed(T, Q, D)
  BY EventHanded
<1>8. Q \in [Station -> Seq(Packet)]
  BY DEF Scene
<1> HIDE DEF T, C, H
<1>9. Scene(T, C, Q, D, H)
  BY <1>2, <1>3, <1>4, <1>6, <1>7, <1>8 DEF Scene
<1> QED
  BY <1>9 DEF T, C, H

(* The binder of station s hands the next packet over. *)
LEMMA TakeScene ==
  ASSUME NEW S, NEW A, NEW Q, NEW D, NEW G, Scene(S, A, Q, D, G),
         NEW s \in Station, S[s].tx = NoPkt, Q[s] # <<>>,
         NEW t \in StationType, Takes(t, S[s], Head(Q[s]))
  PROVE  Scene([S EXCEPT ![s] = t], A, [Q EXCEPT ![s] = Tail(Q[s])], D, G)
<1> DEFINE T == [S EXCEPT ![s] = t]
           R == [Q EXCEPT ![s] = Tail(Q[s])]
           h == Head(Q[s])
<1>1. /\ S \in [Station -> StationType] /\ A \subseteq Copy /\ Q \in [Station -> Seq(Packet)]
      /\ Handed(S, Q, D)
  BY DEF Scene
<1>2. T[s] = t /\ (\A u \in Station \ {s} : T[u] = S[u]) /\ T \in [Station -> StationType]
  BY <1>1
<1>3. /\ h \in Packet /\ h # NoPkt /\ 1 \in DOMAIN Q[s] /\ h = Q[s][1]
      /\ Tail(Q[s]) \in Seq(Packet)
      /\ \A i \in DOMAIN Tail(Q[s]) : /\ i + 1 \in DOMAIN Q[s] /\ Tail(Q[s])[i] = Q[s][i + 1]
                                      /\ i \in Nat /\ i > 0
  <2>1. Q[s] \in Seq(Packet) /\ Q[s] # <<>>
    BY <1>1
  <2>2. h \in Packet
    BY <2>1
  <2> QED
    BY <2>1, <2>2, TimeoutType
<1>4. R \in [Station -> Seq(Packet)] /\ R[s] = Tail(Q[s])
      /\ \A u \in Station \ {s} : R[u] = Q[u]
  BY <1>1, <1>3
<1>5. /\ t.tx = h /\ ~t.retry /\ t.me = s /\ t.txs # "SEND" /\ t.rx = S[s].rx
      /\ t.cache = S[s].cache /\ t.seq \in Nat
  BY DEF Takes, Scene, StationType
<1>6. h.from = s /\ h \in DOMAIN D /\ D[h] = Off
  BY <1>1, <1>3 DEF Handed
<1> HIDE DEF T, R, h
<1>7. Handed(T, R, D)
  <2>1. ASSUME NEW u \in Station
        PROVE  /\ \A i \in DOMAIN R[u] :
                    /\ R[u][i] \in DOMAIN D /\ D[R[u][i]] = Off
                    /\ R[u][i].from = u /\ R[u][i] # T[u].tx
                    /\ \A j \in DOMAIN R[u] : R[u][j] = R[u][i] => j = i
               /\ T[u].tx # NoPkt => /\ T[u].tx \in DOMAIN D /\ D[T[u].tx] = Off
                                     /\ T[u].tx.from = u
                                     /\ T[u].retry => Unicast(T[u].tx)
    <3>1. CASE u # s
      BY <1>1, <1>2, <1>4, <3>1 DEF Handed
    <3>2. CASE u = s
      <4>1. ASSUME NEW i \in DOMAIN R[s]
            PROVE  /\ R[s][i] \in DOMAIN D /\ D[R[s][i]] = Off
                   /\ R[s][i].from = s /\ R[s][i] # h
                   /\ \A j \in DOMAIN R[s] : R[s][j] = R[s][i] => j = i
        <5>1. i + 1 \in DOMAIN Q[s] /\ R[s][i] = Q[s][i + 1] /\ i + 1 # 1 /\ i \in Nat
          BY <1>3, <1>4
        <5>2. /\ R[s][i] \in DOMAIN D /\ D[R[s][i]] = Off
              /\ R[s][i].from = s /\ R[s][i] # h
          BY <1>1, <1>3, <5>1 DEF Handed
        <5>3. ASSUME NEW j \in DOMAIN R[s], R[s][j] = R[s][i]
              PROVE  j = i
          <6>1. j + 1 \in DOMAIN Q[s] /\ Q[s][j + 1] = Q[s][i + 1] /\ j \in Nat
            BY <1>3, <1>4, <5>1, <5>3
          <6>2. j + 1 = i + 1
            BY <1>1, <5>1, <6>1 DEF Handed
          <6> QED
            BY <5>1, <6>1, <6>2
        <5> QED
          BY <5>2, <5>3
      <4> QED
        BY <1>2, <1>5, <1>6, <3>2, <4>1
    <3> QED
      BY <3>1, <3>2
  <2> QED
    BY <2>1 DEF Handed
<1>8. ASSUME NEW p \in Packet, Unsent(T, R, D, p)
      PROVE  Unsent(S, Q, D, p)
  <2>0. p.from \in Station
    BY DEF Packet
  <2>1. CASE p.from # s
    <3>1. T[p.from] = S[p.from] /\ R[p.from] = Q[p.from]
      BY <1>2, <1>4, <2>0, <2>1
    <3> QED
      BY <1>8, <3>1 DEF Unsent
  <2>2. CASE p.from = s
    <3>1. CASE p = h
      BY <1>3, <2>2, <3>1 DEF Unsent
    <3>2. CASE p # h
      <4>1. \/ p \in DOMAIN D /\ D[p] # Off
            \/ \E i \in DOMAIN R[s] : R[s][i] = p
        BY <1>2, <1>5, <1>8, <2>2, <3>2 DEF Unsent
      <4>2. \/ p \in DOMAIN D /\ D[p] # Off
            \/ \E i \in DOMAIN Q[s] : Q[s][i] = p
        BY <1>3, <1>4, <4>1
      <4> QED
        BY <2>2, <4>2 DEF Unsent
    <3> QED
      BY <3>1, <3>2
  <2> QED
    BY <2>1, <2>2
<1>9. \A u \in Station : T[u].rx = S[u].rx /\ T[u].cache = S[u].cache
  BY <1>2, <1>5
<1>10. Untouched(S, A, G, h)
  <2>1. Unsent(S, Q, D, h)
    BY <1>3, <1>6 DEF Unsent
  <2> QED
    BY <1>3, <2>1 DEF Scene, Once
<1>11. ASSUME NEW p \in Packet
       PROVE  Once(T, A, R, D, G, p)
  <2>0. Once(S, A, Q, D, G, p) /\ p.from \in Station
    BY DEF Scene, Packet
  <2>1. Unsent(T, R, D, p) => Untouched(T, A, G, p)
    BY <1>8, <1>9, <2>0 DEF Once, Untouched
  <2>2. Ordered(T, A, p)
    <3>1. \A c \in A : c.at \in Station
      BY <1>1 DEF Copy
    <3> QED
      BY <1>9, <2>0, <3>1 DEF Once, Ordered
  <2>3. Foregone(T, A, G, p)
    BY <1>9, <2>0 DEF Once, Foregone
  <2>4. CASE p = h
    <3>1. Untouched(T, A, G, p)
      BY <1>9, <1>10, <2>4 DEF Untouched
    <3>2. HasNumber(T, A, G, p, t.seq)
      BY <1>2, <1>6, <2>4, <3>1 DEF Untouched, HasNumber
    <3>3. Timed(T, A, p)
      BY <3>1 DEF Untouched, Timed, Fresh
    <3> QED
      BY <1>5, <2>1, <2>2, <2>3, <3>2, <3>3 DEF Once, Numbered
  <2>5. CASE p # h
    <3>1. T[p.from].tx = p => T[p.from] = S[p.from]
      BY <1>2, <1>5, <2>0, <2>5
    <3>2. PICK q \in Nat : HasNumber(S, A, G, p, q)
      BY <2>0 DEF Once, Numbered
    <3>3. HasNumber(T, A, G, p, q)
      BY <1>9, <3>1, <3>2 DEF HasNumber
    <3>4. Timed(T, A, p)
      BY <2>0, <3>1 DEF Once, Timed
    <3> QED
      BY <2>1, <2>2, <2>3, <3>3, <3>4 DEF Once, Numbered
  <2> QED
    BY <2>4, <2>5
<1>12. \A u \in Station : T[u].me = u /\ <<u, NoPkt>> \notin G
  BY <1>2, <1>5 DEF Scene
<1>13. Scene(T, A, R, D, G)
  BY <1>1, <1>2, <1>4, <1>7, <1>11, <1>12 DEF Scene
<1> QED
  BY <1>13 DEF T, R

(* The layers above have packet o for the MAC. *)
LEMMA OfferScene ==
  ASSUME NEW S, NEW A, NEW Q, NEW D, NEW G, Scene(S, A, Q, D, G),
         NEW o \in Packet, o \in DOMAIN D, D[o] # Off
  PROVE  Scene(S, A, [Q EXCEPT ![o.from] = Append(Q[o.from], o)], [D EXCEPT ![o] = Off], G)
<1> DEFINE s == o.from
           R == [Q EXCEPT ![s] = Append(Q[s], o)]
           E == [D EXCEPT ![o] = Off]
<1>1. /\ S \in [Station -> StationType] /\ Q \in [Station -> Seq(Packet)]
      /\ Handed(S, Q, D) /\ s \in Station
  BY DEF Scene, Packet
<1>2. /\ R \in [Station -> Seq(Packet)] /\ \A u \in Station \ {s} : R[u] = Q[u]
      /\ \A i \in DOMAIN R[s] : (i \in DOMAIN Q[s] /\ R[s][i] = Q[s][i])
                                \/ (i = Len(Q[s]) + 1 /\ R[s][i] = o)
  <2>1. Q[s] \in Seq(Packet)
    BY <1>1
  <2>2. R[s] = Append(Q[s], o)
    BY <1>1
  <2> QED
    BY <1>1, <2>1, <2>2
<1>3. /\ DOMAIN E = DOMAIN D /\ E[o] = Off
      /\ \A p \in DOMAIN D : p # o => E[p] = D[p]
  OBVIOUS
<1> HIDE DEF R, E
<1>4. Handed(S, R, E)
  <2>1. ASSUME NEW u \in Station
        PROVE  /\ \A i \in DOMAIN R[u] :
                    /\ R[u][i] \in DOMAIN E /\ E[R[u][i]] = Off
                    /\ R[u][i].from = u /\ R[u][i] # S[u].tx
                    /\ \A j \in DOMAIN R[u] : R[u][j] = R[u][i] => j = i
               /\ S[u].tx # NoPkt => /\ S[u].tx \in DOMAIN E /\ E[S[u].tx] = Off
                                     /\ S[u].tx.from = u
                                     /\ S[u].retry => Unicast(S[u].tx)
    <3>1. S[u].tx # NoPkt => /\ S[u].tx \in DOMAIN E /\ E[S[u].tx] = Off
                             /\ S[u].tx.from = u
                             /\ S[u].retry => Unicast(S[u].tx)
      BY <1>1, <1>3 DEF Handed
    <3>2. CASE u # s
      BY <1>1, <1>2, <1>3, <3>1, <3>2 DEF Handed
    <3>3. CASE u = s
      <4>0. \A i \in DOMAIN Q[s] :
              /\ Q[s][i] \in DOMAIN D /\ D[Q[s][i]] = Off
              /\ Q[s][i].from = s /\ Q[s][i] # S[s].tx
              /\ \A j \in DOMAIN Q[s] : Q[s][j] = Q[s][i] => j = i
        BY <1>1 DEF Handed
      <4>1. S[s].tx # o /\ \A i \in DOMAIN Q[s] : Q[s][i] # o
        <5>1. o # NoPkt
          BY TimeoutType
        <5> QED
          BY <1>1, <5>1 DEF Handed
      <4>2. ASSUME NEW i \in DOMAIN R[s]
            PROVE  /\ R[s][i] \in DOMAIN E /\ E[R[s][i]] = Off
                   /\ R[s][i].from = s /\ R[s][i] # S[s].tx
        <5>1. CASE i \in DOMAIN Q[s] /\ R[s][i] = Q[s][i]
          BY <1>3, <4>0, <4>1, <5>1
        <5>2. CASE R[s][i] = o
          BY <1>3, <4>1, <5>2
        <5> QED
          BY <1>2, <5>1, <5>2
      <4>3. ASSUME NEW i \in DOMAIN R[s], NEW j \in DOMAIN R[s], R[s][j] = R[s][i]
            PROVE  j = i
        BY <1>2, <4>0, <4>1, <4>3
      <4> QED
        BY <3>1, <3>3, <4>2, <4>3
    <3> QED
      BY <3>2, <3>3
  <2> QED
    BY <2>1 DEF Handed
<1>5. ASSUME NEW p \in Packet, Unsent(S, R, E, p)
      PROVE  Unsent(S, Q, D, p)
  <2>1. CASE p = o
    BY <2>1 DEF Unsent
  <2>2. CASE p # o
    <3>1. p.from \in Station
      BY DEF Packet
    <3>2. \A i \in DOMAIN R[p.from] :
            R[p.from][i] = p => i \in DOMAIN Q[p.from] /\ Q[p.from][i] = p
      BY <1>2, <2>2, <3>1
    <3> QED
      BY <1>3, <1>5, <2>2, <3>2 DEF Unsent
  <2> QED
    BY <2>1, <2>2
<1>6. ASSUME NEW p \in Packet
      PROVE  Once(S, A, R, E, G, p)
  <2>1. Once(S, A, Q, D, G, p)
    BY DEF Scene
  <2> QED
    BY <1>5, <2>1 DEF Once
<1>7. Scene(S, A, R, E, G)
  BY <1>2, <1>4, <1>6 DEF Scene
<1> QED
  BY <1>7 DEF R, E

(* The clock moves on by d. *)
(* The copies in the air, d ticks nearer. *)
Nearer(A, d) == {[c EXCEPT !.left = @ - d] : c \in A}

LEMMA LeapScene ==
  ASSUME NEW S, NEW A, NEW Q, NEW D, NEW G, Scene(S, A, Q, D, G),
         NEW d \in Nat, \A c \in A : d <= c.left,
         NEW T \in [Station -> StationType],
         \A s \in Station : /\ SameTask(T[s], S[s]) /\ T[s].cache = S[s].cache
                            /\ T[s].rx = S[s].rx /\ T[s].txs = S[s].txs
                            /\ S[s].txs = "SEND" => S[s].send \in Nat
                                                    /\ T[s].send = S[s].send - d,
         NEW E, DOMAIN E = DOMAIN D, \A p \in DOMAIN D : E[p] = Off <=> D[p] = Off
  PROVE  Scene(T, Nearer(A, d), Q, E, G)
<1> DEFINE sooner(c) == [c EXCEPT !.left = @ - d]
           B == {sooner(c) : c \in A}
<1>1. ASSUME NEW c \in A
      PROVE  /\ sooner(c) \in Copy /\ sooner(c).at = c.at /\ sooner(c).frame = c.frame
             /\ sooner(c).left = c.left - d /\ c.left \in Nat
  <2>1. c \in Copy /\ d <= c.left
    BY DEF Scene
  <2> QED
    BY <2>1 DEF Copy
<1> HIDE DEF sooner
<1>2. \A b \in B : \E c \in A : b = sooner(c)
  OBVIOUS
<1>3. B \subseteq Copy
  BY <1>1, <1>2
<1> HIDE DEF B
<1>4. \A s \in Station : /\ T[s].tx = S[s].tx /\ T[s].me = S[s].me /\ T[s].seq = S[s].seq
                         /\ T[s].retry = S[s].retry /\ T[s].cache = S[s].cache
                         /\ T[s].rx = S[s].rx /\ T[s].txs = S[s].txs
  BY DEF SameTask
<1>5. Handed(T, Q, E)
  BY <1>4 DEF Scene, Handed
<1>6. ASSUME NEW p \in Packet
      PROVE  Once(T, B, Q, E, G, p)
  <2>0. Once(S, A, Q, D, G, p) /\ p.from \in Station
    BY DEF Scene, Packet
  <2>1. Unsent(T, Q, E, p) => Untouched(T, B, G, p)
    <3>1. Unsent(T, Q, E, p) => Unsent(S, Q, D, p)
      BY <1>4, <2>0 DEF Unsent
    <3>2. Untouched(S, A, G, p) => Untouched(T, B, G, p)
      BY <1>1, <1>2, <1>4 DEF Untouched
    <3> QED
      BY <2>0, <3>1, <3>2 DEF Once
  <2>2. Numbered(T, B, G, p)
    <3>1. PICK q \in Nat : HasNumber(S, A, G, p, q)
      BY <2>0 DEF Once, Numbered
    <3>2. HasNumber(T, B, G, p, q)
      BY <1>1, <1>2, <1>4, <2>0, <3>1 DEF HasNumber
    <3> QED
      BY <3>2 DEF Numbered
  <2>3. Ordered(T, B, p)
    <3>1. ASSUME NEW c \in A, Fresh(sooner(c).frame, p)
          PROVE  /\ ~Carries(T[sooner(c).at].rx, p)
                 /\ \A k \in A : sooner(k).at = sooner(c).at /\ Carries(sooner(k).frame, p) =>
                      sooner(k) = sooner(c)
                      \/ (sooner(k).frame.retry /\ sooner(c).left < sooner(k).left)
      <4>1. /\ c.at \in Station /\ ~Carries(S[c.at].rx, p)
            /\ \A k \in A : k.at = c.at /\ Carries(k.frame, p) =>
                 k = c \/ (k.frame.retry /\ c.left < k.left)
        BY <1>1, <2>0, <3>1 DEF Once, Ordered, Scene, Copy
      <4>2. ASSUME NEW k \in A, sooner(k).at = sooner(c).at, Carries(sooner(k).frame, p)
            PROVE  sooner(k) = sooner(c)
                   \/ (sooner(k).frame.retry /\ sooner(c).left < sooner(k).left)
        <5>1. k = c \/ (k.frame.retry /\ c.left < k.left)
          BY <1>1, <4>1, <4>2
        <5>2. c.left < k.left => sooner(c).left < sooner(k).left
          BY <1>1
        <5> QED
          BY <1>1, <5>1, <5>2
      <4> QED
        BY <1>1, <1>4, <4>1, <4>2
    <3> QED
      BY <1>2, <3>1 DEF Ordered
  <2>4. Foregone(T, B, G, p)
    BY <1>1, <1>2, <1>4, <2>0 DEF Once, Foregone
  <2>5. Timed(T, B, p)
    <3> DEFINE w == ACKTimeout(p)
    <3>0. w \in Nat /\ Prop \in Nat
      BY TimeoutType, ChannelConstants
    <3> HIDE DEF w
    <3>1. ASSUME NEW c \in A, Fresh(sooner(c).frame, p), T[p.from].tx = p, Unicast(p)
          PROVE  IF T[p.from].retry THEN sooner(c).left + w <= Prop
                 ELSE T[p.from].txs = "SEND" /\ sooner(c).left + w <= Prop + T[p.from].send
      <4>1. IF S[p.from].retry THEN c.left + w <= Prop
            ELSE S[p.from].txs = "SEND" /\ c.left + w <= Prop + S[p.from].send
        BY <1>1, <1>4, <2>0, <3>1 DEF Once, Timed, w
      <4>2. CASE S[p.from].retry
        <5>1. sooner(c).left + w <= Prop
          BY <1>1, <3>0, <4>1, <4>2
        <5> QED
          BY <1>4, <2>0, <4>2, <5>1
      <4>3. CASE ~S[p.from].retry
        <5>1. S[p.from].send \in Nat /\ T[p.from].send = S[p.from].send - d
          BY <2>0, <4>1, <4>3
        <5>2. sooner(c).left + w <= Prop + T[p.from].send
          BY <1>1, <3>0, <4>1, <4>3, <5>1
        <5> QED
          BY <1>4, <2>0, <4>1, <4>3, <5>2
      <4> QED
        BY <4>2, <4>3
    <3> QED
      BY <1>2, <3>1 DEF Timed, w
  <2> QED
    BY <2>1, <2>2, <2>3, <2>4, <2>5 DEF Once
<1>7. Scene(T, B, Q, E, G)
  BY <1>3, <1>4, <1>5, <1>6 DEF Scene
<1> QED
  BY <1>7 DEF B, sooner, Nearer

-----------------------------------------------------------------------------
Here == Scene(st, air, queue, due, got)

(* Every cache has room for the packet that comes next. *)
Roomy == \A s \in Station : Cardinality(st[s].cache) < CacheSize

LEMMA InitHere ==
  ASSUME Init
  PROVE  Here
<1>1. PICK k \in Cases :
        /\ due \in [k.load -> Offsets] /\ air = {} /\ got = {}
        /\ st = [s \in Station |-> Station0(s)]
        /\ queue = [s \in Station |-> <<>>]
  BY DEF Init
<1>2. st \in [Station -> StationType]
  BY InitSound DEF Inv, Stations
<1>3. \A s \in Station : /\ st[s].me = s /\ st[s].tx = NoPkt /\ st[s].rx = NoFrame
                         /\ queue[s] = <<>>
  BY <1>1 DEF Station0
<1>4. queue \in [Station -> Seq(Packet)]
  BY <1>1
<1>5. Handed(st, queue, due)
  BY <1>3 DEF Handed
<1>6. ASSUME NEW p \in Packet
      PROVE  Once(st, air, queue, due, got, p)
  <2>1. p.from \in Station /\ p # NoPkt
    BY TimeoutType DEF Packet
  <2>2. \A s \in Station : ~Carries(st[s].rx, p)
    BY <1>3 DEF Carries, NoFrame
  <2>3. Untouched(st, air, got, p)
    BY <1>1, <2>2 DEF Untouched
  <2>4. HasNumber(st, air, got, p, 0)
    BY <1>1, <1>3, <2>1, <2>2 DEF HasNumber
  <2>5. Ordered(st, air, p) /\ Foregone(st, air, got, p) /\ Timed(st, air, p)
    BY <1>1 DEF Ordered, Foregone, Timed
  <2> QED
    BY <2>3, <2>4, <2>5 DEF Once, Numbered
<1> QED
  BY <1>1, <1>2, <1>3, <1>4, <1>5, <1>6 DEF Here, Scene

LEMMA BecomesHere ==
  ASSUME Inv, Here, NEW s \in Station, NEW n, Sound(n), Advances(n, st[s]),
         NEW a, a \subseteq air, NEW how, Becomes(s, n, a, how), due' = due,
         Receives(n, st[s], {c.frame : c \in {e \in air \ a : e.at = s /\ e.left = 0}})
  PROVE  Here' /\ again' = again
<1> DEFINE k == Cleared(n)
           T == [st EXCEPT ![s] = k]
<1>1. Happens(st, air, s, n, a, k)
  BY ClearedReady DEF Happens, Sound, SameEar
<1>2. /\ air' = a \cup Copies(n.out)
      /\ got' = IF n.up = NoPkt THEN got ELSE got \cup {<<s, n.up>>}
      /\ again' = IF <<s, n.up>> \in got THEN again \cup {<<s, n.up>>} ELSE again
  BY DEF Becomes
<1>3. Scene(T, air', queue, due, got')
  BY <1>1, <1>2, EventScene DEF Here
<1>4. again' = again
  BY <1>1, <1>2, EventNew DEF Here
<1>5. Stations' /\ Traffic'
      /\ \A u \in Station \ {s} : st'[u] = st[u] /\ queue'[u] = queue[u]
      /\ \/ st'[s] = k /\ queue'[s] = queue[s]
         \/ /\ n.tx = NoPkt /\ queue[s] # <<>> /\ queue'[s] = Tail(queue[s])
            /\ Takes(st'[s], k, Head(queue[s]))
  BY BecomesSound
<1>11. \/ st'[s] = k /\ queue'[s] = queue[s]
       \/ /\ n.tx = NoPkt /\ queue[s] # <<>> /\ queue'[s] = Tail(queue[s])
          /\ Takes(st'[s], k, Head(queue[s]))
  BY BecomesSound
<1>6. /\ st \in [Station -> StationType] /\ queue \in [Station -> Seq(Packet)]
      /\ k \in StationType /\ k.tx = n.tx
  BY ClearedReady DEF Here, Scene, SameTask
<1>7. st' \in [Station -> StationType] /\ queue' \in [Station -> Seq(DOMAIN due)]
  BY <1>5 DEF Stations, Traffic
<1> HIDE DEF k
<1>8. T[s] = k /\ (\A u \in Station \ {s} : T[u] = st[u]) /\ T \in [Station -> StationType]
  BY <1>6
<1> HIDE DEF T
<1>9. CASE st'[s] = k /\ queue'[s] = queue[s]
  <2>1. st' = T /\ queue' = queue
    BY <1>5, <1>6, <1>7, <1>8, <1>9
  <2> QED
    BY <1>3, <1>4, <2>1 DEF Here
<1>10. CASE /\ n.tx = NoPkt /\ queue[s] # <<>> /\ queue'[s] = Tail(queue[s])
            /\ Takes(st'[s], k, Head(queue[s]))
  <2>1. st' = [T EXCEPT ![s] = st'[s]] /\ queue' = [queue EXCEPT ![s] = Tail(queue[s])]
    BY <1>5, <1>6, <1>7, <1>8, <1>10
  <2>2. T[s].tx = NoPkt /\ st'[s] \in StationType /\ Takes(st'[s], T[s], Head(queue[s]))
    BY <1>6, <1>7, <1>8, <1>10
  <2>3. Scene([T EXCEPT ![s] = st'[s]], air', [queue EXCEPT ![s] = Tail(queue[s])],
              due, got')
    BY <1>3, <1>10, <2>2, TakeScene
  <2> QED
    BY <1>4, <2>1, <2>3 DEF Here
<1> QED
  BY <1>9, <1>10, <1>11

LEMMA OfferHere ==
  ASSUME Inv, Here, NEW p \in DOMAIN due, Offer(p)
  PROVE  Here' /\ again' = again
<1> DEFINE s == p.from
           q == Append(queue[s], p)
           R == [queue EXCEPT ![s] = q]
<1>1. /\ p \in Packet /\ s \in Station /\ Traffic /\ Stations
      /\ st \in [Station -> StationType] /\ queue \in [Station -> Seq(DOMAIN due)]
  BY DEF Inv, Traffic, Stations, Packet
<1>2. /\ due[p] # Off /\ due' = [due EXCEPT ![p] = Off] /\ Polled(s, st[s], q)
      /\ air' = air /\ got' = got /\ again' = again
  BY DEF Offer, Off
<1>3. Scene(st, air, R, due', got)
  BY <1>1, <1>2, OfferScene DEF Here
<1>4. q \in Seq(DOMAIN due) /\ q # <<>>
  BY <1>1
<1>5. R[s] = q /\ (\A u \in Station \ {s} : R[u] = queue[u])
      /\ R \in [Station -> Seq(DOMAIN due)]
  BY <1>1, <1>4
<1> HIDE DEF q, R
<1>6. /\ st' \in [Station -> StationType] /\ queue' \in [Station -> Seq(DOMAIN due)]
      /\ \A u \in Station \ {s} : st'[u] = st[u] /\ queue'[u] = queue[u]
      /\ \/ st'[s] = st[s] /\ queue'[s] = q
         \/ /\ st[s].tx = NoPkt /\ q # <<>> /\ queue'[s] = Tail(q)
            /\ Takes(st'[s], st[s], Head(q))
  BY <1>1, <1>2, <1>4, PolledReady DEF Stations
<1>7. CASE st'[s] = st[s] /\ queue'[s] = q
  <2>1. \A u \in Station : st'[u] = st[u] /\ queue'[u] = R[u]
    BY <1>5, <1>6, <1>7
  <2>2. st' = st
    BY <1>1, <1>6, <2>1
  <2>3. queue' = R
    BY <1>5, <1>6, <2>1
  <2> QED
    BY <1>2, <1>3, <2>2, <2>3 DEF Here
<1>8. CASE /\ st[s].tx = NoPkt /\ q # <<>> /\ queue'[s] = Tail(q)
           /\ Takes(st'[s], st[s], Head(q))
  <2>1. st' = [st EXCEPT ![s] = st'[s]] /\ queue' = [R EXCEPT ![s] = Tail(R[s])]
    BY <1>1, <1>5, <1>6, <1>8
  <2>2. st'[s] \in StationType
    BY <1>1, <1>6
  <2>3. Scene([st EXCEPT ![s] = st'[s]], air, [R EXCEPT ![s] = Tail(R[s])], due', got)
    BY <1>1, <1>3, <1>5, <1>8, <2>2, TakeScene
  <2> QED
    BY <1>2, <2>1, <2>3 DEF Here
<1> QED
  BY <1>6, <1>7, <1>8

LEMMA LeapHere ==
  ASSUME Inv, Here, Leap
  PROVE  Here' /\ again' = again
<1>1. PICK d \in Nat : LeapsBy(d)
  BY LeapMeasured
<1>2. ASSUME NEW s \in Station
      PROVE  /\ SameTask(st'[s], st[s]) /\ st'[s].cache = st[s].cache
             /\ st'[s].rx = st[s].rx /\ st'[s].txs = st[s].txs /\ st'[s] \in StationType
             /\ st[s].txs = "SEND" => st[s].send \in Nat /\ st'[s].send = st[s].send - d
  <2>1. Ready(st[s]) /\ \A t \in Timers(st[s]) : d <= t
    BY <1>1 DEF LeapsBy
  <2> DEFINE n == Elapsed(st[s], d)
  <2>2. /\ Ready(n) /\ SameTask(n, st[s]) /\ SameRecord(n, st[s]) /\ n.rx = st[s].rx
        /\ n.txs = st[s].txs /\ (st[s].txs = "SEND" => n.send = st[s].send - d)
    BY <1>1, <2>1, TimePasses DEF LeapsBy
  <2>3. st'[s] = n
    BY <1>1 DEF LeapsBy
  <2> HIDE DEF n
  <2>4. st[s].txs = "SEND" => st[s].send \in Nat
    BY <2>1 DEF Ready, Sound, Sends, StationType, Ticks
  <2>5. n \in StationType
    BY <2>2 DEF Ready, Sound
  <2> QED
    BY <2>2, <2>3, <2>4, <2>5 DEF SameRecord
<1>3. st' \in [Station -> StationType]
  <2>1. st' = [s \in Station |-> st'[s]]
    BY <1>1 DEF LeapsBy
  <2> QED
    BY <1>2, <2>1
<1>4. DOMAIN due' = DOMAIN due /\ \A p \in DOMAIN due : due'[p] = Off <=> due[p] = Off
  <2>1. ASSUME NEW p \in DOMAIN due
        PROVE  Later(due[p], d) = Off <=> due[p] = Off
    <3>1. due[p] \in Ticks /\ (due[p] # Off => d <= due[p])
      BY <1>1 DEF LeapsBy, Inv, Traffic
    <3> QED
      BY <3>1, LaterType
  <2> QED
    BY <1>1, <2>1 DEF LeapsBy
<1>5. /\ \A c \in air : d <= c.left
      /\ air' = {[c EXCEPT !.left = @ - d] : c \in air}
      /\ queue' = queue /\ got' = got /\ again' = again
  BY <1>1 DEF LeapsBy
<1>6. Scene(st', air', queue, due', got)
  <2>1. Scene(st, air, queue, due, got)
    BY DEF Here
  <2>2. \A s \in Station : /\ SameTask(st'[s], st[s]) /\ st'[s].cache = st[s].cache
                           /\ st'[s].rx = st[s].rx /\ st'[s].txs = st[s].txs
                           /\ st[s].txs = "SEND" => st[s].send \in Nat
                                                   /\ st'[s].send = st[s].send - d
    BY <1>2
  <2>3. \A c \in air : d <= c.left
    BY <1>5
  <2>4. Scene(st', Nearer(air, d), queue, due', got)
    BY <1>3, <1>4, <2>1, <2>2, <2>3, LeapScene
  <2> QED
    BY <1>5, <2>4 DEF Nearer
<1> QED
  BY <1>5, <1>6 DEF Here

LEMMA StepHere ==
  ASSUME Inv, Here, Roomy, [Next]_vars
  PROVE  Here' /\ again' = again
<1>1. CASE \E p \in DOMAIN due : Offer(p)
  BY <1>1, OfferHere
<1>2. CASE \E c \in air : Arrive(c)
  <2>1. PICK c \in air : Arrive(c)
    BY <1>2
  <2>2. PICK n : ArrivesAs(c, n)
    BY <2>1, ArrivalTaken
  <2>3. c.at \in Station /\ c.left = 0 /\ due' = due
    BY <2>1 DEF Arrive, Inv, Channel, Copy
  <2> DEFINE a == air \ {c}
  <2>4. {e.frame : e \in {x \in air \ a : x.at = c.at /\ x.left = 0}} = {c.frame}
    BY <2>3
  <2>5. /\ Becomes(c.at, n, a, "none") /\ Sound(n) /\ Advances(n, st[c.at])
        /\ Receives(n, st[c.at], {c.frame}) /\ a \subseteq air
    BY <2>2 DEF ArrivesAs
  <2> HIDE DEF a
  <2> QED
    BY <2>3, <2>4, <2>5, BecomesHere
<1>3. CASE \E s \in Station : Expiry(s)
  <2>1. PICK s \in Station : Expiry(s)
    BY <1>3
  <2>2. PICK n, how : ExpiresTo(s, n, how)
    BY <2>1, ExpiryHandled
  <2>3. due' = due
    BY <2>1 DEF Expiry
  <2>4. {c.frame : c \in {e \in air \ air : e.at = s /\ e.left = 0}} = {}
    OBVIOUS
  <2>5. /\ Becomes(s, n, air, how) /\ Sound(n) /\ Advances(n, st[s])
        /\ Receives(n, st[s], {})
    BY <2>2 DEF ExpiresTo, Roomy
  <2> QED
    BY <2>3, <2>4, <2>5, BecomesHere
<1>4. CASE Leap
  BY <1>4, LeapHere
<1>5. CASE UNCHANGED vars
  BY <1>5 DEF vars, Here
<1> QED
  BY <1>1, <1>2, <1>3, <1>4, <1>5 DEF Next

(* As long as no cache is full, recvDATA passes every packet up once, for  *)
(* any retries, lost acknowledgements, collisions and numbers that wrap.   *)
THEOREM RoomyPassesOnce == Spec /\ []Roomy => []PassedOnce
<1>1. Init => Here /\ PassedOnce
  BY InitHere DEF Init, PassedOnce
<1>2. Inv /\ Roomy /\ Here /\ PassedOnce /\ [Next]_vars => Here' /\ PassedOnce'
  BY StepHere DEF PassedOnce
<1> QED
  BY <1>1, <1>2, Invariance, PTL DEF Spec

-----------------------------------------------------------------------------
(* Who waits for an ACK gets no other: an answer is on time, or is lost.   *)
(* First what each handler adds to that, in the order of the section on    *)
(* Sound.  An exchange, as the stations take part in it:                   *)

(* How long the sender of a packet waits for the ACK once the frame is out. *)
AckWindow == CtlTime + SIFS + DIFS

Talks(m) == m.txs \in {"RTS", "SEND"}

(* m receives a packet from x, owes x an ACK for one, is told by an ACK. *)
Hearing(m, x) == Clear(m) /\ m.rx.type = "DATA" /\ m.rx.to = m.me /\ m.rx.from = x
Owes(m, x) == m.ctrl.type = "ACK" /\ m.ctrl.to = x /\ m.txs # "ACK"
Told(m) == Clear(m) /\ m.rx.type = "ACK" /\ m.rx.to = m.me

(* How long an answer of m may have to wait at most. *)
Busy(m) == IF Talks(m) THEN m.send ELSE 0
Wait(m) == IF m.txs = "IDLE" THEN m.defer ELSE m.send + SIFS

(* Who waits for an answer does so for AckWindow at most once its frame is *)
(* out, and an answer is sent SIFS after it could be.                      *)
Measured(m) ==
  /\ Talks(m) => m.send <= AckWindow + (IF m.active THEN m.ifc ELSE 0)
  /\ m.ctrl # NoFrame /\ m.txs = "IDLE" => m.defer <= SIFS
  /\ m.txs \in {"CTS", "ACK"} => m.ctrl.type = m.txs
  /\ Clear(m) => ~m.active

(* The packet that m has received is acknowledged by n: it is passed up,   *)
(* or m remembers it.                                                      *)
Obliged(n, m, x) == /\ Hearing(m, x) /\ m.recv = 0 /\ ~Clear(n)
                    /\ Wait(n) <= Busy(m) + SIFS
                    /\ n.up = m.rx.pkt \/ Entry(m.rx) \in m.cache

(* From m to n nothing but a frame of F becomes audible, no answer is put  *)
(* off, no packet is sent before the timers say so, and the wait for an    *)
(* ACK ends with its time or the ACK.                                      *)
Paces(n, m, F) ==
  /\ Held(n, m) /\ Measured(n)
  /\ n.txs = "SEND" /\ m.txs # "SEND" => (m.defer = 0 \/ m.backoff = 0) /\ ~Clear(m)
  /\ m.txs = "SEND" /\ n.txs # "SEND" => m.send = 0 \/ Told(m)
  /\ Clear(n) => /\ \/ Clear(m) /\ n.rx = m.rx /\ n.recv = m.recv
                    \/ ~m.active /\ n.rx \in F /\ n.recv = Airtime(n.rx)
                 /\ Talks(n) => Talks(m) /\ n.send = m.send
  /\ \A x : Owes(n, x) => (Owes(m, x) /\ Wait(n) <= Wait(m)) \/ Obliged(n, m, x)
  /\ n.out.type = "ACK" => /\ n.out = m.ctrl /\ m.txs = "IDLE" /\ m.defer = 0
                           /\ n.txs = "ACK"
  /\ \A e \in n.cache : e \in m.cache \/ /\ Hearing(m, m.rx.from) /\ m.recv = 0
                                         /\ e = Entry(m.rx) /\ n.up = m.rx.pkt

(* The ear of m is as it was, but what it hears may be spoilt. *)
Listens(n, m) == /\ n.rxs = m.rxs /\ n.recv = m.recv /\ n.cache = m.cache
                 /\ n.rx = m.rx \/ n.rx.err

(* Nothing is sent; a deferral that is over may go. *)
Stays(n, m) == /\ Held(n, m) /\ Listens(n, m) /\ n.rx = m.rx /\ n.out = NoFrame
               /\ n.txs = m.txs /\ n.send = m.send
               /\ n.ctrl = m.ctrl \/ (n.ctrl = NoFrame /\ m.txs = "IDLE")
               /\ n.ctrl # NoFrame => n.defer = m.defer
               /\ (n.active = m.active /\ n.ifc = m.ifc) \/ (~n.active /\ m.ifc = 0)

LEMMA StaysPaces ==
  ASSUME NEW m \in StationType, NEW n \in StationType, Stays(n, m), Measured(m)
  PROVE  Paces(n, m, {})
<1>1. m.ctrl \in Frame \cup {NoFrame} /\ m.ifc \in Ticks /\ m.send \in Ticks
      /\ m.defer \in Ticks
  BY DEF StationType
<1>2. NoFrame.type = "none"
  BY DEF NoFrame
<1>3. Clear(n) <=> Clear(m)
  BY DEF Stays, Listens, Clear
<1>4. Measured(n)
  <2>1. CtlTime \in Nat
    BY RadioConstants
  <2>2. Talks(n) => n.send <= AckWindow + (IF n.active THEN n.ifc ELSE 0)
    BY <1>1, <2>1 DEF Stays, Measured, Talks, AckWindow, SIFS, DIFS, SlotTime, Ticks
  <2> QED
    BY <1>2, <1>3, <2>2 DEF Stays, Measured
<1>5. \A x : Owes(n, x) => Owes(m, x) /\ Wait(n) <= Wait(m)
  BY <1>1, <1>2 DEF Stays, Owes, Wait, Ticks, SIFS, Off
<1>6. n.out.type # "ACK" /\ n.cache = m.cache
  BY <1>2 DEF Stays, Listens
<1>7. Clear(n) => /\ Clear(m) /\ n.rx = m.rx /\ n.recv = m.recv
                  /\ Talks(n) => Talks(m) /\ n.send = m.send
  BY <1>3 DEF Stays, Listens, Talks
<1>8. Held(n, m) /\ n.txs = m.txs
  BY DEF Stays
<1> QED
  BY <1>4, <1>5, <1>6, <1>7, <1>8 DEF Paces

(* The answer goes out. *)
Answered(n, m) == /\ Held(n, m) /\ Listens(n, m) /\ (n.rx.err \/ m.rxs # "RECV")
                  /\ m.txs = "IDLE" /\ m.defer = 0
                  /\ n.txs = m.ctrl.type /\ n.ctrl = m.ctrl /\ n.out = m.ctrl
                  /\ m.ctrl.type \in {"CTS", "ACK"}

LEMMA AnsweredPaces ==
  ASSUME NEW m \in StationType, NEW n \in StationType, Answered(n, m)
  PROVE  Paces(n, m, {})
<1>1. ~Clear(n)
  BY DEF Answered, Listens, Clear
<1>2. Measured(n)
  BY <1>1 DEF Answered, Measured, Talks
<1>3. \A x : ~Owes(n, x)
  BY DEF Answered, Owes
<1>4. n.out = m.ctrl /\ m.txs = "IDLE" /\ m.defer = 0 /\ n.txs \in {"CTS", "ACK"}
      /\ n.txs = m.ctrl.type /\ n.cache = m.cache /\ Held(n, m)
  BY DEF Answered, Listens
<1> QED
  BY <1>1, <1>2, <1>3, <1>4 DEF Paces

(* The frame of the MAC itself goes out. *)
Spoken(n, m) == /\ Held(n, m) /\ Listens(n, m) /\ m.rxs = "IDLE"
                /\ m.txs = "IDLE" /\ (m.defer = 0 \/ m.backoff = 0)
                /\ m.ctrl = NoFrame /\ n.ctrl = NoFrame
                /\ n.txs \in {"RTS", "SEND"} /\ n.active /\ n.out.type # "ACK"
                /\ n.send <= AckWindow + n.ifc

LEMMA SpokenPaces ==
  ASSUME NEW m \in StationType, NEW n \in StationType, Spoken(n, m)
  PROVE  Paces(n, m, {})
<1>1. ~Clear(n) /\ ~Clear(m)
  BY DEF Spoken, Listens, Clear
<1>2. Measured(n)
  BY <1>1 DEF Spoken, Measured, Talks
<1>3. \A x : ~Owes(n, x)
  BY DEF Spoken, Owes, NoFrame
<1> QED
  BY <1>1, <1>2, <1>3 DEF Paces, Spoken, Listens

(* The time for what was sent is over. *)
Ended(n, m) == /\ Held(n, m) /\ Listens(n, m) /\ n.rx = m.rx /\ n.out = NoFrame
               /\ m.send = 0 /\ m.txs # "IDLE" /\ n.txs = "IDLE" /\ n.active = m.active
               /\ n.ctrl = IF m.txs \in {"CTS", "ACK"} THEN NoFrame ELSE m.ctrl
               /\ n.ctrl # NoFrame => n.defer = SIFS

LEMMA EndedPaces ==
  ASSUME NEW m \in StationType, NEW n \in StationType, Ended(n, m), Measured(m)
  PROVE  Paces(n, m, {})
<1>2. NoFrame.type = "none"
  BY DEF NoFrame
<1>3. Clear(n) <=> Clear(m)
  BY DEF Ended, Listens, Clear
<1>4. Measured(n)
  BY <1>3 DEF Ended, Measured, Talks, SIFS
<1>5. \A x : Owes(n, x) => Owes(m, x) /\ Wait(n) <= Wait(m)
  BY <1>2 DEF Ended, Owes, Wait, SIFS
<1> QED
  BY <1>2, <1>3, <1>4, <1>5 DEF Paces, Ended, Listens, Talks

-----------------------------------------------------------------------------
(* The handlers keep the pace. *)

Poised(m) == Ready(m) /\ Measured(m)

LEMMA NavPaced ==
  ASSUME NEW m, Poised(m), m.nav = 0
  PROVE  Paces(navHandler([m EXCEPT !.nav = Off]), m, {})
<1> DEFINE a == [m EXCEPT !.nav = Off]
           b == a.backoff + DIFS
           c == [a EXCEPT !.paused = FALSE, !.backoff = b]
           n == navHandler(a)
<1>1. n \in StationType
  BY NavHandled DEF Poised, Handled, Sound
<1>2. m \in StationType /\ m.out = NoFrame
  BY DEF Poised, Ready, Sound
<1>3. /\ SameTask(a, m) /\ SameVoice(a, m) /\ SameRecord(a, m) /\ SameState(a, m)
      /\ a.rxs = m.rxs /\ a.rx = m.rx /\ a.recv = m.recv /\ a \in StationType
  BY <1>2 DEF StationType, SameTask, SameVoice, SameRecord, SameState, Ticks
<1> HIDE DEF a
<1>4. CASE Idle(a) /\ a.paused
  <2>1. a.backoff # Off /\ m.backoff # Off
    BY <1>3, <1>4 DEF Poised, Ready, Sound, Frozen, SameState
  <2>2. b >= m.backoff
    BY <1>2, <1>3, <2>1 DEF SameState, StationType, Ticks, DIFS, SIFS, SlotTime
  <2>4. n = c
    BY <1>4 DEF navHandler
  <2> HIDE DEF b
  <2>3. /\ SameTask(c, m) /\ SameVoice(c, m) /\ SameRecord(c, m)
        /\ c.rxs = m.rxs /\ c.rx = m.rx /\ c.recv = m.recv
        /\ c.txs = m.txs /\ c.send = m.send /\ c.defer = m.defer /\ c.backoff = b
    BY <1>3 DEF StationType, SameTask, SameVoice, SameRecord, SameState
  <2> HIDE DEF c, n
  <2>5. Held(n, m)
    BY <2>1, <2>2, <2>3, <2>4 DEF Held
  <2>6. Stays(n, m)
    BY <1>2, <2>3, <2>4, <2>5 DEF Stays, Listens, SameTask, SameVoice, SameRecord
  <2> QED
    BY <1>1, <1>2, <2>6, StaysPaces DEF Poised, n, a
<1>5. CASE ~(Idle(a) /\ a.paused)
  <2>1. n = a
    BY <1>5 DEF navHandler
  <2>2. Held(a, m)
    BY <1>2, <1>3, HeldStill DEF SameState
  <2>3. Stays(a, m)
    BY <1>2, <1>3, <2>2
       DEF Stays, Listens, SameTask, SameVoice, SameRecord, SameState
  <2> QED
    BY <1>2, <1>3, <2>1, <2>3, StaysPaces DEF Poised, a
<1> QED
  BY <1>4, <1>5 DEF a

LEMMA InterfacePaced ==
  ASSUME NEW m, Poised(m), m.ifc = 0
  PROVE  Paces(txHandler([m EXCEPT !.ifc = Off]), m, {})
<1> DEFINE n == [m EXCEPT !.ifc = Off, !.active = FALSE]
<1>1. m \in StationType /\ m.out = NoFrame /\ Off \in Ticks
  BY DEF Poised, Ready, Sound, Ticks
<1>2. /\ SameTask(n, m) /\ SameEar(n, m) /\ SameRecord(n, m) /\ SameState(n, m)
      /\ ~n.active /\ n.out = NoFrame
  BY <1>1 DEF StationType, SameTask, SameEar, SameRecord, SameState
<1>3. n \in StationType
  <2>1. m \in StationType /\ Off \in Ticks
    BY <1>1
  <2> QED
    BY <2>1 DEF StationType
<1>4. txHandler([m EXCEPT !.ifc = Off]) = n
  BY DEF txHandler
<1> HIDE DEF n
<1>5. Held(n, m)
  BY <1>1, <1>2, HeldStill DEF SameState
<1>6. Stays(n, m)
  BY <1>1, <1>2, <1>5 DEF Stays, Listens, SameTask, SameEar, SameRecord, SameState
<1> QED
  BY <1>1, <1>3, <1>4, <1>6, StaysPaces DEF Poised

(* The timer of m's own frame has run out. *)
Fires(a, m) == /\ SameTask(a, m) /\ SameEar(a, m) /\ SameVoice(a, m) /\ SameRecord(a, m)
               /\ a.txs = m.txs /\ a.send = m.send
               /\ a.defer \in {m.defer, Off} /\ a.backoff \in {m.backoff, Off}

LEMMA OwnTransmitsPaced ==
  ASSUME NEW m, Poised(m), NEW a, Own(a), Fires(a, m), m.defer = 0 \/ m.backoff = 0,
         a.rxs = "IDLE", a.tx # NoPkt,
         NEW x \in {"RTS", "SEND"}, a.rts <=> x = "RTS", NEW t \in Nat, NEW f,
         \/ x = "RTS" /\ f = RTSFrame(a)
         \/ /\ x = "SEND" /\ f = DataFrame(a)
            /\ Unicast(a.tx) => t = ACKTimeout(a.tx)
            /\ ~Unicast(a.tx) => t = Airtime(f),
         t <= AckWindow + Airtime(f)
  PROVE  Paces(transmit(SetTx(a, x), f, t), m, {})
<1> DEFINE n == transmit(SetTx(a, x), f, t)
<1>1. m \in StationType /\ a \in StationType
  BY DEF Poised, Ready, Sound, Own
<1>2. Proper(f) /\ f.from = a.me /\ f.type # "ACK"
  BY <1>1, OwnFrames DEF Own
<1>3. /\ n \in StationType /\ n.txs = x /\ n.send = t
      /\ n.active /\ n.ifc = Airtime(f) /\ n.out = f
      /\ SameTask(n, a) /\ SameRecord(n, a)
      /\ n.rxs = a.rxs /\ n.recv = a.recv
      /\ n.rx = NoFrame <=> a.rx = NoFrame
  BY <1>1, <1>2, Transmits DEF Own, Hears
<1>4. Held(n, a)
  BY <1>1, TransmitHeld DEF Own, TxState
<1> HIDE DEF n
<1>5. Held(n, m)
  BY <1>1, <1>3, <1>4, HeldStill, HeldTwice DEF Fires
<1>6. n.rx = m.rx
  BY <1>3 DEF Own, Hears, Fires, SameEar
<1>7. Spoken(n, m)
  BY <1>2, <1>3, <1>5, <1>6
     DEF Own, Spoken, Listens, Fires, SameTask, SameRecord, SameEar
<1> QED
  BY <1>1, <1>3, <1>7, SpokenPaces DEF n

LEMMA OwnBacksOffPaced ==
  ASSUME NEW m, Poised(m), NEW a, Own(a), Fires(a, m), NEW b \in StationType,
         SameState(b, a), SameEar(b, a), SameVoice(b, a), SameRecord(b, a), b.ctrl = a.ctrl,
         NEW space \in {SIFS, DIFS}, NEW r \in Nat
  PROVE  Paces(start_backoff(b, space, r), m, {})
<1> DEFINE n == start_backoff(b, space, r)
<1>1. m \in StationType /\ a \in StationType
  BY DEF Poised, Ready, Sound, Own
<1>2. /\ n \in StationType
      /\ SameTask(n, b) /\ SameEar(n, b) /\ SameVoice(n, b) /\ SameRecord(n, b)
      /\ n.txs = b.txs /\ n.send = b.send /\ n.defer = b.defer
  BY BackoffStarts
<1>3. Held(n, b)
  BY BackoffHeld
<1> HIDE DEF n
<1>4. Held(n, m)
  BY <1>1, <1>2, <1>3, HeldStill, HeldTwice DEF Fires, SameState
<1>5. Stays(n, m)
  BY <1>2, <1>4 DEF Own, Stays, Listens, Fires, SameTask, SameRecord, SameEar, SameVoice,
     SameState
<1> QED
  BY <1>1, <1>2, <1>5, StaysPaces DEF Poised, n

LEMMA OwnPaced ==
  ASSUME NEW m, Poised(m), NEW a, Own(a), Fires(a, m), m.defer = 0 \/ m.backoff = 0,
         NEW r \in Nat
  PROVE  Paces(check_own(a, r), m, {})
<1>0. a \in StationType /\ m \in StationType
  BY DEF Poised, Ready, Sound, Own
<1>1. CASE a.rts /\ ~Idle(a)
  <2>1. check_own(a, r) = start_backoff(inc_CW(a), DIFS, r)
    BY <1>1 DEF check_own
  <2>2. inc_CW(a) \in StationType /\ Same(inc_CW(a), a) /\ SameState(inc_CW(a), a)
    BY <1>0, WindowChanges
  <2> QED
    BY <2>1, <2>2, OwnBacksOffPaced DEF Same, SameTask
<1>2. CASE a.rts /\ Idle(a)
  <2>1. check_own(a, r) = transmit(SetTx(a, "RTS"), RTSFrame(a), CTSTimeout)
    BY <1>2 DEF check_own
  <2>2. CTSTimeout \in Nat
    BY RadioConstants DEF CTSTimeout, SIFS
  <2>3. Airtime(RTSFrame(a)) = RtsTime
    BY DEF Airtime, RTSFrame, Control
  <2>4. CTSTimeout <= AckWindow + Airtime(RTSFrame(a))
    BY <2>3, RadioConstants DEF CTSTimeout, AckWindow, SIFS, DIFS, SlotTime
  <2>5. a.tx # NoPkt /\ a.rxs = "IDLE"
    BY <1>2 DEF Own, Idle
  <2> QED
    BY <1>2, <2>1, <2>2, <2>4, <2>5, OwnTransmitsPaced
<1>3. CASE ~a.rts /\ a.tx # NoPkt /\ ~Idle(a)
  <2> DEFINE c == sendRTS(a)
             b == inc_CW(c)
  <2>1. check_own(a, r) = start_backoff(b, Space(a.tx), r)
    BY <1>3 DEF check_own
  <2>2. /\ c \in StationType /\ SameState(c, a)
        /\ SameEar(c, a) /\ SameVoice(c, a) /\ SameRecord(c, a) /\ c.ctrl = a.ctrl
    BY <1>0, <1>3, RTSPrepared
  <2> HIDE DEF c
  <2>3. b \in StationType /\ Same(b, c) /\ SameState(b, c)
    BY <2>2, WindowChanges
  <2>4. Space(a.tx) \in {SIFS, DIFS}
    BY DEF Space
  <2> HIDE DEF b
  <2>5. /\ SameState(b, a) /\ SameEar(b, a) /\ SameVoice(b, a) /\ SameRecord(b, a)
        /\ b.ctrl = a.ctrl
    BY <2>2, <2>3 DEF Same, SameTask, SameState, SameEar, SameVoice, SameRecord
  <2> QED
    BY <2>1, <2>3, <2>4, <2>5, OwnBacksOffPaced
<1>4. CASE ~a.rts /\ a.tx # NoPkt /\ Idle(a)
  <2> DEFINE t == IF Unicast(a.tx) THEN ACKTimeout(a.tx) ELSE DataTime[a.tx.size]
  <2>1. check_own(a, r) = transmit(SetTx(a, "SEND"), DataFrame(a), t)
    BY <1>4 DEF check_own
  <2>2. a.tx.size \in Size /\ DataTime[a.tx.size] \in Nat
    BY <1>0, <1>4, RadioConstants DEF StationType, Packet
  <2>3. t \in Nat /\ t <= AckWindow + DataTime[a.tx.size]
    BY <2>2, RadioConstants DEF ACKTimeout, AckWindow, SIFS, DIFS, SlotTime
  <2>4. Airtime(DataFrame(a)) = DataTime[a.tx.size]
    BY DEF Airtime, DataFrame
  <2>5. a.rxs = "IDLE"
    BY <1>4 DEF Idle
  <2>6. /\ Unicast(a.tx) => t = ACKTimeout(a.tx)
        /\ ~Unicast(a.tx) => t = Airtime(DataFrame(a))
    BY <2>4
  <2> HIDE DEF t
  <2> QED
    BY <1>4, <2>1, <2>3, <2>4, <2>5, <2>6, OwnTransmitsPaced
<1>5. CASE ~a.rts /\ a.tx = NoPkt
  <2>1. check_own(a, r) = a
    BY <1>5 DEF check_own
  <2>2. Held(a, m)
    BY <1>0, HeldStill DEF Fires
  <2>3. Stays(a, m)
    BY <2>2 DEF Own, Stays, Listens, Fires, SameTask, SameRecord, SameEar, SameVoice
  <2> QED
    BY <1>0, <2>1, <2>3, StaysPaces DEF Poised
<1> QED
  BY <1>0, <1>1, <1>2, <1>3, <1>4, <1>5 DEF StationType

LEMMA AnswerPaced ==
  ASSUME NEW m, Poised(m), m.defer = 0, m.ctrl # NoFrame,
         NEW a \in StationType, Fires(a, m), a.backoff = Off => ~a.paused
  PROVE  Paces(check_pktCTRL(a), m, {})
<1>1. m \in StationType /\ Hears(m) /\ m.out = NoFrame
  BY DEF Poised, Ready, Sound
<1>2. m.txs = "IDLE"
  BY DEF Poised, Ready, Sound, Defers, Off
<1>3. Proper(m.ctrl) /\ m.ctrl.type \in {"CTS", "ACK"} /\ m.ctrl.from = m.me
  BY DEF Poised, Ready, Sound, Answers
<1>4. /\ a.ctrl = m.ctrl /\ a.rxs = m.rxs /\ a.rx = m.rx /\ a.recv = m.recv
      /\ a.cache = m.cache /\ a.out = NoFrame /\ a.txs = m.txs
      /\ a.active = m.active /\ a.ifc = m.ifc /\ a.send = m.send
  BY <1>1 DEF Fires, SameTask, SameEar, SameRecord, SameVoice
<1>5. ASSUME NEW x \in {"CTS", "ACK"}, m.ctrl.type = x, NEW t \in Nat,
             m.rxs # "IDLE" => m.ctrl.type = "ACK"
      PROVE  Paces(transmit(SetTx(a, x), a.ctrl, t), m, {})
  <2> DEFINE n == transmit(SetTx(a, x), a.ctrl, t)
  <2>1. /\ a.rx # NoFrame => Proper(a.rx)
        /\ a.rxs = "IDLE" => a.rx = NoFrame
        /\ a.rxs # "IDLE" => a.rx # NoFrame /\ a.ctrl.type = "ACK"
        /\ Proper(a.ctrl)
    BY <1>1, <1>3, <1>4, <1>5 DEF Hears
  <2>2. /\ n \in StationType /\ n.txs = x /\ n.out = a.ctrl
        /\ SameTask(n, a) /\ SameRecord(n, a) /\ n.rxs = a.rxs /\ n.recv = a.recv
        /\ n.rx = NoFrame <=> a.rx = NoFrame
        /\ n.rx # NoFrame => n.rx = Spoiled(a.rx)
    BY <2>1, Transmits
  <2>3. Held(n, a)
    BY TransmitHeld DEF TxState
  <2> HIDE DEF n
  <2>4. Held(n, m)
    BY <1>1, <2>2, <2>3, HeldStill, HeldTwice DEF Fires
  <2>5. n.rx # NoFrame => n.rx.err
    <3>1. a.rx # NoFrame => a.rx \in Frame
      BY DEF StationType
    <3> QED
      BY <2>2, <3>1 DEF Spoiled, Frame
  <2>6. n.rx = NoFrame <=> m.rxs # "RECV" /\ m.rxs # "COLL"
    BY <1>1, <1>4, <2>2 DEF Hears, StationType, RxState
  <2>7. n.rx = m.rx \/ n.rx.err
    BY <1>4, <2>2, <2>5
  <2>8. Answered(n, m)
    BY <1>2, <1>3, <1>4, <1>5, <2>2, <2>4, <2>5, <2>6, <2>7
       DEF Answered, Listens, SameTask, SameRecord
  <2> QED
    BY <1>1, <2>2, <2>8, AnsweredPaces DEF n
<1>6. CtlTime \in Nat /\ m.ctrl.dur \in Nat /\ m.ctrl.dur + CtlTime \in Nat
  BY <1>3, RadioConstants DEF Proper, Frame
<1>7. CASE m.ctrl.type = "ACK"
  <2>1. check_pktCTRL(a) = transmit(SetTx(a, "ACK"), a.ctrl, CtlTime)
    BY <1>4, <1>7 DEF check_pktCTRL
  <2> QED
    BY <1>5, <1>6, <1>7, <2>1
<1>8. CASE m.ctrl.type = "CTS" /\ Idle(a)
  <2>1. check_pktCTRL(a) = transmit(SetTx(a, "CTS"), a.ctrl, a.ctrl.dur + CtlTime)
    BY <1>4, <1>8 DEF check_pktCTRL
  <2>2. m.rxs = "IDLE"
    BY <1>4, <1>8 DEF Idle
  <2> QED
    BY <1>4, <1>5, <1>6, <1>8, <2>1, <2>2
<1>9. CASE m.ctrl.type = "CTS" /\ ~Idle(a)
  <2> DEFINE n == [a EXCEPT !.ctrl = NoFrame]
  <2>1. n \in StationType
    BY DEF StationType
  <2>2. /\ SameState(n, a) /\ SameEar(n, a) /\ SameVoice(n, a) /\ SameRecord(n, a)
        /\ n.ctrl = NoFrame
    BY DEF StationType, SameState, SameEar, SameVoice, SameRecord
  <2>3. check_pktCTRL(a) = n
    BY <1>4, <1>9 DEF check_pktCTRL
  <2> HIDE DEF n
  <2>4. Held(n, m)
    BY <1>1, <2>2, HeldStill DEF Fires, SameState
  <2>5. Stays(n, m)
    BY <1>2, <1>4, <2>2, <2>4
       DEF Stays, Listens, SameState, SameEar, SameVoice, SameRecord
  <2> QED
    BY <1>1, <2>1, <2>3, <2>5, StaysPaces DEF Poised
<1> QED
  BY <1>3, <1>7, <1>8, <1>9

LEMMA DeferPaced ==
  ASSUME NEW m, Poised(m), m.defer = 0, NEW r \in Nat
  PROVE  Paces(deferHandler([m EXCEPT !.defer = Off], r), m, {})
<1> DEFINE a == [m EXCEPT !.defer = Off]
<1>0. m \in StationType /\ ~m.fault /\ m.out = NoFrame
  BY DEF Poised, Ready, Sound
<1>1. a \in StationType
  <2>1. Off \in Ticks
    BY DEF Ticks
  <2> QED
    BY <1>0, <2>1 DEF StationType
<1>2. /\ SameTask(a, m) /\ SameEar(a, m) /\ SameVoice(a, m) /\ SameRecord(a, m)
      /\ a.txs = m.txs /\ a.send = m.send /\ a.backoff = m.backoff
      /\ a.paused = m.paused /\ a.defer = Off
  BY <1>0 DEF StationType, SameTask, SameEar, SameVoice, SameRecord
<1>3. m.txs = "IDLE" /\ (m.ctrl # NoFrame \/ (m.backoff = Off /\ m.tx # NoPkt))
  BY DEF Poised, Ready, Sound, Defers, Off
<1> HIDE DEF a
<1>4. Fires(a, m)
  BY <1>2 DEF Fires
<1>5. Hears(a) /\ Speaks(a) /\ Frozen(a) /\ Sends(a)
  BY <1>2 DEF Poised, Ready, Sound, Hears, Speaks, Frozen, Sends, Idle, SameTask, SameEar,
     SameVoice
<1>6. CASE m.ctrl # NoFrame
  <2>1. deferHandler(a, r) = check_pktCTRL(a)
    BY <1>2, <1>3, <1>6 DEF deferHandler, SameTask
  <2> QED
    BY <1>1, <1>4, <1>5, <1>6, <2>1, AnswerPaced DEF Frozen, a
<1>7. CASE m.ctrl = NoFrame
  <2>1. m.backoff = Off /\ m.tx # NoPkt /\ a.backoff = Off /\ a.tx # NoPkt
        /\ a.ctrl = NoFrame
    BY <1>2, <1>3, <1>7 DEF SameTask
  <2>2. deferHandler(a, r) = check_own(a, r)
    BY <2>1 DEF deferHandler, Asserting
  <2>3. Own(a)
    BY <1>0, <1>1, <1>2, <1>3, <1>5, <2>1 DEF Own, Frozen, Sends, SameRecord, SameVoice
  <2> QED
    BY <1>4, <2>2, <2>3, OwnPaced DEF a
<1> QED
  BY <1>6, <1>7

LEMMA BackoffPaced ==
  ASSUME NEW m, Poised(m), m.backoff = 0, ~m.paused, NEW r \in Nat
  PROVE  Paces(backoffHandler([m EXCEPT !.backoff = Off], r), m, {})
<1> DEFINE a == [m EXCEPT !.backoff = Off]
<1>0. m \in StationType /\ ~m.fault /\ m.out = NoFrame
  BY DEF Poised, Ready, Sound
<1>1. a \in StationType
  <2>1. Off \in Ticks
    BY DEF Ticks
  <2> QED
    BY <1>0, <2>1 DEF StationType
<1>2. /\ SameTask(a, m) /\ SameEar(a, m) /\ SameVoice(a, m) /\ SameRecord(a, m)
      /\ a.txs = m.txs /\ a.send = m.send /\ a.defer = m.defer
      /\ a.paused = m.paused /\ a.backoff = Off
  BY <1>0 DEF StationType, SameTask, SameEar, SameVoice, SameRecord
<1>3. Idle(m) /\ m.backoff # Off
  BY DEF Poised, Ready, Sound, Frozen, Off
<1>4. m.txs = "IDLE" /\ m.rxs = "IDLE"
  BY <1>3 DEF Idle
<1> HIDE DEF a
<1>5. Fires(a, m)
  BY <1>2 DEF Fires
<1>6. Hears(a) /\ Speaks(a) /\ Frozen(a) /\ Sends(a)
  BY <1>2, <1>4 DEF Poised, Ready, Sound, Hears, Speaks, Frozen, Sends, SameTask, SameEar,
     SameVoice
<1>7. CASE m.ctrl # NoFrame
  <2>1. m.defer # Off
    BY <1>4, <1>7 DEF Poised, Ready, Sound, Answers
  <2>2. backoffHandler(a, r) = a
    BY <1>2, <1>7, <2>1 DEF backoffHandler, Asserting, SameTask
  <2>3. Held(a, m)
    BY <1>0, <1>5, HeldStill DEF Fires
  <2>4. Stays(a, m)
    BY <1>0, <1>2, <2>3 DEF Stays, Listens, SameTask, SameEar, SameVoice, SameRecord
  <2> QED
    BY <1>0, <1>1, <2>2, <2>4, StaysPaces DEF Poised, a
<1>8. CASE m.ctrl = NoFrame
  <2>1. backoffHandler(a, r) = check_own(a, r)
    BY <1>2, <1>8 DEF backoffHandler, SameTask
  <2>2. m.defer = Off
    BY <1>3, <1>8 DEF Poised, Ready, Sound, Defers
  <2>3. Own(a)
    BY <1>0, <1>1, <1>2, <1>4, <1>6, <1>8, <2>2
       DEF Own, Frozen, Sends, SameTask, SameRecord, SameVoice
  <2> QED
    BY <1>5, <2>1, <2>3, OwnPaced DEF a
<1> QED
  BY <1>7, <1>8

(* What a whole frame makes of m, before it may receive again: it is told  *)
(* that its packet has arrived, is cleared to send it, or has to answer.   *)
Digests(x, m) ==
  /\ Held(x, m) /\ SameVoice(x, m)
  /\ \/ x.txs = m.txs /\ x.send = m.send
     \/ x.txs = "IDLE" /\ m.txs # "ACK" /\ (m.txs = "SEND" => Told(m))
  /\ \/ x.ctrl = m.ctrl
     \/ x.ctrl.type = "CTS" /\ x.txs = "IDLE"
     \/ x.ctrl.type = "ACK" /\ Hearing(m, x.ctrl.to) /\ (x.txs = "IDLE" \/ Talks(x))
  /\ x.ctrl # NoFrame /\ x.txs = "IDLE" =>
       IF x.ctrl = m.ctrl /\ m.txs = "IDLE" THEN x.defer = m.defer ELSE x.defer = SIFS
  /\ x.tx = m.tx \/ (m.txs = "SEND" /\ Told(m))

(* A packet that will be acknowledged is passed up or remembered, and one  *)
(* that is remembered anew is passed up.                                   *)
Learnt(x, m) ==
  /\ \/ x.ctrl = m.ctrl \/ x.ctrl.type # "ACK"
     \/ x.up = m.rx.pkt \/ Entry(m.rx) \in m.cache
  /\ \A e \in x.cache : e \in m.cache \/ /\ Hearing(m, m.rx.from)
                                         /\ e = Entry(m.rx) /\ x.up = m.rx.pkt

LEMMA RxPaced ==
  ASSUME NEW m, Poised(m), m.recv = 0, NEW x \in StationType, x.backoff = Off => ~x.paused,
         Digests(x, m), Learnt(x, m)
  PROVE  LET n == SetRx([x EXCEPT !.rx = NoFrame], "IDLE")
         IN  Paces(n, m, {}) /\ (n.tx = m.tx \/ (m.txs = "SEND" /\ Told(m)))
<1> DEFINE a == [x EXCEPT !.rx = NoFrame]
           n == SetRx(a, "IDLE")
<1>0. m \in StationType /\ m.out = NoFrame /\ Sends(m) /\ Measured(m)
  BY DEF Poised, Ready, Sound
<1>1. a \in StationType
  BY DEF StationType
<1>2. /\ SameTask(a, x) /\ SameVoice(a, x) /\ SameRecord(a, x) /\ SameState(a, x)
      /\ a.rx = NoFrame /\ a.recv = x.recv
  BY DEF StationType, SameTask, SameVoice, SameRecord, SameState
<1> HIDE DEF a
<1>3. /\ n \in StationType /\ n.rxs = "IDLE"
      /\ SameTask(n, a) /\ SameVoice(n, a) /\ SameRecord(n, a)
      /\ n.txs = a.txs /\ n.send = a.send /\ n.defer = a.defer
  <2>1. "IDLE" \in RxState /\ (a.backoff = Off => ~a.paused)
    BY <1>2 DEF RxState, SameState
  <2> QED
    BY <1>1, <2>1, RxChanges
<1>4. Held(n, a)
  BY <1>1, RxHeld DEF RxState
<1> HIDE DEF n
<1>5. /\ SameTask(n, x) /\ SameVoice(n, x) /\ SameRecord(n, x)
      /\ n.txs = x.txs /\ n.send = x.send /\ n.defer = x.defer
  BY <1>2, <1>3 DEF SameTask, SameVoice, SameRecord, SameState
<1>6. Held(n, m)
  <2>1. Held(n, x)
    BY <1>1, <1>2, <1>3, <1>4, HeldStill, HeldTwice DEF SameState
  <2> QED
    BY <1>0, <1>3, <2>1, HeldTwice DEF Digests
<1>7. ~Clear(n)
  BY <1>3 DEF Clear
<1>8. n.out.type # "ACK"
  BY <1>0, <1>5 DEF SameVoice, Digests, NoFrame
<1>9. /\ n.txs = x.txs /\ n.send = x.send /\ n.defer = x.defer /\ n.ctrl = x.ctrl
      /\ n.active = m.active /\ n.ifc = m.ifc /\ n.up = x.up /\ n.cache = x.cache
      /\ n.tx = x.tx
  BY <1>5 DEF SameTask, SameVoice, SameRecord, Digests
<1>10. m.send \in Ticks /\ m.defer \in Ticks /\ (m.txs # "IDLE" => m.send \in Nat)
  BY <1>0 DEF StationType, Sends, Ticks
<1>11. NoFrame.type = "none"
  BY DEF NoFrame
<1>12. Measured(n)
  <2>1. Talks(n) => n.send <= AckWindow + (IF n.active THEN n.ifc ELSE 0)
    <3>1. Talks(n) => Talks(m) /\ n.send = m.send
      BY <1>9 DEF Talks, Digests
    <3> QED
      BY <1>0, <1>9, <3>1 DEF Measured
  <2>2. n.ctrl # NoFrame /\ n.txs = "IDLE" => n.defer <= SIFS
    BY <1>0, <1>9 DEF Digests, Measured, SIFS
  <2>3. n.txs \in {"CTS", "ACK"} => n.ctrl.type = n.txs
    BY <1>0, <1>9 DEF Digests, Measured, Talks
  <2> QED
    BY <1>7, <2>1, <2>2, <2>3 DEF Measured
<1>13. ASSUME NEW y, Owes(n, y)
       PROVE  (Owes(m, y) /\ Wait(n) <= Wait(m)) \/ Obliged(n, m, y)
  <2>1. CASE n.ctrl = m.ctrl
    <3>1. m.ctrl.type = "ACK" /\ m.ctrl.to = y /\ n.ctrl # NoFrame
      BY <1>11, <1>13, <2>1 DEF Owes
    <3>2. m.txs # "ACK"
      BY <1>9, <1>13 DEF Owes, Digests
    <3>3. Wait(n) <= Wait(m)
      <4>1. CASE n.txs # "IDLE"
        BY <1>9, <1>10, <4>1 DEF Wait, Digests, SIFS, Ticks, Off
      <4>2. CASE n.txs = "IDLE" /\ m.txs = "IDLE"
        BY <1>9, <1>10, <2>1, <3>1, <4>2 DEF Wait, Digests, SIFS, Ticks, Off
      <4>3. CASE n.txs = "IDLE" /\ m.txs # "IDLE"
        BY <1>9, <1>10, <2>1, <3>1, <4>3 DEF Wait, Digests, SIFS, Ticks, Off
      <4> QED
        BY <4>1, <4>2, <4>3
    <3> QED
      BY <3>1, <3>2, <3>3 DEF Owes
  <2>2. CASE n.ctrl # m.ctrl
    <3>1. /\ x.ctrl.type = "ACK" /\ Hearing(m, x.ctrl.to) /\ x.ctrl.to = y
          /\ x.txs = "IDLE" \/ Talks(x)
      BY <1>9, <1>13, <2>2 DEF Owes, Digests
    <3>2. Busy(m) >= 0 /\ (Talks(m) => Busy(m) = m.send)
      BY <1>10 DEF Busy, Talks
    <3>3. Wait(n) <= Busy(m) + SIFS
      <4>1. CASE x.txs = "IDLE"
        <5>1. n.defer = SIFS
          BY <1>9, <1>11, <2>2, <3>1, <4>1 DEF Digests
        <5>2. Busy(m) \in Nat
          BY <1>10 DEF Busy, Talks
        <5> QED
          BY <1>9, <4>1, <5>1, <5>2 DEF Wait, SIFS
      <4>2. CASE x.txs # "IDLE"
        <5>1. Talks(m) /\ n.send = m.send
          BY <1>9, <3>1, <4>2 DEF Digests, Talks
        <5> QED
          BY <1>9, <1>10, <3>2, <4>2, <5>1 DEF Wait, SIFS, Ticks, Off
      <4> QED
        BY <4>1, <4>2
    <3>4. n.up = m.rx.pkt \/ Entry(m.rx) \in m.cache
      BY <1>9, <2>2, <3>1 DEF Learnt
    <3> QED
      BY <1>7, <3>1, <3>3, <3>4 DEF Obliged
  <2> QED
    BY <2>1, <2>2
<1>14. /\ n.txs = "SEND" => m.txs = "SEND"
       /\ m.txs = "SEND" /\ n.txs # "SEND" => Told(m)
  BY <1>9 DEF Digests
<1>15. \A e \in n.cache : e \in m.cache \/ /\ Hearing(m, m.rx.from) /\ m.recv = 0
                                           /\ e = Entry(m.rx) /\ n.up = m.rx.pkt
  BY <1>9 DEF Learnt
<1>16. Paces(n, m, {})
  BY <1>6, <1>7, <1>8, <1>12, <1>13, <1>14, <1>15 DEF Paces
<1> QED
  BY <1>9, <1>16 DEF Digests, n, a

(* A frame that changes nothing but the NAV. *)
LEMMA HeardDigested ==
  ASSUME NEW m, Poised(m), NEW b, Heard(b, m)
  PROVE  Digests(b, m) /\ Learnt(b, m)
<1>1. m \in StationType
  BY DEF Poised, Ready, Sound
<1>2. Held(b, m)
  BY <1>1, HeldStill DEF Heard, SameState
<1> QED
  BY <1>2 DEF Digests, Learnt, Heard, SameTask, SameVoice, SameRecord, SameState

(* A frame after which the MAC resumes. *)
LEMMA ResumeDigested ==
  ASSUME NEW m, Poised(m), NEW a, Resumable(a), Held(a, m), SameVoice(a, m),
         m.txs # "ACK", m.txs = "SEND" => Told(m), a.tx = m.tx \/ m.txs = "SEND",
         m.txs = "IDLE" => a.ctrl # m.ctrl,
         \/ a.ctrl = m.ctrl \/ a.ctrl.type = "CTS"
         \/ a.ctrl.type = "ACK" /\ Hearing(m, a.ctrl.to)
  PROVE  LET n == tx_resume(a)
         IN  Digests(n, m) /\ SameRecord(n, a) /\ n.ctrl = a.ctrl
<1> DEFINE n == tx_resume(a)
<1>1. /\ n \in StationType /\ SameTask(n, a) /\ SameVoice(n, a) /\ SameRecord(n, a)
      /\ n.txs = "IDLE"
  BY Resumes DEF Resumable
<1>2. Held(n, a) /\ (a.ctrl # NoFrame => n.defer = SIFS)
  BY ResumeHeld DEF Resumable
<1> HIDE DEF n
<1>3. Held(n, m)
  BY <1>1, <1>2, HeldTwice DEF Poised, Ready, Sound, Resumable
<1>4. n.ctrl = a.ctrl /\ n.tx = a.tx /\ SameVoice(n, m)
  BY <1>1 DEF SameTask, SameVoice
<1>5. Digests(n, m)
  BY <1>1, <1>2, <1>3, <1>4 DEF Digests
<1> QED
  BY <1>1, <1>4, <1>5 DEF n

LEMMA RTSDigested ==
  ASSUME NEW m, Poised(m), NEW f, Proper(f), f.type = "RTS", NEW b, Heard(b, m)
  PROVE  Digests(recvRTS(b, f), m) /\ Learnt(recvRTS(b, f), m)
<1>1. CASE b.txs # "IDLE" \/ b.ctrl # NoFrame
  BY <1>1, HeardDigested DEF recvRTS
<1>2. CASE b.txs = "IDLE" /\ b.ctrl = NoFrame
  <2>1. PICK a : /\ recvRTS(b, f) = tx_resume(a) /\ Turns(a, m)
                 /\ a.tx = m.tx /\ a.ctrl # NoFrame /\ a.ctrl.type = "CTS"
    BY <1>2, RTSTurns DEF Poised
  <2>2. m.txs = "IDLE" /\ m.ctrl = NoFrame
    BY <1>2 DEF Heard, SameTask, SameState
  <2>3. LET n == tx_resume(a)
        IN  Digests(n, m) /\ SameRecord(n, a) /\ n.ctrl = a.ctrl
    BY <2>1, <2>2, ResumeDigested DEF Turns
  <2> QED
    BY <2>1, <2>3 DEF Learnt, Turns, SameRecord
<1> QED
  BY <1>1, <1>2

LEMMA CTSDigested ==
  ASSUME NEW m, Poised(m), NEW b, Heard(b, m)
  PROVE  Digests(recvCTS(b), m) /\ Learnt(recvCTS(b), m)
<1>1. CASE b.txs # "RTS"
  BY <1>1, HeardDigested DEF recvCTS
<1>2. CASE b.txs = "RTS"
  <2>1. PICK a : /\ recvCTS(b) = tx_resume(a) /\ Turns(a, m)
                 /\ a.tx = m.tx /\ a.ctrl = m.ctrl
    BY <1>2, CTSTurns DEF Poised
  <2>2. m.txs = "RTS"
    BY <1>2 DEF Heard, SameState
  <2>3. LET n == tx_resume(a)
        IN  Digests(n, m) /\ SameRecord(n, a) /\ n.ctrl = a.ctrl
    BY <2>1, <2>2, ResumeDigested DEF Turns
  <2> QED
    BY <2>1, <2>3 DEF Learnt, Turns, SameRecord
<1> QED
  BY <1>1, <1>2

LEMMA ACKDigested ==
  ASSUME NEW m, Poised(m), Told(m), NEW b, Heard(b, m), NEW r \in Nat,
         NEW space \in {SIFS, DIFS}, m.txs = "SEND" => m.tx.kind # "beacon"
  PROVE  Digests(recvACK(b, r, space), m) /\ Learnt(recvACK(b, r, space), m)
<1>1. CASE b.txs # "SEND"
  BY <1>1, HeardDigested DEF recvACK
<1>2. CASE b.txs = "SEND"
  <2>1. PICK a : /\ recvACK(b, r, space) = tx_resume(a) /\ Turns(a, m)
                 /\ a.ctrl = m.ctrl
    BY <1>2, ACKTurns DEF Poised
  <2>2. m.txs = "SEND"
    BY <1>2 DEF Heard, SameState
  <2>3. LET n == tx_resume(a)
        IN  Digests(n, m) /\ SameRecord(n, a) /\ n.ctrl = a.ctrl
    BY <2>1, <2>2, ResumeDigested DEF Turns
  <2> QED
    BY <2>1, <2>3 DEF Learnt, Turns, SameRecord
<1> QED
  BY <1>1, <1>2

(* A packet is answered at once, or when the frame of the MAC itself is    *)
(* over.                                                                   *)
LEMMA AnswerDigested ==
  ASSUME NEW m, Poised(m), Hearing(m, m.rx.from), Proper(m.rx),
         NEW b, Heard(b, m), ~Refuses(b, m.rx)
  PROVE  Digests(Acknowledge(b, m.rx), m)
<1> DEFINE f == m.rx
<1>0. f.from \in Station /\ b \in StationType /\ m \in StationType
  BY DEF Proper, Frame, Heard, Poised, Ready, Sound
<1>1. CASE LongWithHeader(f.pkt) \/ b.send = Off
  <2>1. PICK a : /\ Acknowledge(b, f) = tx_resume(a) /\ Turns(a, m)
                 /\ a.tx = m.tx /\ a.ctrl.type = "ACK" /\ a.ctrl.to = f.from
                 /\ m.txs \in {"IDLE", "CTS"} /\ (m.txs = "IDLE" => m.ctrl = NoFrame)
    BY <1>1, AnswerTurns DEF Poised
  <2>2. m.txs = "IDLE" => a.ctrl # m.ctrl
    BY <2>1 DEF NoFrame
  <2> QED
    BY <2>1, <2>2, ResumeDigested DEF Turns
<1>2. CASE ~(LongWithHeader(f.pkt) \/ b.send = Off)
  <2> DEFINE a == sendACK(b, f.from)
  <2>1. b.ctrl = NoFrame
    BY <1>2 DEF Refuses
  <2>2. /\ SameState(a, b) /\ SameVoice(a, b) /\ a.tx = b.tx
        /\ a.ctrl.type = "ACK" /\ a.ctrl.to = f.from
    BY <1>0, <2>1, ACKPrepared
  <2>3. Acknowledge(b, f) = a
    BY <1>2, <2>2 DEF Acknowledge, SameState
  <2> HIDE DEF a
  <2>4. m.send # Off /\ m.ctrl = NoFrame /\ m.txs \in TxState
    BY <1>0, <1>2, <2>1 DEF Heard, SameState, SameTask, StationType
  <2>5. Talks(m)
    BY <2>4 DEF Poised, Ready, Sound, Sends, Answers, Talks, TxState
  <2>6. a.txs = m.txs /\ a.send = m.send /\ a.tx = m.tx /\ SameVoice(a, m)
    BY <2>2 DEF Heard, SameState, SameVoice, SameTask
  <2>7. Held(a, m)
    BY <1>0, <2>2, HeldStill DEF Heard, SameState
  <2> QED
    BY <2>2, <2>3, <2>5, <2>6, <2>7 DEF Digests, Talks
<1> QED
  BY <1>1, <1>2

LEMMA RecordDigested ==
  ASSUME NEW m \in StationType, NEW a, Digests(a, m),
         NEW x, SameTask(x, a), SameState(x, a), SameVoice(x, a)
  PROVE  Digests(x, m)
BY DEF Digests, SameTask, SameState, SameVoice, Held, Talks

LEMMA DATADigested ==
  ASSUME NEW m, Poised(m), Proper(m.rx), m.rx.type = "DATA", Clear(m),
         m.rx.to \in {m.me, Broadcast}, NEW b, Heard(b, m), NEW stale
  PROVE  LET n == recvDATA(b, m.rx, stale) IN Digests(n, m) /\ Learnt(n, m)
<1> DEFINE f == m.rx
<1>0. f.pkt \in Packet /\ f.from \in Station /\ f.seq \in Nat /\ f.to = f.pkt.to
      /\ m \in StationType
  BY DEF Proper, Frame, Poised, Ready, Sound
<1>1. ASSUME NEW a \in StationType
      PROVE  LET n == [a EXCEPT !.up = f.pkt]
             IN  /\ n \in StationType /\ SameTask(n, a) /\ SameState(n, a) /\ SameVoice(n, a)
                 /\ SameEar(n, a) /\ n.fault = a.fault /\ n.cache = a.cache
                 /\ n.up = f.pkt
  BY <1>0 DEF StationType, SameTask, SameState, SameVoice, SameEar
<1>2. CASE ~Unicast(f.pkt)
  <2> DEFINE n == [b EXCEPT !.up = f.pkt]
  <2>1. Digests(b, m)
    BY HeardDigested
  <2>2. /\ SameTask(n, b) /\ SameState(n, b) /\ SameVoice(n, b) /\ n.cache = b.cache
    BY <1>1 DEF Heard
  <2>3. recvDATA(b, f, stale) = n
    BY <1>2 DEF recvDATA
  <2> HIDE DEF n
  <2>4. Digests(n, m)
    BY <1>0, <2>1, <2>2, RecordDigested
  <2>5. Learnt(n, m)
    BY <2>2 DEF Learnt, Heard, SameRecord, SameTask
  <2> QED
    BY <2>3, <2>4, <2>5
<1>3. CASE Unicast(f.pkt) /\ Refuses(b, f)
  BY <1>3, HeardDigested DEF recvDATA
<1>4. CASE Unicast(f.pkt) /\ ~Refuses(b, f)
  <2> DEFINE e == <<f.from, f.seq>>
             a == Acknowledge(b, f)
             c == update_dcache(a, e, stale)
             n == [c EXCEPT !.up = f.pkt]
  <2>1. Hearing(m, f.from)
    BY <1>0, <1>4 DEF Hearing, Unicast
  <2>2. /\ a \in StationType /\ SameRecord(a, m)
    BY <1>4, Acknowledges DEF Poised, Core
  <2>3. Digests(a, m)
    BY <1>4, <2>1, AnswerDigested
  <2>4. recvDATA(b, f, stale) = IF f.retry /\ e \in b.cache THEN c ELSE n
    BY <1>4 DEF recvDATA
  <2>5. e \in Station \X Nat /\ e = Entry(f)
    BY <1>0 DEF Entry
  <2> HIDE DEF a, e
  <2>6. /\ c \in StationType /\ SameTask(c, a) /\ SameState(c, a) /\ SameVoice(c, a)
        /\ c.cache \subseteq a.cache \cup {e} /\ (e \in a.cache => c = a)
    BY <2>2, <2>5, Remembers
  <2>7. a.cache = m.cache /\ b.cache = m.cache
    BY <2>2 DEF SameRecord, Heard
  <2> HIDE DEF c
  <2>8. CASE f.retry /\ e \in b.cache
    <3>1. Learnt(a, m)
      BY <2>5, <2>7, <2>8 DEF Learnt
    <3> QED
      BY <2>3, <2>4, <2>6, <2>7, <2>8, <3>1
  <2>9. CASE ~(f.retry /\ e \in b.cache)
    <3>1. /\ SameTask(n, c) /\ SameState(n, c) /\ SameVoice(n, c)
          /\ n.cache = c.cache /\ n.up = f.pkt
      BY <1>1, <2>6
    <3> HIDE DEF n
    <3>2. Learnt(n, m)
      BY <2>1, <2>5, <2>6, <2>7, <3>1 DEF Learnt
    <3>3. Digests(n, m)
      BY <1>0, <2>3, <2>6, <3>1, RecordDigested DEF SameTask, SameState, SameVoice
    <3> QED
      BY <2>4, <2>9, <3>2, <3>3
  <2> QED
    BY <2>8, <2>9
<1> QED
  BY <1>2, <1>3, <1>4

LEMMA SendPaced ==
  ASSUME NEW m, Poised(m), m.send = 0, NEW r \in Nat, NEW space \in {SIFS, DIFS}
  PROVE  Paces(sendHandler([m EXCEPT !.send = Off], r, space), m, {})
<1>1. PICK b : /\ sendHandler([m EXCEPT !.send = Off], r, space) = tx_resume(b)
               /\ Leaves(b, m)
  BY SendLeaves DEF Poised
<1> DEFINE n == tx_resume(b)
<1>2. /\ m \in StationType /\ m.out = NoFrame /\ m.txs # "IDLE"
      /\ b \in StationType
  BY <1>1 DEF Poised, Ready, Sound, Sends, Off, Leaves, Resumable
<1>3. /\ n \in StationType /\ SameTask(n, b) /\ SameEar(n, b) /\ SameVoice(n, b)
      /\ SameRecord(n, b) /\ n.txs = "IDLE"
  BY <1>1, Resumes DEF Leaves, Resumable
<1>4. Held(n, b) /\ (b.ctrl # NoFrame => n.defer = SIFS)
  BY <1>1, ResumeHeld DEF Leaves, Resumable
<1> HIDE DEF n
<1>5. Held(n, m)
  BY <1>1, <1>2, <1>3, <1>4, HeldTwice DEF Leaves
<1>6. Ended(n, m)
  BY <1>1, <1>2, <1>3, <1>4, <1>5
     DEF Ended, Listens, Leaves, SameTask, SameEar, SameVoice, SameRecord
<1> QED
  BY <1>1, <1>2, <1>3, <1>6, EndedPaces DEF Poised, n

LEMMA RecvPaced ==
  ASSUME NEW m, Poised(m), m.recv = 0, NEW r \in Nat, NEW space \in {SIFS, DIFS}, NEW stale,
         m.tx # NoPkt /\ m.tx.kind = "beacon" => ~Unicast(m.tx),
         Broadcast \notin Station
  PROVE  LET n == recvHandler([m EXCEPT !.recv = Off], r, space, stale)
         IN  Paces(n, m, {}) /\ (n.tx = m.tx \/ (m.txs = "SEND" /\ Told(m)))
<1> DEFINE a == [m EXCEPT !.recv = Off]
           f == m.rx
           n == IF f.to # a.me THEN set_NAV(a, f.dur) ELSE a
           h == recvHandler(a, r, space, stale)
<1>0. Ready(m)
  BY DEF Poised
<1>1. m.rx # NoFrame /\ Proper(m.rx) /\ m.rxs # "IDLE"
  BY DEF Poised, Ready, Sound, Hears, Off
<1>2. m \in StationType
  BY DEF Poised, Ready, Sound
<1>3. /\ a \in StationType /\ SameTask(a, m) /\ SameVoice(a, m) /\ SameRecord(a, m)
      /\ SameState(a, m) /\ a.recv = Off /\ a.rx = m.rx /\ a.rxs = m.rxs
  <2>1. Off \in Ticks
    BY DEF Ticks
  <2>2. a \in StationType
    BY <1>2, <2>1 DEF StationType
  <2> QED
    BY <1>2, <2>2 DEF StationType, SameTask, SameVoice, SameRecord, SameState
<1> HIDE DEF a
<1>4. Heard(a, m)
  BY <1>3 DEF Heard
<1>5. ASSUME NEW d \in Nat
      PROVE  Heard(set_NAV(a, d), m)
  <2>1. LET b == set_NAV(a, d)
        IN  /\ b \in StationType /\ SameTask(b, a) /\ SameVoice(b, a) /\ SameRecord(b, a)
            /\ SameState(b, a) /\ b.recv = a.recv
    BY <1>3, NavChanges
  <2> QED
    BY <1>3, <2>1 DEF Heard, SameTask, SameVoice, SameRecord, SameState
<1>6. f.dur \in Nat /\ EIFS \in Nat /\ f.type \in {"RTS", "CTS", "ACK", "DATA"}
  BY <1>1, RadioConstants DEF Proper, Frame, EIFS, DIFS, SIFS, SlotTime
<1>7. Heard(n, m)
  BY <1>4, <1>5, <1>6
<1>8. a.me = m.me /\ a.active = m.active
  BY <1>3 DEF SameTask, SameVoice
<1> HIDE DEF h
<1>9. ASSUME NEW x, Received(x, m, f), Digests(x, m), Learnt(x, m), h = rx_resume(x)
      PROVE  Paces(h, m, {}) /\ (h.tx = m.tx \/ (m.txs = "SEND" /\ Told(m)))
  <2>1. rx_resume(x) = SetRx([x EXCEPT !.rx = NoFrame], "IDLE")
    BY <1>9 DEF rx_resume, Asserting, Received
  <2>2. x \in StationType /\ (x.backoff = Off => ~x.paused)
    BY <1>9 DEF Received, Core
  <2> QED
    BY <1>9, <2>1, <2>2, RxPaced
<1>10. ASSUME NEW b, Heard(b, m), h = rx_resume(b)
       PROVE  Paces(h, m, {}) /\ (h.tx = m.tx \/ (m.txs = "SEND" /\ Told(m)))
  BY <1>0, <1>9, <1>10, HeardOnly, HeardDigested
<1>11. CASE a.active
  <2>1. h = rx_resume(a)
    BY <1>11 DEF recvHandler, h
  <2> QED
    BY <1>4, <1>10, <2>1 DEF h, a
<1>12. CASE ~a.active /\ (a.rxs = "COLL" \/ f.err)
  <2>1. h = rx_resume(set_NAV(a, EIFS))
    BY <1>3, <1>12 DEF recvHandler, h
  <2> QED
    BY <1>5, <1>6, <1>10, <2>1 DEF h, a
<1>13. CASE ~a.active /\ ~(a.rxs = "COLL" \/ f.err) /\ f.to \notin {a.me, Broadcast}
  <2>1. h = rx_resume(n)
    BY <1>3, <1>13 DEF recvHandler, h
  <2> QED
    BY <1>7, <1>10, <2>1 DEF h, a
<1>14. CASE ~a.active /\ ~(a.rxs = "COLL" \/ f.err) /\ f.to \in {a.me, Broadcast}
  <2>0. Clear(m) /\ f.to \in {m.me, Broadcast} /\ m.rxs = "RECV" /\ ~f.err
    BY <1>1, <1>2, <1>3, <1>8, <1>14 DEF Clear, StationType, RxState
  <2>2. CASE f.type = "RTS"
    <3>1. h = rx_resume(recvRTS(n, f))
      BY <1>3, <1>14, <2>2 DEF recvHandler, h
    <3>2. /\ Received(recvRTS(n, f), m, f)
          /\ Digests(recvRTS(n, f), m) /\ Learnt(recvRTS(n, f), m)
      BY <1>0, <1>1, <1>7, <2>2, RTSReceived, RTSDigested
    <3> QED
      BY <1>9, <3>1, <3>2 DEF h, a
  <2>3. CASE f.type = "CTS"
    <3>1. h = rx_resume(recvCTS(n))
      BY <1>3, <1>14, <2>3 DEF recvHandler, h
    <3>2. /\ Received(recvCTS(n), m, f)
          /\ Digests(recvCTS(n), m) /\ Learnt(recvCTS(n), m)
      BY <1>0, <1>7, CTSReceived, CTSDigested
    <3> QED
      BY <1>9, <3>1, <3>2 DEF h, a
  <2>4. CASE f.type = "ACK"
    <3>1. h = rx_resume(recvACK(n, r, space))
      BY <1>3, <1>14, <2>4 DEF recvHandler, h
    <3>2. m.txs = "SEND" => m.tx.kind # "beacon"
      BY <1>1, <2>0 DEF Poised, Ready, Sound, Announces, Sends
    <3>3. Told(m)
      BY <1>1, <2>0, <2>4 DEF Told, Proper
    <3>4. /\ Received(recvACK(n, r, space), m, f)
          /\ Digests(recvACK(n, r, space), m) /\ Learnt(recvACK(n, r, space), m)
      BY <1>0, <1>7, <3>2, <3>3, ACKReceived, ACKDigested
    <3> QED
      BY <1>9, <3>1, <3>4 DEF h, a
  <2>5. CASE f.type = "DATA"
    <3>1. h = rx_resume(recvDATA(n, f, stale))
      BY <1>3, <1>14, <2>5 DEF recvHandler, h
    <3>2. /\ Received(recvDATA(n, f, stale), m, f)
          /\ Digests(recvDATA(n, f, stale), m) /\ Learnt(recvDATA(n, f, stale), m)
      BY <1>0, <1>1, <1>7, <2>0, <2>5, DATAReceived, DATADigested
    <3> QED
      BY <1>9, <3>1, <3>2 DEF h, a
  <2> QED
    BY <1>6, <2>2, <2>3, <2>4, <2>5
<1>15. a.active \in BOOLEAN /\ f.err \in BOOLEAN
  BY <1>1, <1>3 DEF StationType, Proper, Frame
<1> QED
  BY <1>11, <1>12, <1>13, <1>14, <1>15

LEMMA PacesMore ==
  ASSUME NEW m, NEW n, NEW F, Paces(n, m, F), NEW E,
         \A f \in F : f.err \/ f \in E
  PROVE  Paces(n, m, E)
BY DEF Paces, Clear

LEMMA ArrivalPaced ==
  ASSUME NEW m, Poised(m), NEW f, Proper(f),
         m.txs = "SEND" /\ ~Unicast(m.tx) => m.active
  PROVE  Paces(recv(m, f), m, {f})
<1> DEFINE n == recv(m, f)
<1>1. /\ Sound(n) /\ Held(n, m) /\ n.cache = m.cache
      /\ SameTask(n, m) /\ SameVoice(n, m) /\ n.txs = m.txs /\ n.send = m.send
      /\ n.defer = m.defer
      /\ Clear(n) => \/ Clear(m) /\ n.rx = m.rx /\ n.recv = m.recv
                     \/ ~m.active /\ n.rx = f /\ n.recv = Airtime(f)
  BY ArrivalHandled DEF Poised
<1> HIDE DEF n
<1>2. m \in StationType /\ m.out = NoFrame /\ Measured(m)
  BY DEF Poised, Ready, Sound
<1>3. Talks(n) <=> Talks(m)
  BY <1>1 DEF Talks
<1>4. Measured(n)
  BY <1>1, <1>2, <1>3 DEF Measured, SameTask, SameVoice
<1>5. \A x : Owes(n, x) => Owes(m, x) /\ Wait(n) <= Wait(m)
  BY <1>1, <1>2 DEF Owes, Wait, SameTask, StationType, Ticks, SIFS, Off
<1>6. n.out.type # "ACK"
  BY <1>1, <1>2 DEF SameVoice, NoFrame
<1> QED
  BY <1>1, <1>3, <1>4, <1>5, <1>6 DEF Paces, n

LEMMA StillPaced ==
  ASSUME NEW m, Poised(m)
  PROVE  Paces(m, m, {})
<1>1. m \in StationType /\ m.out = NoFrame
  BY DEF Poised, Ready, Sound
<1>2. Held(m, m)
  BY <1>1, HeldStill
<1>3. Stays(m, m)
  BY <1>1, <1>2 DEF Stays, Listens
<1> QED
  BY <1>1, <1>3, StaysPaces DEF Poised

-----------------------------------------------------------------------------
(* The ACK.  A packet of station x goes through the stages of an exchange: *)
(* its frame is on its way to a station, heard there, owed an ACK, and the *)
(* ACK is on its way to x, where it is heard at last.  As above, the       *)
(* invariant speaks of stations S, of copies A and of packets G that were  *)
(* passed up.                                                              *)

Setting(S, A) ==
  /\ S \in [Station -> StationType]
  /\ \A c \in A : c \in Copy /\ Proper(c.frame)
  /\ \A s \in Station : Poised(S[s]) /\ S[s].me = s

Stage(S, A, x, t, i) ==
  \/ t = "data" /\ i \in A /\ i.frame.type = "DATA" /\ i.frame.from = x /\ i.at = i.frame.to
  \/ t = "heard" /\ i \in Station /\ Hearing(S[i], x)
  \/ t = "owed" /\ i \in Station /\ Owes(S[i], x)
  \/ t = "answer" /\ i \in A /\ i.frame.type = "ACK" /\ i.frame.to = x /\ i.at = x
  \/ t = "told" /\ i = x /\ Told(S[x])

Longer(a, b) == IF a > b THEN a ELSE b

(* How much later at most the ACK begins to arrive. *)
Ahead(S, t, i) ==
  CASE t = "data"   -> i.left + Longer(Airtime(i.frame), AckWindow) + SIFS + Prop
    [] t = "heard"  -> Longer(S[i].recv, Busy(S[i])) + SIFS + Prop
    [] t = "owed"   -> Wait(S[i]) + Prop
    [] t = "answer" -> i.left
    [] OTHER        -> 0

(* An ACK that begins to arrive in y comes before the MAC gives it up, and *)
(* before the MAC sends another packet.                                    *)
Early(m, y) ==
  IF m.txs = "SEND" THEN y < m.send + SIFS
  ELSE y < SIFS /\ (m.defer # Off => y < m.defer) /\ (m.backoff # Off => y < m.backoff)

(* What the stage is about is the packet that x waits with. *)
Concerns(S, G, x, t, i) ==
  S[x].txs = "SEND" =>
    CASE t = "data"  -> i.frame.pkt = S[x].tx /\ i.frame.seq = S[x].seq
      [] t = "heard" -> S[i].rx.pkt = S[x].tx /\ S[i].rx.seq = S[x].seq
      [] OTHER       -> <<S[x].tx.to, S[x].tx>> \in G

(* Who remembers the number of the packet at hand has passed it up. *)
Remembered(S, G, x) ==
  \A u \in Station, q \in Nat :
    <<x, q>> \in S[u].cache /\ q = S[x].seq /\ S[x].tx # NoPkt /\ S[x].tx.to = u =>
      <<u, S[x].tx>> \in G

(* One exchange of x is under way at most. *)
Exchange(S, A, G, x) ==
  /\ \A t, i, u, j : Stage(S, A, x, t, i) /\ Stage(S, A, x, u, j) => t = u /\ i = j
  /\ \A t, i : Stage(S, A, x, t, i) => /\ t # "told" => Early(S[x], Ahead(S, t, i))
                                       /\ Concerns(S, G, x, t, i)
  /\ Remembered(S, G, x)

(* An event leaves station s as n; B stays in the air. *)
Moves(S, A, s, n, B) ==
  /\ Sound(n) /\ Advances(n, S[s]) /\ B \subseteq A
  /\ Paces(n, S[s], {c.frame : c \in {e \in A \ B : e.at = s /\ e.left = 0}})

(* The event turns stage t of i into stage u of j. *)
Turned(S, A, B, s, n, x, t, i, u, j) ==
  \/ t = "data" /\ u = "heard" /\ i \in A \ B /\ i.at = s /\ i.left = 0 /\ j = s /\ n.rx = i.frame
  \/ t = "heard" /\ u = "owed" /\ i = s /\ j = s /\ ~Clear(n)
     /\ (n.up = S[s].rx.pkt \/ Entry(S[s].rx) \in S[s].cache)
  \/ t = "owed" /\ u = "answer" /\ i = s /\ n.txs = "ACK"
     /\ j = [at |-> x, frame |-> S[s].ctrl, left |-> Prop]
  \/ t = "answer" /\ u = "told" /\ i \in A \ B /\ i.left = 0 /\ j = x

After(S, s, n) == [S EXCEPT ![s] = Cleared(n)]

LEMMA StationLike ==
  ASSUME NEW m, NEW n, n.me = m.me, n.ctrl = m.ctrl, n.rx = m.rx, n.rxs = m.rxs,
         n.recv = m.recv, n.txs = m.txs, n.send = m.send,
         m.ctrl # NoFrame => n.defer = m.defer, NEW x
  PROVE  /\ Clear(n) <=> Clear(m)
         /\ Hearing(n, x) <=> Hearing(m, x)
         /\ Owes(n, x) <=> Owes(m, x)
         /\ Told(n) <=> Told(m)
         /\ Busy(n) = Busy(m)
         /\ Owes(m, x) => Wait(n) = Wait(m)
BY DEF Clear, Hearing, Owes, Told, Busy, Talks, Wait, NoFrame

(* What a station has to wait for is a number. *)
LEMMA WaitType ==
  ASSUME NEW m, Poised(m), NEW x
  PROVE  /\ Hearing(m, x) => m.recv \in Nat /\ Busy(m) \in Nat
         /\ Owes(m, x) => Wait(m) \in Nat
<1>1. m \in StationType
  BY DEF Poised, Ready, Sound
<1>2. Clear(m) => m.recv \in Nat
  BY <1>1 DEF Clear, Poised, Ready, Sound, Hears, StationType, Ticks
<1>3. m.txs # "IDLE" => m.send \in Nat
  BY <1>1 DEF Poised, Ready, Sound, Sends, StationType, Ticks
<1>4. Owes(m, x) /\ m.txs = "IDLE" => m.defer \in Nat
  BY <1>1 DEF Owes, NoFrame, Poised, Ready, Sound, Answers, StationType, Ticks
<1> QED
  BY <1>2, <1>3, <1>4 DEF Hearing, Busy, Talks, Wait, SIFS

LEMMA AheadType ==
  ASSUME NEW S, NEW A, Setting(S, A), NEW x \in Station, NEW t, NEW i, Stage(S, A, x, t, i)
  PROVE  /\ Ahead(S, t, i) \in Nat
         /\ t \in {"data", "heard"} => Ahead(S, t, i) >= SIFS
<1>0. Prop \in Nat /\ AckWindow \in Nat /\ SIFS \in Nat
  BY ChannelConstants, RadioConstants DEF AckWindow, SIFS, DIFS, SlotTime
<1>1. CASE t = "data"
  <2>1. i \in Copy /\ Proper(i.frame)
    BY <1>1 DEF Stage, Setting
  <2>2. Airtime(i.frame) \in Nat /\ i.left \in Nat
    BY <2>1, AirtimeType DEF Copy, Proper
  <2> QED
    BY <1>0, <1>1, <2>2 DEF Ahead, Longer
<1>2. CASE t = "heard"
  <2>1. S[i].recv \in Nat /\ Busy(S[i]) \in Nat
    BY <1>2, WaitType DEF Stage, Setting
  <2> QED
    BY <1>0, <1>2, <2>1 DEF Ahead, Longer
<1>3. CASE t = "owed"
  <2>1. Wait(S[i]) \in Nat
    BY <1>3, WaitType DEF Stage, Setting
  <2> QED
    BY <1>0, <1>3, <2>1 DEF Ahead
<1>4. CASE t = "answer"
  BY <1>4 DEF Stage, Setting, Copy, Ahead
<1>5. CASE t = "told"
  BY <1>5 DEF Ahead
<1> QED
  BY <1>1, <1>2, <1>3, <1>4, <1>5 DEF Stage

LEMMA EventSetting ==
  ASSUME NEW S, NEW A, Setting(S, A), NEW s \in Station, NEW n, NEW B, Moves(S, A, s, n, B),
         NEW T, T = After(S, s, n)
  PROVE  /\ Setting(T, B \cup Copies(n.out))
         /\ T[s] = Cleared(n) /\ \A w \in Station \ {s} : T[w] = S[w]
         /\ SameTask(T[s], n) /\ SameEar(T[s], n) /\ SameState(T[s], n)
         /\ T[s].cache = n.cache
<1> DEFINE k == Cleared(n)
<1>1. /\ Ready(k) /\ k \in StationType
      /\ SameTask(k, n) /\ SameEar(k, n) /\ SameState(k, n)
      /\ k.active = n.active /\ k.ifc = n.ifc /\ k.cache = n.cache
  BY ClearedReady DEF Moves
<1> HIDE DEF k
<1>2. T = [S EXCEPT ![s] = k]
  BY DEF After, k
<1>3. T[s] = k /\ (\A w \in Station \ {s} : T[w] = S[w]) /\ T \in [Station -> StationType]
  BY <1>1, <1>2 DEF Setting
<1>4. Measured(n) /\ n.me = s
  BY DEF Moves, Paces, Advances, Setting
<1>5. Measured(k)
  BY <1>1, <1>4 DEF Measured, Talks, Clear, SameTask, SameEar, SameState
<1>6. Poised(k) /\ k.me = s
  BY <1>1, <1>4, <1>5 DEF Poised, SameTask
<1>7. \A c \in Copies(n.out) : c \in Copy /\ Proper(c.frame)
  <2>1. n.out # NoFrame => Proper(n.out)
    BY DEF Moves, Advances
  <2> QED
    BY <2>1, CopiesProper
<1>8. Setting(T, B \cup Copies(n.out))
  BY <1>3, <1>6, <1>7 DEF Setting, Moves
<1> QED
  BY <1>1, <1>3, <1>8 DEF k

(* What a station sends is for one station, and starts there one stage.    *)
LEMMA SentStage ==
  ASSUME NEW S, NEW A, Setting(S, A), NEW s \in Station, NEW n, NEW B, Moves(S, A, s, n, B),
         NEW c \in Copies(n.out)
  PROVE  /\ c = [at |-> c.at, frame |-> n.out, left |-> Prop]
         /\ n.out # NoFrame /\ Proper(n.out) /\ n.out.from = s
         /\ n.out.type = "DATA" => /\ S[s].txs # "SEND" /\ n.txs = "SEND"
                                   /\ n.out = DataFrame(S[s]) /\ n.tx = S[s].tx
                                   /\ n.tx # NoPkt /\ n.tx \in Packet
                                   /\ Unicast(n.tx) => n.send = ACKTimeout(n.tx)
         /\ n.out.type = "ACK" => /\ n.out = S[s].ctrl /\ S[s].txs = "IDLE"
                                  /\ S[s].defer = 0 /\ n.txs = "ACK"
<1>1. n.out # NoFrame => Proper(n.out) /\ n.out.from = S[s].me
  BY DEF Moves, Advances
<1>2. c \in Copy /\ c.left = Prop /\ n.out # NoFrame /\ c.frame = n.out
  BY <1>1, CopiesProper
<1>3. c = [at |-> c.at, frame |-> n.out, left |-> Prop]
  BY <1>2 DEF Copy
<1>4. n.out.type = "DATA" => /\ S[s].txs # "SEND" /\ n.txs = "SEND"
                             /\ n.out = DataFrame(S[s]) /\ n.tx = S[s].tx
                             /\ n.tx # NoPkt
                             /\ Unicast(n.tx) => n.send = ACKTimeout(n.tx)
  BY <1>2 DEF Moves, Advances
<1>5. n.tx \in Packet \cup {NoPkt}
  BY DEF Moves, Sound, StationType
<1>6. n.out.type = "ACK" => /\ n.out = S[s].ctrl /\ S[s].txs = "IDLE"
                            /\ S[s].defer = 0 /\ n.txs = "ACK"
  BY DEF Moves, Paces
<1> QED
  BY <1>1, <1>2, <1>3, <1>4, <1>5, <1>6 DEF Setting

(* The stage u of j after the event was a stage before, or follows one, or *)
(* is the frame that the event sends.                                      *)
Continues(S, A, T, B, s, n, x, u, j) ==
  \E t, i : /\ Stage(S, A, x, t, i)
            /\ u # "told" => t # "told" /\ Ahead(T, u, j) <= Ahead(S, t, i)
            /\ \/ /\ t = u /\ i = j
                  /\ t = "heard" => T[i].rx = S[i].rx
               \/ Turned(S, A, B, s, n, x, t, i, u, j)

Opens(S, s, n, x, u, j) ==
  /\ s = x /\ u = "data" /\ j \in Copies(n.out) /\ j.at = n.out.to /\ n.out.type = "DATA"

LEMMA DataStage ==
  ASSUME NEW S, NEW A, Setting(S, A), NEW s \in Station, NEW n, NEW B, Moves(S, A, s, n, B),
         NEW T, T = After(S, s, n),
         NEW x \in Station, NEW j, Stage(T, B \cup Copies(n.out), x, "data", j)
  PROVE  Continues(S, A, T, B, s, n, x, "data", j) \/ Opens(S, s, n, x, "data", j)
<1>1. /\ j \in B \cup Copies(n.out) /\ j.frame.type = "DATA" /\ j.frame.from = x
      /\ j.at = j.frame.to
  BY DEF Stage
<1>2. CASE j \in B
  <2>1. Stage(S, A, x, "data", j)
    BY <1>1, <1>2 DEF Stage, Moves
  <2>2. Ahead(T, "data", j) = Ahead(S, "data", j)
    BY DEF Ahead
  <2>3. Ahead(S, "data", j) \in Nat
    BY <2>1, AheadType
  <2> QED
    BY <2>1, <2>2, <2>3 DEF Continues
<1>3. CASE j \in Copies(n.out)
  BY <1>1, <1>3, SentStage DEF Opens
<1> QED
  BY <1>1, <1>2, <1>3

LEMMA HeardStage ==
  ASSUME NEW S, NEW A, Setting(S, A), NEW s \in Station, NEW n, NEW B, Moves(S, A, s, n, B),
         NEW T, T = After(S, s, n),
         NEW x \in Station, NEW j, Stage(T, B \cup Copies(n.out), x, "heard", j)
  PROVE  Continues(S, A, T, B, s, n, x, "heard", j)
<1>1. /\ T[s] = Cleared(n) /\ \A w \in Station \ {s} : T[w] = S[w]
      /\ SameTask(T[s], n) /\ SameEar(T[s], n) /\ SameState(T[s], n)
      /\ Setting(T, B \cup Copies(n.out))
  BY EventSetting
<1>2. j \in Station /\ Hearing(T[j], x)
  BY DEF Stage
<1>3. Prop \in Nat /\ AckWindow \in Nat
  BY ChannelConstants, RadioConstants DEF AckWindow, SIFS, DIFS, SlotTime
<1>4. CASE j # s
  <2>1. T[j] = S[j]
    BY <1>1, <1>2, <1>4
  <2>2. Stage(S, A, x, "heard", j) /\ Ahead(T, "heard", j) = Ahead(S, "heard", j)
    BY <1>2, <2>1 DEF Stage, Ahead
  <2>3. Ahead(S, "heard", j) \in Nat
    BY <2>2, AheadType
  <2> QED
    BY <2>1, <2>2, <2>3 DEF Continues
<1>5. CASE j = s
  <2>1. Clear(n) /\ n.rx.type = "DATA" /\ n.rx.to = s /\ n.rx.from = x /\ n.me = s
        /\ T[s].recv = n.recv /\ T[s].rx = n.rx /\ Busy(T[s]) = Busy(n)
    <3>1. T[s].me = s
      BY <1>1 DEF Setting
    <3> QED
      BY <1>1, <1>2, <1>5, <3>1
         DEF Hearing, Clear, SameTask, SameEar, SameState, Busy, Talks
  <2>2. Busy(n) \in Nat /\ n.recv \in Nat
    BY <1>1, <1>2, <1>5, <2>1, WaitType DEF Setting
  <2>3. Talks(n) => Talks(S[s]) /\ n.send = S[s].send
    BY <2>1 DEF Moves, Paces
  <2>4. CASE Clear(S[s]) /\ n.rx = S[s].rx /\ n.recv = S[s].recv
    <3>1. Stage(S, A, x, "heard", s)
      BY <2>1, <2>4 DEF Stage, Hearing, Setting
    <3>2. S[s].recv \in Nat /\ Busy(S[s]) \in Nat
      BY <3>1, WaitType DEF Stage, Setting
    <3>3. Busy(n) <= Busy(S[s])
      BY <2>2, <2>3, <3>2 DEF Busy
    <3>4. Ahead(T, "heard", s) <= Ahead(S, "heard", s)
      BY <1>3, <2>1, <2>2, <2>4, <3>2, <3>3 DEF Ahead, Longer, SIFS
    <3> QED
      BY <1>5, <2>1, <2>4, <3>1, <3>4 DEF Continues
  <2>5. CASE \E c \in {e \in A \ B : e.at = s /\ e.left = 0} :
               n.rx = c.frame /\ n.recv = Airtime(n.rx)
    <3>1. PICK c \in A \ B : /\ c.at = s /\ c.left = 0 /\ n.rx = c.frame
                             /\ n.recv = Airtime(n.rx)
      BY <2>5
    <3>2. Stage(S, A, x, "data", c)
      BY <2>1, <3>1 DEF Stage
    <3>3. Busy(n) <= AckWindow
      <4>1. Measured(n)
        BY DEF Moves, Paces
      <4> QED
        BY <1>3, <2>1, <4>1 DEF Measured, Busy
    <3>4. Ahead(T, "heard", s) <= Ahead(S, "data", c)
      BY <1>3, <2>1, <2>2, <3>1, <3>3 DEF Ahead, Longer, SIFS
    <3>5. Turned(S, A, B, s, n, x, "data", c, "heard", s)
      BY <3>1 DEF Turned
    <3> QED
      BY <1>5, <3>2, <3>4, <3>5 DEF Continues
  <2> QED
    BY <2>1, <2>4, <2>5 DEF Moves, Paces
<1> QED
  BY <1>4, <1>5

LEMMA OwedStage ==
  ASSUME NEW S, NEW A, Setting(S, A), NEW s \in Station, NEW n, NEW B, Moves(S, A, s, n, B),
         NEW T, T = After(S, s, n),
         NEW x \in Station, NEW j, Stage(T, B \cup Copies(n.out), x, "owed", j)
  PROVE  Continues(S, A, T, B, s, n, x, "owed", j)
<1>1. /\ T[s] = Cleared(n) /\ \A w \in Station \ {s} : T[w] = S[w]
      /\ SameTask(T[s], n) /\ SameEar(T[s], n) /\ SameState(T[s], n)
      /\ Setting(T, B \cup Copies(n.out))
  BY EventSetting
<1>2. j \in Station /\ Owes(T[j], x)
  BY DEF Stage
<1>3. Prop \in Nat
  BY ChannelConstants
<1>4. CASE j # s
  <2>1. T[j] = S[j]
    BY <1>1, <1>2, <1>4
  <2>2. Stage(S, A, x, "owed", j) /\ Ahead(T, "owed", j) = Ahead(S, "owed", j)
    BY <1>2, <2>1 DEF Stage, Ahead
  <2>3. Ahead(S, "owed", j) \in Nat
    BY <2>2, AheadType
  <2> QED
    BY <2>1, <2>2, <2>3 DEF Continues
<1>5. CASE j = s
  <2>1. Owes(n, x) /\ Wait(T[s]) = Wait(n) /\ Wait(n) \in Nat
    <3>1. Wait(T[s]) \in Nat
      BY <1>1, <1>2, <1>5, WaitType DEF Setting
    <3> QED
      BY <1>1, <1>2, <1>5, <3>1 DEF Owes, Wait, SameTask, SameState
  <2>2. (Owes(S[s], x) /\ Wait(n) <= Wait(S[s])) \/ Obliged(n, S[s], x)
    BY <2>1 DEF Moves, Paces
  <2>3. CASE Owes(S[s], x) /\ Wait(n) <= Wait(S[s])
    <3>1. Stage(S, A, x, "owed", s)
      BY <2>3 DEF Stage
    <3>2. Wait(S[s]) \in Nat
      BY <2>3, WaitType DEF Setting
    <3>3. Ahead(T, "owed", s) <= Ahead(S, "owed", s)
      BY <1>3, <2>1, <2>3, <3>2 DEF Ahead
    <3> QED
      BY <1>5, <3>1, <3>3 DEF Continues
  <2>4. CASE Obliged(n, S[s], x)
    <3>1. Stage(S, A, x, "heard", s)
      BY <2>4 DEF Stage, Obliged
    <3>2. S[s].recv \in Nat /\ Busy(S[s]) \in Nat
      BY <3>1, WaitType DEF Stage, Setting
    <3>3. Ahead(T, "owed", s) <= Ahead(S, "heard", s)
      BY <1>3, <2>1, <2>4, <3>2 DEF Obliged, Ahead, Longer, SIFS
    <3>4. Turned(S, A, B, s, n, x, "heard", s, "owed", s)
      BY <2>4 DEF Obliged, Turned
    <3> QED
      BY <1>5, <3>1, <3>3, <3>4 DEF Continues
  <2> QED
    BY <2>2, <2>3, <2>4
<1> QED
  BY <1>4, <1>5

LEMMA AnswerStage ==
  ASSUME NEW S, NEW A, Setting(S, A), NEW s \in Station, NEW n, NEW B, Moves(S, A, s, n, B),
         NEW T, T = After(S, s, n),
         NEW x \in Station, NEW j, Stage(T, B \cup Copies(n.out), x, "answer", j)
  PROVE  Continues(S, A, T, B, s, n, x, "answer", j)
<1>1. /\ j \in B \cup Copies(n.out) /\ j.frame.type = "ACK" /\ j.frame.to = x /\ j.at = x
  BY DEF Stage
<1>2. CASE j \in B
  <2>1. Stage(S, A, x, "answer", j)
    BY <1>1, <1>2 DEF Stage, Moves
  <2>2. Ahead(T, "answer", j) = Ahead(S, "answer", j)
    BY DEF Ahead
  <2>3. Ahead(S, "answer", j) \in Nat
    BY <2>1, AheadType
  <2> QED
    BY <2>1, <2>2, <2>3 DEF Continues
<1>3. CASE j \in Copies(n.out)
  <2>1. /\ j = [at |-> x, frame |-> n.out, left |-> Prop] /\ j.frame = n.out
        /\ n.out = S[s].ctrl /\ S[s].txs = "IDLE" /\ S[s].defer = 0 /\ n.txs = "ACK"
    <3>1. j = [at |-> j.at, frame |-> n.out, left |-> Prop]
      BY <1>3, SentStage
    <3>2. j.frame = n.out
      BY <3>1
    <3> QED
      BY <1>1, <1>3, <3>1, <3>2, SentStage
  <2>2. Stage(S, A, x, "owed", s)
    BY <1>1, <2>1 DEF Stage, Owes
  <2>3. Ahead(S, "owed", s) = Prop /\ Ahead(T, "answer", j) = Prop /\ Prop \in Nat
    <3>1. Wait(S[s]) = 0 /\ j.left = Prop /\ Prop \in Nat
      BY <2>1, ChannelConstants DEF Wait
    <3> QED
      BY <3>1 DEF Ahead
  <2>4. Turned(S, A, B, s, n, x, "owed", s, "answer", j)
    BY <2>1 DEF Turned
  <2> QED
    BY <2>2, <2>3, <2>4 DEF Continues
<1> QED
  BY <1>1, <1>2, <1>3

LEMMA ToldStage ==
  ASSUME NEW S, NEW A, Setting(S, A), NEW s \in Station, NEW n, NEW B, Moves(S, A, s, n, B),
         NEW T, T = After(S, s, n),
         NEW x \in Station, NEW j, Stage(T, B \cup Copies(n.out), x, "told", j)
  PROVE  Continues(S, A, T, B, s, n, x, "told", j)
<1>1. /\ T[s] = Cleared(n) /\ \A w \in Station \ {s} : T[w] = S[w]
      /\ SameTask(T[s], n) /\ SameEar(T[s], n)
      /\ Setting(T, B \cup Copies(n.out))
  BY EventSetting
<1>2. j = x /\ Told(T[x])
  BY DEF Stage
<1>3. CASE x # s
  <2>1. Stage(S, A, x, "told", x)
    BY <1>1, <1>2, <1>3 DEF Stage
  <2> QED
    BY <1>2, <2>1 DEF Continues
<1>4. CASE x = s
  <2>1. Clear(n) /\ n.rx.type = "ACK" /\ n.rx.to = s
    <3>1. T[s].me = s
      BY <1>1 DEF Setting
    <3> QED
      BY <1>1, <1>2, <1>4, <3>1 DEF Told, Clear, SameEar
  <2>2. CASE Clear(S[s]) /\ n.rx = S[s].rx
    <3>1. Stage(S, A, x, "told", x)
      BY <1>4, <2>1, <2>2 DEF Stage, Told, Setting
    <3> QED
      BY <1>2, <3>1 DEF Continues
  <2>3. CASE \E c \in {e \in A \ B : e.at = s /\ e.left = 0} : n.rx = c.frame
    <3>1. PICK c \in A \ B : c.at = s /\ c.left = 0 /\ n.rx = c.frame
      BY <2>3
    <3>2. Stage(S, A, x, "answer", c)
      BY <1>4, <2>1, <3>1 DEF Stage
    <3>3. Turned(S, A, B, s, n, x, "answer", c, "told", j)
      BY <1>2, <3>1 DEF Turned
    <3> QED
      BY <3>2, <3>3 DEF Continues
  <2> QED
    BY <2>1, <2>2, <2>3 DEF Moves, Paces
<1> QED
  BY <1>3, <1>4

LEMMA EventStage ==
  ASSUME NEW S, NEW A, Setting(S, A), NEW s \in Station, NEW n, NEW B, Moves(S, A, s, n, B),
         NEW T, T = After(S, s, n),
         NEW x \in Station, NEW u, NEW j, Stage(T, B \cup Copies(n.out), x, u, j)
  PROVE  Continues(S, A, T, B, s, n, x, u, j) \/ Opens(S, s, n, x, u, j)
<1>1. u \in {"data", "heard", "owed", "answer", "told"}
  BY DEF Stage
<1> QED
  BY <1>1, DataStage, HeardStage, OwedStage, AnswerStage, ToldStage

(* The stage before is over then, and no other follows it. *)
LEMMA TurnedOver ==
  ASSUME NEW S, NEW A, Setting(S, A), NEW s \in Station, NEW n, NEW B, Moves(S, A, s, n, B),
         NEW T, T = After(S, s, n),
         NEW x \in Station, NEW t, NEW i, NEW u, NEW j, Turned(S, A, B, s, n, x, t, i, u, j)
  PROVE  /\ ~Stage(T, B \cup Copies(n.out), x, t, i)
         /\ \A v, k : Turned(S, A, B, s, n, x, t, i, v, k) => v = u /\ k = j
<1>1. /\ SameTask(T[s], n) /\ SameEar(T[s], n) /\ SameState(T[s], n)
  BY EventSetting
<1>2. i \in A \ B /\ i.left = 0 => i \notin B \cup Copies(n.out)
  <2>1. \A c \in Copies(n.out) : c.left = Prop /\ Prop > 0
    <3>1. n.out # NoFrame => Proper(n.out)
      BY DEF Moves, Advances
    <3> QED
      BY <3>1, CopiesProper, ChannelConstants
  <2> QED
    BY <2>1
<1>3. ~Clear(n) => ~Hearing(T[s], x)
  BY <1>1 DEF Hearing, Clear, SameEar
<1>4. n.txs = "ACK" => ~Owes(T[s], x)
  BY <1>1 DEF Owes, SameState
<1>5. ~Stage(T, B \cup Copies(n.out), x, t, i)
  BY <1>2, <1>3, <1>4 DEF Turned, Stage
<1>6. ASSUME NEW v, NEW k, Turned(S, A, B, s, n, x, t, i, v, k)
      PROVE  v = u /\ k = j
  BY <1>6 DEF Turned
<1> QED
  BY <1>5, <1>6

(* A packet is sent when no exchange is under way. *)
LEMMA OpensAlone ==
  ASSUME NEW S, NEW A, Setting(S, A), NEW s \in Station, NEW n, NEW B, Moves(S, A, s, n, B),
         NEW G, NEW x \in Station, Exchange(S, A, G, x),
         S[x].txs # "SEND", n.txs = "SEND", s = x, NEW t, NEW i
  PROVE  ~Stage(S, A, x, t, i)
<1>1. (S[x].defer = 0 \/ S[x].backoff = 0) /\ ~Clear(S[x])
  BY DEF Moves, Paces
<1>2. SUFFICES ASSUME Stage(S, A, x, t, i) PROVE FALSE
  OBVIOUS
<1>3. t # "told"
  BY <1>1, <1>2 DEF Stage, Told
<1>4. Early(S[x], Ahead(S, t, i)) /\ Ahead(S, t, i) \in Nat
  BY <1>2, <1>3, AheadType DEF Exchange
<1> QED
  BY <1>1, <1>4 DEF Early, Off

LEMMA EventSingle ==
  ASSUME NEW S, NEW A, Setting(S, A), NEW s \in Station, NEW n, NEW B, Moves(S, A, s, n, B),
         NEW T, T = After(S, s, n), NEW G, NEW x \in Station, Exchange(S, A, G, x),
         NEW t, NEW i, NEW u, NEW j, Stage(T, B \cup Copies(n.out), x, t, i),
         Stage(T, B \cup Copies(n.out), x, u, j)
  PROVE  t = u /\ i = j
<1>1. CASE Opens(S, s, n, x, t, i) \/ Opens(S, s, n, x, u, j)
  <2>1. S[x].txs # "SEND" /\ n.txs = "SEND" /\ s = x
    BY <1>1, SentStage DEF Opens
  <2>2. \A v, k : ~Stage(S, A, x, v, k)
    BY <2>1, OpensAlone
  <2>3. Opens(S, s, n, x, t, i) /\ Opens(S, s, n, x, u, j)
    BY <2>2, EventStage DEF Continues
  <2>4. /\ i = [at |-> i.at, frame |-> n.out, left |-> Prop]
        /\ j = [at |-> j.at, frame |-> n.out, left |-> Prop]
    BY <2>3, SentStage DEF Opens
  <2> QED
    BY <2>3, <2>4 DEF Opens
<1>2. CASE Continues(S, A, T, B, s, n, x, t, i) /\ Continues(S, A, T, B, s, n, x, u, j)
  <2>1. PICK v, k : /\ Stage(S, A, x, v, k)
                    /\ (v = t /\ k = i) \/ Turned(S, A, B, s, n, x, v, k, t, i)
    BY <1>2 DEF Continues
  <2>2. PICK w, l : /\ Stage(S, A, x, w, l)
                    /\ (w = u /\ l = j) \/ Turned(S, A, B, s, n, x, w, l, u, j)
    BY <1>2 DEF Continues
  <2>3. v = w /\ k = l
    BY <2>1, <2>2 DEF Exchange
  <2>4. CASE Turned(S, A, B, s, n, x, v, k, t, i)
    <3>1. ~Stage(T, B \cup Copies(n.out), x, v, k)
          /\ \A y, z : Turned(S, A, B, s, n, x, v, k, y, z) => y = t /\ z = i
      BY <2>4, TurnedOver
    <3> QED
      BY <2>2, <2>3, <3>1
  <2>5. CASE Turned(S, A, B, s, n, x, w, l, u, j)
    <3>1. ~Stage(T, B \cup Copies(n.out), x, w, l)
          /\ \A y, z : Turned(S, A, B, s, n, x, w, l, y, z) => y = u /\ z = j
      BY <2>5, TurnedOver
    <3> QED
      BY <2>1, <2>3, <3>1
  <2> QED
    BY <2>1, <2>2, <2>3, <2>4, <2>5
<1> QED
  BY <1>1, <1>2, EventStage

(* As the air and the airtimes are short, an answer can be waited for. *)
ShortHops == 2 * Prop < AckWindow /\ \A z \in Size : 2 * Prop < DataTime[z]

LEMMA OpensEarly ==
  ASSUME ShortHops,
         NEW S, NEW A, Setting(S, A), NEW s \in Station, NEW n, NEW B, Moves(S, A, s, n, B),
         NEW T, T = After(S, s, n), NEW x \in Station, NEW i, Opens(S, s, n, x, "data", i)
  PROVE  /\ T[x].txs = "SEND" /\ i.frame.pkt = T[x].tx /\ i.frame.seq = T[x].seq
         /\ Early(T[x], Ahead(T, "data", i))
<1>0. n.out # NoFrame => Proper(n.out)
  BY DEF Moves, Advances
<1>1. /\ i = [at |-> i.at, frame |-> n.out, left |-> Prop]
      /\ n.txs = "SEND" /\ n.out = DataFrame(S[s]) /\ n.tx = S[s].tx
      /\ n.tx # NoPkt /\ n.tx \in Packet
      /\ Unicast(n.tx) => n.send = ACKTimeout(n.tx)
  BY SentStage DEF Opens
<1>2. i.frame = n.out /\ i.left = Prop /\ i.at \in Station
  <2>1. \A c \in Copies(n.out) : c.at \in Station
    BY <1>0, CopiesProper DEF Copy
  <2> QED
    BY <1>1, <2>1 DEF Opens
<1>3. /\ n.out.to = n.tx.to /\ n.out.pkt = n.tx /\ n.out.seq = S[s].seq /\ n.out.type = "DATA"
  BY <1>1 DEF DataFrame
<1>4. Unicast(n.tx)
  BY <1>2, <1>3, ChannelConstants DEF Opens, Unicast
<1>5. /\ T[s].txs = n.txs /\ T[s].tx = n.tx /\ T[s].seq = n.seq /\ T[s].send = n.send
  <2>1. SameTask(T[s], n) /\ SameState(T[s], n)
    BY EventSetting
  <2> QED
    BY <2>1 DEF SameTask, SameState
<1>6. n.seq = S[s].seq
  BY DEF Moves, Advances
<1>7. Early(T[x], Ahead(T, "data", i))
  <2> DEFINE D == DataTime[n.tx.size]
  <2>1. Airtime(i.frame) = D /\ D \in Nat /\ 2 * Prop < D
    <3>1. n.tx.size \in Size
      BY <1>1 DEF Packet
    <3>2. Airtime(n.out) = D
      BY <1>3 DEF Airtime
    <3> QED
      BY <1>2, <3>1, <3>2, RadioConstants DEF ShortHops
  <2>2. n.send = D + AckWindow /\ AckWindow \in Nat /\ Prop \in Nat /\ 2 * Prop < AckWindow
    <3>1. CtlTime \in Nat /\ Prop \in Nat
      BY RadioConstants, ChannelConstants
    <3> QED
      BY <1>1, <1>4, <2>1, <3>1
         DEF ACKTimeout, AckWindow, ShortHops, SIFS, DIFS, SlotTime
  <2> HIDE DEF D
  <2>3. Ahead(T, "data", i) = Prop + Longer(D, AckWindow) + SIFS + Prop
    BY <1>2, <2>1 DEF Ahead
  <2>4. Ahead(T, "data", i) < n.send + SIFS
    BY <2>1, <2>2, <2>3 DEF Longer, SIFS
  <2> QED
    BY <1>1, <1>5, <2>4 DEF Early, Opens
<1> QED
  BY <1>1, <1>2, <1>3, <1>5, <1>6, <1>7 DEF Opens

LEMMA EarlyKept ==
  ASSUME NEW m \in StationType, NEW n \in StationType, Held(n, m), NEW y \in Nat, NEW z \in Nat,
         Early(m, y), z <= y,
         n.txs = "SEND" => m.txs = "SEND" /\ n.send = m.send,
         m.txs = "SEND" /\ n.txs # "SEND" => m.send = 0 /\ m.defer = Off /\ m.backoff = Off
  PROVE  Early(n, z)
<1>1. /\ m.send \in Ticks /\ m.defer \in Ticks /\ m.backoff \in Ticks
      /\ n.send \in Ticks /\ n.defer \in Ticks /\ n.backoff \in Ticks
  BY DEF StationType
<1>2. CASE n.txs = "SEND"
  BY <1>1, <1>2 DEF Early, Ticks, Off, SIFS
<1>3. CASE n.txs # "SEND"
  <2>1. y < SIFS /\ (m.defer # Off => y < m.defer) /\ (m.backoff # Off => y < m.backoff)
    BY <1>3 DEF Early, SIFS
  <2> QED
    BY <1>1, <1>3, <2>1 DEF Early, Held, Ticks, Off, SIFS
<1> QED
  BY <1>2, <1>3

(* Who is asked whether the ACK is early has sent, or not, as before. *)
LEMMA EventSender ==
  ASSUME NEW S, NEW A, Setting(S, A), NEW s \in Station, NEW n, NEW B, Moves(S, A, s, n, B),
         NEW T, T = After(S, s, n), NEW G, NEW x \in Station, Exchange(S, A, G, x),
         NEW t, NEW i, Stage(S, A, x, t, i)
  PROVE  /\ T[x].seq = S[x].seq /\ T[x].tx \in {S[x].tx, NoPkt}
         /\ T[x].txs = "SEND" => /\ S[x].txs = "SEND" /\ T[x].send = S[x].send
                                 /\ T[x].tx = S[x].tx
         /\ t # "told" /\ S[x].txs = "SEND" /\ T[x].txs # "SEND" => S[x].send = 0
         /\ Held(T[x], S[x])
<1>1. /\ T[s] = Cleared(n) /\ \A w \in Station \ {s} : T[w] = S[w]
      /\ SameTask(T[s], n) /\ SameState(T[s], n)
      /\ Setting(T, B \cup Copies(n.out))
  BY EventSetting
<1>2. CASE x # s
  <2>1. T[x] = S[x] /\ S[x] \in StationType
    BY <1>1, <1>2 DEF Setting
  <2> QED
    BY <2>1, HeldStill
<1>3. CASE x = s
  <2>1. /\ T[x].seq = n.seq /\ T[x].tx = n.tx /\ T[x].txs = n.txs /\ T[x].send = n.send
        /\ T[x].defer = n.defer /\ T[x].backoff = n.backoff
    BY <1>1, <1>3 DEF SameTask, SameState
  <2>2. n.seq = S[x].seq /\ n.tx \in {S[x].tx, NoPkt}
        /\ (S[x].txs = "SEND" /\ n.txs = "SEND" => n.send = S[x].send /\ n.tx = S[x].tx)
    BY <1>3 DEF Moves, Advances
  <2>3. n.txs = "SEND" => S[x].txs = "SEND"
    BY <1>3, OpensAlone
  <2>4. Held(n, S[x]) /\ (S[x].txs = "SEND" /\ n.txs # "SEND" => S[x].send = 0 \/ Told(S[x]))
    BY <1>3 DEF Moves, Paces
  <2>5. Held(T[x], S[x])
    BY <2>1, <2>4 DEF Held
  <2>6. Told(S[x]) => t = "told"
    <3>1. Told(S[x]) => Stage(S, A, x, "told", x)
      BY DEF Stage
    <3> QED
      BY <3>1 DEF Exchange
  <2> QED
    BY <2>1, <2>2, <2>3, <2>4, <2>5, <2>6
<1> QED
  BY <1>2, <1>3

LEMMA EventEarly ==
  ASSUME NEW S, NEW A, Setting(S, A), NEW s \in Station, NEW n, NEW B, Moves(S, A, s, n, B),
         NEW T, T = After(S, s, n), NEW G, NEW x \in Station, Exchange(S, A, G, x),
         NEW u, NEW j, Stage(T, B \cup Copies(n.out), x, u, j), u # "told",
         Continues(S, A, T, B, s, n, x, u, j)
  PROVE  Early(T[x], Ahead(T, u, j))
<1>1. PICK t, i : /\ Stage(S, A, x, t, i) /\ t # "told"
                  /\ Ahead(T, u, j) <= Ahead(S, t, i)
  BY DEF Continues
<1>2. Early(S[x], Ahead(S, t, i)) /\ Ahead(S, t, i) \in Nat
  BY <1>1, AheadType DEF Exchange
<1>3. Setting(T, B \cup Copies(n.out))
  BY EventSetting
<1>4. Ahead(T, u, j) \in Nat
  BY <1>3, AheadType
<1>5. S[x] \in StationType /\ T[x] \in StationType /\ Sound(S[x])
  BY <1>3 DEF Setting, Poised, Ready
<1>6. S[x].txs = "SEND" => S[x].defer = Off /\ S[x].backoff = Off
  BY <1>5 DEF Sound, Defers, Sends
<1>7. /\ T[x].txs = "SEND" => S[x].txs = "SEND" /\ T[x].send = S[x].send
      /\ S[x].txs = "SEND" /\ T[x].txs # "SEND" => S[x].send = 0
      /\ Held(T[x], S[x])
  BY <1>1, EventSender
<1> QED
  BY <1>1, <1>2, <1>4, <1>5, <1>6, <1>7, EarlyKept

PassedUp(G, s, n) == IF n.up = NoPkt THEN G ELSE G \cup {<<s, n.up>>}

(* Who hears a packet of x at its end has the number and the packet of x.  *)
LEMMA HeardPacket ==
  ASSUME NEW S, NEW A, Setting(S, A), NEW G, NEW x \in Station, Exchange(S, A, G, x),
         NEW s \in Station, Hearing(S[s], x)
  PROVE  /\ S[x].txs = "SEND" /\ S[x].tx # NoPkt /\ S[s].rx.pkt = S[x].tx
         /\ Entry(S[s].rx) = <<x, S[x].seq>> /\ S[x].tx.to = s /\ S[x].seq \in Nat
<1>1. Stage(S, A, x, "heard", s)
  BY DEF Stage
<1>2. Early(S[x], Ahead(S, "heard", s)) /\ Concerns(S, G, x, "heard", s)
  BY <1>1 DEF Exchange
<1>3. Ahead(S, "heard", s) \in Nat /\ Ahead(S, "heard", s) >= SIFS
  BY <1>1, AheadType
<1>4. S[x].txs = "SEND"
  BY <1>2, <1>3 DEF Early, SIFS
<1>5. S[s].rx.pkt = S[x].tx /\ S[s].rx.seq = S[x].seq
  BY <1>2, <1>4 DEF Concerns
<1>6. Sound(S[x]) /\ Sound(S[s]) /\ S[s].me = s
  BY DEF Setting, Poised, Ready
<1>7. S[x].tx # NoPkt /\ S[x].seq \in Nat
  BY <1>4, <1>6 DEF Sound, Sends, StationType
<1>8. S[s].rx.to = s /\ S[s].rx.from = x /\ S[s].rx.to = S[s].rx.pkt.to
  BY <1>6 DEF Hearing, Clear, Sound, Hears, Proper
<1> QED
  BY <1>4, <1>5, <1>7, <1>8 DEF Entry

LEMMA EventConcerns ==
  ASSUME NEW S, NEW A, Setting(S, A), NEW s \in Station, NEW n, NEW B, Moves(S, A, s, n, B),
         NEW T, T = After(S, s, n), NEW G, NEW x \in Station, Exchange(S, A, G, x),
         NEW u, NEW j, Continues(S, A, T, B, s, n, x, u, j)
  PROVE  Concerns(T, PassedUp(G, s, n), x, u, j)
<1>1. PICK t, i : /\ Stage(S, A, x, t, i)
                  /\ \/ /\ t = u /\ i = j
                        /\ t = "heard" => T[i].rx = S[i].rx
                     \/ Turned(S, A, B, s, n, x, t, i, u, j)
  BY DEF Continues
<1>2. SUFFICES ASSUME T[x].txs = "SEND"
               PROVE  CASE u = "data"  -> j.frame.pkt = T[x].tx /\ j.frame.seq = T[x].seq
                        [] u = "heard" -> T[j].rx.pkt = T[x].tx /\ T[j].rx.seq = T[x].seq
                        [] OTHER       -> <<T[x].tx.to, T[x].tx>> \in PassedUp(G, s, n)
  BY DEF Concerns
<1>3. S[x].txs = "SEND" /\ T[x].tx = S[x].tx /\ T[x].seq = S[x].seq
  BY <1>1, <1>2, EventSender
<1>4. /\ t = "data"  => i.frame.pkt = S[x].tx /\ i.frame.seq = S[x].seq
      /\ t = "heard" => S[i].rx.pkt = S[x].tx /\ S[i].rx.seq = S[x].seq
      /\ t \notin {"data", "heard"} => <<S[x].tx.to, S[x].tx>> \in G
  BY <1>1, <1>3 DEF Exchange, Concerns
<1>5. G \subseteq PassedUp(G, s, n)
  BY DEF PassedUp
<1>6. CASE t = u /\ i = j /\ (t = "heard" => T[i].rx = S[i].rx)
  BY <1>3, <1>4, <1>5, <1>6
<1>7. CASE t = "data" /\ u = "heard" /\ j = s /\ n.rx = i.frame
  <2>1. T[s].rx = n.rx
    <3>1. SameEar(T[s], n)
      BY EventSetting
    <3> QED
      BY <3>1 DEF SameEar
  <2> QED
    BY <1>3, <1>4, <1>7, <2>1
<1>8. CASE /\ t = "heard" /\ u = "owed" /\ i = s
           /\ (n.up = S[s].rx.pkt \/ Entry(S[s].rx) \in S[s].cache)
  <2>1. Hearing(S[s], x)
    BY <1>1, <1>8 DEF Stage
  <2>2. /\ S[x].tx # NoPkt /\ S[s].rx.pkt = S[x].tx
        /\ Entry(S[s].rx) = <<x, S[x].seq>> /\ S[x].tx.to = s /\ S[x].seq \in Nat
    BY <2>1, HeardPacket
  <2>3. <<s, S[x].tx>> \in PassedUp(G, s, n)
    <3>1. CASE n.up = S[s].rx.pkt
      BY <2>2, <3>1 DEF PassedUp
    <3>2. CASE Entry(S[s].rx) \in S[s].cache
      BY <1>5, <2>2, <3>2 DEF Exchange, Remembered
    <3> QED
      BY <1>8, <3>1, <3>2
  <2> QED
    BY <1>3, <1>8, <2>2, <2>3
<1>9. CASE t \in {"owed", "answer"} /\ u \in {"answer", "told"}
  BY <1>3, <1>4, <1>5, <1>9
<1> QED
  BY <1>1, <1>6, <1>7, <1>8, <1>9 DEF Turned

LEMMA EventRemembered ==
  ASSUME NEW S, NEW A, Setting(S, A), NEW s \in Station, NEW n, NEW B, Moves(S, A, s, n, B),
         NEW T, T = After(S, s, n), NEW G, NEW x \in Station, Exchange(S, A, G, x)
  PROVE  Remembered(T, PassedUp(G, s, n), x)
<1>1. /\ T[s] = Cleared(n) /\ \A w \in Station \ {s} : T[w] = S[w]
      /\ SameTask(T[s], n) /\ T[s].cache = n.cache
      /\ Setting(T, B \cup Copies(n.out))
  BY EventSetting
<1>2. T[x].seq = S[x].seq /\ T[x].tx \in {S[x].tx, NoPkt}
  <2>1. n.seq = S[s].seq /\ n.tx \in {S[s].tx, NoPkt}
    BY DEF Moves, Advances
  <2> QED
    BY <1>1, <2>1 DEF SameTask
<1>3. G \subseteq PassedUp(G, s, n) /\ Remembered(S, G, x)
  BY DEF PassedUp, Exchange
<1>4. ASSUME NEW u \in Station, NEW q \in Nat, <<x, q>> \in T[u].cache,
             q = T[x].seq, T[x].tx # NoPkt, T[x].tx.to = u
      PROVE  <<u, T[x].tx>> \in PassedUp(G, s, n)
  <2>1. CASE <<x, q>> \in S[u].cache
    BY <1>2, <1>3, <1>4, <2>1 DEF Remembered
  <2>2. CASE <<x, q>> \notin S[u].cache
    <3>1. u = s /\ <<x, q>> \in n.cache
      BY <1>1, <1>4, <2>2
    <3>2. /\ Hearing(S[s], S[s].rx.from) /\ <<x, q>> = Entry(S[s].rx)
          /\ n.up = S[s].rx.pkt
      BY <2>2, <3>1 DEF Moves, Paces
    <3>3. S[s].rx.from = x
      BY <3>2 DEF Entry
    <3>4. S[x].tx # NoPkt /\ S[s].rx.pkt = S[x].tx
      BY <3>2, <3>3, HeardPacket
    <3>6. <<s, S[x].tx>> \in PassedUp(G, s, n)
      BY <3>2, <3>4 DEF PassedUp
    <3> QED
      BY <1>2, <1>4, <3>1, <3>6
  <2> QED
    BY <2>1, <2>2
<1> QED
  BY <1>4 DEF Remembered

LEMMA EventExchange ==
  ASSUME ShortHops,
         NEW S, NEW A, Setting(S, A), NEW s \in Station, NEW n, NEW B, Moves(S, A, s, n, B),
         NEW G, NEW x \in Station, Exchange(S, A, G, x)
  PROVE  Exchange(After(S, s, n), B \cup Copies(n.out), PassedUp(G, s, n), x)
<1> DEFINE T == After(S, s, n)
           C == B \cup Copies(n.out)
           H == PassedUp(G, s, n)
<1> HIDE DEF T
<1>0. T = After(S, s, n)
  BY DEF T
<1>1. ASSUME NEW t, NEW i, NEW u, NEW j, Stage(T, C, x, t, i), Stage(T, C, x, u, j)
      PROVE  t = u /\ i = j
  BY <1>0, <1>1, EventSingle
<1>2. ASSUME NEW t, NEW i, Stage(T, C, x, t, i)
      PROVE  (t # "told" => Early(T[x], Ahead(T, t, i))) /\ Concerns(T, H, x, t, i)
  <2>1. CASE Opens(S, s, n, x, t, i)
    <3>1. t = "data"
      BY <2>1 DEF Opens
    <3>2. /\ i.frame.pkt = T[x].tx /\ i.frame.seq = T[x].seq
          /\ Early(T[x], Ahead(T, "data", i))
      BY <1>0, <2>1, <3>1, OpensEarly
    <3> QED
      BY <3>1, <3>2 DEF Concerns
  <2>2. CASE Continues(S, A, T, B, s, n, x, t, i)
    BY <1>0, <1>2, <2>2, EventEarly, EventConcerns
  <2> QED
    BY <1>0, <1>2, <2>1, <2>2, EventStage
<1>3. Remembered(T, H, x)
  BY <1>0, EventRemembered
<1> HIDE DEF C, H
<1>4. Exchange(T, C, H, x)
  BY <1>1, <1>2, <1>3 DEF Exchange
<1> QED
  BY <1>4 DEF T, C, H

(* The binder hands the next packet over. *)
LEMMA TakeExchange ==
  ASSUME NEW S, NEW A, Setting(S, A), NEW s \in Station, NEW p,
         \A u \in Station : <<s, (S[s].seq + 1) % SeqSpace>> \notin S[u].cache,
         NEW n \in StationType, Takes(n, S[s], p),
         NEW G, NEW x \in Station, Exchange(S, A, G, x)
  PROVE  Measured(n) /\ Exchange([S EXCEPT ![s] = n], A, G, x)
<1> DEFINE m == S[s]
           T == [S EXCEPT ![s] = n]
<1>1. T[s] = n /\ \A w \in Station \ {s} : T[w] = S[w]
  BY DEF Setting
<1> HIDE DEF T
<1>2. m \in StationType /\ Measured(m) /\ m.me = s
  BY DEF Setting, Poised
<1>3. /\ n.me = m.me /\ n.ctrl = m.ctrl /\ n.rx = m.rx /\ n.rxs = m.rxs
      /\ n.recv = m.recv /\ n.txs = m.txs /\ n.send = m.send /\ n.txs # "SEND"
      /\ m.ctrl # NoFrame => n.defer = m.defer
      /\ n.active = m.active /\ n.ifc = m.ifc /\ n.cache = m.cache /\ Held(n, m)
  BY DEF Takes
<1>4. Measured(n)
  BY <1>2, <1>3 DEF Measured, Talks, Clear
<1>5. n.seq = (m.seq + 1) % SeqSpace
  BY DEF Takes
<1>6. ASSUME NEW w \in Station
      PROVE  /\ T[w].me = S[w].me /\ T[w].rx = S[w].rx /\ T[w].recv = S[w].recv
             /\ T[w].txs = S[w].txs /\ T[w].cache = S[w].cache
             /\ T[w].ctrl = S[w].ctrl
             /\ \A y : /\ Hearing(T[w], y) <=> Hearing(S[w], y)
                       /\ Owes(T[w], y) <=> Owes(S[w], y)
                       /\ Owes(S[w], y) => Wait(T[w]) = Wait(S[w])
             /\ Told(T[w]) <=> Told(S[w])
             /\ Busy(T[w]) = Busy(S[w])
  <2>1. CASE w = s
    BY <1>1, <1>3, <2>1, StationLike
  <2>2. CASE w # s
    BY <1>1, <2>2
  <2> QED
    BY <2>1, <2>2
<1>7. ASSUME NEW t, NEW i, Stage(T, A, x, t, i)
      PROVE  Stage(S, A, x, t, i) /\ Ahead(T, t, i) = Ahead(S, t, i)
  BY <1>6, <1>7 DEF Stage, Ahead
<1>8. ASSUME NEW t, NEW i, Stage(T, A, x, t, i)
      PROVE  /\ t # "told" => Early(T[x], Ahead(T, t, i))
             /\ Concerns(T, G, x, t, i)
  <2>1. Stage(S, A, x, t, i) /\ Ahead(T, t, i) = Ahead(S, t, i)
    BY <1>7, <1>8
  <2>2. (t # "told" => Early(S[x], Ahead(S, t, i))) /\ Concerns(S, G, x, t, i)
    BY <2>1 DEF Exchange
  <2>3. CASE x # s
    BY <1>1, <1>6, <2>1, <2>2, <2>3 DEF Concerns, Stage
  <2>4. CASE x = s
    <3>1. T[x] = n
      BY <1>1, <2>4
    <3>2. Concerns(T, G, x, t, i)
      BY <1>3, <3>1 DEF Concerns
    <3>3. Ahead(S, t, i) \in Nat
      BY <2>1, AheadType
    <3>4. ASSUME t # "told" PROVE Early(n, Ahead(S, t, i))
      <4>1. Early(m, Ahead(S, t, i))
        BY <2>2, <2>4, <3>4
      <4> QED
        BY <1>2, <1>3, <3>3, <4>1, EarlyKept
    <3> QED
      BY <2>1, <3>1, <3>2, <3>4
  <2> QED
    BY <2>3, <2>4
<1>9. Remembered(T, G, x)
  <2>1. Remembered(S, G, x) /\ S[x] \in StationType
    BY DEF Exchange, Setting
  <2>2. CASE x # s
    BY <1>1, <1>6, <2>1, <2>2 DEF Remembered
  <2>3. CASE x = s
    <3>1. \A u \in Station : <<x, T[x].seq>> \notin T[u].cache
      BY <1>1, <1>5, <1>6, <2>3
    <3> QED
      BY <3>1 DEF Remembered
  <2> QED
    BY <2>2, <2>3
<1>10. Exchange(T, A, G, x)
  <2>1. \A t, i, u, j : Stage(T, A, x, t, i) /\ Stage(T, A, x, u, j) => t = u /\ i = j
    BY <1>7 DEF Exchange
  <2> QED
    BY <1>8, <1>9, <2>1 DEF Exchange
<1> QED
  BY <1>4, <1>10 DEF T

(* The clock moves on by d. *)
LEMMA ElapsedPace ==
  ASSUME NEW m, Poised(m), NEW d \in Nat, d > 0, \A t \in Timers(m) : d <= t,
         NEW n, n = Elapsed(m, d)
  PROVE  /\ Poised(n) /\ n.me = m.me /\ n.txs = m.txs /\ n.tx = m.tx /\ n.seq = m.seq
         /\ n.cache = m.cache /\ n.rx = m.rx
         /\ \A x : /\ Hearing(n, x) <=> Hearing(m, x)
                   /\ Owes(n, x) <=> Owes(m, x)
                   /\ Hearing(m, x) => Longer(n.recv, Busy(n)) = Longer(m.recv, Busy(m)) - d
                   /\ Owes(m, x) => Wait(n) = Wait(m) - d
         /\ Told(n) <=> Told(m)
         /\ \A y \in Nat : y - d \in Nat /\ Early(m, y) => Early(n, y - d)
<1>0. m \in StationType /\ Sound(m) /\ Measured(m)
  BY DEF Poised, Ready, Sound
<1>1. /\ m.send \in Ticks /\ m.defer \in Ticks /\ m.ifc \in Ticks
      /\ m.recv \in Ticks /\ m.backoff \in Ticks
  BY <1>0 DEF StationType
<1>2. /\ Ready(n) /\ SameTask(n, m) /\ SameRecord(n, m)
      /\ n.txs = m.txs /\ n.rxs = m.rxs /\ n.rx = m.rx /\ n.active = m.active
  BY TimePasses DEF Poised
<1>3. /\ n.send = Later(m.send, d) /\ n.defer = Later(m.defer, d) /\ n.ifc = Later(m.ifc, d)
      /\ n.recv = Later(m.recv, d)
      /\ n.backoff = IF m.paused THEN m.backoff ELSE Later(m.backoff, d)
  BY <1>0 DEF Elapsed, StationType
<1>4. /\ m.send # Off => d <= m.send
      /\ m.defer # Off => d <= m.defer
      /\ m.ifc # Off => d <= m.ifc
      /\ m.recv # Off => d <= m.recv
      /\ m.backoff # Off /\ ~m.paused => d <= m.backoff
  BY DEF Timers
<1>5. /\ m.txs # "IDLE" => m.send # Off
      /\ m.active => m.ifc # Off
      /\ Clear(m) => m.recv # Off
      /\ m.ctrl # NoFrame /\ m.txs = "IDLE" => m.defer # Off
  BY <1>0 DEF Sound, Sends, Speaks, Hears, Answers, Clear
<1>6. /\ Clear(n) <=> Clear(m)
      /\ Talks(n) <=> Talks(m)
      /\ n.ctrl = m.ctrl /\ n.me = m.me
  BY <1>2 DEF Clear, Talks, SameTask
<1>7. Measured(n)
  <2>1. Talks(n) => n.send <= AckWindow + (IF n.active THEN n.ifc ELSE 0)
    <3>1. AckWindow \in Nat
      BY RadioConstants DEF AckWindow, SIFS, DIFS, SlotTime
    <3> QED
      BY <1>0, <1>1, <1>2, <1>3, <1>4, <1>5, <1>6, <3>1
         DEF Measured, Talks, Later, Ticks, Off
  <2>2. n.ctrl # NoFrame /\ n.txs = "IDLE" => n.defer <= SIFS
    BY <1>0, <1>1, <1>2, <1>3, <1>4, <1>6 DEF Measured, Later, Ticks, Off, SIFS
  <2> QED
    BY <1>0, <1>2, <1>6, <2>1, <2>2 DEF Measured
<1>8. ASSUME NEW x
      PROVE  /\ Hearing(n, x) <=> Hearing(m, x)
             /\ Owes(n, x) <=> Owes(m, x)
             /\ Hearing(m, x) => Longer(n.recv, Busy(n)) = Longer(m.recv, Busy(m)) - d
             /\ Owes(m, x) => Wait(n) = Wait(m) - d
  <2>1. Hearing(n, x) <=> Hearing(m, x)
    BY <1>2, <1>6 DEF Hearing
  <2>2. Owes(n, x) <=> Owes(m, x)
    BY <1>2, <1>6 DEF Owes
  <2>3. Hearing(m, x) => Longer(n.recv, Busy(n)) = Longer(m.recv, Busy(m)) - d
    BY <1>1, <1>3, <1>4, <1>5, <1>6 DEF Hearing, Longer, Busy, Talks, Later, Ticks, Off
  <2>4. Owes(m, x) => Wait(n) = Wait(m) - d
    BY <1>1, <1>2, <1>3, <1>4, <1>5 DEF Owes, Wait, Later, Ticks, Off, SIFS, NoFrame
  <2> QED
    BY <2>1, <2>2, <2>3, <2>4
<1>9. ASSUME NEW y \in Nat, y - d \in Nat, Early(m, y)
      PROVE  Early(n, y - d)
  <2>1. CASE m.txs = "SEND"
    BY <1>1, <1>2, <1>3, <1>4, <1>5, <1>9, <2>1 DEF Early, Later, Ticks, Off, SIFS
  <2>2. CASE m.txs # "SEND"
    BY <1>1, <1>2, <1>3, <1>4, <1>9, <2>2 DEF Early, Later, Ticks, Off, SIFS
  <2> QED
    BY <2>1, <2>2
<1>10. Told(n) <=> Told(m)
  BY <1>2, <1>6 DEF Told
<1> QED
  BY <1>2, <1>6, <1>7, <1>8, <1>9, <1>10 DEF Poised, SameTask, SameRecord

LEMMA LeapExchange ==
  ASSUME NEW S, NEW A, Setting(S, A), NEW d \in Nat, d > 0, \A c \in A : d <= c.left,
         NEW T \in [Station -> StationType],
         \A s \in Station : T[s] = Elapsed(S[s], d) /\ \A t \in Timers(S[s]) : d <= t,
         NEW G
  PROVE  /\ Setting(T, Nearer(A, d))
         /\ \A x \in Station : Exchange(S, A, G, x) => Exchange(T, Nearer(A, d), G, x)
<1> DEFINE sooner(c) == [c EXCEPT !.left = @ - d]
           B == Nearer(A, d)
           before(u, j, i) == IF u \in {"data", "answer"} THEN i \in A /\ j = sooner(i)
                              ELSE j = i
<1>1. ASSUME NEW c \in A
      PROVE  /\ sooner(c) \in Copy /\ sooner(c).at = c.at /\ sooner(c).frame = c.frame
             /\ sooner(c).left = c.left - d /\ c.left \in Nat /\ Proper(c.frame)
  <2>1. c \in Copy /\ d <= c.left /\ Proper(c.frame)
    BY DEF Setting
  <2> QED
    BY <2>1 DEF Copy
<1>2. \A b \in B : \E c \in A : b = sooner(c)
  BY DEF Nearer
<1> HIDE DEF sooner, B
<1>3. \A b \in B : b \in Copy /\ Proper(b.frame)
  BY <1>1, <1>2
<1>4. ASSUME NEW s \in Station
      PROVE  LET n == T[s]
                 m == S[s]
             IN  /\ Poised(n) /\ n.me = m.me /\ n.txs = m.txs /\ n.tx = m.tx /\ n.seq = m.seq
                 /\ n.cache = m.cache /\ n.rx = m.rx
                 /\ \A x : /\ Hearing(n, x) <=> Hearing(m, x)
                           /\ Owes(n, x) <=> Owes(m, x)
                           /\ Hearing(m, x) =>
                                Longer(n.recv, Busy(n)) = Longer(m.recv, Busy(m)) - d
                           /\ Owes(m, x) => Wait(n) = Wait(m) - d
                 /\ Told(n) <=> Told(m)
                 /\ \A y \in Nat : y - d \in Nat /\ Early(m, y) => Early(n, y - d)
  <2>1. Poised(S[s]) /\ T[s] = Elapsed(S[s], d) /\ \A t \in Timers(S[s]) : d <= t
    BY DEF Setting
  <2> QED
    BY <2>1, ElapsedPace
<1>5. Setting(T, B)
  BY <1>3, <1>4 DEF Setting
<1>6. ASSUME NEW x \in Station, NEW u, NEW j, Stage(T, B, x, u, j)
      PROVE  \E i : /\ Stage(S, A, x, u, i) /\ before(u, j, i)
                    /\ u # "told" => Ahead(T, u, j) = Ahead(S, u, i) - d
  <2>0. Prop \in Nat /\ AckWindow \in Nat
    BY ChannelConstants, RadioConstants DEF AckWindow, SIFS, DIFS, SlotTime
  <2>1. CASE u = "data"
    <3>1. PICK c \in A : j = sooner(c)
      BY <1>2, <1>6, <2>1 DEF Stage
    <3>2. Stage(S, A, x, u, c)
      BY <1>1, <1>6, <2>1, <3>1 DEF Stage
    <3>3. Longer(Airtime(c.frame), AckWindow) \in Nat
      BY <1>1, <2>0, AirtimeType DEF Longer
    <3>4. Ahead(T, u, j) = Ahead(S, u, c) - d
      BY <1>1, <2>0, <2>1, <3>1, <3>3 DEF Ahead, SIFS
    <3> QED
      BY <2>1, <3>1, <3>2, <3>4
  <2>2. CASE u = "heard"
    <3>1. Stage(S, A, x, u, j) /\ j \in Station
      BY <1>4, <1>6, <2>2 DEF Stage
    <3>2. Hearing(S[j], x) /\ S[j].recv \in Nat /\ Busy(S[j]) \in Nat
      BY <2>2, <3>1, WaitType DEF Stage, Setting
    <3>3. Longer(T[j].recv, Busy(T[j])) = Longer(S[j].recv, Busy(S[j])) - d
          /\ Longer(S[j].recv, Busy(S[j])) \in Nat
      BY <1>4, <3>1, <3>2 DEF Longer
    <3>4. Ahead(T, u, j) = Ahead(S, u, j) - d
      BY <2>0, <2>2, <3>3 DEF Ahead, SIFS
    <3> QED
      BY <2>2, <3>1, <3>4
  <2>3. CASE u = "owed"
    <3>1. Stage(S, A, x, u, j) /\ j \in Station
      BY <1>4, <1>6, <2>3 DEF Stage
    <3>2. Owes(S[j], x) /\ Wait(S[j]) \in Nat
      BY <2>3, <3>1, WaitType DEF Stage, Setting
    <3>3. Ahead(T, u, j) = Ahead(S, u, j) - d
      BY <1>4, <2>0, <2>3, <3>1, <3>2 DEF Ahead
    <3> QED
      BY <2>3, <3>1, <3>3
  <2>4. CASE u = "answer"
    <3>1. PICK c \in A : j = sooner(c)
      BY <1>2, <1>6, <2>4 DEF Stage
    <3>2. Stage(S, A, x, u, c)
      BY <1>1, <1>6, <2>4, <3>1 DEF Stage
    <3>3. Ahead(T, u, j) = Ahead(S, u, c) - d
      BY <1>1, <2>4, <3>1 DEF Ahead
    <3> QED
      BY <2>4, <3>1, <3>2, <3>3
  <2>5. CASE u = "told"
    <3>1. Stage(S, A, x, u, j)
      BY <1>4, <1>6, <2>5 DEF Stage
    <3> QED
      BY <2>5, <3>1
  <2> QED
    BY <1>6, <2>1, <2>2, <2>3, <2>4, <2>5 DEF Stage
<1>7. ASSUME NEW x \in Station, Exchange(S, A, G, x)
      PROVE  Exchange(T, B, G, x)
  <2>1. ASSUME NEW t, NEW i, NEW u, NEW j, Stage(T, B, x, t, i), Stage(T, B, x, u, j)
        PROVE  t = u /\ i = j
    <3>1. PICK a : Stage(S, A, x, t, a) /\ before(t, i, a)
      BY <1>6, <2>1
    <3>2. PICK b : Stage(S, A, x, u, b) /\ before(u, j, b)
      BY <1>6, <2>1
    <3>3. t = u /\ a = b
      BY <1>7, <3>1, <3>2 DEF Exchange
    <3> QED
      BY <3>1, <3>2, <3>3
  <2>2. ASSUME NEW u, NEW j, Stage(T, B, x, u, j)
        PROVE  (u # "told" => Early(T[x], Ahead(T, u, j))) /\ Concerns(T, G, x, u, j)
    <3>1. PICK i : /\ Stage(S, A, x, u, i) /\ before(u, j, i)
                   /\ u # "told" => Ahead(T, u, j) = Ahead(S, u, i) - d
      BY <1>6, <2>2
    <3>2. (u # "told" => Early(S[x], Ahead(S, u, i))) /\ Concerns(S, G, x, u, i)
      BY <1>7, <3>1 DEF Exchange
    <3>3. Ahead(S, u, i) \in Nat /\ Ahead(T, u, j) \in Nat
      BY <1>5, <2>2, <3>1, AheadType
    <3>4. ASSUME u # "told" PROVE Early(T[x], Ahead(T, u, j))
      <4>1. Ahead(T, u, j) = Ahead(S, u, i) - d /\ Early(S[x], Ahead(S, u, i))
        BY <3>1, <3>2, <3>4
      <4> QED
        BY <1>4, <3>3, <4>1
    <3>5. u = "heard" => j = i /\ i \in Station /\ T[i].rx = S[i].rx
      BY <1>4, <3>1 DEF Stage
    <3>6. u = "data" => j.frame = i.frame
      BY <1>1, <3>1
    <3>7. T[x].txs = S[x].txs /\ T[x].tx = S[x].tx /\ T[x].seq = S[x].seq
      BY <1>4
    <3>8. Concerns(T, G, x, u, j)
      BY <3>2, <3>5, <3>6, <3>7 DEF Concerns
    <3> QED
      BY <3>4, <3>8
  <2>3. Remembered(T, G, x)
    BY <1>4, <1>7 DEF Exchange, Remembered
  <2> QED
    BY <2>1, <2>2, <2>3 DEF Exchange
<1> QED
  BY <1>5, <1>7 DEF B

-----------------------------------------------------------------------------
Reliable == /\ \A s \in Station : Measured(st[s])
            /\ \A x \in Station : Exchange(st, air, got, x)

(* The number of the packet that comes next is remembered nowhere. *)
Unspent == \A s, u \in Station :
             LET q == (st[s].seq + 1) % SeqSpace
             IN  q # st[s].seq /\ <<s, q>> \notin st[u].cache

LEMMA ReliableSetting ==
  ASSUME Inv, \A s \in Station : Measured(st[s])
  PROVE  Setting(st, air)
BY DEF Inv, Stations, Channel, Setting, Poised

LEMMA InitReliable ==
  ASSUME Init
  PROVE  Reliable
<1>1. air = {} /\ got = {} /\ st = [s \in Station |-> Station0(s)]
  BY DEF Init
<1>2. \A s \in Station : /\ st[s].txs = "IDLE" /\ st[s].rxs = "IDLE"
                         /\ st[s].ctrl = NoFrame /\ st[s].cache = {}
  BY <1>1 DEF Station0
<1>3. \A s \in Station : Measured(st[s])
  BY <1>2 DEF Measured, Talks, Clear
<1>4. ASSUME NEW x \in Station
      PROVE  Exchange(st, air, got, x)
  <2>1. \A t, i : ~Stage(st, air, x, t, i)
    BY <1>1, <1>2 DEF Stage, Hearing, Owes, Told, Clear, NoFrame
  <2>2. Remembered(st, got, x)
    BY <1>2 DEF Remembered
  <2> QED
    BY <2>1, <2>2 DEF Exchange
<1> QED
  BY <1>3, <1>4 DEF Reliable

LEMMA BecomesReliable ==
  ASSUME ShortHops, Inv, Reliable, Unspent, NEW s \in Station, NEW n, NEW a,
         Moves(st, air, s, n, a), NEW how, Becomes(s, n, a, how), due' = due
  PROVE  Reliable'
<1> DEFINE T == After(st, s, n)
<1>0. Setting(st, air)
  BY ReliableSetting DEF Reliable
<1>1. air' = a \cup Copies(n.out) /\ got' = PassedUp(got, s, n)
  BY DEF Becomes, PassedUp
<1> HIDE DEF T
<1>2. T = After(st, s, n)
  BY DEF T
<1>3. /\ Setting(T, a \cup Copies(n.out))
      /\ T[s] = Cleared(n) /\ \A w \in Station \ {s} : T[w] = st[w]
      /\ SameTask(T[s], n) /\ SameEar(T[s], n) /\ SameState(T[s], n)
      /\ T[s].cache = n.cache
  BY <1>0, <1>2, EventSetting
<1>4. \A x \in Station : Exchange(T, air', got', x)
  <2>1. ASSUME NEW x \in Station PROVE Exchange(T, air', got', x)
    <3>1. Exchange(st, air, got, x)
      BY DEF Reliable
    <3> QED
      BY <1>0, <1>1, <1>2, <3>1, EventExchange
  <2> QED
    BY <2>1
<1>5. /\ Stations' /\ \A u \in Station \ {s} : st'[u] = st[u]
      /\ st'[s] = Cleared(n) \/ Takes(st'[s], Cleared(n), Head(queue[s]))
  BY BecomesSound DEF Moves
<1>6. st' \in [Station -> StationType] /\ T \in [Station -> StationType]
  BY <1>3, <1>5 DEF Stations, Setting
<1>7. CASE st'[s] = Cleared(n)
  <2>1. st' = T
    BY <1>3, <1>5, <1>6, <1>7
  <2>2. \A u \in Station : Measured(st'[u])
    BY <1>3, <2>1 DEF Setting, Poised
  <2> QED
    BY <1>4, <2>1, <2>2 DEF Reliable
<1>8. CASE Takes(st'[s], Cleared(n), Head(queue[s]))
  <2>1. st' = [T EXCEPT ![s] = st'[s]] /\ st'[s] \in StationType
    BY <1>3, <1>5, <1>6
  <2>2. \A u \in Station : <<s, (T[s].seq + 1) % SeqSpace>> \notin T[u].cache
    <3> DEFINE q == (st[s].seq + 1) % SeqSpace
    <3>1. T[s].seq = st[s].seq
      BY <1>3 DEF Moves, Advances, SameTask
    <3>2. q # st[s].seq /\ \A u \in Station : <<s, q>> \notin st[u].cache
      BY DEF Unspent
    <3> HIDE DEF q
    <3>3. <<s, q>> \notin n.cache
      <4>1. SUFFICES ASSUME <<s, q>> \in n.cache PROVE FALSE
        OBVIOUS
      <4>2. Hearing(st[s], st[s].rx.from) /\ <<s, q>> = Entry(st[s].rx)
        BY <3>2, <4>1 DEF Moves, Paces
      <4>3. st[s].rx.from = s
        BY <4>2 DEF Entry
      <4>4. Entry(st[s].rx) = <<s, st[s].seq>>
        BY <1>0, <4>2, <4>3, HeardPacket DEF Reliable
      <4> QED
        BY <3>2, <4>2, <4>4
    <3>4. \A u \in Station : <<s, q>> \notin T[u].cache
      BY <1>3, <3>2, <3>3
    <3> QED
      BY <3>1, <3>4 DEF q
  <2>3. \A x \in Station : Measured(st'[s]) /\ Exchange([T EXCEPT ![s] = st'[s]], air', got', x)
    <3>1. Takes(st'[s], T[s], Head(queue[s])) /\ Setting(T, air')
      BY <1>1, <1>3, <1>8
    <3>2. ASSUME NEW x \in Station
          PROVE  Measured(st'[s]) /\ Exchange([T EXCEPT ![s] = st'[s]], air', got', x)
      BY <1>4, <2>1, <2>2, <3>1, TakeExchange
    <3> QED
      BY <3>2
  <2>4. \A u \in Station : Measured(st'[u])
    BY <1>3, <1>5, <2>3 DEF Setting, Poised
  <2> QED
    BY <2>1, <2>3, <2>4 DEF Reliable
<1> QED
  BY <1>5, <1>7, <1>8

LEMMA OfferReliable ==
  ASSUME Inv, Reliable, Unspent, NEW p \in DOMAIN due, Offer(p)
  PROVE  Reliable'
<1> DEFINE s == p.from
           q == Append(queue[s], p)
<1>1. s \in Station /\ Setting(st, air)
  <2>1. p \in Packet
    BY DEF Inv, Traffic
  <2> QED
    BY <2>1, ReliableSetting DEF Packet, Reliable
<1>2. /\ Ready(st[s]) /\ st[s].me = s /\ st[s].tx \in DOMAIN due \cup {NoPkt}
      /\ q \in Seq(DOMAIN due) /\ Traffic /\ Stations
  BY <1>1 DEF Inv, Stations, Traffic
<1>3. Polled(s, st[s], q) /\ air' = air /\ got' = got
  BY DEF Offer
<1> HIDE DEF q
<1>4. /\ st' \in [Station -> StationType]
      /\ \A u \in Station \ {s} : st'[u] = st[u]
      /\ st'[s] = st[s] \/ Takes(st'[s], st[s], Head(q))
  BY <1>1, <1>2, <1>3, PolledReady
<1>5. st \in [Station -> StationType]
  BY <1>2 DEF Stations
<1>6. CASE st'[s] = st[s]
  <2>1. st' = st
    BY <1>4, <1>5, <1>6
  <2> QED
    BY <1>3, <2>1 DEF Reliable
<1>7. CASE Takes(st'[s], st[s], Head(q))
  <2>1. st' = [st EXCEPT ![s] = st'[s]] /\ st'[s] \in StationType
    BY <1>1, <1>4, <1>5
  <2>2. /\ \A u \in Station : <<s, (st[s].seq + 1) % SeqSpace>> \notin st[u].cache
        /\ \A x \in Station : Exchange(st, air, got, x)
    BY <1>1 DEF Unspent, Reliable
  <2>3. \A x \in Station : Measured(st'[s]) /\ Exchange([st EXCEPT ![s] = st'[s]], air, got, x)
    BY <1>1, <1>7, <2>1, <2>2, TakeExchange
  <2>4. \A u \in Station : Measured(st'[u])
    BY <1>4, <2>3 DEF Reliable
  <2> QED
    BY <1>3, <2>1, <2>3, <2>4 DEF Reliable
<1> QED
  BY <1>4, <1>6, <1>7

LEMMA LeapReliable ==
  ASSUME Inv, Reliable, Leap
  PROVE  Reliable'
<1>1. PICK d \in Nat : LeapsBy(d)
  BY LeapMeasured
<1>2. Setting(st, air)
  BY ReliableSetting DEF Reliable
<1>3. st' \in [Station -> StationType]
  BY LeapSound DEF Inv, Stations
<1>4. /\ d > 0 /\ \A c \in air : d <= c.left
      /\ \A s \in Station : st'[s] = Elapsed(st[s], d) /\ \A t \in Timers(st[s]) : d <= t
      /\ air' = Nearer(air, d) /\ got' = got
  BY <1>1 DEF LeapsBy, Nearer
<1>5. /\ Setting(st', air')
      /\ \A x \in Station : Exchange(st, air, got, x) => Exchange(st', air', got, x)
  BY <1>2, <1>3, <1>4, LeapExchange
<1> QED
  BY <1>4, <1>5 DEF Reliable, Setting, Poised

(* The frame c arrives, or fades, at a station, which is left as n. *)
LEMMA ArrivalMoves ==
  ASSUME Inv, Reliable, NEW c \in air, Arrive(c)
  PROVE  \E n : /\ Becomes(c.at, n, air \ {c}, "none")
                /\ Moves(st, air, c.at, n, air \ {c})
<1> DEFINE m == st[c.at]
           a == air \ {c}
           F == {e.frame : e \in {k \in air \ a : k.at = c.at /\ k.left = 0}}
<1>1. c.at \in Station /\ Proper(c.frame) /\ c.frame \in Frame /\ ~Quiet /\ c.left = 0
  BY DEF Inv, Channel, Copy, Arrive, Quiet
<1>2. /\ Ready(m) /\ Poised(m)
      /\ m.txs = "SEND" /\ ~Unicast(m.tx) => m.active
  BY <1>1 DEF Inv, Stations, Hushed, Reliable, Poised
<1>3. c.frame \in F
  BY <1>1
<1> HIDE DEF F
<1>4. ASSUME NEW f, Proper(f), f = c.frame \/ f.err, Becomes(c.at, recv(m, f), a, "none")
      PROVE  \E n : Becomes(c.at, n, a, "none") /\ Moves(st, air, c.at, n, a)
  <2>1. Sound(recv(m, f)) /\ Advances(recv(m, f), m)
    BY <1>2, <1>4, ArrivalHandled
  <2>2. Paces(recv(m, f), m, {f})
    BY <1>2, <1>4, ArrivalPaced
  <2>3. Paces(recv(m, f), m, F)
    BY <1>3, <1>4, <2>2, PacesMore
  <2> QED
    BY <1>4, <2>1, <2>3 DEF Moves, F
<1>5. CASE Becomes(c.at, m, a, "none")
  <2>1. Sound(m) /\ Advances(m, m)
    BY <1>2 DEF Ready, Advances
  <2>2. Paces(m, m, F)
    BY <1>2, StillPaced, PacesMore
  <2> QED
    BY <1>5, <2>1, <2>2 DEF Moves, F
<1>6. Proper(Spoilt(c)) /\ Spoilt(c).err
  BY <1>1 DEF Spoilt, Proper, Frame
<1> QED
  BY <1>1, <1>4, <1>5, <1>6 DEF Arrive

(* A timer of station s expires, which is left as n; a packet is lost from *)
(* sight as acknowledged for an ACK only.                                  *)
ExpiryMoves(s, n, how) ==
  /\ Becomes(s, n, air, how) /\ Moves(st, air, s, n, air)
  /\ how = "acked" => n.tx = st[s].tx \/ (st[s].txs = "SEND" /\ Told(st[s]))

LEMMA ExpiryPaced ==
  ASSUME Inv, Reliable, NEW s \in Station, Expiry(s)
  PROVE  \E n, how : ExpiryMoves(s, n, how)
<1> DEFINE m == st[s]
<1>1. Poised(m) /\ Ready(m) /\ (m.tx # NoPkt /\ m.tx.kind = "beacon" => ~Unicast(m.tx))
  BY DEF Inv, Stations, Traffic, Reliable, Poised
<1>2. Rand \subseteq Nat /\ Broadcast \notin Station
  BY ChannelConstants
<1>0. ASSUME NEW n, NEW how, Becomes(s, n, air, how), Sound(n), Advances(n, m),
             Paces(n, m, {}),
             how = "acked" => n.tx = m.tx \/ (m.txs = "SEND" /\ Told(m))
      PROVE  ExpiryMoves(s, n, how)
  <2>1. {c.frame : c \in {e \in air \ air : e.at = s /\ e.left = 0}} = {}
    OBVIOUS
  <2>2. Moves(st, air, s, n, air)
    BY <1>0, <2>1 DEF Moves
  <2> QED
    BY <1>0, <2>2 DEF ExpiryMoves
<1>3. CASE NavExpires(s)
  <2> DEFINE n == navHandler([m EXCEPT !.nav = Off])
  <2>1. Handled(n, m) /\ Paces(n, m, {}) /\ Becomes(s, n, air, "none")
    BY <1>1, <1>3, NavHandled, NavPaced DEF NavExpires
  <2> HIDE DEF n
  <2> QED
    BY <1>0, <2>1 DEF Handled
<1>4. CASE DeferExpires(s)
  <2>1. PICK r \in Rand :
          Becomes(s, deferHandler([m EXCEPT !.defer = Off], r), air, "none")
    BY <1>4 DEF DeferExpires
  <2> DEFINE n == deferHandler([m EXCEPT !.defer = Off], r)
  <2>2. Handled(n, m) /\ Paces(n, m, {})
    BY <1>1, <1>2, <1>4, DeferHandled, DeferPaced DEF DeferExpires
  <2>3. Becomes(s, n, air, "none")
    BY <2>1
  <2> HIDE DEF n
  <2> QED
    BY <1>0, <2>2, <2>3 DEF Handled
<1>5. CASE BackoffExpires(s)
  <2>1. PICK r \in Rand :
          Becomes(s, backoffHandler([m EXCEPT !.backoff = Off], r), air, "none")
    BY <1>5 DEF BackoffExpires
  <2> DEFINE n == backoffHandler([m EXCEPT !.backoff = Off], r)
  <2>2. Handled(n, m) /\ Paces(n, m, {})
    BY <1>1, <1>2, <1>5, BackoffHandled, BackoffPaced DEF BackoffExpires
  <2>3. Becomes(s, n, air, "none")
    BY <2>1
  <2> HIDE DEF n
  <2> QED
    BY <1>0, <2>2, <2>3 DEF Handled
<1>6. CASE SendExpires(s)
  <2>1. PICK r \in Rand, space \in {SIFS, DIFS} :
          Becomes(s, sendHandler([m EXCEPT !.send = Off], r, space), air,
                  IF m.tx # NoPkt /\ Unicast(m.tx) THEN "given up" ELSE "sent")
    BY <1>6 DEF SendExpires
  <2> DEFINE n == sendHandler([m EXCEPT !.send = Off], r, space)
  <2>2. Handled(n, m) /\ Paces(n, m, {})
    BY <1>1, <1>2, <1>6, SendHandled, SendPaced DEF SendExpires
  <2> DEFINE how == IF m.tx # NoPkt /\ Unicast(m.tx) THEN "given up" ELSE "sent"
  <2>3. Becomes(s, n, air, how) /\ how # "acked"
    BY <2>1
  <2> HIDE DEF n, how
  <2> QED
    BY <1>0, <2>2, <2>3 DEF Handled
<1>7. CASE InterfaceExpires(s)
  <2> DEFINE n == txHandler([m EXCEPT !.ifc = Off])
  <2>1. Handled(n, m) /\ Paces(n, m, {}) /\ Becomes(s, n, air, "none")
    BY <1>1, <1>7, InterfaceHandled, InterfacePaced DEF InterfaceExpires
  <2> HIDE DEF n
  <2> QED
    BY <1>0, <2>1 DEF Handled
<1>8. CASE RecvExpires(s)
  <2>1. PICK r \in Rand, space \in {SIFS, DIFS}, stale \in Stale(m) :
          Becomes(s, recvHandler([m EXCEPT !.recv = Off], r, space, stale), air, "acked")
    BY <1>8 DEF RecvExpires
  <2> DEFINE n == recvHandler([m EXCEPT !.recv = Off], r, space, stale)
  <2>2. Sound(n) /\ Advances(n, m)
    BY <1>1, <1>2, <1>8, RecvHandled DEF RecvExpires
  <2>3. Paces(n, m, {}) /\ (n.tx = m.tx \/ (m.txs = "SEND" /\ Told(m)))
    BY <1>1, <1>2, <1>8, RecvPaced DEF RecvExpires
  <2>4. Becomes(s, n, air, "acked")
    BY <2>1
  <2> HIDE DEF n
  <2> QED
    BY <1>0, <2>2, <2>3, <2>4
<1> QED
  BY <1>3, <1>4, <1>5, <1>6, <1>7, <1>8 DEF Expiry

LEMMA StepReliable ==
  ASSUME ShortHops, Inv, Reliable, Unspent, [Next]_vars
  PROVE  Reliable' /\ (AckTruthful => AckTruthful')
<1>1. CASE \E p \in DOMAIN due : Offer(p)
  <2>1. fate' = fate /\ got' = got
    BY <1>1 DEF Offer
  <2> QED
    BY <1>1, <2>1, OfferReliable DEF AckTruthful
<1>2. CASE \E c \in air : Arrive(c)
  <2>1. PICK c \in air : Arrive(c)
    BY <1>2
  <2>2. PICK n : /\ Becomes(c.at, n, air \ {c}, "none")
                 /\ Moves(st, air, c.at, n, air \ {c})
    BY <2>1, ArrivalMoves
  <2>3. c.at \in Station /\ due' = due
    BY <2>1 DEF Arrive, Inv, Channel, Copy
  <2>4. Reliable'
    BY <2>2, <2>3, BecomesReliable
  <2>5. got \subseteq got' /\ DOMAIN fate' = DOMAIN fate
        /\ \A p \in DOMAIN fate : fate'[p] \in {fate[p], "none"}
    BY <2>2 DEF Becomes
  <2> QED
    BY <2>4, <2>5 DEF AckTruthful
<1>3. CASE \E s \in Station : Expiry(s)
  <2>1. PICK s \in Station : Expiry(s)
    BY <1>3
  <2>2. PICK n, how : ExpiryMoves(s, n, how)
    BY <2>1, ExpiryPaced
  <2>3. due' = due
    BY <2>1 DEF Expiry
  <2>4. Reliable'
    BY <2>2, <2>3, BecomesReliable DEF ExpiryMoves
  <2>5. got \subseteq got' /\ DOMAIN fate' = DOMAIN fate
        /\ \A p \in DOMAIN fate :
             \/ fate'[p] = fate[p]
             \/ p = st[s].tx /\ st[s].tx # NoPkt /\ n.tx = NoPkt /\ fate'[p] = how
    BY <2>2 DEF ExpiryMoves, Becomes
  <2>6. ASSUME how = "acked", st[s].tx # NoPkt, n.tx = NoPkt
        PROVE  <<st[s].tx.to, st[s].tx>> \in got
    <3>1. st[s].txs = "SEND" /\ Told(st[s])
      BY <2>2, <2>6 DEF ExpiryMoves
    <3>2. Stage(st, air, s, "told", s) /\ Exchange(st, air, got, s)
      BY <3>1 DEF Stage, Reliable
    <3>3. Concerns(st, got, s, "told", s)
      BY <3>2 DEF Exchange
    <3> QED
      BY <3>1, <3>3 DEF Concerns
  <2> QED
    BY <2>4, <2>5, <2>6 DEF AckTruthful
<1>4. CASE Leap
  <2>1. fate' = fate /\ got' = got
    BY <1>4 DEF Leap
  <2> QED
    BY <1>4, <2>1, LeapReliable DEF AckTruthful
<1>5. CASE UNCHANGED vars
  BY <1>5 DEF vars, Reliable, AckTruthful
<1> QED
  BY <1>1, <1>2, <1>3, <1>4, <1>5 DEF Next

(* A MAC that takes its packet for acknowledged is right, as long as no    *)
(* number is given again that a cache still holds, and the way to another  *)
(* station and back is shorter than a frame and than the wait for its ACK. *)
(* recvACK looks at nothing but the state of the MAC: that the ACK is the  *)
(* one for this packet is a matter of time.                                *)
THEOREM AcknowledgedArePassedUp == ShortHops /\ Spec /\ []Unspent => []AckTruthful
<1>1. Init => Reliable /\ AckTruthful
  <2>1. Init => AckTruthful
    BY DEF Init, AckTruthful
  <2> QED
    BY <2>1, InitReliable
<1>2. ShortHops /\ Inv /\ Unspent /\ Reliable /\ AckTruthful /\ [Next]_vars
        => Reliable' /\ AckTruthful'
  BY StepReliable
<1>3. CASE ShortHops
  <2>1. Inv /\ Unspent /\ Reliable /\ AckTruthful /\ [Next]_vars
          => Reliable' /\ AckTruthful'
    BY <1>2, <1>3
  <2> QED
    BY <1>1, <2>1, Invariance, PTL DEF Spec
<1>4. CASE ~ShortHops
  BY <1>4
<1> QED
  BY <1>3, <1>4
=============================================================================
