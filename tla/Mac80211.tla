------------------------------ MODULE Mac80211 ------------------------------
(***************************************************************************)
(* The 802.11 MAC of a mobile node (module/mac/mac-802_11-dcf.cc): carrier *)
(* sense, deferral and backoff, RTS/CTS, acknowledgements, retries, the    *)
(* network allocation vector, capture and duplicate detection.  As in      *)
(* Mac8023 a station is a record and every handler a function from the     *)
(* station it finds to the station it leaves; a timer is Off or the        *)
(* microseconds it still has to run, and reset before its call-out.  A     *)
(* handler that transmits leaves the frame in out, one that passes a       *)
(* packet up leaves it in up.                                              *)
(***************************************************************************)
EXTENDS Integers, FiniteSets

CONSTANTS Station,
          CtlTime,      \* CTS_Time and ACK_Time: both frames are 14 bytes long
          RtsTime,      \* RTS_Time
          DataTime,     \* DATA_Time of a packet of each size
          HdrTime,      \* what sizeof(struct hdr_mac802_11) adds to DATA_Time
          ShortLimit,   \* aShortRetryLimit
          LongLimit,    \* aLongRetryLimit
          CacheSize,    \* CACHE_SIZE
          SeqSpace,     \* sequence numbers, 4096
          Louder        \* <<s, a, b>>: at s a drowns b by CPThresh

(* A packet is long from aRTSThreshold on; at the edge is one that is long *)
(* only with its header.                                                   *)
Size == {"short", "edge", "long"}

ASSUME RadioConstants ==
  /\ {CtlTime, RtsTime, HdrTime} \subseteq Nat \ {0}
  /\ DataTime \in [Size -> Nat] /\ \A z \in Size : DataTime[z] > HdrTime
  /\ {ShortLimit, SeqSpace} \subseteq Nat \ {0} /\ {LongLimit, CacheSize} \subseteq Nat
  /\ Louder \subseteq Station \X Station \X Station

Off == -1
SIFS == 10
SlotTime == 20
DIFS == SIFS + 2 * SlotTime
EIFS == SIFS + DIFS + CtlTime
CWmin == 31
CWmax == 1023

Broadcast == "all"

(* What the modules above hand to the MAC. *)
Packet == [id : Nat \ {0}, from : Station, to : Station \cup {Broadcast},
           size : Size, kind : {"data", "management", "beacon"}]
NoPkt == [id |-> 0]
NoFrame == [type |-> "none"]   \* a frame is [type, from, to, dur, pkt, seq, retry, err]

TxState == {"IDLE", "RTS", "CTS", "SEND", "ACK"}
RxState == {"IDLE", "RECV", "COLL"}

Station0(s) ==
  [me |-> s, txs |-> "IDLE", rxs |-> "IDLE", active |-> FALSE,
   ctrl |-> NoFrame, rts |-> FALSE, tx |-> NoPkt, seq |-> 0, retry |-> FALSE, rx |-> NoFrame,
   nav |-> Off, send |-> Off, defer |-> Off, backoff |-> Off, paused |-> FALSE,
   ifc |-> Off, recv |-> Off,
   ssrc |-> 0, slrc |-> 0, cw |-> CWmin, cache |-> {},
   out |-> NoFrame, up |-> NoPkt, fault |-> FALSE]

(* assert(c) before going on to m. *)
Asserting(c, m) == IF c THEN m ELSE [m EXCEPT !.fault = TRUE]

-----------------------------------------------------------------------------
(* Frames *)

Unicast(p) == p.to # Broadcast

(* The sender compares the payload with the threshold, the receiver the    *)
(* whole packet.                                                           *)
Long(p) == p.size = "long"
LongWithHeader(p) == p.size \in {"edge", "long"}

Airtime(f) == CASE f.type = "RTS" -> RtsTime
                [] f.type \in {"CTS", "ACK"} -> CtlTime
                [] f.type = "DATA" -> DataTime[f.pkt.size]

Control(t, m, to, dur) ==
  [type |-> t, from |-> m.me, to |-> to, dur |-> dur, pkt |-> NoPkt, seq |-> 0,
   retry |-> FALSE, err |-> FALSE]

RTSFrame(m) == Control("RTS", m, m.tx.to,
                       3 * SIFS + 2 * CtlTime + DataTime[m.tx.size] - HdrTime)

DataFrame(m) ==
  [type |-> "DATA", from |-> m.me, to |-> m.tx.to,
   dur |-> IF Unicast(m.tx) THEN CtlTime + SIFS ELSE 0,
   pkt |-> m.tx, seq |-> m.seq, retry |-> m.retry, err |-> FALSE]

CTSTimeout == RtsTime + CtlTime + 2 * SIFS
ACKTimeout(p) == DataTime[p.size] + CtlTime + SIFS + DIFS

-----------------------------------------------------------------------------
(* Carrier sense and backoff *)

Idle(m) == m.rxs = "IDLE" /\ m.txs = "IDLE" /\ m.nav <= 0

(* CHECK_BACKOFF_TIMER *)
CheckBackoff_NeverPauses(m) ==
  IF Idle(m) /\ m.paused THEN [m EXCEPT !.paused = FALSE, !.backoff = @ + DIFS] ELSE m

CheckBackoff(m) ==
  IF Idle(m) /\ m.paused
  THEN [m EXCEPT !.paused = FALSE, !.backoff = @ + DIFS]
  ELSE IF ~Idle(m) /\ m.backoff # Off THEN [m EXCEPT !.paused = TRUE] ELSE m

SetTx(m, x) == CheckBackoff([m EXCEPT !.txs = x])
SetRx(m, x) == CheckBackoff([m EXCEPT !.rxs = x])

inc_CW(m) == [m EXCEPT !.cw = IF 2 * @ + 1 > CWmax THEN CWmax ELSE 2 * @ + 1]
rst_CW(m) == [m EXCEPT !.cw = CWmin]

set_NAV(m, d) == IF d > m.nav THEN [m EXCEPT !.nav = d] ELSE m

(* The space before the slots depends on the type of a frame. *)
Space(p) == IF p.kind = "data" THEN DIFS ELSE SIFS

start_backoff(m, space, r) ==
  [m EXCEPT !.backoff = (r % m.cw) * SlotTime + space, !.paused = ~Idle(m)]

navHandler(m) == IF Idle(m) /\ m.paused
                 THEN [m EXCEPT !.paused = FALSE, !.backoff = @ + DIFS] ELSE m

-----------------------------------------------------------------------------
(* Sending *)

sendRTS(m) == Asserting(m.tx # NoPkt /\ ~m.rts,
                        [m EXCEPT !.rts = @ \/ (Long(m.tx) /\ Unicast(m.tx))])

(* send as the layers above call it; it is refused while the MAC holds a   *)
(* packet.  r is what Random() gives.                                      *)
send(m, p, r) ==
  LET n == sendRTS([m EXCEPT !.tx = p, !.retry = FALSE, !.seq = (@ + 1) % SeqSpace])
  IN  IF n.backoff # Off THEN n
      ELSE IF ~Idle(n) THEN start_backoff(n, Space(p), r)
      ELSE IF n.defer # Off THEN n
      ELSE [n EXCEPT !.defer = (r % n.cw) * SlotTime + Space(p)]

(* A frame sent without sensing the medium spoils the one being received.  *)
transmit(m, f, timeout) ==
  LET n == [m EXCEPT !.active = TRUE, !.send = timeout, !.ifc = Airtime(f), !.out = f]
  IN  IF m.rxs = "IDLE" THEN n
      ELSE Asserting(f.type = "ACK" /\ m.rx # NoFrame, [n EXCEPT !.rx.err = TRUE])

tx_resume_TwoTimers(m) ==
  LET n == IF m.ctrl # NoFrame THEN [m EXCEPT !.defer = SIFS]
           ELSE IF m.rts \/ m.tx # NoPkt THEN [m EXCEPT !.defer = DIFS] ELSE m
  IN  SetTx(Asserting(m.send = Off, n), "IDLE")

tx_resume(m) ==
  LET dt == CASE m.ctrl # NoFrame -> SIFS
              [] m.ctrl = NoFrame /\ m.rts -> DIFS
              [] OTHER -> IF Long(m.tx) THEN SIFS ELSE DIFS
      n  == IF m.ctrl # NoFrame \/ ((m.rts \/ m.tx # NoPkt) /\ m.backoff = Off)
            THEN [m EXCEPT !.defer = dt] ELSE m
  IN  SetTx(Asserting(m.send = Off, n), "IDLE")

(* A CTS is not sent, but forgotten, when the medium is not idle. *)
check_pktCTRL(m) ==
  IF m.ctrl.type = "ACK" THEN transmit(SetTx(m, "ACK"), m.ctrl, CtlTime)
  ELSE IF Idle(m) THEN transmit(SetTx(m, "CTS"), m.ctrl, m.ctrl.dur + CtlTime)
  ELSE [m EXCEPT !.ctrl = NoFrame]

(* check_pktRTS, check_pktBEACON and check_pktTx, in this order. *)
check_own(m, r) ==
  CASE m.rts /\ ~Idle(m) -> start_backoff(inc_CW(m), DIFS, r)
    [] m.rts /\ Idle(m)  -> transmit(SetTx(m, "RTS"), RTSFrame(m), CTSTimeout)
    [] ~m.rts /\ m.tx # NoPkt /\ ~Idle(m) ->
         start_backoff(inc_CW(sendRTS(m)), Space(m.tx), r)
    [] ~m.rts /\ m.tx # NoPkt /\ Idle(m) ->
         transmit(SetTx(m, "SEND"), DataFrame(m),
                  IF Unicast(m.tx) THEN ACKTimeout(m.tx) ELSE DataTime[m.tx.size])
    [] ~m.rts /\ m.tx = NoPkt -> m

deferHandler(m, r) ==
  IF m.ctrl # NoFrame /\ m.txs \notin {"CTS", "ACK"} THEN check_pktCTRL(m)
  ELSE Asserting((m.ctrl # NoFrame \/ m.rts \/ m.tx # NoPkt) /\ m.backoff = Off,
                 check_own(m, r))

backoffHandler(m, r) ==
  IF m.ctrl # NoFrame THEN Asserting(m.send # Off \/ m.defer # Off, m)
  ELSE check_own(m, r)

txHandler(m) == [m EXCEPT !.active = FALSE]

-----------------------------------------------------------------------------
(* Retries *)

retransmitRTS(m, r) ==
  LET n == [m EXCEPT !.ssrc = @ + 1]
  IN  Asserting(m.rts /\ m.tx # NoPkt /\ m.backoff = Off,
        IF n.ssrc >= ShortLimit
        THEN rst_CW([n EXCEPT !.rts = FALSE, !.tx = NoPkt, !.ssrc = 0])
        ELSE start_backoff(inc_CW(n), DIFS, r))

retransmitDATA(m, r) ==
  LET n == IF Long(m.tx) THEN [m EXCEPT !.slrc = @ + 1] ELSE [m EXCEPT !.ssrc = @ + 1]
      over == IF Long(m.tx) THEN n.slrc > LongLimit ELSE n.ssrc > ShortLimit
  IN  Asserting(m.tx # NoPkt /\ ~m.rts /\ m.backoff = Off,
        IF over
        THEN rst_CW(IF Long(m.tx) THEN [n EXCEPT !.tx = NoPkt, !.slrc = 0]
                    ELSE [n EXCEPT !.tx = NoPkt, !.ssrc = 0])
        ELSE start_backoff(inc_CW(sendRTS([n EXCEPT !.retry = TRUE])), Space(m.tx), r))

(* The timer of the state the MAC is in has expired.  After a broadcast    *)
(* the type of the frame is read after the frame was freed: the space is   *)
(* either of the two.                                                      *)
sendHandler(m, r, space) ==
  tx_resume(
    CASE m.txs = "RTS" -> retransmitRTS(m, r)
      [] m.txs \in {"CTS", "ACK"} -> Asserting(m.ctrl # NoFrame, [m EXCEPT !.ctrl = NoFrame])
      [] m.txs = "SEND" /\ Unicast(m.tx) -> retransmitDATA(m, r)
      [] m.txs = "SEND" /\ ~Unicast(m.tx) ->
           start_backoff(rst_CW([m EXCEPT !.tx = NoPkt]), space, r)
      [] m.txs = "IDLE" -> m)

-----------------------------------------------------------------------------
(* Receiving *)

recvRTS(m, f) ==
  IF m.txs # "IDLE" \/ m.ctrl # NoFrame THEN m
  ELSE tx_resume([m EXCEPT !.ctrl = Control("CTS", m, f.from, f.dur - (CtlTime + SIFS)),
                           !.defer = Off])

recvCTS_NoResume(m) ==
  IF m.txs # "RTS" THEN m
  ELSE SetTx(rst_CW([m EXCEPT !.rts = FALSE, !.send = Off, !.ssrc = 0]), "IDLE")

recvCTS(m) ==
  IF m.txs # "RTS" THEN m
  ELSE Asserting(m.rts /\ m.tx # NoPkt,
         tx_resume(rst_CW([m EXCEPT !.rts = FALSE, !.send = Off, !.ssrc = 0])))

(* Whichever packet is at hand is taken for acknowledged.  The type of the *)
(* ACK, too, is read after it was freed.                                   *)
recvACK(m, r, space) ==
  IF m.txs # "SEND" THEN m
  ELSE LET n == [m EXCEPT !.tx = NoPkt, !.send = Off,
                          !.ssrc = IF Long(m.tx) THEN @ ELSE 0,
                          !.slrc = IF Long(m.tx) THEN 0 ELSE @]
       IN  Asserting(m.tx # NoPkt /\ m.tx.kind # "beacon" /\ m.backoff = Off,
             tx_resume(start_backoff(rst_CW(n), space, r)))

sendACK(m, to) == Asserting(m.ctrl = NoFrame, [m EXCEPT !.ctrl = Control("ACK", m, to, 0)])

(* update_dcache: a full cache loses entries that are older than 2 ms; any *)
(* set of them, stale, may be.                                             *)
update_dcache(m, e, stale) ==
  IF e \in m.cache THEN m
  ELSE IF Cardinality(m.cache) < CacheSize THEN [m EXCEPT !.cache = @ \cup {e}]
  ELSE IF stale = {} THEN m ELSE [m EXCEPT !.cache = (@ \ stale) \cup {e}]

(* Who is not ready to answer drops the frame. *)
Refuses(m, f) == IF LongWithHeader(f.pkt) THEN m.txs # "CTS" ELSE m.ctrl # NoFrame

(* A frame that was announced ends the wait for it, and resets the short   *)
(* retry count whatever it counted.                                        *)
Acknowledge(m, f) ==
  IF LongWithHeader(f.pkt)
  THEN Asserting(m.ctrl # NoFrame,
         tx_resume(sendACK(rst_CW([m EXCEPT !.ctrl = NoFrame, !.send = Off, !.ssrc = 0]),
                           f.from)))
  ELSE LET a == sendACK(m, f.from) IN IF a.send = Off THEN tx_resume(a) ELSE a

recvDATA_NoCache(m, f, stale) ==
  IF ~Unicast(f.pkt) THEN [m EXCEPT !.up = f.pkt]
  ELSE IF Refuses(m, f) THEN m
  ELSE [Acknowledge(m, f) EXCEPT !.up = f.pkt]

recvDATA_AnySender(m, f, stale) ==
  IF ~Unicast(f.pkt) THEN [m EXCEPT !.up = f.pkt]
  ELSE IF Refuses(m, f) THEN m
  ELSE LET n == update_dcache(Acknowledge(m, f), <<f.from, f.seq>>, stale)
       IN  IF f.retry /\ \E e \in m.cache : e[2] = f.seq THEN n ELSE [n EXCEPT !.up = f.pkt]

recvDATA(m, f, stale) ==
  IF ~Unicast(f.pkt) THEN [m EXCEPT !.up = f.pkt]
  ELSE IF Refuses(m, f) THEN m
  ELSE LET e == <<f.from, f.seq>>
           n == update_dcache(Acknowledge(m, f), e, stale)
       IN  IF f.retry /\ e \in m.cache THEN n ELSE [n EXCEPT !.up = f.pkt]

rx_resume(m) == SetRx(Asserting(m.recv = Off, [m EXCEPT !.rx = NoFrame]), "IDLE")

(* The frame has arrived as a whole. *)
recvHandler(m, r, space, stale) ==
  LET f == m.rx
      n == IF f.to # m.me THEN set_NAV(m, f.dur) ELSE m
  IN  rx_resume(
        IF m.active THEN m
        ELSE IF m.rxs = "COLL" \/ f.err THEN set_NAV(m, EIFS)
        ELSE IF f.to \notin {m.me, Broadcast} THEN n
        ELSE CASE f.type = "RTS"  -> recvRTS(n, f)
               [] f.type = "CTS"  -> recvCTS(n)
               [] f.type = "ACK"  -> recvACK(n, r, space)
               [] f.type = "DATA" -> recvDATA(n, f, stale))

(* The longer of two colliding frames is kept until it ends. *)
collision(m, f) ==
  LET n == IF m.rxs = "RECV" THEN SetRx(m, "COLL") ELSE m
  IN  Asserting(m.rx # NoFrame /\ m.recv # Off,
        IF Airtime(f) > m.recv THEN [n EXCEPT !.rx = f, !.recv = Airtime(f)] ELSE n)

capture(m, f) == set_NAV(m, Airtime(f) + EIFS)

(* recv: a frame f begins to arrive. *)
recv(m, f) ==
  LET g == [f EXCEPT !.err = @ \/ m.active]
  IN  IF m.rxs = "IDLE"
      THEN Asserting(m.rx = NoFrame,
             [SetRx(m, "RECV") EXCEPT !.rx = g, !.recv = Airtime(f)])
      ELSE IF <<m.me, m.rx.from, f.from>> \in Louder THEN capture(m, f)
      ELSE collision(m, g)
=============================================================================
