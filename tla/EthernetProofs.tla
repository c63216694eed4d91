--------------------------- MODULE EthernetProofs ---------------------------
(***************************************************************************)
(* Safety of the half-duplex Ethernet for any number of stations, any      *)
(* traffic and any timing: no assertion of the MAC, the fifo or the binder *)
(* fails, and no waiting packet is forgotten.  Each handler is a function  *)
(* from station to station, so the argument is a lemma for each: it takes  *)
(* a station that is Sound, one of its timers just reset, to one that is   *)
(* Settled, and polling the binder makes a settled station sound again.    *)
(* On top of that come the count of attempts (CInv) and the books of a     *)
(* station (QInv): its packets are a stock to whose end the layers above   *)
(* add and from whose head the wire takes.                                 *)
(***************************************************************************)
EXTENDS Ethernet, SequenceTheorems, TLAPS

StationType ==
  [mac : MacState, busy : BOOLEAN, retxCnt : Nat, pktRetx : Nat, pktRx : BOOLEAN,
   tx : Ticks, rx : Ticks, retx : Ticks, ifs : Ticks,
   mbq : Seq(Nat \ {0}), ifq : Seq(Nat \ {0}), fault : BOOLEAN]

Orderly(m) == /\ m \in StationType
              /\ ~m.fault
              /\ Len(m.mbq) <= MbqMaxLen
              /\ m.ifs <= IFS

(* A handler of the MAC is done with the station. *)
Settled(m) == Orderly(m) /\ TimersMatch(m)

(* The fifo has filled the binder. *)
Filled(m) == m.ifq # <<>> => m.mbq # <<>>

(* The binder has been polled. *)
Sound(m) == Settled(m) /\ InTurn(m) /\ (m.mbq # <<>> => Timers(m) # {Off})

SameMac(n, m) == /\ n.mac = m.mac /\ n.busy = m.busy /\ n.retxCnt = m.retxCnt
                 /\ n.pktRetx = m.pktRetx /\ n.pktRx = m.pktRx
                 /\ n.tx = m.tx /\ n.rx = m.rx /\ n.retx = m.retx /\ n.ifs = m.ifs

SameQueues(n, m) == n.mbq = m.mbq /\ n.ifq = m.ifq

-----------------------------------------------------------------------------
(* _send of a settled station that holds a packet leaves some timer on. *)
LEMMA SendSettled ==
  ASSUME NEW m, Settled(m), m.pktRetx # 0
  PROVE  /\ Settled(_send(m))
         /\ _send(m).pktRetx = m.pktRetx
         /\ SameQueues(_send(m), m)
         /\ Timers(_send(m)) # {Off}
<1>1. CASE Idle(m)
  <2> DEFINE n == [m EXCEPT !.mac = "IFS", !.ifs = IFS, !.busy = TRUE]
  <2>1. ~m.busy
    BY <1>1 DEF Idle, Settled, TimersMatch
  <2>2. _send(m) = n
    BY <1>1, <2>1 DEF _send, IFSScheduler, Asserting, Settled, Orderly, StationType
  <2>3. n \in StationType
    BY MacConstants DEF Settled, Orderly, StationType, Ticks, MacState
  <2>4. /\ n.mac = "IFS" /\ n.busy = TRUE /\ n.ifs = IFS /\ n.retxCnt = m.retxCnt
        /\ n.pktRetx = m.pktRetx /\ n.pktRx = m.pktRx /\ n.tx = m.tx /\ n.rx = m.rx
        /\ n.retx = m.retx /\ n.mbq = m.mbq /\ n.ifq = m.ifq /\ n.fault = m.fault
    BY DEF Settled, Orderly, StationType
  <2> HIDE DEF n
  <2>5. TimersMatch(n)
    BY <1>1, <2>4, MacConstants DEF Idle, Settled, TimersMatch, Off
  <2>6. Orderly(n)
    BY <2>3, <2>4, MacConstants DEF Settled, Orderly
  <2>7. Timers(n) # {Off}
    BY <2>4, MacConstants DEF Timers, Off
  <2> QED
    BY <2>2, <2>4, <2>5, <2>6, <2>7 DEF Settled, SameQueues
<1>2. CASE ~Idle(m)
  <2>1. _send(m) = m
    BY <1>2 DEF _send
  <2>2. Timers(m) # {Off}
    BY <1>2 DEF Idle, Settled, TimersMatch, Timers, Orderly, StationType, MacState
  <2> QED
    BY <2>1, <2>2 DEF SameQueues
<1> QED
  BY <1>1, <1>2

(* send, whether the MAC takes the packet or not. *)
LEMMA SendPacket ==
  ASSUME NEW m, Settled(m), NEW p \in Nat \ {0}
  PROVE  /\ Settled(send(m, p))
         /\ send(m, p).pktRetx # 0
         /\ SameQueues(send(m, p), m)
         /\ Timers(send(m, p)) # {Off}
<1>1. CASE Accepts(m)
  <2> DEFINE n == [m EXCEPT !.pktRetx = p]
  <2>1. n \in StationType
    BY DEF Settled, Orderly, StationType
  <2>2. /\ n.mac = m.mac /\ n.busy = m.busy /\ n.ifs = m.ifs /\ n.pktRetx = p
        /\ n.pktRx = m.pktRx /\ n.tx = m.tx /\ n.rx = m.rx /\ n.retx = m.retx
        /\ n.mbq = m.mbq /\ n.ifq = m.ifq /\ n.fault = m.fault
    BY DEF Settled, Orderly, StationType
  <2>3. send(m, p) = _send(n)
    BY <1>1 DEF send
  <2> HIDE DEF n
  <2>4. Settled(n)
    BY <2>1, <2>2 DEF Settled, Orderly, TimersMatch
  <2> QED
    BY <2>2, <2>3, <2>4, SendSettled DEF SameQueues
<1>2. CASE ~Accepts(m)
  BY <1>2, SendSettled DEF Accepts, send
<1> QED
  BY <1>1, <1>2

(* resume, once no other timer than that of the backoff is left. *)
LEMMA ResumeSettles ==
  ASSUME NEW m, Orderly(m), ~m.pktRx, m.rx = Off, m.tx = Off, m.ifs = Off,
         m.busy <=> m.retx # Off, m.retx # Off => m.pktRetx # 0
  PROVE  /\ Settled(resume(m)) /\ SameQueues(resume(m), m)
         /\ ~Stranded(resume(m))
<1> DEFINE n == [m EXCEPT !.mac = "IDLE"]
<1>1. n \in StationType
  BY DEF Orderly, StationType, MacState
<1>2. /\ n.mac = "IDLE" /\ n.busy = m.busy /\ n.ifs = m.ifs /\ n.pktRetx = m.pktRetx
      /\ n.pktRx = m.pktRx /\ n.tx = m.tx /\ n.rx = m.rx /\ n.retx = m.retx
      /\ n.mbq = m.mbq /\ n.ifq = m.ifq /\ n.fault = m.fault
  BY DEF Orderly, StationType
<1>3. resume(m) = IF n.pktRetx # 0 /\ n.retx = Off THEN _send(n) ELSE n
  BY DEF resume, Asserting
<1> HIDE DEF n
<1>4. Orderly(n)
  BY <1>1, <1>2 DEF Orderly
<1>5. TimersMatch(n)
  BY <1>2 DEF TimersMatch
<1>6. Settled(n) /\ SameQueues(n, m)
  BY <1>2, <1>4, <1>5 DEF Settled, SameQueues
<1>7. n.pktRetx # 0 => _send(n).pktRetx = n.pktRetx /\ Timers(_send(n)) # {Off}
  BY <1>6, SendSettled
<1>8. ~Stranded(resume(m))
  BY <1>3, <1>7 DEF Stranded, Timers
<1> QED
  BY <1>3, <1>6, <1>8, SendSettled DEF SameQueues

-----------------------------------------------------------------------------
(* The handlers of the four timers, each called with its own timer reset. *)

LEMMA TxSettles ==
  ASSUME NEW m, Settled(m), m.tx = 0
  PROVE  LET n == txHandler([m EXCEPT !.tx = Off])
         IN  Settled(n) /\ SameQueues(n, m) /\ ~Stranded(n)
<1> DEFINE n == [m EXCEPT !.tx = Off, !.busy = FALSE, !.retxCnt = 1, !.pktRetx = 0]
<1>1. n \in StationType
  BY DEF Settled, Orderly, StationType, Ticks
<1>2. /\ n.tx = Off /\ ~n.busy /\ n.pktRetx = 0 /\ n.mac = m.mac /\ n.ifs = m.ifs
      /\ n.rx = m.rx /\ n.retx = m.retx
      /\ n.pktRx = m.pktRx /\ n.mbq = m.mbq /\ n.ifq = m.ifq /\ n.fault = m.fault
  BY DEF Settled, Orderly, StationType
<1>3. m.pktRetx # 0 /\ m.ifs = Off /\ m.rx = Off /\ m.retx = Off /\ ~m.pktRx
  BY DEF Settled, TimersMatch, Off
<1>4. txHandler([m EXCEPT !.tx = Off]) = resume(n)
  <2> DEFINE a == [[m EXCEPT !.tx = Off] EXCEPT !.busy = FALSE]
  <2>1. retxReset(a) = n
    BY DEF retxReset, Settled, Orderly, StationType
  <2> QED
    BY <1>3, <2>1 DEF txHandler, Asserting, Settled, Orderly, StationType
<1> HIDE DEF n
<1>5. Orderly(n)
  BY <1>1, <1>2 DEF Settled, Orderly
<1>6. Settled(resume(n)) /\ SameQueues(resume(n), n) /\ ~Stranded(resume(n))
  BY <1>2, <1>3, <1>5, ResumeSettles
<1> QED
  BY <1>2, <1>4, <1>6 DEF SameQueues

LEMMA IFSSettles ==
  ASSUME NEW m, Settled(m), m.ifs = 0, NEW d \in Nat \ {0}
  PROVE  LET n == IFSHandler([m EXCEPT !.ifs = Off], d)
         IN  Settled(n) /\ SameQueues(n, m) /\ ~Stranded(n)
<1> DEFINE n == [m EXCEPT !.ifs = Off, !.mac = "SEND", !.tx = d, !.busy = TRUE]
<1>1. n \in StationType
  BY DEF Settled, Orderly, StationType, Ticks, MacState
<1>2. /\ n.ifs = Off /\ n.mac = "SEND" /\ n.tx = d /\ n.busy /\ n.rx = m.rx
      /\ n.retx = m.retx /\ n.pktRetx = m.pktRetx
      /\ n.pktRx = m.pktRx /\ n.mbq = m.mbq /\ n.ifq = m.ifq /\ n.fault = m.fault
  BY DEF Settled, Orderly, StationType
<1>3. m.pktRetx # 0 /\ m.mac = "IFS" /\ m.rx = Off /\ m.retx = Off /\ ~m.pktRx
  BY DEF Settled, TimersMatch, Off
<1>4. IFSHandler([m EXCEPT !.ifs = Off], d) = n
  BY <1>3 DEF IFSHandler, Asserting, Settled, Orderly, StationType
<1> HIDE DEF n
<1>5. Orderly(n)
  BY <1>1, <1>2, MacConstants DEF Settled, Orderly, Off
<1>6. TimersMatch(n)
  BY <1>2, <1>3 DEF TimersMatch, Off
<1>7. ~Stranded(n)
  BY <1>2 DEF Stranded, Timers, Off
<1> QED
  BY <1>2, <1>4, <1>5, <1>6, <1>7 DEF SameQueues, Settled

LEMMA RetxSettles ==
  ASSUME NEW m, Settled(m), m.retx = 0
  PROVE  LET n == retxHandler([m EXCEPT !.retx = Off])
         IN  Settled(n) /\ SameQueues(n, m) /\ ~Stranded(n)
<1> DEFINE n == [m EXCEPT !.retx = Off, !.busy = FALSE, !.retxCnt = @ + 1]
<1>0. m.retxCnt + 1 \in Nat
  BY DEF Settled, Orderly, StationType
<1>1. n \in StationType
  BY <1>0 DEF Settled, Orderly, StationType, Ticks
<1>2. /\ n.retx = Off /\ ~n.busy /\ n.mac = m.mac /\ n.ifs = m.ifs /\ n.tx = m.tx
      /\ n.rx = m.rx /\ n.pktRetx = m.pktRetx
      /\ n.pktRx = m.pktRx /\ n.mbq = m.mbq /\ n.ifq = m.ifq /\ n.fault = m.fault
  BY DEF Settled, Orderly, StationType
<1>3. m.pktRetx # 0 /\ m.busy /\ m.mac \in {"IDLE", "RECV"}
  BY DEF Settled, TimersMatch, Off
<1>4. retxHandler([m EXCEPT !.retx = Off]) = _send(n)
  BY <1>3 DEF retxHandler, Asserting, Settled, Orderly, StationType
<1> HIDE DEF n
<1>5. Orderly(n)
  BY <1>1, <1>2 DEF Settled, Orderly
<1>6. TimersMatch(n)
  BY <1>2, <1>3 DEF Settled, TimersMatch, Off
<1>7. Settled(_send(n)) /\ SameQueues(_send(n), n)
  BY <1>2, <1>3, <1>5, <1>6, SendSettled DEF Settled
<1>8. ~Stranded(_send(n))
  BY <1>2, <1>3, <1>5, <1>6, SendSettled DEF Settled, Stranded
<1> QED
  BY <1>2, <1>4, <1>7, <1>8 DEF SameQueues

-----------------------------------------------------------------------------
(* A frame that meets the station in each of its states. *)

LEMMA SendCollides ==
  ASSUME NEW m, Settled(m), m.mac = "SEND", NEW r \in Nat
  PROVE  /\ Settled(SendCollision(m, r)) /\ SameQueues(SendCollision(m, r), m)
         /\ ~Stranded(SendCollision(m, r))
<1>1. /\ m.tx # Off /\ m.busy /\ m.pktRetx # 0 /\ m.ifs = Off /\ m.rx = Off
      /\ m.retx = Off /\ ~m.pktRx
  BY DEF Settled, TimersMatch
<1> DEFINE c == [m EXCEPT !.tx = Off, !.busy = FALSE, !.mac = "IDLE"]
<1>2. c \in StationType
  BY DEF Settled, Orderly, StationType, Ticks, MacState
<1>3. /\ c.tx = Off /\ ~c.busy /\ c.mac = "IDLE" /\ c.ifs = m.ifs /\ c.rx = m.rx
      /\ c.retx = m.retx /\ c.pktRetx = m.pktRetx /\ c.pktRx = m.pktRx
      /\ c.mbq = m.mbq /\ c.ifq = m.ifq /\ c.fault = m.fault
  BY DEF Settled, Orderly, StationType
<1>4. SendCollision(m, r) = IF GivesUp(c) THEN resume(retxReset(c))
                            ELSE [c EXCEPT !.retx = r * Slot, !.busy = TRUE]
  BY <1>1, <1>3 DEF SendCollision, Asserting, retxScheduler
<1> HIDE DEF c
<1>5. CASE GivesUp(c)
  <2> DEFINE n == [c EXCEPT !.retxCnt = 1, !.pktRetx = 0]
  <2>1. n \in StationType
    BY <1>2 DEF StationType
  <2>2. /\ n.tx = c.tx /\ n.busy = c.busy /\ n.ifs = c.ifs /\ n.rx = c.rx
        /\ n.retx = c.retx /\ n.pktRetx = 0 /\ n.pktRx = c.pktRx
        /\ n.mbq = c.mbq /\ n.ifq = c.ifq /\ n.fault = c.fault
    BY <1>2 DEF StationType
  <2>3. SendCollision(m, r) = resume(n)
    BY <1>3, <1>4, <1>5 DEF retxReset
  <2> HIDE DEF n
  <2>4. Orderly(n)
    BY <1>3, <2>1, <2>2 DEF Settled, Orderly
  <2>5. Settled(resume(n)) /\ SameQueues(resume(n), n) /\ ~Stranded(resume(n))
    BY <1>1, <1>3, <2>2, <2>4, ResumeSettles
  <2> QED
    BY <1>3, <2>2, <2>3, <2>5 DEF SameQueues
<1>6. CASE ~GivesUp(c)
  <2> DEFINE n == [c EXCEPT !.retx = r * Slot, !.busy = TRUE]
  <2>0. r * Slot \in Nat
    BY MacConstants
  <2>1. n \in StationType
    BY <1>2, <2>0 DEF StationType, Ticks
  <2>2. /\ n.tx = c.tx /\ n.busy /\ n.mac = c.mac /\ n.ifs = c.ifs /\ n.rx = c.rx
        /\ n.retx = r * Slot /\ n.pktRetx = c.pktRetx /\ n.pktRx = c.pktRx
        /\ n.mbq = c.mbq /\ n.ifq = c.ifq /\ n.fault = c.fault
    BY <1>2 DEF StationType
  <2>3. SendCollision(m, r) = n
    BY <1>4, <1>6
  <2> HIDE DEF n
  <2>4. Orderly(n)
    BY <1>3, <2>1, <2>2 DEF Settled, Orderly
  <2>6. r * Slot # Off
    BY <2>0 DEF Off
  <2>5. TimersMatch(n)
    BY <1>1, <1>3, <2>2, <2>6 DEF TimersMatch
  <2>7. ~Stranded(n)
    BY <2>2, <2>6 DEF Stranded, Timers
  <2> QED
    BY <1>3, <2>2, <2>3, <2>4, <2>5, <2>7 DEF SameQueues, Settled
<1> QED
  BY <1>5, <1>6

LEMMA RecvCollides ==
  ASSUME NEW m, Settled(m), m.mac = "RECV"
  PROVE  Settled(RecvCollision(m)) /\ SameQueues(RecvCollision(m), m)
<1> DEFINE n == [m EXCEPT !.rx = Off, !.pktRx = FALSE, !.mac = "IDLE"]
<1>1. n \in StationType
  BY DEF Settled, Orderly, StationType, Ticks, MacState
<1>2. /\ n.rx = Off /\ ~n.pktRx /\ n.mac = "IDLE" /\ n.tx = m.tx /\ n.ifs = m.ifs
      /\ n.retx = m.retx /\ n.busy = m.busy /\ n.pktRetx = m.pktRetx
      /\ n.mbq = m.mbq /\ n.ifq = m.ifq /\ n.fault = m.fault
  BY DEF Settled, Orderly, StationType
<1>3. RecvCollision(m) = n
  BY DEF RecvCollision
<1> HIDE DEF n
<1>4. Orderly(n)
  BY <1>1, <1>2 DEF Settled, Orderly
<1>5. TimersMatch(n)
  BY <1>2 DEF Settled, TimersMatch
<1> QED
  BY <1>2, <1>3, <1>4, <1>5 DEF SameQueues, Settled

LEMMA IFSCollides ==
  ASSUME NEW m, Settled(m), m.mac = "IFS"
  PROVE  /\ Settled(IFSCollision(m)) /\ SameQueues(IFSCollision(m), m)
         /\ ~Stranded(IFSCollision(m))
<1>1. /\ m.ifs # Off /\ m.pktRetx # 0 /\ m.tx = Off /\ m.rx = Off /\ m.retx = Off
      /\ ~m.pktRx
  BY DEF Settled, TimersMatch
<1>2. CASE FrontOfIFS(m)
  <2> DEFINE n == [m EXCEPT !.ifs = Off, !.busy = FALSE, !.mac = "IDLE"]
  <2>1. n \in StationType
    BY DEF Settled, Orderly, StationType, Ticks, MacState
  <2>2. /\ n.ifs = Off /\ ~n.busy /\ n.mac = "IDLE" /\ n.tx = m.tx /\ n.rx = m.rx
        /\ n.retx = m.retx /\ n.pktRetx = m.pktRetx /\ n.pktRx = m.pktRx
        /\ n.mbq = m.mbq /\ n.ifq = m.ifq /\ n.fault = m.fault
    BY DEF Settled, Orderly, StationType
  <2>3. IFSCollision(m) = _send(n)
    BY <1>2 DEF IFSCollision
  <2> HIDE DEF n
  <2>4. Orderly(n)
    BY <2>1, <2>2, MacConstants DEF Settled, Orderly, Off
  <2>5. TimersMatch(n)
    BY <1>1, <2>2 DEF TimersMatch
  <2>6. Settled(_send(n)) /\ SameQueues(_send(n), n)
    BY <1>1, <2>2, <2>4, <2>5, SendSettled DEF Settled
  <2>7. ~Stranded(_send(n))
    BY <1>1, <2>2, <2>4, <2>5, SendSettled DEF Settled, Stranded
  <2> QED
    BY <2>2, <2>3, <2>6, <2>7 DEF SameQueues
<1>3. CASE ~FrontOfIFS(m)
  <2>1. IFS - m.ifs <= IFS
    BY <1>1, MacConstants DEF Settled, Orderly, StationType, Ticks, Off
  <2>2. IFSCollision(m) = m
    BY <1>3, <2>1 DEF IFSCollision, Asserting
  <2>3. ~Stranded(m)
    BY <1>1 DEF Stranded, Timers
  <2> QED
    BY <2>2, <2>3 DEF SameQueues
<1> QED
  BY <1>2, <1>3

LEMMA RecvSettles ==
  ASSUME NEW m, Settled(m), NEW d \in Nat \ {0}, NEW r \in Nat
  PROVE  /\ Settled(recv(m, d, r)) /\ SameQueues(recv(m, d, r), m)
         /\ Stranded(recv(m, d, r)) => m.mac = "RECV"
<1>1. CASE m.mac = "IDLE"
  <2> DEFINE n == [m EXCEPT !.mac = "RECV", !.pktRx = TRUE, !.rx = d]
  <2>1. n \in StationType
    BY DEF Settled, Orderly, StationType, Ticks, MacState
  <2>2. /\ n.mac = "RECV" /\ n.pktRx /\ n.rx = d /\ n.tx = m.tx /\ n.ifs = m.ifs
        /\ n.retx = m.retx /\ n.busy = m.busy /\ n.pktRetx = m.pktRetx
        /\ n.mbq = m.mbq /\ n.ifq = m.ifq /\ n.fault = m.fault
    BY DEF Settled, Orderly, StationType
  <2>3. recv(m, d, r) = n
    BY <1>1 DEF recv
  <2> HIDE DEF n
  <2>4. Orderly(n)
    BY <2>1, <2>2 DEF Settled, Orderly
  <2>5. TimersMatch(n)
    BY <1>1, <2>2 DEF Settled, TimersMatch, Off
  <2>6. ~Stranded(n)
    BY <2>2 DEF Stranded, Timers, Off
  <2> QED
    BY <2>2, <2>3, <2>4, <2>5, <2>6 DEF SameQueues, Settled
<1>2. CASE m.mac = "SEND"
  BY <1>2, SendCollides DEF recv, collision
<1>3. CASE m.mac = "RECV"
  BY <1>3, RecvCollides DEF recv, collision
<1>4. CASE m.mac = "IFS"
  BY <1>4, IFSCollides DEF recv, collision
<1> QED
  BY <1>1, <1>2, <1>3, <1>4 DEF Settled, Orderly, StationType, MacState

-----------------------------------------------------------------------------
(* The queues *)

LEMMA SameMacSettled ==
  ASSUME NEW m, NEW n, SameMac(n, m), Orderly(n), Settled(m)
  PROVE  Settled(n) /\ Timers(n) = Timers(m)
BY DEF SameMac, Settled, TimersMatch, Timers

LEMMA BinderRoom ==
  ASSUME NEW m, Orderly(m)
  PROVE  /\ ~qfull(m) <=> m.mbq = <<>>
         /\ m.mbq # <<>> => Tail(m.mbq) = <<>> /\ Head(m.mbq) \in Nat \ {0}
<1>1. m.mbq \in Seq(Nat \ {0}) /\ Len(m.mbq) <= 1
  BY DEF Orderly, StationType, MbqMaxLen
<1> QED
  BY <1>1 DEF qfull, MbqMaxLen

LEMMA UpcallFills ==
  ASSUME NEW m, Orderly(m), m.mbq = <<>>
  PROVE  Orderly(intrq(m)) /\ Filled(intrq(m)) /\ SameMac(intrq(m), m)
<1>1. CASE m.ifq = <<>>
  BY <1>1 DEF intrq, Filled, SameMac
<1>2. CASE m.ifq # <<>>
  <2> DEFINE n == [m EXCEPT !.mbq = Append(@, Head(m.ifq)), !.ifq = Tail(@)]
  <2>1. Head(m.ifq) \in Nat \ {0} /\ Tail(m.ifq) \in Seq(Nat \ {0})
    BY <1>2 DEF Orderly, StationType
  <2>2. /\ Append(m.mbq, Head(m.ifq)) \in Seq(Nat \ {0})
        /\ Append(m.mbq, Head(m.ifq)) # <<>>
        /\ Len(Append(m.mbq, Head(m.ifq))) = 1
    BY <2>1
  <2>3. n \in StationType
    BY <2>1, <2>2 DEF Orderly, StationType
  <2>4. SameMac(n, m) /\ n.mbq = Append(m.mbq, Head(m.ifq)) /\ n.fault = m.fault
    BY DEF Orderly, StationType, SameMac
  <2>5. intrq(m) = n
    BY <1>2, BinderRoom DEF intrq, Asserting
  <2> HIDE DEF n
  <2>6. Orderly(n) /\ Filled(n)
    BY <2>2, <2>3, <2>4 DEF Orderly, Filled, SameMac, MbqMaxLen
  <2> QED
    BY <2>4, <2>5, <2>6
<1> QED
  BY <1>1, <1>2

LEMMA PutFills ==
  ASSUME NEW m, Orderly(m), m.mbq = <<>>, m.ifq = <<>>, NEW p \in Nat \ {0},
         Orderly(send(m, p)), SameQueues(send(m, p), m)
  PROVE  Orderly(put(m, p)) /\ Filled(put(m, p)) /\ SameMac(put(m, p), send(m, p))
<1> DEFINE s == send(m, p)
<1>1. Orderly(s) /\ s.mbq = <<>> /\ s.ifq = <<>>
  BY DEF SameQueues
<1>2. CASE Accepts(m)
  <2>1. put(m, p) = intrq(s)
    BY <1>2 DEF put
  <2> HIDE DEF s
  <2>2. Orderly(intrq(s)) /\ Filled(intrq(s)) /\ SameMac(intrq(s), s)
    BY <1>1, UpcallFills
  <2> QED
    BY <2>1, <2>2 DEF s
<1>3. CASE ~Accepts(m)
  <2> DEFINE n == [s EXCEPT !.mbq = Append(@, p)]
  <2>1. put(m, p) = n
    BY <1>3, BinderRoom DEF put, Asserting
  <2> HIDE DEF s
  <2>2. Append(s.mbq, p) = <<p>> /\ <<p>> \in Seq(Nat \ {0}) /\ Len(<<p>>) = 1
    BY <1>1
  <2>3. n \in StationType
    BY <1>1, <2>2 DEF Orderly, StationType
  <2>4. SameMac(n, s) /\ n.mbq = <<p>> /\ n.ifq = s.ifq /\ n.fault = s.fault
    BY <1>1, <2>2 DEF Orderly, StationType, SameMac
  <2> HIDE DEF n
  <2>5. Orderly(n) /\ Filled(n)
    BY <1>1, <2>2, <2>3, <2>4 DEF Orderly, Filled, SameMac, MbqMaxLen
  <2> QED
    BY <2>1, <2>4, <2>5 DEF s
<1> QED
  BY <1>2, <1>3

(* fifo::send leaves the MAC alone or has it send. *)
LEMMA FifoFills ==
  ASSUME NEW m, Orderly(m), Filled(m), NEW p \in Nat \ {0},
         Orderly(send(m, p)), SameQueues(send(m, p), m)
  PROVE  LET n == fifoSend(m, p)
         IN  /\ Orderly(n) /\ Filled(n)
             /\ SameMac(n, m) \/ SameMac(n, send(m, p))
<1>1. CASE Drops(m)
  BY <1>1 DEF fifoSend, SameMac
<1>2. CASE ~Drops(m) /\ qfull(m)
  <2> DEFINE n == [m EXCEPT !.ifq = Append(@, p)]
  <2>1. fifoSend(m, p) = n
    BY <1>2 DEF fifoSend
  <2>2. Append(m.ifq, p) \in Seq(Nat \ {0})
    BY DEF Orderly, StationType
  <2>3. n \in StationType
    BY <2>2 DEF Orderly, StationType
  <2>4. SameMac(n, m) /\ n.mbq = m.mbq /\ n.fault = m.fault
    BY DEF Orderly, StationType, SameMac
  <2> HIDE DEF n
  <2>5. Orderly(n) /\ Filled(n)
    BY <1>2, <2>3, <2>4, BinderRoom DEF Orderly, Filled, SameMac
  <2> QED
    BY <2>1, <2>4, <2>5
<1>3. CASE ~Drops(m) /\ ~qfull(m)
  <2>1. m.mbq = <<>> /\ m.ifq = <<>>
    BY <1>3, BinderRoom DEF Filled
  <2>2. fifoSend(m, p) = put(m, p)
    BY <1>3 DEF fifoSend
  <2> QED
    BY <2>1, <2>2, PutFills
<1> QED
  BY <1>1, <1>2, <1>3

LEMMA FifoSettles ==
  ASSUME NEW m, Settled(m), Filled(m), NEW p \in Nat \ {0}
  PROVE  /\ Settled(fifoSend(m, p)) /\ Filled(fifoSend(m, p))
         /\ Stranded(fifoSend(m, p)) => Stranded(m)
<1>1. /\ Settled(send(m, p)) /\ SameQueues(send(m, p), m)
      /\ ~Stranded(send(m, p))
  BY SendPacket DEF Stranded
<1> DEFINE n == fifoSend(m, p)
<1>2. Orderly(n) /\ Filled(n) /\ (SameMac(n, m) \/ SameMac(n, send(m, p)))
  BY <1>1, FifoFills DEF Settled
<1> HIDE DEF n
<1>3. CASE SameMac(n, m)
  <2>1. Settled(n) /\ (Stranded(n) => Stranded(m))
    BY <1>2, <1>3, SameMacSettled DEF SameMac, Stranded
  <2> QED
    BY <1>2, <2>1 DEF n
<1>4. CASE SameMac(n, send(m, p))
  <2>1. Settled(n) /\ ~Stranded(n)
    BY <1>1, <1>2, <1>4, SameMacSettled DEF SameMac, Stranded
  <2> QED
    BY <1>2, <2>1 DEF n
<1> QED
  BY <1>2, <1>3, <1>4

LEMMA ServeSounds ==
  ASSUME NEW m, Settled(m), Filled(m)
  PROVE  Sound(serve(m)) /\ (Stranded(serve(m)) => Stranded(m))
<1>1. CASE m.mbq = <<>>
  BY <1>1 DEF serve, Sound, Filled, InTurn
<1>2. CASE m.mbq # <<>> /\ Accepts(m)
  <2> DEFINE k == [m EXCEPT !.mbq = Tail(@)]
             h == Head(m.mbq)
             s == send(k, h)
             n == intrq(s)
  <2>1. serve(m) = n
    BY <1>2 DEF serve
  <2>2. h \in Nat \ {0} /\ Tail(m.mbq) = <<>>
    BY <1>2, BinderRoom DEF Settled
  <2> <<>> \in Seq(Nat \ {0})
    OBVIOUS
  <2>3. k \in StationType
    BY <2>2 DEF Settled, Orderly, StationType
  <2>4. SameMac(k, m) /\ k.mbq = <<>> /\ k.ifq = m.ifq /\ k.fault = m.fault
    BY <2>2 DEF Settled, Orderly, StationType, SameMac
  <2> HIDE DEF k, h
  <2>5. Orderly(k)
    BY <2>3, <2>4 DEF Settled, Orderly, SameMac, MbqMaxLen
  <2>6. Settled(k)
    BY <2>4, <2>5, SameMacSettled
  <2>7. Settled(s) /\ s.pktRetx # 0 /\ SameQueues(s, k) /\ Timers(s) # {Off}
    BY <2>2, <2>6, SendPacket
  <2> HIDE DEF s
  <2>8. Orderly(n) /\ Filled(n) /\ SameMac(n, s)
    BY <2>4, <2>7, UpcallFills DEF Settled, SameQueues
  <2> HIDE DEF n
  <2>9. Settled(n) /\ Timers(n) = Timers(s)
    BY <2>7, <2>8, SameMacSettled
  <2>10. n.pktRetx # 0
    BY <2>7, <2>8 DEF SameMac
  <2> QED
    BY <2>1, <2>7, <2>8, <2>9, <2>10 DEF Sound, InTurn, Filled, Stranded
<1>3. CASE m.mbq # <<>> /\ ~Accepts(m)
  <2> DEFINE h == Head(m.mbq)
             n == send(m, h)
  <2>1. serve(m) = n
    BY <1>3 DEF serve
  <2>2. h \in Nat \ {0}
    BY <1>3, BinderRoom DEF Settled
  <2> HIDE DEF h
  <2>3. Settled(n) /\ n.pktRetx # 0 /\ SameQueues(n, m) /\ Timers(n) # {Off}
    BY <2>2, SendPacket
  <2> HIDE DEF n
  <2> QED
    BY <1>3, <2>1, <2>3 DEF Sound, InTurn, SameQueues, Stranded
<1> QED
  BY <1>1, <1>2, <1>3

LEMMA PollSounds ==
  ASSUME NEW m, Settled(m), Filled(m)
  PROVE  Sound(poll(m)) /\ (Stranded(poll(m)) => Stranded(m))
<1>1. Sound(serve(m)) /\ (Stranded(serve(m)) => Stranded(m))
  BY ServeSounds
<1>2. Settled(serve(m)) /\ Filled(serve(m))
  BY <1>1 DEF Sound, InTurn, Filled
<1>3. Sound(serve(serve(m))) /\ (Stranded(serve(serve(m))) => Stranded(serve(m)))
  BY <1>2, ServeSounds
<1> QED
  BY <1>1, <1>3 DEF poll

(* A reception ends; p is the answer of the layers above, 0 for none. *)
LEMMA RxSettles ==
  ASSUME NEW m, Settled(m), Filled(m), m.rx = 0, NEW p \in Nat
  PROVE  LET n == rxHandler([m EXCEPT !.rx = Off], p)
         IN  Settled(n) /\ Filled(n) /\ ~Stranded(n)
<1> DEFINE t == [m EXCEPT !.rx = Off, !.pktRx = FALSE]
           u == IF p = 0 THEN t ELSE fifoSend(t, p)
<1>1. m.mac = "RECV" /\ m.pktRx /\ m.tx = Off /\ m.ifs = Off
  BY DEF Settled, TimersMatch, Off
<1>2. t \in StationType
  BY DEF Settled, Orderly, StationType, Ticks
<1>3. /\ t.rx = Off /\ ~t.pktRx /\ t.mac = "RECV" /\ t.tx = Off /\ t.ifs = Off
      /\ t.retx = m.retx /\ t.busy = m.busy /\ t.pktRetx = m.pktRetx
      /\ t.mbq = m.mbq /\ t.ifq = m.ifq /\ t.fault = m.fault
  BY <1>1 DEF Settled, Orderly, StationType
<1>4. rxHandler([m EXCEPT !.rx = Off], p) = resume(u)
  BY <1>1 DEF rxHandler, Asserting, Settled, Orderly, StationType
<1> HIDE DEF t
<1>5. Orderly(t) /\ Filled(t)
  BY <1>2, <1>3, MacConstants DEF Settled, Orderly, Filled, Off
<1>6. (t.busy <=> t.retx # Off) /\ (t.retx # Off => t.pktRetx # 0)
  BY <1>1, <1>3 DEF Settled, TimersMatch
<1>7. /\ Orderly(u) /\ Filled(u)
      /\ ~u.pktRx /\ u.rx = Off /\ u.tx = Off /\ u.ifs = Off
      /\ u.busy <=> u.retx # Off
      /\ u.retx # Off => u.pktRetx # 0
  <2>1. CASE p = 0
    BY <1>3, <1>5, <1>6, <2>1
  <2>2. CASE p # 0
    <3> DEFINE s == send(t, p)
               a == [t EXCEPT !.pktRetx = p]
    <3>1. ~Idle(t) /\ ~Idle(a)
      BY <1>3 DEF Idle
    <3>2. s = IF Accepts(t) THEN a ELSE t
      BY <3>1 DEF send, _send
    <3>3. a \in StationType
      BY <1>2 DEF StationType
    <3>4. /\ a.rx = t.rx /\ a.pktRx = t.pktRx /\ a.mac = t.mac /\ a.tx = t.tx
          /\ a.ifs = t.ifs /\ a.retx = t.retx /\ a.busy = t.busy /\ a.pktRetx = p
          /\ a.mbq = t.mbq /\ a.ifq = t.ifq /\ a.fault = t.fault
      BY <1>2 DEF StationType
    <3> HIDE DEF a
    <3>5. Orderly(a) /\ SameQueues(a, t)
      BY <1>5, <3>3, <3>4 DEF Orderly, SameQueues
    <3>6. Orderly(s) /\ SameQueues(s, t)
      BY <1>5, <3>2, <3>5 DEF SameQueues
    <3>7. /\ Orderly(u) /\ Filled(u)
          /\ SameMac(u, t) \/ SameMac(u, s)
      BY <1>5, <2>2, <3>6, FifoFills
    <3> HIDE DEF u, s
    <3>8. SameMac(u, t) \/ SameMac(u, a)
      BY <3>2, <3>7
    <3>9. CASE SameMac(u, t)
      BY <1>3, <1>6, <3>7, <3>9 DEF SameMac
    <3>10. CASE SameMac(u, a)
      BY <1>3, <1>6, <2>2, <3>4, <3>7, <3>10 DEF SameMac
    <3> QED
      BY <3>8, <3>9, <3>10
  <2> QED
    BY <2>1, <2>2
<1> HIDE DEF u
<1>8. Settled(resume(u)) /\ SameQueues(resume(u), u) /\ ~Stranded(resume(u))
  BY <1>7, ResumeSettles
<1> QED
  BY <1>4, <1>7, <1>8 DEF Filled, SameQueues

-----------------------------------------------------------------------------
(* The collision domain *)

Frame == [to : Station, from : Station, dur : Nat \ {0}, left : Int]

(* The inductive invariant: every station is sound, whatever is on its way *)
(* to it.  NoFault alone is not inductive: an assertion holds because the  *)
(* timers agree with the state, and those because the queues are in turn.  *)
IInv == /\ st \in [Station -> StationType]
        /\ \A s \in Station : Sound(st[s])
        /\ made \in [Station -> Nat]
        /\ air \subseteq Frame

(* A station that is settled when the event is over is sound once polled.  *)
LEMMA BecomesSound ==
  ASSUME IInv, NEW s \in Station, NEW m, Settled(m), Filled(m), Becomes(s, m)
  PROVE  st' \in [Station -> StationType] /\ \A u \in Station : Sound(st'[u])
<1>1. Sound(poll(m))
  BY PollSounds
<1>2. poll(m) \in StationType
  BY <1>1 DEF Sound, Settled, Orderly
<1>3. st' = [st EXCEPT ![s] = poll(m)]
  BY DEF Becomes
<1>4. st' \in [Station -> StationType]
  BY <1>2, <1>3 DEF IInv
<1>5. ASSUME NEW u \in Station
      PROVE  Sound(st'[u])
  <2>1. CASE u = s
    BY <1>1, <1>3, <2>1 DEF IInv
  <2>2. CASE u # s
    <3>1. st'[u] = st[u] /\ Sound(st[u])
      BY <1>3, <2>2 DEF IInv
    <3> QED
      BY <3>1
  <2> QED
    BY <2>1, <2>2
<1> QED
  BY <1>4, <1>5

(* Time passes for a station none of whose timers is due. *)
LEMMA ElapseSounds ==
  ASSUME NEW m, Sound(m), 0 \notin Timers(m)
  PROVE  Sound([m EXCEPT !.tx = Elapse(@), !.rx = Elapse(@),
                         !.retx = Elapse(@), !.ifs = Elapse(@)])
<1> DEFINE n == [m EXCEPT !.tx = Elapse(@), !.rx = Elapse(@),
                          !.retx = Elapse(@), !.ifs = Elapse(@)]
<1>1. m \in StationType
  BY DEF Sound, Settled, Orderly
<1>2. ASSUME NEW x \in Timers(m)
      PROVE  Elapse(x) \in Ticks /\ (Elapse(x) = Off <=> x = Off) /\ Elapse(x) <= x
  BY <1>1 DEF Timers, StationType, Ticks, Off, Elapse
<1>3. /\ Elapse(m.tx) \in Ticks /\ (Elapse(m.tx) = Off <=> m.tx = Off)
      /\ Elapse(m.rx) \in Ticks /\ (Elapse(m.rx) = Off <=> m.rx = Off)
      /\ Elapse(m.retx) \in Ticks /\ (Elapse(m.retx) = Off <=> m.retx = Off)
      /\ Elapse(m.ifs) \in Ticks /\ (Elapse(m.ifs) = Off <=> m.ifs = Off)
      /\ Elapse(m.ifs) <= m.ifs
  BY <1>2 DEF Timers
<1>4. n \in StationType
  BY <1>1, <1>3 DEF StationType
<1>5. /\ n.tx = Elapse(m.tx) /\ n.rx = Elapse(m.rx) /\ n.retx = Elapse(m.retx)
      /\ n.ifs = Elapse(m.ifs) /\ n.mac = m.mac /\ n.busy = m.busy
      /\ n.pktRetx = m.pktRetx /\ n.pktRx = m.pktRx /\ n.mbq = m.mbq
      /\ n.ifq = m.ifq /\ n.fault = m.fault
  BY <1>1 DEF StationType
<1> HIDE DEF n
<1>6. n.ifs <= IFS
  <2>1. n.ifs \in Int /\ m.ifs \in Int /\ IFS \in Int
    BY <1>1, <1>4, MacConstants DEF StationType, Ticks, Off
  <2>2. n.ifs <= m.ifs /\ m.ifs <= IFS
    BY <1>3, <1>5 DEF Sound, Settled, Orderly
  <2> QED
    BY <2>1, <2>2
<1>7. Orderly(n)
  BY <1>4, <1>5, <1>6 DEF Sound, Settled, Orderly
<1>8. TimersMatch(n)
  BY <1>3, <1>5 DEF Sound, Settled, TimersMatch
<1>9. InTurn(n)
  BY <1>5 DEF Sound, InTurn
<1>10. n.mbq # <<>> => Timers(n) # {Off}
  BY <1>3, <1>5 DEF Sound, Timers
<1> QED
  BY <1>7, <1>8, <1>9, <1>10 DEF Sound, Settled, n

LEMMA InitHolds == Init => IInv
<1> SUFFICES ASSUME Init
             PROVE  IInv
  OBVIOUS
<1>1. Station0 \in StationType
  <2>1. <<>> \in Seq(Nat \ {0})
    OBVIOUS
  <2> QED
    BY <2>1 DEF Station0, StationType, Ticks, MacState
<1>2. Sound(Station0)
  BY <1>1, MacConstants
  DEF Station0, Sound, Settled, Orderly, TimersMatch, InTurn, MbqMaxLen, Off
<1> QED
  BY <1>1, <1>2 DEF Init, IInv

LEMMA StepHolds == IInv /\ [Next]_vars => IInv'
<1> SUFFICES ASSUME IInv, [Next]_vars
             PROVE  IInv'
  OBVIOUS
<1> DEFINE Stations == st' \in [Station -> StationType] /\ \A u \in Station : Sound(st'[u])
<1>0. ASSUME NEW s \in Station
      PROVE  /\ Settled(st[s]) /\ Filled(st[s]) /\ made[s] + 1 \in Nat \ {0}
             /\ st[s] \in StationType
  BY <1>0 DEF IInv, Sound, InTurn, Filled
<1>1. ASSUME NEW s \in Station, UpperSend(s)
      PROVE  IInv'
  <2>1. Settled(fifoSend(st[s], made[s] + 1)) /\ Filled(fifoSend(st[s], made[s] + 1))
    BY <1>0, FifoSettles
  <2>2. Stations
    BY <1>1, <2>1, BecomesSound DEF UpperSend
  <2>3. made' \in [Station -> Nat] /\ air' = air
    BY <1>0, <1>1 DEF UpperSend, IInv
  <2> QED
    BY <2>2, <2>3 DEF IInv
<1>2. ASSUME NEW f \in air, Lost(f)
      PROVE  IInv'
  <2>1. f.to \in Station /\ made' = made /\ air' \subseteq air
    BY <1>2 DEF IInv, Frame, Lost
  <2>2. Stations
    BY <1>0, <1>2, <2>1, BecomesSound DEF Lost
  <2> QED
    BY <2>1, <2>2 DEF IInv
<1>3. ASSUME NEW f \in air, NEW r \in 0 .. 2 ^ BLIMIT - 1, Arrive(f, r)
      PROVE  IInv'
  <2>1. f.to \in Station /\ f.dur \in Nat \ {0} /\ made' = made /\ air' \subseteq air
    BY <1>3 DEF IInv, Frame, Arrive
  <2> DEFINE n == recv(st[f.to], f.dur, r)
  <2>2. Becomes(f.to, n)
    BY <1>3 DEF Arrive
  <2>3. r \in Nat
    OBVIOUS
  <2>4. Settled(n) /\ SameQueues(n, st[f.to])
    BY <1>0, <2>1, <2>3, RecvSettles
  <2> HIDE DEF n
  <2>5. Filled(n)
    BY <1>0, <2>1, <2>4 DEF Filled, SameQueues
  <2>6. Stations
    BY <2>1, <2>2, <2>4, <2>5, BecomesSound
  <2> QED
    BY <2>1, <2>6 DEF IInv
<1>4. ASSUME NEW s \in Station, NEW d \in TxTime, IFSExpires(s, d)
      PROVE  IInv'
  <2> DEFINE n == IFSHandler([st[s] EXCEPT !.ifs = Off], d)
  <2>1. d \in Nat \ {0} /\ Prop \in Int
    BY EthernetConstants
  <2>2. Becomes(s, n) /\ st[s].ifs = 0 /\ made' = made
    BY <1>4 DEF IFSExpires
  <2>3. Settled(n) /\ SameQueues(n, st[s])
    BY <1>0, <2>1, <2>2, IFSSettles
  <2> HIDE DEF n
  <2>4. Filled(n)
    BY <1>0, <2>3 DEF Filled, SameQueues
  <2>5. Stations
    BY <2>2, <2>3, <2>4, BecomesSound
  <2>6. air' \subseteq Frame
    BY <1>4, <2>1 DEF IFSExpires, IInv, Frame
  <2> QED
    BY <2>2, <2>5, <2>6 DEF IInv
<1>5. ASSUME NEW s \in Station, TxExpires(s)
      PROVE  IInv'
  <2> DEFINE n == txHandler([st[s] EXCEPT !.tx = Off])
  <2>1. Becomes(s, n) /\ st[s].tx = 0 /\ made' = made /\ air' = air
    BY <1>5 DEF TxExpires
  <2>2. Settled(n) /\ SameQueues(n, st[s])
    BY <1>0, <2>1, TxSettles
  <2> HIDE DEF n
  <2>3. Filled(n)
    BY <1>0, <2>2 DEF Filled, SameQueues
  <2>4. Stations
    BY <2>1, <2>2, <2>3, BecomesSound
  <2> QED
    BY <2>1, <2>4 DEF IInv
<1>6. ASSUME NEW s \in Station, RetxExpires(s)
      PROVE  IInv'
  <2> DEFINE n == retxHandler([st[s] EXCEPT !.retx = Off])
  <2>1. Becomes(s, n) /\ st[s].retx = 0 /\ made' = made /\ air' = air
    BY <1>6 DEF RetxExpires
  <2>2. Settled(n) /\ SameQueues(n, st[s])
    BY <1>0, <2>1, RetxSettles
  <2> HIDE DEF n
  <2>3. Filled(n)
    BY <1>0, <2>2 DEF Filled, SameQueues
  <2>4. Stations
    BY <2>1, <2>2, <2>3, BecomesSound
  <2> QED
    BY <2>1, <2>4 DEF IInv
<1>7. ASSUME NEW s \in Station, NEW answer \in BOOLEAN, RxExpires(s, answer)
      PROVE  IInv'
  <2> DEFINE p == IF answer THEN made[s] + 1 ELSE 0
             n == rxHandler([st[s] EXCEPT !.rx = Off], p)
  <2>1. p \in Nat
    BY <1>0
  <2>2. Becomes(s, n) /\ st[s].rx = 0 /\ air' = air
    BY <1>7 DEF RxExpires
  <2>3. made' \in [Station -> Nat]
    BY <1>0, <1>7 DEF RxExpires, IInv
  <2> HIDE DEF p
  <2>4. Settled(n) /\ Filled(n)
    BY <1>0, <2>1, <2>2, RxSettles
  <2>5. Stations
    BY <2>2, <2>4, BecomesSound
  <2> QED
    BY <2>2, <2>3, <2>5 DEF IInv
<1>8. ASSUME Tick
      PROVE  IInv'
  <2>1. ASSUME NEW s \in Station
        PROVE  Sound(st'[s])
    BY <1>8, ElapseSounds DEF Tick, IInv
  <2>2. st' \in [Station -> StationType]
    <3>1. \A s \in Station : st'[s] \in StationType
      BY <2>1 DEF Sound, Settled, Orderly
    <3>2. st' = [s \in Station |-> st'[s]]
      BY <1>8 DEF Tick
    <3> QED
      BY <3>1, <3>2
  <2>3. air' \subseteq Frame /\ made' = made
    <3>1. ASSUME NEW f \in air
          PROVE  [f EXCEPT !.left = @ - 1] \in Frame
      <4>1. f \in Frame /\ f.left - 1 \in Int
        BY DEF IInv, Frame
      <4> QED
        BY <4>1 DEF Frame
    <3>2. made' = made /\ air' = {[f EXCEPT !.left = @ - 1] : f \in air}
      BY <1>8 DEF Tick
    <3> QED
      BY <3>1, <3>2
  <2> QED
    BY <2>1, <2>2, <2>3 DEF IInv
<1>9. CASE UNCHANGED vars
  BY <1>9 DEF vars, IInv
<1> QED
  BY <1>1, <1>2, <1>3, <1>4, <1>5, <1>6, <1>7, <1>8, <1>9
  DEF Next, Engine, Arrival, Expiry

LEMMA Invariance == Spec => []IInv
BY InitHolds, StepHolds, PTL DEF Spec

-----------------------------------------------------------------------------
(* No assertion of mac8023.cc, fifo.cc or put fails, for any stations,     *)
(* packets, transmission times and backoffs.                               *)
THEOREM AssertionsHold == Spec => []NoFault
<1>1. IInv => NoFault
  BY DEF IInv, Sound, Settled, Orderly, NoFault
<1> QED
  BY <1>1, Invariance, PTL

(* The four timers, the busy flag and the buffers agree with the state of  *)
(* the MAC after every event.                                              *)
THEOREM TimersSound == Spec => []TimersMatchState
<1>1. IInv => TimersMatchState
  BY DEF IInv, Sound, Settled, TimersMatchState
<1> QED
  BY <1>1, Invariance, PTL

(* fifo, binder and MAC fill from the bottom: a packet waits only for one  *)
(* ahead of it.                                                            *)
THEOREM TurnsKept == Spec => []QueuesWaitInTurn
<1>1. IInv => QueuesWaitInTurn
  BY DEF IInv, Sound, QueuesWaitInTurn
<1> QED
  BY <1>1, Invariance, PTL

(* A packet in the binder always has a timer of its station running that   *)
(* goes on with the packet ahead of it.                                    *)
THEOREM NoneForgotten == Spec => []NeverStuck
<1>1. IInv => NeverStuck
  BY DEF IInv, Sound, NeverStuck
<1> QED
  BY <1>1, Invariance, PTL

-----------------------------------------------------------------------------
(* Stranded packets *)

(* A handler that strands nothing strands nothing at any station: polling  *)
(* the binder has the MAC try again.                                       *)
LEMMA BecomesLively ==
  ASSUME IInv, NEW s \in Station, NEW m, Settled(m), Filled(m), Becomes(s, m),
         NEW u \in Station, ~Stranded(st[u]), Stranded(st'[u])
  PROVE  u = s /\ Stranded(m)
<1>1. Stranded(poll(m)) => Stranded(m)
  BY PollSounds
<1> QED
  BY <1>1 DEF Becomes, IInv

LEMMA StepStrands ==
  ASSUME IInv, [Next]_vars,
         NEW u \in Station, ~Stranded(st[u]), Stranded(st'[u])
  PROVE  st[u].mac = "RECV" /\ \E f \in air : f.to = u /\ f.left = 0
<1>0. ASSUME NEW s \in Station
      PROVE  Settled(st[s]) /\ Filled(st[s]) /\ made[s] + 1 \in Nat \ {0}
  BY <1>0 DEF IInv, Sound, InTurn, Filled
<1>1. ASSUME NEW s \in Station, UpperSend(s)
      PROVE  FALSE
  BY <1>0, <1>1, FifoSettles, BecomesLively DEF UpperSend
<1>2. ASSUME NEW f \in air, Lost(f)
      PROVE  FALSE
  <2>1. f.to \in Station
    BY DEF IInv, Frame
  <2> QED
    BY <1>0, <1>2, <2>1, BecomesLively DEF Lost
<1>3. ASSUME NEW f \in air, NEW r \in 0 .. 2 ^ BLIMIT - 1, f.left = 0, Arrive(f, r)
      PROVE  st[u].mac = "RECV" /\ f.to = u
  <2>1. f.to \in Station /\ f.dur \in Nat \ {0} /\ r \in Nat
    BY DEF IInv, Frame
  <2> DEFINE n == recv(st[f.to], f.dur, r)
  <2>2. Becomes(f.to, n)
    BY <1>3 DEF Arrive
  <2>3. /\ Settled(n) /\ SameQueues(n, st[f.to])
        /\ Stranded(n) => st[f.to].mac = "RECV"
    BY <1>0, <2>1, RecvSettles
  <2> HIDE DEF n
  <2>4. Filled(n)
    BY <1>0, <2>1, <2>3 DEF Filled, SameQueues
  <2> QED
    BY <2>1, <2>2, <2>3, <2>4, BecomesLively
<1>4. ASSUME NEW s \in Station, NEW d \in TxTime, IFSExpires(s, d)
      PROVE  FALSE
  <2> DEFINE n == IFSHandler([st[s] EXCEPT !.ifs = Off], d)
  <2>1. d \in Nat \ {0}
    BY EthernetConstants
  <2>2. Becomes(s, n) /\ st[s].ifs = 0
    BY <1>4 DEF IFSExpires
  <2>3. Settled(n) /\ SameQueues(n, st[s]) /\ ~Stranded(n)
    BY <1>0, <2>1, <2>2, IFSSettles
  <2> HIDE DEF n
  <2> QED
    BY <1>0, <2>2, <2>3, BecomesLively DEF Filled, SameQueues
<1>5. ASSUME NEW s \in Station, TxExpires(s)
      PROVE  FALSE
  <2> DEFINE n == txHandler([st[s] EXCEPT !.tx = Off])
  <2>1. Becomes(s, n) /\ st[s].tx = 0
    BY <1>5 DEF TxExpires
  <2>2. Settled(n) /\ SameQueues(n, st[s]) /\ ~Stranded(n)
    BY <1>0, <2>1, TxSettles
  <2> HIDE DEF n
  <2> QED
    BY <1>0, <2>1, <2>2, BecomesLively DEF Filled, SameQueues
<1>6. ASSUME NEW s \in Station, RetxExpires(s)
      PROVE  FALSE
  <2> DEFINE n == retxHandler([st[s] EXCEPT !.retx = Off])
  <2>1. Becomes(s, n) /\ st[s].retx = 0
    BY <1>6 DEF RetxExpires
  <2>2. Settled(n) /\ SameQueues(n, st[s]) /\ ~Stranded(n)
    BY <1>0, <2>1, RetxSettles
  <2> HIDE DEF n
  <2> QED
    BY <1>0, <2>1, <2>2, BecomesLively DEF Filled, SameQueues
<1>7. ASSUME NEW s \in Station, NEW answer \in BOOLEAN, RxExpires(s, answer)
      PROVE  FALSE
  <2> DEFINE p == IF answer THEN made[s] + 1 ELSE 0
             n == rxHandler([st[s] EXCEPT !.rx = Off], p)
  <2>1. p \in Nat
    BY <1>0
  <2>2. Becomes(s, n) /\ st[s].rx = 0
    BY <1>7 DEF RxExpires
  <2> HIDE DEF p
  <2>3. Settled(n) /\ Filled(n) /\ ~Stranded(n)
    BY <1>0, <2>1, <2>2, RxSettles
  <2> QED
    BY <2>2, <2>3, BecomesLively
<1>8. CASE Tick
  <2> DEFINE e == [st[u] EXCEPT !.tx = Elapse(@), !.rx = Elapse(@),
                                !.retx = Elapse(@), !.ifs = Elapse(@)]
  <2>1. st'[u] = e /\ 0 \notin Timers(st[u])
    BY <1>8 DEF Tick
  <2>2. st[u] \in StationType
    BY DEF IInv
  <2>3. /\ e.pktRetx = st[u].pktRetx
        /\ e.tx = Elapse(st[u].tx) /\ e.rx = Elapse(st[u].rx)
        /\ e.retx = Elapse(st[u].retx) /\ e.ifs = Elapse(st[u].ifs)
    BY <2>2 DEF StationType
  <2> HIDE DEF e
  <2>4. \A x \in Timers(st[u]) : Elapse(x) = Off <=> x = Off
    BY <2>1, <2>2 DEF Timers, StationType, Ticks, Off, Elapse
  <2> QED
    BY <2>1, <2>3, <2>4 DEF Stranded, Timers
<1>9. CASE UNCHANGED vars
  BY <1>9 DEF vars
<1> QED
  BY <1>1, <1>2, <1>3, <1>4, <1>5, <1>6, <1>7, <1>8, <1>9
  DEF Next, Engine, Arrival, Expiry

(* A packet is left in the MAC without a timer only by a frame that        *)
(* arrives during a reception (collision, case MAC_RECV); every other      *)
(* handler, and the poll of the binder after it, goes on with the packet.  *)
THEOREM ReceptionsStrand == Spec => StrandedByReceptionOnly
<1>1. IInv /\ [Next]_vars =>
        [\A s \in Station :
           ~Stranded(st[s]) /\ Stranded(st[s])' =>
             st[s].mac = "RECV" /\ \E f \in air : f.to = s /\ f.left = 0]_vars
  BY StepStrands
<1> QED
  BY <1>1, Invariance, PTL DEF Spec, StrandedByReceptionOnly

-----------------------------------------------------------------------------
(* Counting attempts.  h is the number of collisions the packet at hand    *)
(* has had; a collision is counted in retxCnt when its backoff is over.    *)
Counted(m, h) ==
  /\ m.pktRetx # 0 => m.retxCnt = h + (IF m.retx # Off THEN 0 ELSE 1)
  /\ m.pktRetx = 0 => m.retxCnt = 1 /\ h = 0

SameCount(n, m) == n.retxCnt = m.retxCnt /\ n.pktRetx = m.pktRetx /\ n.retx = m.retx

LEMMA SendKeeps ==
  ASSUME NEW m \in StationType
  PROVE  _send(m) \in StationType /\ SameCount(_send(m), m)
<1> DEFINE a == [m EXCEPT !.mac = "IFS", !.ifs = IFS, !.busy = TRUE]
           b == [a EXCEPT !.fault = TRUE]
<1>1. a \in StationType /\ SameCount(a, m)
  BY MacConstants DEF StationType, SameCount, Ticks, MacState
<1>2. _send(m) \in {m, a, b}
  BY DEF _send, IFSScheduler, Asserting, StationType
<1> HIDE DEF a
<1>3. b \in StationType /\ SameCount(b, m)
  BY <1>1 DEF StationType, SameCount
<1> QED
  BY <1>1, <1>2, <1>3 DEF SameCount

LEMMA SendCounts ==
  ASSUME NEW m \in StationType, NEW h \in Nat, Counted(m, h),
         m.pktRetx = 0 => m.retx = Off, NEW p \in Nat \ {0}
  PROVE  send(m, p) \in StationType /\ Counted(send(m, p), h)
<1>1. CASE Accepts(m)
  <2> DEFINE n == [m EXCEPT !.pktRetx = p]
  <2>1. n \in StationType /\ Counted(n, h)
    BY <1>1 DEF StationType, Counted, Accepts
  <2>2. send(m, p) = _send(n)
    BY <1>1 DEF send
  <2> HIDE DEF n
  <2> QED
    BY <2>1, <2>2, SendKeeps DEF SameCount, Counted
<1>2. CASE ~Accepts(m)
  BY <1>2, SendKeeps DEF send, SameCount, Counted
<1> QED
  BY <1>1, <1>2

LEMMA UpcallKeeps ==
  ASSUME NEW m \in StationType
  PROVE  intrq(m) \in StationType /\ SameCount(intrq(m), m)
<1>1. CASE m.ifq = <<>>
  BY <1>1 DEF intrq, SameCount
<1>2. CASE m.ifq # <<>>
  <2> DEFINE a == [m EXCEPT !.mbq = Append(@, Head(m.ifq)), !.ifq = Tail(@)]
             b == [a EXCEPT !.fault = TRUE]
  <2>1. m.ifq \in Seq(Nat \ {0}) /\ m.mbq \in Seq(Nat \ {0})
    BY DEF StationType
  <2>2. Append(m.mbq, Head(m.ifq)) \in Seq(Nat \ {0}) /\ Tail(m.ifq) \in Seq(Nat \ {0})
    BY <1>2, <2>1
  <2>3. a \in StationType /\ SameCount(a, m)
    BY <2>2 DEF StationType, SameCount
  <2>4. intrq(m) \in {a, b}
    BY <1>2 DEF intrq, Asserting
  <2> HIDE DEF a
  <2>5. b \in StationType /\ SameCount(b, m)
    BY <2>3 DEF StationType, SameCount
  <2> QED
    BY <2>3, <2>4, <2>5
<1> QED
  BY <1>1, <1>2

LEMMA FifoCounts ==
  ASSUME NEW m \in StationType, NEW h \in Nat, Counted(m, h),
         m.pktRetx = 0 => m.retx = Off, NEW p \in Nat \ {0}
  PROVE  fifoSend(m, p) \in StationType /\ Counted(fifoSend(m, p), h)
<1> DEFINE s == send(m, p)
           q == [m EXCEPT !.ifq = Append(@, p)]
           a == [s EXCEPT !.mbq = Append(@, p)]
           b == [a EXCEPT !.fault = TRUE]
<1>1. s \in StationType /\ Counted(s, h)
  BY SendCounts
<1>2. fifoSend(m, p) \in {m, q, intrq(s), a, b}
  BY DEF fifoSend, put, Asserting
<1> HIDE DEF s
<1>3. intrq(s) \in StationType /\ Counted(intrq(s), h)
  BY <1>1, UpcallKeeps DEF SameCount, Counted
<1>4. Append(m.ifq, p) \in Seq(Nat \ {0}) /\ Append(s.mbq, p) \in Seq(Nat \ {0})
  BY <1>1 DEF StationType
<1>5. q \in StationType /\ Counted(q, h)
  BY <1>4 DEF StationType, Counted
<1>6. a \in StationType /\ Counted(a, h)
  BY <1>1, <1>4 DEF StationType, Counted
<1> HIDE DEF a, q
<1>7. b \in StationType /\ Counted(b, h)
  BY <1>6 DEF StationType, Counted
<1> QED
  BY <1>2, <1>3, <1>5, <1>6, <1>7

LEMMA ServeCounts ==
  ASSUME NEW m \in StationType, NEW h \in Nat, Counted(m, h),
         m.pktRetx = 0 => m.retx = Off
  PROVE  Counted(serve(m), h)
<1>1. CASE m.mbq = <<>>
  BY <1>1 DEF serve
<1>2. CASE m.mbq # <<>>
  <2> DEFINE k == [m EXCEPT !.mbq = Tail(@)]
             p == Head(m.mbq)
  <2>1. p \in Nat \ {0} /\ Tail(m.mbq) \in Seq(Nat \ {0})
    BY <1>2 DEF StationType
  <2>2. k \in StationType /\ Counted(k, h) /\ (k.pktRetx = 0 => k.retx = Off)
    BY <2>1 DEF StationType, Counted
  <2>3. serve(m) \in {intrq(send(k, p)), send(m, p)}
    BY <1>2 DEF serve
  <2> HIDE DEF k, p
  <2>4. Counted(send(m, p), h)
    BY <2>1, SendCounts
  <2>5. send(k, p) \in StationType /\ Counted(send(k, p), h)
    BY <2>1, <2>2, SendCounts
  <2>6. Counted(intrq(send(k, p)), h)
    BY <2>5, UpcallKeeps DEF SameCount, Counted
  <2> QED
    BY <2>3, <2>4, <2>6
<1> QED
  BY <1>1, <1>2

(* Polling the binder leaves the count true. *)
LEMMA PollCounts ==
  ASSUME NEW m, Settled(m), Filled(m), NEW h \in Nat, Counted(m, h)
  PROVE  Counted(poll(m), h)
<1>1. m \in StationType /\ (m.pktRetx = 0 => m.retx = Off)
  BY DEF Settled, Orderly, TimersMatch
<1>2. Counted(serve(m), h)
  BY <1>1, ServeCounts
<1>3. Sound(serve(m))
  BY ServeSounds
<1>4. serve(m) \in StationType /\ (serve(m).pktRetx = 0 => serve(m).retx = Off)
  BY <1>3 DEF Sound, Settled, Orderly, TimersMatch
<1>5. Counted(serve(serve(m)), h)
  BY <1>2, <1>4, ServeCounts
<1> QED
  BY <1>2, <1>5 DEF poll

LEMMA ResumeKeeps ==
  ASSUME NEW m \in StationType
  PROVE  SameCount(resume(m), m)
<1> DEFINE a == [m EXCEPT !.mac = "IDLE"]
           b == [a EXCEPT !.fault = TRUE]
<1>1. a \in StationType /\ SameCount(a, m)
  BY DEF StationType, SameCount, MacState
<1>2. resume(m) \in {a, b, _send(a), _send(b)}
  BY DEF resume, Asserting
<1> HIDE DEF a
<1>3. b \in StationType /\ SameCount(b, m)
  BY <1>1 DEF StationType, SameCount
<1> HIDE DEF b
<1>4. SameCount(_send(a), a) /\ SameCount(_send(b), b)
  BY <1>1, <1>3, SendKeeps
<1> QED
  BY <1>1, <1>2, <1>3, <1>4 DEF SameCount

-----------------------------------------------------------------------------
(* What each handler does to the count. *)

LEMMA TxCounts ==
  ASSUME NEW m, Settled(m), m.tx = 0
  PROVE  Counted(txHandler([m EXCEPT !.tx = Off]), 0)
<1> DEFINE n == [m EXCEPT !.tx = Off, !.busy = FALSE, !.retxCnt = 1, !.pktRetx = 0]
<1>1. n \in StationType /\ n.retxCnt = 1 /\ n.pktRetx = 0
  <2>1. n \in StationType
    BY DEF Settled, Orderly, StationType, Ticks
  <2>2. n.retxCnt = 1 /\ n.pktRetx = 0
    BY DEF Settled, Orderly, StationType
  <2> QED
    BY <2>1, <2>2
<1>2. m.pktRetx # 0
  BY DEF Settled, TimersMatch, Off
<1>3. txHandler([m EXCEPT !.tx = Off]) = resume(n)
  <2> DEFINE a == [[m EXCEPT !.tx = Off] EXCEPT !.busy = FALSE]
  <2>1. retxReset(a) = n
    BY DEF retxReset, Settled, Orderly, StationType
  <2> QED
    BY <1>2, <2>1 DEF txHandler, Asserting, Settled, Orderly, StationType
<1> HIDE DEF n
<1> QED
  BY <1>1, <1>3, ResumeKeeps DEF SameCount, Counted

LEMMA IFSCounts ==
  ASSUME NEW m, Settled(m), m.ifs = 0, NEW d \in Nat \ {0}
  PROVE  SameCount(IFSHandler([m EXCEPT !.ifs = Off], d), m)
BY DEF IFSHandler, Asserting, SameCount, Settled, Orderly, StationType

LEMMA RetxCounts ==
  ASSUME NEW m, Settled(m), m.retx = 0, NEW h \in Nat, Counted(m, h)
  PROVE  Counted(retxHandler([m EXCEPT !.retx = Off]), h)
<1> DEFINE n == [m EXCEPT !.retx = Off, !.busy = FALSE, !.retxCnt = @ + 1]
<1>1. m.pktRetx # 0 /\ m.busy /\ m.retxCnt = h
  BY DEF Settled, TimersMatch, Counted, Off
<1>2. n \in StationType /\ n.retxCnt = h + 1 /\ n.pktRetx = m.pktRetx /\ n.retx = Off
  <2>1. m.retxCnt + 1 \in Nat
    BY <1>1
  <2>2. n \in StationType
    BY <2>1 DEF Settled, Orderly, StationType, Ticks
  <2> QED
    BY <1>1, <2>2 DEF Settled, Orderly, StationType
<1>3. retxHandler([m EXCEPT !.retx = Off]) = _send(n)
  BY <1>1 DEF retxHandler, Asserting, Settled, Orderly, StationType
<1> HIDE DEF n
<1> QED
  BY <1>1, <1>2, <1>3, SendKeeps DEF SameCount, Counted

(* A frame cut off counts once its backoff is over; one given up for good  *)
(* starts the count again.                                                 *)
LEMMA SendCollisionCounts ==
  ASSUME NEW m, Settled(m), m.mac = "SEND", NEW r \in Nat, NEW h \in Nat, Counted(m, h)
  PROVE  Counted(SendCollision(m, r), IF GivesUp(m) THEN 0 ELSE h + 1)
<1> DEFINE c == [m EXCEPT !.tx = Off, !.busy = FALSE, !.mac = "IDLE"]
<1>1. m.busy /\ m.pktRetx # 0 /\ m.retx = Off /\ m.retxCnt = h + 1
  BY DEF Settled, TimersMatch, Counted
<1>2. c \in StationType /\ ~c.busy /\ SameCount(c, m)
  BY DEF Settled, Orderly, StationType, Ticks, MacState, SameCount
<1>3. SendCollision(m, r) = IF GivesUp(c) THEN resume(retxReset(c))
                            ELSE [c EXCEPT !.retx = r * Slot, !.busy = TRUE]
  BY <1>1, <1>2 DEF SendCollision, Asserting, retxScheduler, SameCount
<1>4. GivesUp(c) <=> GivesUp(m)
  BY <1>2 DEF GivesUp, SameCount
<1> HIDE DEF c
<1>5. CASE GivesUp(c)
  <2> DEFINE n == [c EXCEPT !.retxCnt = 1, !.pktRetx = 0]
  <2>1. n \in StationType /\ n.retxCnt = 1 /\ n.pktRetx = 0
    BY <1>2 DEF StationType
  <2>2. SendCollision(m, r) = resume(n)
    BY <1>2, <1>3, <1>5 DEF retxReset
  <2> HIDE DEF n
  <2> QED
    BY <1>4, <1>5, <2>1, <2>2, ResumeKeeps DEF SameCount, Counted
<1>6. CASE ~GivesUp(c)
  <2>1. r * Slot # Off
    <3>1. r * Slot \in Nat
      BY MacConstants
    <3> QED
      BY <3>1 DEF Off
  <2> DEFINE n == [c EXCEPT !.retx = r * Slot, !.busy = TRUE]
  <2>2. n.retx # Off /\ n.retxCnt = h + 1 /\ n.pktRetx # 0
    BY <1>1, <1>2, <2>1 DEF StationType, SameCount
  <2>3. SendCollision(m, r) = n
    BY <1>3, <1>6
  <2> QED
    BY <1>4, <1>6, <2>2, <2>3 DEF Counted
<1> QED
  BY <1>5, <1>6

LEMMA RecvCounts ==
  ASSUME NEW m, Settled(m), m.mac # "SEND", NEW d \in Nat \ {0}, NEW r \in Nat
  PROVE  SameCount(recv(m, d, r), m)
<1>0. m \in StationType
  BY DEF Settled, Orderly
<1>1. CASE m.mac = "IDLE"
  BY <1>0, <1>1 DEF recv, SameCount, StationType
<1>2. CASE m.mac = "RECV"
  BY <1>0, <1>2 DEF recv, collision, RecvCollision, SameCount, StationType
<1>3. CASE m.mac = "IFS"
  <2> DEFINE n == [m EXCEPT !.ifs = Off, !.busy = FALSE, !.mac = "IDLE"]
             b == [m EXCEPT !.fault = TRUE]
  <2>1. n \in StationType /\ SameCount(n, m)
    BY <1>0 DEF StationType, SameCount, Ticks, MacState
  <2>2. SameCount(b, m)
    BY <1>0 DEF StationType, SameCount
  <2>3. recv(m, d, r) \in {m, b, _send(n)}
    BY <1>3 DEF recv, collision, IFSCollision, Asserting
  <2> HIDE DEF n, b
  <2> QED
    BY <2>1, <2>2, <2>3, SendKeeps DEF SameCount
<1> QED
  BY <1>0, <1>1, <1>2, <1>3 DEF StationType, MacState

LEMMA RxCounts ==
  ASSUME NEW m, Settled(m), m.rx = 0, NEW h \in Nat, Counted(m, h), NEW p \in Nat
  PROVE  Counted(rxHandler([m EXCEPT !.rx = Off], p), h)
<1> DEFINE t == [m EXCEPT !.rx = Off, !.pktRx = FALSE]
           u == IF p = 0 THEN t ELSE fifoSend(t, p)
<1>1. m.pktRx /\ m.tx = Off /\ (m.pktRetx = 0 => m.retx = Off)
  BY DEF Settled, TimersMatch, Off
<1>2. t \in StationType /\ SameCount(t, m)
  BY DEF Settled, Orderly, StationType, Ticks, SameCount
<1>3. rxHandler([m EXCEPT !.rx = Off], p) = resume(u)
  BY <1>1 DEF rxHandler, Asserting, Settled, Orderly, StationType
<1> HIDE DEF t
<1>4. Counted(t, h) /\ (t.pktRetx = 0 => t.retx = Off)
  BY <1>1, <1>2 DEF SameCount, Counted
<1>5. u \in StationType /\ Counted(u, h)
  BY <1>2, <1>4, FifoCounts
<1> HIDE DEF u
<1> QED
  BY <1>3, <1>5, ResumeKeeps DEF SameCount, Counted

-----------------------------------------------------------------------------
CInv == /\ hits \in [Station -> Nat]
        /\ \A s \in Station : Counted(st[s], hits[s])

(* One station counts anew, the others as before. *)
LEMMA BecomesCounted ==
  ASSUME IInv, CInv, NEW s \in Station, NEW m, Settled(m), Filled(m), Becomes(s, m),
         NEW h \in Nat, Counted(m, h), hits' = [hits EXCEPT ![s] = h]
  PROVE  CInv'
<1>1. Counted(poll(m), h)
  BY PollCounts
<1>2. st' = [st EXCEPT ![s] = poll(m)]
  BY DEF Becomes
<1>3. hits' \in [Station -> Nat]
  BY DEF CInv
<1>4. ASSUME NEW u \in Station
      PROVE  Counted(st'[u], hits'[u])
  <2>1. CASE u = s
    <3>1. st'[u] = poll(m) /\ hits'[u] = h
      BY <1>2, <2>1 DEF IInv, CInv
    <3> QED
      BY <1>1, <3>1
  <2>2. CASE u # s
    <3>1. st'[u] = st[u] /\ hits'[u] = hits[u]
      BY <1>2, <2>2 DEF IInv, CInv
    <3> QED
      BY <3>1 DEF CInv
  <2> QED
    BY <2>1, <2>2
<1> QED
  BY <1>3, <1>4 DEF CInv

LEMMA CountHolds == IInv /\ CInv /\ [Next]_vars => CInv'
<1> SUFFICES ASSUME IInv, CInv, [Next]_vars
             PROVE  CInv'
  OBVIOUS
<1>0. ASSUME NEW s \in Station
      PROVE  /\ Settled(st[s]) /\ Filled(st[s]) /\ made[s] + 1 \in Nat \ {0}
             /\ st[s] \in StationType
             /\ hits[s] \in Nat /\ Counted(st[s], hits[s])
             /\ hits = [hits EXCEPT ![s] = hits[s]]
             /\ st[s].pktRetx = 0 => st[s].retx = Off
  BY <1>0 DEF IInv, CInv, Sound, InTurn, Filled, Settled, TimersMatch
<1>1. ASSUME NEW s \in Station, UpperSend(s)
      PROVE  CInv'
  <2> DEFINE n == fifoSend(st[s], made[s] + 1)
  <2>1. Settled(n) /\ Filled(n) /\ Counted(n, hits[s])
    BY <1>0, FifoSettles, FifoCounts
  <2>2. Becomes(s, n) /\ hits' = hits
    BY <1>1 DEF UpperSend
  <2> HIDE DEF n
  <2>3. hits' = [hits EXCEPT ![s] = hits[s]]
    BY <1>0, <2>2
  <2> QED
    BY <1>0, <2>1, <2>2, <2>3, BecomesCounted
<1>2. ASSUME NEW f \in air, Lost(f)
      PROVE  CInv'
  <2>1. f.to \in Station /\ Becomes(f.to, st[f.to]) /\ hits' = hits
    BY <1>2 DEF IInv, Frame, Lost
  <2>2. hits' = [hits EXCEPT ![f.to] = hits[f.to]]
    BY <1>0, <2>1
  <2> QED
    BY <1>0, <2>1, <2>2, BecomesCounted
<1>3. ASSUME NEW f \in air, NEW r \in 0 .. 2 ^ BLIMIT - 1, Arrive(f, r)
      PROVE  CInv'
  <2> DEFINE s == f.to
             n == recv(st[s], f.dur, r)
             h == IF st[s].mac # "SEND" THEN hits[s]
                  ELSE IF GivesUp(st[s]) THEN 0 ELSE hits[s] + 1
  <2>1. s \in Station /\ f.dur \in Nat \ {0} /\ r \in Nat
    BY DEF IInv, Frame
  <2>2. Settled(n) /\ SameQueues(n, st[s])
    BY <1>0, <2>1, RecvSettles
  <2>3. Filled(n)
    BY <1>0, <2>1, <2>2 DEF Filled, SameQueues
  <2>4. h \in Nat /\ Counted(n, h)
    <3>1. CASE st[s].mac = "SEND"
      BY <1>0, <2>1, <3>1, SendCollisionCounts DEF recv, collision
    <3>2. CASE st[s].mac # "SEND"
      BY <1>0, <2>1, <3>2, RecvCounts DEF SameCount, Counted
    <3> QED
      BY <3>1, <3>2
  <2>5. Becomes(s, n)
    BY <1>3 DEF Arrive
  <2>6. hits' = [hits EXCEPT ![s] = h]
    BY <1>0, <1>3, <2>1 DEF Arrive
  <2> HIDE DEF s, n, h
  <2> QED
    BY <2>1, <2>2, <2>3, <2>4, <2>5, <2>6, BecomesCounted
<1>4. ASSUME NEW s \in Station, NEW d \in TxTime, IFSExpires(s, d)
      PROVE  CInv'
  <2> DEFINE n == IFSHandler([st[s] EXCEPT !.ifs = Off], d)
  <2>1. d \in Nat \ {0}
    BY EthernetConstants
  <2>2. Becomes(s, n) /\ st[s].ifs = 0 /\ hits' = hits
    BY <1>4 DEF IFSExpires
  <2>3. Settled(n) /\ SameQueues(n, st[s]) /\ SameCount(n, st[s])
    BY <1>0, <2>1, <2>2, IFSSettles, IFSCounts
  <2> HIDE DEF n
  <2>4. Filled(n) /\ Counted(n, hits[s])
    BY <1>0, <2>3 DEF Filled, SameQueues, SameCount, Counted
  <2>5. hits' = [hits EXCEPT ![s] = hits[s]]
    BY <1>0, <2>2
  <2> QED
    BY <1>0, <2>2, <2>3, <2>4, <2>5, BecomesCounted
<1>5. ASSUME NEW s \in Station, TxExpires(s)
      PROVE  CInv'
  <2> DEFINE n == txHandler([st[s] EXCEPT !.tx = Off])
  <2>1. Becomes(s, n) /\ st[s].tx = 0 /\ hits' = [hits EXCEPT ![s] = 0]
    BY <1>5 DEF TxExpires
  <2>2. Settled(n) /\ SameQueues(n, st[s]) /\ Counted(n, 0)
    BY <1>0, <2>1, TxSettles, TxCounts
  <2> HIDE DEF n
  <2>3. Filled(n)
    BY <1>0, <2>2 DEF Filled, SameQueues
  <2>4. 0 \in Nat
    OBVIOUS
  <2> QED
    BY <2>1, <2>2, <2>3, <2>4, BecomesCounted
<1>6. ASSUME NEW s \in Station, RetxExpires(s)
      PROVE  CInv'
  <2> DEFINE n == retxHandler([st[s] EXCEPT !.retx = Off])
  <2>1. Becomes(s, n) /\ st[s].retx = 0 /\ hits' = hits
    BY <1>6 DEF RetxExpires
  <2>2. Settled(n) /\ SameQueues(n, st[s]) /\ Counted(n, hits[s])
    BY <1>0, <2>1, RetxSettles, RetxCounts
  <2> HIDE DEF n
  <2>3. Filled(n)
    BY <1>0, <2>2 DEF Filled, SameQueues
  <2>4. hits' = [hits EXCEPT ![s] = hits[s]]
    BY <1>0, <2>1
  <2> QED
    BY <1>0, <2>1, <2>2, <2>3, <2>4, BecomesCounted
<1>7. ASSUME NEW s \in Station, NEW answer \in BOOLEAN, RxExpires(s, answer)
      PROVE  CInv'
  <2> DEFINE p == IF answer THEN made[s] + 1 ELSE 0
             n == rxHandler([st[s] EXCEPT !.rx = Off], p)
  <2>1. p \in Nat
    BY <1>0
  <2>2. Becomes(s, n) /\ st[s].rx = 0 /\ hits' = hits
    BY <1>7 DEF RxExpires
  <2> HIDE DEF p
  <2>3. Settled(n) /\ Filled(n) /\ Counted(n, hits[s])
    BY <1>0, <2>1, <2>2, RxSettles, RxCounts
  <2> HIDE DEF n
  <2>4. hits' = [hits EXCEPT ![s] = hits[s]]
    BY <1>0, <2>2
  <2> QED
    BY <1>0, <2>2, <2>3, <2>4, BecomesCounted
<1>8. ASSUME Tick
      PROVE  CInv'
  <2>1. hits' = hits
    BY <1>8 DEF Tick
  <2>2. ASSUME NEW s \in Station
        PROVE  Counted(st'[s], hits[s])
    <3>1. st[s].retx \in Ticks /\ st[s].retx # 0
      BY <1>0, <1>8 DEF Tick, Timers, StationType
    <3>2. Elapse(st[s].retx) = Off <=> st[s].retx = Off
      BY <3>1 DEF Elapse, Ticks, Off
    <3>3. /\ st'[s].retx = Elapse(st[s].retx) /\ st'[s].retxCnt = st[s].retxCnt
          /\ st'[s].pktRetx = st[s].pktRetx
      BY <1>0, <1>8 DEF Tick, StationType
    <3> QED
      BY <1>0, <3>2, <3>3 DEF Counted
  <2> QED
    BY <2>1, <2>2 DEF CInv
<1>9. CASE UNCHANGED vars
  BY <1>9 DEF vars, CInv
<1> QED
  BY <1>1, <1>2, <1>3, <1>4, <1>5, <1>6, <1>7, <1>8, <1>9
  DEF Next, Engine, Arrival, Expiry

(* retxCnt is one more than the collisions of the packet at hand, or just  *)
(* as many while its backoff runs, whatever else the station receives or   *)
(* restarts in between.                                                    *)
THEOREM AttemptsAreCounted == Spec => []AttemptsCounted
<1>1. Init => CInv
  <2> SUFFICES ASSUME Init
               PROVE  CInv
    OBVIOUS
  <2>1. Counted(Station0, 0)
    BY DEF Counted, Station0
  <2> QED
    BY <2>1 DEF Init, CInv
<1>2. CInv => AttemptsCounted
  BY DEF CInv, Counted, AttemptsCounted
<1> QED
  BY <1>1, <1>2, CountHolds, Invariance, PTL DEF Spec

-----------------------------------------------------------------------------
(* What a station holds, oldest first: the packet of the MAC, the binder's *)
(* and those of the fifo.  The handlers move packets along it; they only   *)
(* add at its end and remove at its head.                                  *)
Lead(x) == IF x = 0 THEN <<>> ELSE <<x>>

Stock(m) == Lead(m.pktRetx) \o m.mbq \o m.ifq

Number == Nat \ {0}

LEMMA StockSeq ==
  ASSUME NEW m \in StationType
  PROVE  /\ Lead(m.pktRetx) \in Seq(Number) /\ m.mbq \in Seq(Number)
         /\ m.ifq \in Seq(Number) /\ Stock(m) \in Seq(Number)
<1>1. m.mbq \in Seq(Number) /\ m.ifq \in Seq(Number) /\ m.pktRetx \in Nat
  BY DEF StationType, Number
<1>2. Lead(m.pktRetx) \in Seq(Number)
  <2>1. m.pktRetx # 0 => <<m.pktRetx>> \in Seq(Number)
    BY <1>1 DEF Number
  <2>2. <<>> \in Seq(Number)
    BY EmptySeq
  <2> QED
    BY <2>1, <2>2 DEF Lead
<1>3. Lead(m.pktRetx) \o m.mbq \in Seq(Number)
  BY <1>1, <1>2, ConcatProperties
<1> QED
  BY <1>1, <1>2, <1>3, ConcatProperties DEF Stock

SameStock(n, m) == n.pktRetx = m.pktRetx /\ SameQueues(n, m)

LEMMA SendStock ==
  ASSUME NEW m \in StationType
  PROVE  SameStock(_send(m), m)
<1> DEFINE a == [m EXCEPT !.mac = "IFS", !.ifs = IFS, !.busy = TRUE]
           b == [a EXCEPT !.fault = TRUE]
<1>1. a \in StationType /\ SameStock(a, m)
  BY MacConstants DEF StationType, SameStock, SameQueues, Ticks, MacState
<1>2. _send(m) \in {m, a, b}
  BY DEF _send, IFSScheduler, Asserting, StationType
<1> HIDE DEF a
<1>3. SameStock(b, m)
  BY <1>1 DEF StationType, SameStock, SameQueues
<1> HIDE DEF b
<1> QED
  BY <1>1, <1>2, <1>3 DEF SameStock, SameQueues

LEMMA ResumeStock ==
  ASSUME NEW m \in StationType
  PROVE  SameStock(resume(m), m)
<1> DEFINE a == [m EXCEPT !.mac = "IDLE"]
           b == [a EXCEPT !.fault = TRUE]
<1>1. a \in StationType /\ SameStock(a, m)
  BY DEF StationType, SameStock, SameQueues, MacState
<1>2. resume(m) \in {a, b, _send(a), _send(b)}
  BY DEF resume, Asserting
<1> HIDE DEF a
<1>3. b \in StationType /\ SameStock(b, m)
  BY <1>1 DEF StationType, SameStock, SameQueues
<1> HIDE DEF b
<1>4. SameStock(_send(a), a) /\ SameStock(_send(b), b)
  BY <1>1, <1>3, SendStock
<1> QED
  BY <1>1, <1>2, <1>3, <1>4 DEF SameStock, SameQueues

(* The MAC takes a packet when nothing waits in the binder. *)
LEMMA SendTakes ==
  ASSUME NEW m \in StationType, Accepts(m), NEW p \in Number
  PROVE  send(m, p) \in StationType /\ send(m, p).pktRetx = p /\ SameQueues(send(m, p), m)
<1> DEFINE n == [m EXCEPT !.pktRetx = p]
<1>1. n \in StationType /\ n.pktRetx = p /\ SameQueues(n, m)
  BY DEF StationType, SameQueues, Number
<1>2. send(m, p) = _send(n)
  BY DEF send
<1> HIDE DEF n
<1> QED
  BY <1>1, <1>2, SendStock, SendKeeps DEF SameStock, SameQueues

LEMMA SendRefuses ==
  ASSUME NEW m \in StationType, ~Accepts(m), NEW p \in Number
  PROVE  send(m, p) \in StationType /\ SameStock(send(m, p), m)
BY SendStock, SendKeeps DEF send

(* intrq moves the next packet down from the fifo to the binder. *)
LEMMA UpcallStock ==
  ASSUME NEW m \in StationType, m.mbq = <<>>
  PROVE  /\ intrq(m).pktRetx = m.pktRetx
         /\ Stock(intrq(m)) = Stock(m)
<1>1. CASE m.ifq = <<>>
  BY <1>1 DEF intrq
<1>2. CASE m.ifq # <<>>
  <2> DEFINE a == [m EXCEPT !.mbq = Append(@, Head(m.ifq)), !.ifq = Tail(@)]
             b == [a EXCEPT !.fault = TRUE]
             l == Lead(m.pktRetx)
             h == Head(m.ifq)
             t == Tail(m.ifq)
  <2>1. l \in Seq(Number) /\ m.ifq \in Seq(Number) /\ <<>> \in Seq(Number)
    BY StockSeq, EmptySeq
  <2>2. h \in Number /\ t \in Seq(Number) /\ <<h>> \in Seq(Number) /\ <<h>> \o t = m.ifq
    BY <1>2, <2>1, HeadTailProperties
  <2>3. /\ a.mbq = <<h>> /\ a.ifq = t /\ a.pktRetx = m.pktRetx
        /\ b.mbq = <<h>> /\ b.ifq = t /\ b.pktRetx = m.pktRetx
    BY <2>2 DEF StationType, Number
  <2>4. intrq(m) \in {a, b}
    BY <1>2 DEF intrq, Asserting
  <2>5. intrq(m).mbq = <<h>> /\ intrq(m).ifq = t /\ intrq(m).pktRetx = m.pktRetx
    BY <2>3, <2>4
  <2> HIDE DEF a, b, l, h, t
  <2>6. (l \o <<>>) = l /\ (l \o <<h>>) \o t = l \o (<<h>> \o t)
    BY <2>1, <2>2, ConcatEmptySeq, ConcatAssociative
  <2>7. Stock(intrq(m)) = (l \o <<h>>) \o t /\ Stock(m) = (l \o <<>>) \o m.ifq
    BY <2>5 DEF Stock, l
  <2> QED
    BY <2>2, <2>5, <2>6, <2>7
<1> QED
  BY <1>1, <1>2

LEMMA FifoTyped ==
  ASSUME NEW m \in StationType, NEW p \in Number
  PROVE  fifoSend(m, p) \in StationType
<1> DEFINE s == send(m, p)
           q == [m EXCEPT !.ifq = Append(@, p)]
           a == [s EXCEPT !.mbq = Append(@, p)]
           b == [a EXCEPT !.fault = TRUE]
<1>1. s \in StationType
  BY SendTakes, SendRefuses
<1>2. fifoSend(m, p) \in {m, q, intrq(s), a, b}
  BY DEF fifoSend, put, Asserting
<1> HIDE DEF s
<1>3. intrq(s) \in StationType
  BY <1>1, UpcallKeeps
<1>4. Append(m.ifq, p) \in Seq(Nat \ {0}) /\ Append(s.mbq, p) \in Seq(Nat \ {0})
  BY <1>1 DEF StationType, Number
<1>5. q \in StationType
  BY <1>4 DEF StationType
<1>6. a \in StationType
  BY <1>1, <1>4 DEF StationType
<1> HIDE DEF a, q
<1>7. b \in StationType
  BY <1>6 DEF StationType
<1> QED
  BY <1>2, <1>3, <1>5, <1>6, <1>7

(* What fifo::send does not drop goes to the end. *)
LEMMA FifoStock ==
  ASSUME NEW m, Orderly(m), Filled(m), ~Drops(m), NEW p \in Number
  PROVE  Stock(fifoSend(m, p)) = Append(Stock(m), p)
<1>0. m \in StationType
  BY DEF Orderly
<1> DEFINE l == Lead(m.pktRetx)
<1>1. /\ l \in Seq(Number) /\ m.mbq \in Seq(Number) /\ m.ifq \in Seq(Number)
      /\ <<>> \in Seq(Number) /\ <<p>> \in Seq(Number)
  BY <1>0, StockSeq, EmptySeq
<1>2. CASE qfull(m)
  <2> DEFINE n == [m EXCEPT !.ifq = Append(@, p)]
  <2>1. n.pktRetx = m.pktRetx /\ n.mbq = m.mbq /\ n.ifq = Append(m.ifq, p)
    BY <1>0 DEF StationType
  <2>2. fifoSend(m, p) = n
    BY <1>2 DEF fifoSend
  <2> DEFINE x == l \o m.mbq
  <2>3. x \in Seq(Number)
    BY <1>1, ConcatProperties
  <2>7. Stock(m) = x \o m.ifq /\ Stock(n) = x \o Append(m.ifq, p)
    BY <2>1 DEF Stock
  <2> HIDE DEF n, l, x
  <2>4. x \o (m.ifq \o <<p>>) = (x \o m.ifq) \o <<p>>
    <3>1. \A c, q \in Seq(Number) : x \o (c \o q) = (x \o c) \o q
      BY <2>3, ConcatAssociative
    <3> QED
      BY <1>1, <3>1
  <2>5. x \o m.ifq \in Seq(Number)
    BY <1>1, <2>3, ConcatProperties
  <2>6. /\ Append(m.ifq, p) = m.ifq \o <<p>>
        /\ Append(x \o m.ifq, p) = (x \o m.ifq) \o <<p>>
    BY <1>1, <2>5, AppendIsConcat
  <2> QED
    BY <2>2, <2>4, <2>6, <2>7
<1>3. CASE ~qfull(m)
  <2>1. m.mbq = <<>> /\ m.ifq = <<>>
    BY <1>3, BinderRoom DEF Filled
  <2>2. fifoSend(m, p) = put(m, p)
    BY <1>3 DEF fifoSend
  <2>3. Stock(m) = l
    <3>1. l \o <<>> = l
      BY <1>1, ConcatEmptySeq
    <3> QED
      BY <2>1, <3>1 DEF Stock
  <2>4. CASE Accepts(m)
    <3> DEFINE s == send(m, p)
    <3>1. s \in StationType /\ s.pktRetx = p /\ s.mbq = <<>> /\ s.ifq = <<>>
      BY <1>0, <2>1, <2>4, SendTakes DEF SameQueues
    <3>2. put(m, p) = intrq(s)
      BY <2>4 DEF put
    <3> HIDE DEF s
    <3>3. Stock(put(m, p)) = Stock(s)
      BY <3>1, <3>2, UpcallStock
    <3>4. Stock(s) = <<p>>
      <4>1. <<p>> \o <<>> = <<p>>
        BY <1>1, ConcatEmptySeq
      <4>2. Stock(s) = (<<p>> \o <<>>) \o <<>>
        BY <3>1 DEF Stock, Lead, Number
      <4> QED
        BY <4>1, <4>2
    <3>5. l = <<>>
      BY <2>4 DEF Accepts, Lead
    <3> QED
      BY <2>2, <2>3, <3>3, <3>4, <3>5
  <2>5. CASE ~Accepts(m)
    <3> DEFINE s == send(m, p)
               n == [s EXCEPT !.mbq = Append(@, p)]
    <3>1. s \in StationType /\ s.pktRetx = m.pktRetx /\ s.mbq = <<>> /\ s.ifq = <<>>
      BY <1>0, <2>1, <2>5, SendRefuses DEF SameQueues, SameStock
    <3>2. put(m, p) = n
      BY <2>1, <2>5 DEF put, Asserting, qfull, MbqMaxLen
    <3> HIDE DEF s
    <3>3. n.pktRetx = m.pktRetx /\ n.mbq = <<p>> /\ n.ifq = <<>>
      BY <3>1 DEF StationType
    <3> HIDE DEF n
    <3>4. l \o <<p>> \in Seq(Number)
      BY <1>1, ConcatProperties
    <3>5. (l \o <<p>>) \o <<>> = l \o <<p>> /\ Append(l, p) = l \o <<p>>
      BY <1>1, <3>4, ConcatEmptySeq, AppendIsConcat
    <3> QED
      BY <2>2, <2>3, <3>2, <3>3, <3>5 DEF Stock
  <2> QED
    BY <2>4, <2>5
<1> QED
  BY <1>2, <1>3

(* The binder hands its packet to the MAC or keeps it. *)
LEMMA ServeStock ==
  ASSUME NEW m, Settled(m)
  PROVE  Stock(serve(m)) = Stock(m)
<1>0. m \in StationType
  BY DEF Settled, Orderly
<1>1. CASE m.mbq = <<>>
  BY <1>1 DEF serve
<1>2. CASE m.mbq # <<>> /\ Accepts(m)
  <2> DEFINE k == [m EXCEPT !.mbq = Tail(@)]
             h == Head(m.mbq)
             s == send(k, h)
  <2>1. serve(m) = intrq(s)
    BY <1>2 DEF serve
  <2>2. h \in Number /\ Tail(m.mbq) = <<>> /\ m.mbq = <<h>>
    <3>1. h \in Number /\ Tail(m.mbq) = <<>>
      BY <1>2, BinderRoom DEF Settled, Number
    <3>2. m.mbq \in Seq(Number) /\ Len(m.mbq) <= 1 /\ m.mbq # <<>>
      BY <1>0, <1>2, StockSeq DEF Settled, Orderly, MbqMaxLen
    <3>3. Len(m.mbq) = 1
      <4>1. Len(m.mbq) \in Nat
        BY <3>2, LenProperties
      <4>2. Len(Tail(m.mbq)) = Len(m.mbq) - 1
        BY <3>2, HeadTailProperties
      <4>3. Len(Tail(m.mbq)) = 0
        BY <3>1, EmptySeq
      <4> QED
        BY <4>1, <4>2, <4>3
    <3>4. m.mbq = <<m.mbq[1]>>
      BY <3>2, <3>3
    <3> QED
      BY <3>1, <3>4
  <2>3. k \in StationType /\ k.mbq = <<>> /\ k.ifq = m.ifq /\ k.pktRetx = m.pktRetx
    <3>1. <<>> \in Seq(Nat \ {0})
      BY EmptySeq
    <3> QED
      BY <1>0, <2>2, <3>1 DEF StationType
  <2> HIDE DEF k, h
  <2>4. Accepts(k)
    BY <1>2, <2>3 DEF Accepts
  <2>5. s \in StationType /\ s.pktRetx = h /\ s.mbq = <<>> /\ s.ifq = m.ifq
    BY <2>2, <2>3, <2>4, SendTakes DEF SameQueues
  <2> HIDE DEF s
  <2>6. Stock(serve(m)) = Stock(s)
    BY <2>1, <2>5, UpcallStock
  <2>7. Stock(s) = (<<h>> \o <<>>) \o m.ifq /\ Stock(m) = (<<>> \o <<h>>) \o m.ifq
    BY <1>2, <2>2, <2>5 DEF Stock, Lead, Accepts, Number
  <2>8. <<h>> \o <<>> = <<h>> /\ <<>> \o <<h>> = <<h>>
    <3>1. <<h>> \in Seq(Number)
      BY <2>2
    <3> QED
      BY <3>1, ConcatEmptySeq
  <2> QED
    BY <2>6, <2>7, <2>8
<1>3. CASE m.mbq # <<>> /\ ~Accepts(m)
  <2>1. Head(m.mbq) \in Number
    BY <1>3, BinderRoom DEF Settled, Number
  <2>2. serve(m) = send(m, Head(m.mbq))
    BY <1>3 DEF serve
  <2>3. SameStock(send(m, Head(m.mbq)), m)
    BY <1>0, <1>3, <2>1, SendRefuses
  <2> QED
    BY <2>2, <2>3 DEF SameStock, SameQueues, Stock
<1> QED
  BY <1>1, <1>2, <1>3

LEMMA PollStock ==
  ASSUME NEW m, Settled(m), Filled(m)
  PROVE  Stock(poll(m)) = Stock(m)
<1>1. Sound(serve(m)) /\ Stock(serve(m)) = Stock(m)
  BY ServeSounds, ServeStock
<1>2. Settled(serve(m))
  BY <1>1 DEF Sound
<1>3. Stock(serve(serve(m))) = Stock(serve(m))
  BY <1>2, ServeStock
<1> QED
  BY <1>1, <1>3 DEF poll

-----------------------------------------------------------------------------
(* The handlers: what they do to the stock.  SameQueues is known of them.  *)

LEMMA TxEmpties ==
  ASSUME NEW m, Settled(m), m.tx = 0
  PROVE  txHandler([m EXCEPT !.tx = Off]).pktRetx = 0
<1> DEFINE n == [m EXCEPT !.tx = Off, !.busy = FALSE, !.retxCnt = 1, !.pktRetx = 0]
<1>1. n \in StationType /\ n.pktRetx = 0
  <2>1. n \in StationType
    BY DEF Settled, Orderly, StationType, Ticks
  <2> QED
    BY <2>1 DEF Settled, Orderly, StationType
<1>2. m.pktRetx # 0
  BY DEF Settled, TimersMatch, Off
<1>3. txHandler([m EXCEPT !.tx = Off]) = resume(n)
  <2> DEFINE a == [[m EXCEPT !.tx = Off] EXCEPT !.busy = FALSE]
  <2>1. retxReset(a) = n
    BY DEF retxReset, Settled, Orderly, StationType
  <2> QED
    BY <1>2, <2>1 DEF txHandler, Asserting, Settled, Orderly, StationType
<1> HIDE DEF n
<1> QED
  BY <1>1, <1>3, ResumeStock DEF SameStock

LEMMA RetxKeeps ==
  ASSUME NEW m, Settled(m), m.retx = 0
  PROVE  retxHandler([m EXCEPT !.retx = Off]).pktRetx = m.pktRetx
<1> DEFINE n == [m EXCEPT !.retx = Off, !.busy = FALSE, !.retxCnt = @ + 1]
<1>1. m.pktRetx # 0 /\ m.busy
  BY DEF Settled, TimersMatch, Off
<1>2. n \in StationType /\ n.pktRetx = m.pktRetx
  <2>1. m.retxCnt + 1 \in Nat
    BY DEF Settled, Orderly, StationType
  <2>2. n \in StationType
    BY <2>1 DEF Settled, Orderly, StationType, Ticks
  <2> QED
    BY <2>2 DEF Settled, Orderly, StationType
<1>3. retxHandler([m EXCEPT !.retx = Off]) = _send(n)
  BY <1>1 DEF retxHandler, Asserting, Settled, Orderly, StationType
<1> HIDE DEF n
<1> QED
  BY <1>2, <1>3, SendStock DEF SameStock

(* A frame cut off stays with the MAC unless it is given up. *)
LEMMA SendCollisionStock ==
  ASSUME NEW m, Settled(m), m.mac = "SEND", NEW r \in Nat
  PROVE  SendCollision(m, r).pktRetx = IF GivesUp(m) THEN 0 ELSE m.pktRetx
<1> DEFINE c == [m EXCEPT !.tx = Off, !.busy = FALSE, !.mac = "IDLE"]
<1>1. m.busy /\ m.pktRetx # 0
  BY DEF Settled, TimersMatch
<1>2. c \in StationType /\ ~c.busy /\ SameCount(c, m)
  BY DEF Settled, Orderly, StationType, Ticks, MacState, SameCount
<1>3. SendCollision(m, r) = IF GivesUp(c) THEN resume(retxReset(c))
                            ELSE [c EXCEPT !.retx = r * Slot, !.busy = TRUE]
  BY <1>1, <1>2 DEF SendCollision, Asserting, retxScheduler, SameCount
<1>4. GivesUp(c) <=> GivesUp(m)
  BY <1>2 DEF GivesUp, SameCount
<1> HIDE DEF c
<1>5. CASE GivesUp(c)
  <2> DEFINE n == [c EXCEPT !.retxCnt = 1, !.pktRetx = 0]
  <2>1. n \in StationType /\ n.pktRetx = 0
    BY <1>2 DEF StationType
  <2>2. SendCollision(m, r) = resume(n)
    BY <1>2, <1>3, <1>5 DEF retxReset
  <2> HIDE DEF n
  <2> QED
    BY <1>4, <1>5, <2>1, <2>2, ResumeStock DEF SameStock
<1>6. CASE ~GivesUp(c)
  <2> DEFINE n == [c EXCEPT !.retx = r * Slot, !.busy = TRUE]
  <2>1. n.pktRetx = m.pktRetx
    BY <1>2 DEF StationType, SameCount
  <2> QED
    BY <1>3, <1>4, <1>6, <2>1
<1> QED
  BY <1>5, <1>6

(* The answer of the layers above goes to the end, unless it is refused. *)
LEMMA RxStock ==
  ASSUME NEW m, Settled(m), Filled(m), m.rx = 0, NEW p \in Nat
  PROVE  Stock(rxHandler([m EXCEPT !.rx = Off], p)) =
           IF p = 0 \/ Drops(m) THEN Stock(m) ELSE Append(Stock(m), p)
<1> DEFINE t == [m EXCEPT !.rx = Off, !.pktRx = FALSE]
           u == IF p = 0 THEN t ELSE fifoSend(t, p)
<1>1. m.pktRx /\ m.tx = Off
  BY DEF Settled, TimersMatch, Off
<1>2. t \in StationType /\ SameStock(t, m) /\ t.ifs = m.ifs /\ t.fault = m.fault
  BY DEF Settled, Orderly, StationType, Ticks, SameStock, SameQueues
<1>3. rxHandler([m EXCEPT !.rx = Off], p) = resume(u)
  BY <1>1 DEF rxHandler, Asserting, Settled, Orderly, StationType
<1> HIDE DEF t
<1>4. Orderly(t) /\ Filled(t) /\ (Drops(t) <=> Drops(m)) /\ Stock(t) = Stock(m)
  BY <1>2 DEF Settled, Orderly, Filled, SameStock, SameQueues, Drops, qfull, IfqFull, Stock
<1>5. u \in StationType /\ Stock(u) = IF p = 0 \/ Drops(m) THEN Stock(m) ELSE Append(Stock(m), p)
  <2>1. CASE p = 0
    BY <1>2, <1>4, <2>1
  <2>2. CASE p # 0 /\ Drops(m)
    <3>1. fifoSend(t, p) = t
      BY <1>4, <2>2 DEF fifoSend
    <3> QED
      BY <1>2, <1>4, <2>2, <3>1
  <2>3. CASE p # 0 /\ ~Drops(m)
    <3>1. p \in Number
      BY <2>3 DEF Number
    <3>2. Stock(u) = Append(Stock(m), p)
      BY <1>4, <2>3, <3>1, FifoStock
    <3>3. fifoSend(t, p) \in StationType
      BY <1>2, <3>1, FifoTyped
    <3> QED
      BY <2>3, <3>2, <3>3
  <2> QED
    BY <2>1, <2>2, <2>3
<1> HIDE DEF u
<1>6. SameStock(resume(u), u)
  BY <1>5, ResumeStock
<1> QED
  BY <1>3, <1>5, <1>6 DEF SameStock, SameQueues, Stock

-----------------------------------------------------------------------------
(* The books of one station: it made the packets 1 .. k, holds those of q, *)
(* oldest first, and has let go of those of g.                             *)
Accounted(q, g, k) ==
  /\ q \in Seq(Number) /\ g \in Seq(Number \X Fate)
  /\ Len(g) + Len(q) = k
  /\ \A i \in 1 .. Len(g) : g[i][1] <= k
  /\ \A i \in 1 .. Len(q) : q[i] <= k
  /\ \A p \in 1 .. k : \/ \E i \in 1 .. Len(g) : g[i][1] = p
                       \/ \E i \in 1 .. Len(q) : q[i] = p
  /\ \A i, j \in 1 .. Len(q) : i < j => q[i] < q[j]
  /\ \A i \in 1 .. Len(g) : g[i][2] # "full" => \A j \in 1 .. Len(q) : g[i][1] < q[j]

(* A packet is made and goes to the end of the stock. *)
LEMMA TakenIn ==
  ASSUME NEW q, NEW g, NEW k \in Nat, Accounted(q, g, k)
  PROVE  Accounted(Append(q, k + 1), g, k + 1)
<1> DEFINE n == Append(q, k + 1)
<1>1. /\ q \in Seq(Number) /\ k + 1 \in Number /\ Len(q) \in Nat /\ g \in Seq(Number \X Fate)
      /\ Len(g) \in Nat
  BY LenProperties DEF Accounted, Number
<1>2. /\ n \in Seq(Number) /\ Len(n) = Len(q) + 1 /\ n[Len(q) + 1] = k + 1
      /\ \A i \in 1 .. Len(q) : n[i] = q[i]
  BY <1>1, AppendProperties
<1> HIDE DEF n
<1>3. \A i \in 1 .. Len(n) : i \in 1 .. Len(q) \/ i = Len(q) + 1
  BY <1>1, <1>2
<1>4. \A i \in 1 .. Len(q) : q[i] \in Number /\ q[i] <= k
  BY <1>1, ElementOfSeq DEF Accounted
<1>5. \A i \in 1 .. Len(g) : g[i][1] \in Number /\ g[i][1] <= k
  BY <1>1, ElementOfSeq DEF Accounted
<1>6. \A i \in 1 .. Len(n) : n[i] <= k + 1
  BY <1>2, <1>3, <1>4 DEF Number
<1>7. \A i \in 1 .. Len(g) : g[i][1] <= k + 1
  BY <1>5 DEF Number
<1>8. ASSUME NEW p \in 1 .. k + 1
      PROVE  \/ \E i \in 1 .. Len(g) : g[i][1] = p
             \/ \E i \in 1 .. Len(n) : n[i] = p
  <2>1. CASE p = k + 1
    BY <1>1, <1>2, <2>1
  <2>2. CASE p # k + 1
    <3>1. p \in 1 .. k
      BY <2>2
    <3>2. \/ \E i \in 1 .. Len(g) : g[i][1] = p
          \/ \E i \in 1 .. Len(q) : q[i] = p
      BY <3>1 DEF Accounted
    <3>3. \A i \in 1 .. Len(q) : i \in 1 .. Len(n)
      BY <1>1, <1>2
    <3> QED
      BY <1>2, <3>2, <3>3
  <2> QED
    BY <2>1, <2>2
<1>9. ASSUME NEW i \in 1 .. Len(n), NEW j \in 1 .. Len(n), i < j
      PROVE  n[i] < n[j]
  <2>1. i \in 1 .. Len(q)
    BY <1>1, <1>2, <1>9
  <2>2. CASE j = Len(q) + 1
    BY <1>2, <1>4, <2>1, <2>2 DEF Number
  <2>3. CASE j \in 1 .. Len(q)
    BY <1>2, <1>9, <2>1, <2>3 DEF Accounted
  <2> QED
    BY <1>3, <2>2, <2>3
<1>10. ASSUME NEW i \in 1 .. Len(g), g[i][2] # "full", NEW j \in 1 .. Len(n)
       PROVE  g[i][1] < n[j]
  <2>1. CASE j = Len(q) + 1
    BY <1>2, <1>5, <2>1 DEF Number
  <2>2. CASE j \in 1 .. Len(q)
    BY <1>2, <1>10, <2>2 DEF Accounted
  <2> QED
    BY <1>3, <2>1, <2>2
<1>11. Len(g) + Len(n) = k + 1
  BY <1>1, <1>2 DEF Accounted
<1> QED
  BY <1>1, <1>2, <1>6, <1>7, <1>8, <1>9, <1>10, <1>11 DEF Accounted, n

(* A packet leaves: g' is g with an entry for packet p at its end. *)
LEMMA LedgerGrows ==
  ASSUME NEW g \in Seq(Number \X Fate), NEW p \in Number, NEW fate \in Fate
  PROVE  LET a == Append(g, <<p, fate>>)
         IN  /\ a \in Seq(Number \X Fate) /\ Len(a) = Len(g) + 1 /\ Len(g) \in Nat
             /\ \A i \in 1 .. Len(a) : i \in 1 .. Len(g) \/ i = Len(a)
             /\ \A i \in 1 .. Len(g) : i \in 1 .. Len(a) /\ a[i] = g[i]
             /\ Len(a) \in 1 .. Len(a) /\ a[Len(a)][1] = p /\ a[Len(a)][2] = fate
<1> DEFINE e == <<p, fate>>
           a == Append(g, e)
<1>1. e \in Number \X Fate /\ e[1] = p /\ e[2] = fate
  OBVIOUS
<1> HIDE DEF e
<1>2. /\ a \in Seq(Number \X Fate) /\ Len(a) = Len(g) + 1 /\ a[Len(g) + 1] = e
      /\ \A i \in 1 .. Len(g) : a[i] = g[i]
  BY <1>1, AppendProperties
<1>3. Len(g) \in Nat
  BY LenProperties
<1> HIDE DEF a
<1>4. /\ \A i \in 1 .. Len(a) : i \in 1 .. Len(g) \/ i = Len(a)
      /\ \A i \in 1 .. Len(g) : i \in 1 .. Len(a)
      /\ Len(a) \in 1 .. Len(a)
  BY <1>2, <1>3
<1>5. a[Len(a)][1] = p /\ a[Len(a)][2] = fate
  BY <1>1, <1>2
<1> QED
  BY <1>2, <1>3, <1>4, <1>5 DEF a, e

(* A packet is made and the full queue refuses it. *)
LEMMA TurnedAway ==
  ASSUME NEW q, NEW g, NEW k \in Nat, Accounted(q, g, k)
  PROVE  Accounted(q, Append(g, <<k + 1, "full">>), k + 1)
<1> DEFINE a == Append(g, <<k + 1, "full">>)
<1>1. /\ q \in Seq(Number) /\ k + 1 \in Number /\ Len(q) \in Nat /\ g \in Seq(Number \X Fate)
      /\ "full" \in Fate /\ Len(g) + Len(q) = k
  <2>1. q \in Seq(Number) /\ g \in Seq(Number \X Fate) /\ Len(g) + Len(q) = k
    BY DEF Accounted
  <2>2. k + 1 \in Number /\ "full" \in Fate
    BY DEF Number, Fate
  <2>3. Len(q) \in Nat
    BY <2>1, LenProperties
  <2> QED
    BY <2>1, <2>2, <2>3
<1>2. /\ a \in Seq(Number \X Fate) /\ Len(a) = Len(g) + 1 /\ Len(g) \in Nat
      /\ \A i \in 1 .. Len(a) : i \in 1 .. Len(g) \/ i = Len(a)
      /\ \A i \in 1 .. Len(g) : i \in 1 .. Len(a) /\ a[i] = g[i]
      /\ Len(a) \in 1 .. Len(a) /\ a[Len(a)][1] = k + 1 /\ a[Len(a)][2] = "full"
  BY <1>1, LedgerGrows
<1> HIDE DEF a
<1>3. \A i \in 1 .. Len(q) : q[i] <= k + 1
  BY <1>1, ElementOfSeq DEF Accounted, Number
<1>4. ASSUME NEW i \in 1 .. Len(a)
      PROVE  a[i][1] <= k + 1 /\ (a[i][2] # "full" => \A j \in 1 .. Len(q) : a[i][1] < q[j])
  <2>1. CASE i = Len(a)
    BY <1>2, <2>1
  <2>2. CASE i \in 1 .. Len(g)
    <3>1. a[i] = g[i] /\ g[i][1] \in Number /\ g[i][1] <= k
      BY <1>1, <1>2, <2>2, ElementOfSeq DEF Accounted
    <3> QED
      BY <2>2, <3>1 DEF Accounted, Number
  <2> QED
    BY <1>2, <2>1, <2>2
<1>5. ASSUME NEW p \in 1 .. k + 1
      PROVE  \/ \E i \in 1 .. Len(a) : a[i][1] = p
             \/ \E i \in 1 .. Len(q) : q[i] = p
  <2>1. CASE p = k + 1
    BY <1>2, <2>1
  <2>2. CASE p # k + 1
    <3>1. p \in 1 .. k
      BY <2>2
    <3>2. \/ \E i \in 1 .. Len(g) : g[i][1] = p
          \/ \E i \in 1 .. Len(q) : q[i] = p
      BY <3>1 DEF Accounted
    <3> QED
      BY <1>2, <3>2
  <2> QED
    BY <2>1, <2>2
<1>6. Len(a) + Len(q) = k + 1
  <2>1. Len(g) + Len(q) = k /\ Len(a) = Len(g) + 1 /\ Len(g) \in Nat /\ Len(q) \in Nat
    BY <1>1, <1>2
  <2> QED
    BY <2>1
<1> QED
  BY <1>1, <1>2, <1>3, <1>4, <1>5, <1>6 DEF Accounted, a

(* The packet at the head of the stock leaves, sent or given up. *)
LEMMA LetGo ==
  ASSUME NEW p \in Number, NEW t \in Seq(Number), NEW g, NEW k \in Nat,
         Accounted(<<p>> \o t, g, k), NEW fate \in Fate \ {"full"}
  PROVE  Accounted(t, Append(g, <<p, fate>>), k)
<1> DEFINE q == <<p>> \o t
           a == Append(g, <<p, fate>>)
<1>1. /\ q \in Seq(Number) /\ Len(q) = Len(t) + 1 /\ q[1] = p /\ Len(t) \in Nat
      /\ \A i \in 1 .. Len(t) : q[i + 1] = t[i]
  <2> DEFINE h == <<p>>
  <2>1. h \in Seq(Number) /\ Len(h) = 1 /\ h[1] = p
    OBVIOUS
  <2> HIDE DEF h
  <2>2. Len(t) \in Nat
    BY LenProperties
  <2>3. /\ h \o t \in Seq(Number) /\ Len(h \o t) = Len(h) + Len(t)
        /\ \A i \in 1 .. Len(h) + Len(t) : (h \o t)[i] =
                     IF i <= Len(h) THEN h[i] ELSE t[i - Len(h)]
    BY <2>1, ConcatProperties
  <2>4. (h \o t)[1] = p
    BY <2>1, <2>2, <2>3
  <2>5. ASSUME NEW i \in 1 .. Len(t)
        PROVE  (h \o t)[i + 1] = t[i]
    BY <2>1, <2>2, <2>3
  <2> QED
    BY <2>1, <2>2, <2>3, <2>4, <2>5 DEF h
<1>2. Accounted(q, g, k)
  OBVIOUS
<1> HIDE DEF q
<1>3. g \in Seq(Number \X Fate) /\ fate \in Fate
  BY <1>2 DEF Accounted
<1>4. /\ a \in Seq(Number \X Fate) /\ Len(a) = Len(g) + 1 /\ Len(g) \in Nat
      /\ \A i \in 1 .. Len(a) : i \in 1 .. Len(g) \/ i = Len(a)
      /\ \A i \in 1 .. Len(g) : i \in 1 .. Len(a) /\ a[i] = g[i]
      /\ Len(a) \in 1 .. Len(a) /\ a[Len(a)][1] = p /\ a[Len(a)][2] = fate
  BY <1>3, LedgerGrows
<1> HIDE DEF a
<1>5. 1 \in 1 .. Len(q) /\ \A i \in 1 .. Len(t) : i + 1 \in 1 .. Len(q) /\ 1 < i + 1
  BY <1>1
<1>6. ASSUME NEW i \in 1 .. Len(t)
      PROVE  t[i] <= k /\ p < t[i]
  BY <1>1, <1>2, <1>5 DEF Accounted
<1>7. ASSUME NEW i \in 1 .. Len(t), NEW j \in 1 .. Len(t), i < j
      PROVE  t[i] < t[j]
  <2>1. i + 1 \in 1 .. Len(q) /\ j + 1 \in 1 .. Len(q) /\ i + 1 < j + 1
    BY <1>5, <1>7
  <2>2. q[i + 1] < q[j + 1]
    BY <1>2, <2>1 DEF Accounted
  <2> QED
    BY <1>1, <2>2
<1>8. ASSUME NEW i \in 1 .. Len(a)
      PROVE  a[i][1] <= k /\ (a[i][2] # "full" => \A j \in 1 .. Len(t) : a[i][1] < t[j])
  <2>1. CASE i = Len(a)
    <3>1. a[i][1] = p
      BY <1>4, <2>1
    <3>2. q[1] <= k
      BY <1>2, <1>5 DEF Accounted
    <3> QED
      BY <1>1, <1>6, <3>1, <3>2
  <2>2. CASE i \in 1 .. Len(g)
    <3>1. a[i] = g[i]
      BY <1>4, <2>2
    <3>2. g[i][1] <= k /\ (g[i][2] # "full" => \A j \in 1 .. Len(q) : g[i][1] < q[j])
      BY <1>2, <2>2 DEF Accounted
    <3> QED
      BY <1>1, <1>5, <3>1, <3>2
  <2> QED
    BY <1>4, <2>1, <2>2
<1>9. ASSUME NEW x \in 1 .. k
      PROVE  \/ \E i \in 1 .. Len(a) : a[i][1] = x
             \/ \E i \in 1 .. Len(t) : t[i] = x
  <2>1. CASE \E i \in 1 .. Len(g) : g[i][1] = x
    BY <1>4, <2>1
  <2>2. CASE \E i \in 1 .. Len(q) : q[i] = x
    <3>1. PICK i \in 1 .. Len(q) : q[i] = x
      BY <2>2
    <3>2. CASE i = 1
      BY <1>1, <1>4, <3>1, <3>2
    <3>3. CASE i # 1
      <4>1. i - 1 \in 1 .. Len(t) /\ (i - 1) + 1 = i
        BY <1>1, <3>3
      <4>2. t[i - 1] = q[i]
        BY <1>1, <4>1
      <4> QED
        BY <3>1, <4>1, <4>2
    <3> QED
      BY <3>2, <3>3
  <2> QED
    BY <1>2, <2>1, <2>2 DEF Accounted
<1>10. Len(a) + Len(t) = k
  BY <1>1, <1>2, <1>4 DEF Accounted
<1> QED
  BY <1>4, <1>6, <1>7, <1>8, <1>9, <1>10 DEF Accounted, a

-----------------------------------------------------------------------------
QInv == /\ gone \in [Station -> Seq(Number \X Fate)]
        /\ \A s \in Station : Accounted(Stock(st[s]), gone[s], made[s])

(* The books of one station change, the others' stay as they are. *)
LEMMA BecomesAccounted ==
  ASSUME IInv, QInv, NEW s \in Station, NEW m, Settled(m), Filled(m), Becomes(s, m),
         NEW g, NEW k, Accounted(Stock(m), g, k),
         gone' = [gone EXCEPT ![s] = g], made' = [made EXCEPT ![s] = k]
  PROVE  QInv'
<1>1. Stock(poll(m)) = Stock(m)
  BY PollStock
<1>2. st' = [st EXCEPT ![s] = poll(m)]
  BY DEF Becomes
<1>3. gone' \in [Station -> Seq(Number \X Fate)]
  BY DEF QInv, Accounted
<1>4. ASSUME NEW u \in Station
      PROVE  Accounted(Stock(st'[u]), gone'[u], made'[u])
  <2>1. CASE u = s
    <3>1. st'[u] = poll(m) /\ gone'[u] = g /\ made'[u] = k
      BY <1>2, <2>1 DEF IInv, QInv
    <3> QED
      BY <1>1, <3>1
  <2>2. CASE u # s
    <3>1. st'[u] = st[u] /\ gone'[u] = gone[u] /\ made'[u] = made[u]
      BY <1>2, <2>2 DEF IInv, QInv
    <3> QED
      BY <3>1 DEF QInv
  <2> QED
    BY <2>1, <2>2
<1> QED
  BY <1>3, <1>4 DEF QInv

(* The packet the MAC holds leaves it; what waits behind it stays. *)
LEMMA HeadLeaves ==
  ASSUME NEW m \in StationType, NEW n, SameQueues(n, m), n.pktRetx = 0, m.pktRetx # 0,
         NEW g, NEW k \in Nat, Accounted(Stock(m), g, k), NEW fate \in Fate \ {"full"}
  PROVE  Accounted(Stock(n), Append(g, <<m.pktRetx, fate>>), k)
<1> DEFINE p == m.pktRetx
           t == m.mbq \o m.ifq
           h == <<p>>
<1>1. p \in Number /\ m.mbq \in Seq(Number) /\ m.ifq \in Seq(Number)
  BY StockSeq DEF StationType, Number
<1>2. t \in Seq(Number) /\ h \in Seq(Number)
  BY <1>1, ConcatProperties
<1>3. Stock(m) = (h \o m.mbq) \o m.ifq
  BY DEF Stock, Lead
<1>4. Stock(n) = (<<>> \o m.mbq) \o m.ifq
  BY DEF Stock, Lead, SameQueues
<1>5. <<>> \o m.mbq = m.mbq
  BY <1>1, ConcatEmptySeq
<1>6. Stock(n) = t
  BY <1>4, <1>5
<1> HIDE DEF h
<1>7. \A b, c \in Seq(Number) : (h \o b) \o c = h \o (b \o c)
  <2>1. h \in Seq(Number)
    BY <1>2
  <2> QED
    BY <2>1, ConcatAssociative
<1>8. Stock(m) = h \o t
  BY <1>1, <1>3, <1>7
<1> HIDE DEF t, p
<1>9. Accounted(<<p>> \o t, g, k)
  BY <1>8 DEF h
<1>10. Accounted(t, Append(g, <<p, fate>>), k)
  BY <1>1, <1>2, <1>9, LetGo
<1> QED
  BY <1>6, <1>10 DEF p

LEMMA BooksHold == IInv /\ QInv /\ [Next]_vars => QInv'
<1> SUFFICES ASSUME IInv, QInv, [Next]_vars
             PROVE  QInv'
  OBVIOUS
<1>0. ASSUME NEW s \in Station
      PROVE  /\ Settled(st[s]) /\ Filled(st[s]) /\ Orderly(st[s])
             /\ st[s] \in StationType
             /\ made[s] \in Nat /\ made[s] + 1 \in Number
             /\ Accounted(Stock(st[s]), gone[s], made[s])
             /\ gone = [gone EXCEPT ![s] = gone[s]] /\ made = [made EXCEPT ![s] = made[s]]
  BY <1>0 DEF IInv, QInv, Sound, InTurn, Filled, Settled, Number
(* Most events leave the stock alone, or only remove its head. *)
<1>10. ASSUME NEW s \in Station, NEW n, Settled(n), Becomes(s, n), SameQueues(n, st[s]),
              n.pktRetx = st[s].pktRetx, gone' = gone, made' = made
       PROVE  QInv'
  <2>1. Stock(n) = Stock(st[s])
    BY <1>10 DEF Stock, SameQueues
  <2>2. Filled(n)
    BY <1>0, <1>10 DEF Filled, SameQueues
  <2> DEFINE g == gone[s]
             k == made[s]
  <2>3. gone' = [gone EXCEPT ![s] = g] /\ made' = [made EXCEPT ![s] = k]
    BY <1>0, <1>10
  <2>4. Accounted(Stock(n), g, k)
    BY <1>0, <2>1
  <2> HIDE DEF g, k
  <2> QED
    BY <1>10, <2>2, <2>3, <2>4, BecomesAccounted
<1>11. ASSUME NEW s \in Station, NEW n, Settled(n), Becomes(s, n), SameQueues(n, st[s]),
              n.pktRetx = 0, st[s].pktRetx # 0, NEW fate \in Fate \ {"full"},
              Leaves(s, st[s].pktRetx, fate), made' = made
       PROVE  QInv'
  <2> DEFINE g == Append(gone[s], <<st[s].pktRetx, fate>>)
  <2>1. Accounted(Stock(n), g, made[s])
    BY <1>0, <1>11, HeadLeaves
  <2>2. Filled(n)
    BY <1>0, <1>11 DEF Filled, SameQueues
  <2>3. gone' = [gone EXCEPT ![s] = g] /\ made' = [made EXCEPT ![s] = made[s]]
    BY <1>0, <1>11 DEF Leaves, QInv
  <2> HIDE DEF g
  <2> QED
    BY <1>11, <2>1, <2>2, <2>3, BecomesAccounted
<1>1. ASSUME NEW s \in Station, UpperSend(s)
      PROVE  QInv'
  <2> DEFINE n == fifoSend(st[s], made[s] + 1)
  <2>1. Settled(n) /\ Filled(n)
    BY <1>0, FifoSettles DEF Number
  <2>2. Becomes(s, n) /\ made' = [made EXCEPT ![s] = made[s] + 1]
    BY <1>1 DEF UpperSend
  <2>3. CASE Drops(st[s])
    <3>1. n = st[s]
      BY <2>3 DEF fifoSend
    <3>2. gone' = [gone EXCEPT ![s] = Append(gone[s], <<made[s] + 1, "full">>)]
      BY <1>1, <2>3 DEF UpperSend, Leaves, QInv
    <3>3. Accounted(Stock(st[s]), Append(gone[s], <<made[s] + 1, "full">>), made[s] + 1)
      BY <1>0, TurnedAway
    <3> HIDE DEF n
    <3> QED
      BY <2>1, <2>2, <3>1, <3>2, <3>3, BecomesAccounted
  <2>4. CASE ~Drops(st[s])
    <3> DEFINE g == gone[s]
    <3>1. Stock(n) = Append(Stock(st[s]), made[s] + 1)
      BY <1>0, <2>4, FifoStock
    <3>2. gone' = [gone EXCEPT ![s] = g]
      BY <1>0, <1>1, <2>4 DEF UpperSend
    <3>3. Accounted(Append(Stock(st[s]), made[s] + 1), g, made[s] + 1)
      BY <1>0, TakenIn
    <3> HIDE DEF n, g
    <3>4. Accounted(Stock(n), g, made[s] + 1)
      BY <3>1, <3>3
    <3> QED
      BY <2>1, <2>2, <3>2, <3>4, BecomesAccounted
  <2> QED
    BY <2>3, <2>4
<1>2. ASSUME NEW f \in air, Lost(f)
      PROVE  QInv'
  <2>1. f.to \in Station /\ Becomes(f.to, st[f.to]) /\ gone' = gone /\ made' = made
    BY <1>2 DEF IInv, Frame, Lost
  <2>2. Settled(st[f.to]) /\ SameQueues(st[f.to], st[f.to])
    BY <1>0, <2>1 DEF SameQueues
  <2> QED
    BY <1>10, <2>1, <2>2
<1>3. ASSUME NEW f \in air, NEW r \in 0 .. 2 ^ BLIMIT - 1, Arrive(f, r)
      PROVE  QInv'
  <2> DEFINE s == f.to
             n == recv(st[s], f.dur, r)
  <2>1. s \in Station /\ f.dur \in Nat \ {0} /\ r \in Nat
    BY DEF IInv, Frame
  <2>2. Settled(n) /\ SameQueues(n, st[s])
    BY <1>0, <2>1, RecvSettles
  <2>3. Becomes(s, n) /\ made' = made
    BY <1>3 DEF Arrive
  <2>4. CASE st[s].mac = "SEND" /\ GivesUp(st[s])
    <3>1. n.pktRetx = 0
      BY <1>0, <2>1, <2>4, SendCollisionStock DEF recv, collision
    <3>2. Leaves(s, st[s].pktRetx, "given up") /\ "given up" \in Fate \ {"full"}
      BY <1>3, <2>4 DEF Arrive, Fate
    <3>3. st[s].pktRetx # 0
      BY <1>0, <2>1, <2>4 DEF Settled, TimersMatch
    <3> HIDE DEF s, n
    <3> QED
      BY <1>11, <2>1, <2>2, <2>3, <3>1, <3>2, <3>3
  <2>5. CASE ~(st[s].mac = "SEND" /\ GivesUp(st[s]))
    <3>1. n.pktRetx = st[s].pktRetx
      <4>1. CASE st[s].mac = "SEND"
        BY <1>0, <2>1, <2>5, <4>1, SendCollisionStock DEF recv, collision
      <4>2. CASE st[s].mac # "SEND"
        BY <1>0, <2>1, <4>2, RecvCounts DEF SameCount
      <4> QED
        BY <4>1, <4>2
    <3>2. gone' = gone
      BY <1>3, <2>5 DEF Arrive
    <3> HIDE DEF s, n
    <3> QED
      BY <1>10, <2>1, <2>2, <2>3, <3>1, <3>2
  <2> QED
    BY <2>4, <2>5
<1>4. ASSUME NEW s \in Station, NEW d \in TxTime, IFSExpires(s, d)
      PROVE  QInv'
  <2> DEFINE n == IFSHandler([st[s] EXCEPT !.ifs = Off], d)
  <2>1. d \in Nat \ {0}
    BY EthernetConstants
  <2>2. Becomes(s, n) /\ st[s].ifs = 0 /\ gone' = gone /\ made' = made
    BY <1>4 DEF IFSExpires
  <2>3. Settled(n) /\ SameQueues(n, st[s]) /\ SameCount(n, st[s])
    BY <1>0, <2>1, <2>2, IFSSettles, IFSCounts
  <2> HIDE DEF n
  <2> QED
    BY <1>10, <2>2, <2>3 DEF SameCount
<1>5. ASSUME NEW s \in Station, TxExpires(s)
      PROVE  QInv'
  <2> DEFINE n == txHandler([st[s] EXCEPT !.tx = Off])
  <2>1. /\ Becomes(s, n) /\ st[s].tx = 0 /\ made' = made
        /\ Leaves(s, st[s].pktRetx, "sent") /\ "sent" \in Fate \ {"full"}
    BY <1>5 DEF TxExpires, Fate
  <2>2. Settled(n) /\ SameQueues(n, st[s]) /\ n.pktRetx = 0
    BY <1>0, <2>1, TxSettles, TxEmpties
  <2>3. st[s].pktRetx # 0
    BY <1>0, <2>1 DEF Settled, TimersMatch, Off
  <2> HIDE DEF n
  <2> QED
    BY <1>11, <2>1, <2>2, <2>3
<1>6. ASSUME NEW s \in Station, RetxExpires(s)
      PROVE  QInv'
  <2> DEFINE n == retxHandler([st[s] EXCEPT !.retx = Off])
  <2>1. Becomes(s, n) /\ st[s].retx = 0 /\ gone' = gone /\ made' = made
    BY <1>6 DEF RetxExpires
  <2>2. Settled(n) /\ SameQueues(n, st[s]) /\ n.pktRetx = st[s].pktRetx
    BY <1>0, <2>1, RetxSettles, RetxKeeps
  <2> HIDE DEF n
  <2> QED
    BY <1>10, <2>1, <2>2
<1>7. ASSUME NEW s \in Station, NEW answer \in BOOLEAN, RxExpires(s, answer)
      PROVE  QInv'
  <2> DEFINE p == IF answer THEN made[s] + 1 ELSE 0
             n == rxHandler([st[s] EXCEPT !.rx = Off], p)
  <2>1. p \in Nat
    BY <1>0
  <2>2. Becomes(s, n) /\ st[s].rx = 0
    BY <1>7 DEF RxExpires
  <2>3. made' = IF answer THEN [made EXCEPT ![s] = made[s] + 1] ELSE [made EXCEPT ![s] = made[s]]
    BY <1>7 DEF RxExpires
  <2>4. gone' = IF answer /\ Drops(st[s])
                THEN [gone EXCEPT ![s] = Append(gone[s], <<made[s] + 1, "full">>)]
                ELSE [gone EXCEPT ![s] = gone[s]]
    BY <1>0, <1>7 DEF RxExpires, Leaves, QInv
  <2>5. p # 0 <=> answer
    BY <1>0 DEF Number
  <2>6. answer => p = made[s] + 1
    OBVIOUS
  <2> HIDE DEF p
  <2>7. Settled(n) /\ Filled(n)
    BY <1>0, <2>1, <2>2, RxSettles
  <2>8. Stock(n) = IF p = 0 \/ Drops(st[s]) THEN Stock(st[s]) ELSE Append(Stock(st[s]), p)
    BY <1>0, <2>1, <2>2, RxStock
  <2> HIDE DEF n
  <2>9. CASE answer /\ Drops(st[s])
    <3>1. Accounted(Stock(st[s]), Append(gone[s], <<made[s] + 1, "full">>), made[s] + 1)
      BY <1>0, TurnedAway
    <3> QED
      BY <2>2, <2>3, <2>4, <2>7, <2>8, <2>9, <3>1, BecomesAccounted
  <2>10. CASE answer /\ ~Drops(st[s])
    <3> DEFINE g == gone[s]
    <3>1. Accounted(Append(Stock(st[s]), made[s] + 1), g, made[s] + 1)
      BY <1>0, TakenIn
    <3>2. made' = [made EXCEPT ![s] = made[s] + 1] /\ gone' = [gone EXCEPT ![s] = g]
      BY <2>3, <2>4, <2>10
    <3>3. Stock(n) = Append(Stock(st[s]), made[s] + 1)
      BY <2>5, <2>6, <2>8, <2>10
    <3> HIDE DEF g
    <3>4. Accounted(Stock(n), g, made[s] + 1)
      BY <3>1, <3>3
    <3> QED
      BY <2>2, <2>7, <3>2, <3>4, BecomesAccounted
  <2>11. CASE ~answer
    <3>1. Accounted(Stock(n), gone[s], made[s])
      BY <1>0, <2>5, <2>8, <2>11
    <3> QED
      BY <2>2, <2>3, <2>4, <2>7, <2>11, <3>1, BecomesAccounted
  <2> QED
    BY <2>9, <2>10, <2>11
<1>8. ASSUME Tick
      PROVE  QInv'
  <2>1. gone' = gone /\ made' = made
    BY <1>8 DEF Tick
  <2>2. ASSUME NEW s \in Station
        PROVE  Stock(st'[s]) = Stock(st[s])
    <3>1. /\ st'[s].pktRetx = st[s].pktRetx /\ st'[s].mbq = st[s].mbq
          /\ st'[s].ifq = st[s].ifq
      BY <1>0, <1>8 DEF Tick, StationType
    <3> QED
      BY <3>1 DEF Stock
  <2> QED
    BY <2>1, <2>2 DEF QInv
<1>9. CASE UNCHANGED vars
  BY <1>9 DEF vars, QInv
<1> QED
  BY <1>1, <1>2, <1>3, <1>4, <1>5, <1>6, <1>7, <1>8, <1>9
  DEF Next, Engine, Arrival, Expiry

(* The fifo, the binder and the MAC lose, double and reorder no packet:    *)
(* what a station has let go of and what it holds are the packets made,    *)
(* and whatever was not refused at the full queue left in its turn.        *)
THEOREM PacketsKept == Spec => []PacketsConserved
<1>1. Init => QInv
  <2> SUFFICES ASSUME Init
               PROVE  QInv
    OBVIOUS
  <2>1. Stock(Station0) = <<>>
    <3>1. <<>> \o <<>> = <<>>
      BY EmptySeq, ConcatEmptySeq
    <3>2. Stock(Station0) = (<<>> \o <<>>) \o <<>>
      BY DEF Stock, Lead, Station0
    <3> QED
      BY <3>1, <3>2
  <2>2. /\ <<>> \in Seq(Number) /\ <<>> \in Seq(Number \X Fate) /\ Len(<<>>) = 0
    BY EmptySeq
  <2>3. Accounted(<<>>, <<>>, 0)
    BY <2>2 DEF Accounted
  <2> QED
    BY <2>1, <2>2, <2>3 DEF Init, QInv
<1>2. IInv /\ QInv => PacketsConserved
  <2> SUFFICES ASSUME IInv, QInv, NEW s \in Station
               PROVE  /\ {gone[s][i][1] : i \in DOMAIN gone[s]}
                           \cup {Held(s)[i] : i \in DOMAIN Held(s)} = 1 .. made[s]
                      /\ Len(gone[s]) + Len(Held(s)) = made[s]
                      /\ \A i, j \in DOMAIN Held(s) : i < j => Held(s)[i] < Held(s)[j]
                      /\ \A i \in DOMAIN gone[s] : gone[s][i][2] # "full" =>
                           \A j \in DOMAIN Held(s) : gone[s][i][1] < Held(s)[j]
    BY DEF PacketsConserved
  <2> DEFINE q == Held(s)
             g == gone[s]
             k == made[s]
  <2>1. q = Stock(st[s])
    BY DEF Held, Stock, Lead
  <2>2. k \in Nat /\ Accounted(q, g, k)
    BY <2>1 DEF IInv, QInv
  <2> HIDE DEF q, g, k
  <2>3. DOMAIN q = 1 .. Len(q) /\ DOMAIN g = 1 .. Len(g)
    BY <2>2, LenProperties DEF Accounted
  <2>4. \A i \in 1 .. Len(q) : q[i] \in 1 .. k
    BY <2>2, ElementOfSeq DEF Accounted, Number
  <2>5. \A i \in 1 .. Len(g) : g[i][1] \in 1 .. k
    <3>1. \A i \in 1 .. Len(g) : g[i] \in Number \X Fate
      BY <2>2, ElementOfSeq DEF Accounted
    <3> QED
      BY <2>2, <3>1 DEF Accounted, Number
  <2>6. {g[i][1] : i \in DOMAIN g} \cup {q[i] : i \in DOMAIN q} = 1 .. k
    BY <2>2, <2>3, <2>4, <2>5 DEF Accounted
  <2>7. /\ Len(g) + Len(q) = k
        /\ \A i, j \in DOMAIN q : i < j => q[i] < q[j]
        /\ \A i \in DOMAIN g : g[i][2] # "full" => \A j \in DOMAIN q : g[i][1] < q[j]
    BY <2>2, <2>3 DEF Accounted
  <2> QED
    BY <2>6, <2>7 DEF q, g, k
<1> QED
  BY <1>1, <1>2, BooksHold, Invariance, PTL DEF Spec
=============================================================================
