------------------------------- MODULE Mac8023 -------------------------------
(***************************************************************************)
(* The half-duplex 802.3 MAC (module/mac/mac8023.cc) of one station, with  *)
(* the interface queue above it (fifo.cc) and the module binder between    *)
(* them (mbinder.cc).  A station is a record; every handler is a function  *)
(* from the station it finds to the station it leaves.  A timer is Off or  *)
(* the ticks it still has to run; the engine resets it before its call-out *)
(* (module Scheduler, executeTimer).  A packet is its number at the        *)
(* station, 0 for no packet.                                               *)
(***************************************************************************)
EXTENDS Integers, Sequences

CONSTANTS IFS,         \* ticks of IEEE_8023_IFS
          Slot,        \* ticks of IEEE_8023_SLOT
          ALIMIT,      \* IEEE_8023_ALIMIT, attempts for a packet
          BLIMIT,      \* IEEE_8023_BLIMIT, exponent of the longest backoff
          IfqMaxLen    \* ifq_maxlen

ASSUME MacConstants == /\ IFS \in Nat \ {0} /\ Slot \in Nat \ {0}
                       /\ ALIMIT \in Nat \ {0} /\ BLIMIT \in Nat \ {0}
                       /\ IfqMaxLen \in Nat

Off == -1
MbqMaxLen == 1    \* what the constructor sets; set_maxqlen has no caller

MacState == {"IDLE", "IFS", "SEND", "RECV"}

Station0 ==
  [mac |-> "IDLE", busy |-> FALSE, retxCnt |-> 1, pktRetx |-> 0, pktRx |-> FALSE,
   tx |-> Off, rx |-> Off, retx |-> Off, ifs |-> Off,
   mbq |-> <<>>, ifq |-> <<>>, fault |-> FALSE]

(* assert(c) before going on to m. *)
Asserting(c, m) == IF c THEN m ELSE [m EXCEPT !.fault = TRUE]

-----------------------------------------------------------------------------
(* Sending *)

IFSScheduler(m) == Asserting(~m.busy, [m EXCEPT !.ifs = IFS, !.busy = TRUE])

Idle(m) == m.mac = "IDLE" /\ m.ifs = Off /\ m.retx = Off

(* _send: carrier sense, then the interframe space. *)
_send(m) == IF Idle(m) THEN IFSScheduler([m EXCEPT !.mac = "IFS"]) ELSE m

(* __send, called when the interframe space is over; d is the transmission *)
(* time txScheduler draws.                                                 *)
IFSHandler(m, d) ==
  Asserting(m.pktRetx # 0, [m EXCEPT !.mac = "SEND", !.tx = d, !.busy = TRUE])

(* send as the binder above calls it: it takes the packet only when it has *)
(* none, and else has another try with the one it holds.                   *)
Accepts(m) == m.pktRetx = 0

send(m, p) == IF Accepts(m) THEN _send([m EXCEPT !.pktRetx = p]) ELSE _send(m)

resume_NoSend(m) ==
  Asserting(~m.pktRx /\ m.rx = Off /\ m.tx = Off /\ m.ifs = Off,
            [m EXCEPT !.mac = "IDLE"])

resume(m) ==
  LET i == Asserting(~m.pktRx /\ m.rx = Off /\ m.tx = Off /\ m.ifs = Off,
                     [m EXCEPT !.mac = "IDLE"])
  IN  IF i.pktRetx # 0 /\ i.retx = Off THEN _send(i) ELSE i

retxReset_KeepsCount(m) ==
  IF m.busy THEN [m EXCEPT !.retx = Off, !.busy = FALSE, !.pktRetx = 0]
  ELSE [m EXCEPT !.pktRetx = 0]

retxReset(m) == LET c == IF m.busy THEN [m EXCEPT !.retx = Off, !.busy = FALSE] ELSE m
                IN  [c EXCEPT !.retxCnt = 1, !.pktRetx = 0]

txHandler(m) ==
  Asserting(m.pktRetx # 0, resume(retxReset([m EXCEPT !.busy = FALSE])))

-----------------------------------------------------------------------------
(* Collisions *)

(* The slots a station may draw to wait: random() % 2^min(retxCnt, BLIMIT) *)
Backoff(m) == 0 .. 2 ^ (IF m.retxCnt < BLIMIT THEN m.retxCnt ELSE BLIMIT) - 1

GivesUp(m) == m.retxCnt >= ALIMIT

retxScheduler(m, r) ==
  Asserting(m.pktRetx # 0 /\ ~m.busy,
            IF GivesUp(m) THEN resume(retxReset(m))
            ELSE [m EXCEPT !.retx = r * Slot, !.busy = TRUE])

retxHandler(m) ==
  Asserting(m.pktRetx # 0 /\ m.busy,
            _send([m EXCEPT !.busy = FALSE, !.retxCnt = @ + 1]))

(* The arriving frame is freed in every case. *)
SendCollision(m, r) ==
  retxScheduler(Asserting(m.busy, [m EXCEPT !.tx = Off, !.busy = FALSE, !.mac = "IDLE"]), r)

RecvCollision(m) == [m EXCEPT !.rx = Off, !.pktRx = FALSE, !.mac = "IDLE"]

FrontOfIFS(m) == IFS - m.ifs <= (IFS * 2) \div 3

IFSCollision_KeepsTimer(m) ==
  IF FrontOfIFS(m) THEN _send([m EXCEPT !.busy = FALSE, !.mac = "IDLE"])
  ELSE Asserting(IFS - m.ifs <= IFS, m)

IFSCollision(m) ==
  IF FrontOfIFS(m)
  THEN _send([m EXCEPT !.ifs = Off, !.busy = FALSE, !.mac = "IDLE"])
  ELSE Asserting(IFS - m.ifs <= IFS, m)

collision(m, r) == CASE m.mac = "SEND" -> SendCollision(m, r)
                     [] m.mac = "RECV" -> RecvCollision(m)
                     [] m.mac = "IFS"  -> IFSCollision(m)

-----------------------------------------------------------------------------
(* Receiving *)

(* A frame of d ticks arrives; r is the backoff if it collides. *)
recv(m, d, r) == IF m.mac = "IDLE"
                 THEN [m EXCEPT !.mac = "RECV", !.pktRx = TRUE, !.rx = d]
                 ELSE collision(m, r)

-----------------------------------------------------------------------------
(* The interface queue and the binder below it *)

qfull(m) == Len(m.mbq) >= MbqMaxLen

(* intrq, the upcall of the binder: the next packet moves into it. *)
intrq(m) == IF m.ifq = <<>> THEN m
            ELSE Asserting(~qfull(m), [m EXCEPT !.mbq = Append(@, Head(m.ifq)),
                                               !.ifq = Tail(@)])

(* NslObject::put: the MAC is tried first, and the packet waits in the     *)
(* binder if it is refused.  A full binder ends the process.               *)
put(m, p) == IF Accepts(m) THEN intrq(send(m, p))
             ELSE Asserting(~qfull(m), [send(m, p) EXCEPT !.mbq = Append(@, p)])

IfqFull(m) == Len(m.ifq) >= IfqMaxLen

Drops(m) == qfull(m) /\ IfqFull(m)

fifoSend(m, p) == IF Drops(m) THEN m
                  ELSE IF qfull(m) THEN [m EXCEPT !.ifq = Append(@, p)]
                  ELSE put(m, p)

(* MBinder::serve; a refused packet is put back at the head. *)
serve_Loses(m) == IF m.mbq = <<>> THEN m
                  ELSE intrq(send([m EXCEPT !.mbq = Tail(@)], Head(m.mbq)))

serve(m) == IF m.mbq = <<>> THEN m
            ELSE IF Accepts(m)
                 THEN intrq(send([m EXCEPT !.mbq = Tail(@)], Head(m.mbq)))
                 ELSE send(m, Head(m.mbq))

(* executeEvent's loop over the binders of the node whose event was        *)
(* executed: until none is served.                                         *)
poll_Never(m) == m

poll(m) == IF m.mbq # <<>> /\ Accepts(m) THEN serve(serve(m)) ELSE serve(m)

(* recvComplete: the frame goes up (module code may answer at once with    *)
(* the packet p, or with none) before the MAC resumes.                     *)
rxHandler(m, p) ==
  LET t == Asserting(m.pktRx /\ m.tx = Off, [m EXCEPT !.pktRx = FALSE])
  IN  resume(IF p = 0 THEN t ELSE fifoSend(t, p))
=============================================================================
