------------------------------ MODULE Wireless ------------------------------
(***************************************************************************)
(* Mobile nodes (module Mac80211) that share a channel.  wphy::send gives  *)
(* every node that senses the sender a copy of the frame, Prop             *)
(* microseconds later (cm.cc); one that senses but cannot decode it, or    *)
(* that has a bit error, gets it with pkt_err_ set (wphy::recv).  As in    *)
(* Ethernet, heap events (arrivals, packets from above) come before the    *)
(* timers of their instant, timers that expire together are taken in any   *)
(* order, and the binder of a node is polled after each event of the node. *)
(* The clock leaps from one instant at which something is due to the next. *)
(***************************************************************************)
EXTENDS Mac80211, Sequences

CONSTANTS Cases,        \* [channel, load]: see below
          Prop,         \* propagation delay
          Offsets,      \* bound: when the layers above send their packets
          Rand,         \* bound: values of Random()
          MaxTrouble    \* bound: frames that are lost or have a bit error

(* A channel says who senses, and who can decode, whom; a load is the      *)
(* packets the layers above send, every beacon of them to all (qosAP.cc).  *)
ASSUME ChannelConstants ==
  /\ \A k \in Cases : /\ k.channel.decodes \subseteq k.channel.senses
                       /\ k.channel.senses \subseteq Station \X Station
                       /\ k.load \subseteq Packet
                       /\ \A p \in k.load : p.kind = "beacon" => ~Unicast(p)
  /\ Prop \in Nat \ {0} /\ Offsets \subseteq Nat /\ Rand \subseteq Nat /\ MaxTrouble \in Nat
  /\ Broadcast \notin Station

VARIABLES chan,     \* the channel
          st,       \* the stations
          air,      \* copies of frames on their way: [at, frame, left]
          queue,    \* packets above each MAC
          due,      \* the packets the layers above will send, and when
          trouble,  \* frames lost or spoilt
          fate,     \* history: what each MAC thinks became of its packets
          got,      \* history: <<s, id>>, the packets passed up at each station
          again     \* history: the packets passed up twice

vars == <<chan, st, air, queue, due, trouble, fate, got, again>>

Fate == {"pending", "acked", "sent", "given up"}

Init == \E k \in Cases :
          /\ chan = k.channel
          /\ due \in [k.load -> Offsets]
          /\ fate = [p \in k.load |-> "pending"]
          /\ st = [s \in Station |-> Station0(s)]
          /\ air = {} /\ got = {} /\ again = {}
          /\ queue = [s \in Station |-> <<>>]
          /\ trouble = 0

-----------------------------------------------------------------------------
(* wphy::send *)
Copies(f) == IF f = NoFrame THEN {}
             ELSE {[at |-> u, frame |-> f, left |-> Prop] :
                     u \in {v \in Station : <<f.from, v>> \in chan.senses}}

(* The binder of station s is polled when an event has left it as m. *)
Polled(s, m, q) ==
  IF m.tx = NoPkt /\ q # <<>>
  THEN /\ \E r \in Rand : st' = [st EXCEPT ![s] = send(m, Head(q), r)]
       /\ queue' = [queue EXCEPT ![s] = Tail(q)]
  ELSE st' = [st EXCEPT ![s] = m] /\ queue' = [queue EXCEPT ![s] = q]

(* An event leaves station s as n, while a is in the air; how is what      *)
(* becomes of the packet at hand if the MAC is done with it.               *)
Becomes(s, n, a, how) ==
  /\ Polled(s, [n EXCEPT !.out = NoFrame, !.up = NoPkt], queue[s])
  /\ air' = a \cup Copies(n.out)
  /\ fate' = IF st[s].tx # NoPkt /\ n.tx = NoPkt
             THEN [fate EXCEPT ![st[s].tx] = how] ELSE fate
  /\ got' = IF n.up = NoPkt THEN got ELSE got \cup {<<s, n.up>>}
  /\ again' = IF <<s, n.up>> \in got THEN again \cup {<<s, n.up>>} ELSE again

(* The layers above node p.from have a packet for the MAC. *)
Offer(p) == /\ due[p] = 0
            /\ due' = [due EXCEPT ![p] = Off]
            /\ Polled(p.from, st[p.from], Append(queue[p.from], p))
            /\ UNCHANGED <<chan, air, trouble, fate, got, again>>

Spoilt(c) == [c.frame EXCEPT !.err = TRUE]

(* wphy::recv: LinkFailFlag loses the frame, BitError spoils it. *)
Arrive(c) ==
  LET s == c.at
      a == air \ {c}
  IN  /\ c.left = 0
      /\ \/ /\ Becomes(s, recv(st[s], IF <<c.frame.from, s>> \in chan.decodes
                                      THEN c.frame ELSE Spoilt(c)), a, "none")
            /\ UNCHANGED trouble
         \/ /\ trouble < MaxTrouble
            /\ \/ Becomes(s, recv(st[s], Spoilt(c)), a, "none")
               \/ Becomes(s, st[s], a, "none")
            /\ trouble' = trouble + 1
      /\ UNCHANGED <<chan, due>>

(* Timers wait for the heap events of their instant. *)
Quiet == /\ \A c \in air : c.left > 0
         /\ \A p \in DOMAIN due : due[p] # 0

NavExpires(s) == /\ st[s].nav = 0
                 /\ Becomes(s, navHandler([st[s] EXCEPT !.nav = Off]), air, "none")

DeferExpires(s) ==
  /\ st[s].defer = 0
  /\ \E r \in Rand :
       Becomes(s, deferHandler([st[s] EXCEPT !.defer = Off], r), air, "none")

BackoffExpires(s) ==
  /\ st[s].backoff = 0 /\ ~st[s].paused
  /\ \E r \in Rand :
       Becomes(s, backoffHandler([st[s] EXCEPT !.backoff = Off], r), air, "none")

SendExpires(s) ==
  /\ st[s].send = 0
  /\ \E r \in Rand, space \in {SIFS, DIFS} :
       Becomes(s, sendHandler([st[s] EXCEPT !.send = Off], r, space), air,
               IF st[s].tx # NoPkt /\ Unicast(st[s].tx) THEN "given up" ELSE "sent")

InterfaceExpires(s) ==
  /\ st[s].ifc = 0
  /\ Becomes(s, txHandler([st[s] EXCEPT !.ifc = Off]), air, "none")

(* Entries of a full cache that may be older than 2 ms. *)
Stale(m) == IF Cardinality(m.cache) < CacheSize THEN {{}} ELSE SUBSET m.cache

RecvExpires(s) ==
  /\ st[s].recv = 0
  /\ \E r \in Rand, space \in {SIFS, DIFS}, stale \in Stale(st[s]) :
       Becomes(s, recvHandler([st[s] EXCEPT !.recv = Off], r, space, stale), air, "acked")

Expiry(s) == /\ Quiet
             /\ \/ NavExpires(s) \/ DeferExpires(s) \/ BackoffExpires(s)
                \/ SendExpires(s) \/ InterfaceExpires(s) \/ RecvExpires(s)
             /\ UNCHANGED <<chan, due, trouble>>

-----------------------------------------------------------------------------
(* The timers of a station that run. *)
Timers(m) == {m.nav, m.send, m.defer, m.ifc, m.recv,
              IF m.paused THEN Off ELSE m.backoff} \ {Off}

Pending == ((UNION {Timers(st[s]) : s \in Station})
              \cup {c.left : c \in air} \cup {due[p] : p \in DOMAIN due}) \ {Off}

Later(x, d) == IF x = Off THEN Off ELSE x - d

(* The clock moves on to the next instant. *)
Leap == \E d \in Pending :
          /\ d > 0 /\ \A e \in Pending : d <= e
          /\ st' = [s \in Station |->
                      [st[s] EXCEPT !.nav = Later(@, d), !.send = Later(@, d),
                                    !.defer = Later(@, d), !.ifc = Later(@, d),
                                    !.recv = Later(@, d),
                                    !.backoff = IF st[s].paused THEN @ ELSE Later(@, d)]]
          /\ air' = {[c EXCEPT !.left = @ - d] : c \in air}
          /\ due' = [p \in DOMAIN due |-> Later(due[p], d)]
          /\ UNCHANGED <<chan, queue, trouble, fate, got, again>>

Next == \/ \E p \in DOMAIN due : Offer(p)
        \/ \E c \in air : Arrive(c)
        \/ \E s \in Station : Expiry(s)
        \/ Leap

Spec == Init /\ [][Next]_vars

(* The engine goes on as long as anything is pending. *)
FairSpec == Spec /\ WF_vars(Next)

-----------------------------------------------------------------------------
(* Every field keeps its type. *)
TypeOK ==
  /\ \A s \in Station :
       LET m == st[s]
       IN  /\ m.txs \in TxState /\ m.rxs \in RxState
           /\ {m.active, m.rts, m.retry, m.paused, m.fault} \subseteq BOOLEAN
           /\ Timers(m) \subseteq Nat /\ m.backoff \in Nat \cup {Off}
           /\ m.cw \in CWmin .. CWmax
           /\ m.out = NoFrame /\ m.up = NoPkt
           /\ m.tx \in DOMAIN due \cup {NoPkt}
  /\ \A p \in DOMAIN due : due[p] \in Nat \cup {Off} /\ fate[p] \in Fate

(* No assertion of mac-802_11-dcf.cc fails, in whatever order frames       *)
(* arrive, collide and are answered and timers expire.                     *)
NoFault == \A s \in Station : ~st[s].fault

(* The backoff runs only while the medium is idle, and is paused only      *)
(* while it is not, until the expiry of the NAV that is due.               *)
BackoffFrozen ==
  \A s \in Station :
    LET m == st[s]
    IN  m.backoff # Off => (m.paused <=> ~Idle(m)) \/ (m.paused /\ m.nav = 0)

(* A MAC that takes its packet for acknowledged is right: the station it   *)
(* is for has passed it up.  recvACK looks at nothing but its own state.   *)
AckTruthful == \A p \in DOMAIN fate : fate[p] = "acked" => <<p.to, p>> \in got

(* No station passes a packet up twice, however often its acknowledgement  *)
(* was lost.                                                               *)
PassedOnce == again = {}

(* The MAC holds a packet and no timer will send it. *)
Stuck(m) == m.tx # NoPkt /\ m.send = Off /\ m.defer = Off /\ m.backoff = Off

(* A packet is left without a timer only where deferHandler drops a CTS    *)
(* for want of an idle medium and returns: the CTS had taken over the      *)
(* timer the packet was waiting for.                                       *)
StuckByRefusedCTSOnly ==
  [][\A s \in Station : ~Stuck(st[s]) /\ Stuck(st[s])' =>
       st[s].ctrl # NoFrame /\ st[s].ctrl.type = "CTS" /\ st[s].defer = 0]_vars

(* Every packet a MAC takes is acknowledged, sent or given up in the end,  *)
(* unless the MAC is stuck with it.                                        *)
Disposed == \A s \in Station : st[s].tx # NoPkt ~> st[s].tx = NoPkt \/ Stuck(st[s])

=============================================================================
