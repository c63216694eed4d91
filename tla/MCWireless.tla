----------------------------- MODULE MCWireless -----------------------------
(* Values for TLC: three nodes of an 802.11b channel of 11 Mbit/s. *)
EXTENDS Wireless

CONSTANTS n1, n2, n3

Pkt(i, from, to, size) == [id |-> i, from |-> from, to |-> to, size |-> size, kind |-> "data"]

Line == {<<n1, n2>>, <<n2, n1>>, <<n2, n3>>, <<n3, n2>>}
Ring == Line \cup {<<n1, n3>>, <<n3, n1>>}

(* n1 and n3 hear n2 and not each other; all hear all; n1 and n3 sense     *)
(* each other and cannot decode what they sense.                           *)
Hidden == [senses |-> Line, decodes |-> Line]
Near   == [senses |-> Ring, decodes |-> Ring]
Noise  == [senses |-> Ring, decodes |-> Line]

(* Packets of 100, 684 and 3000 bytes where RTS_Threshold is 680. *)
Times == [z \in Size |-> CASE z = "short" -> 265 [] z = "edge" -> 690 [] z = "long" -> 2374]

(* At n2, n1 drowns n3. *)
N1DrownsN3 == {<<n2, n1, n3>>}

Case(channel, load) == [channel |-> channel, load |-> load]

Relay  == {Pkt(1, n1, n2, "long"), Pkt(2, n3, n2, "short"), Pkt(3, n2, n1, "short")}
Edge   == {Pkt(1, n1, n2, "edge"), Pkt(2, n3, n2, "long")}
Beacon == {[Pkt(1, n2, Broadcast, "short") EXCEPT !.kind = "beacon"],
           Pkt(2, n1, n2, "short"), Pkt(3, n3, n2, "short")}

Mixed == {Case(Hidden, Relay), Case(Near, Beacon)}
           \cup {Case(ch, Edge) : ch \in {Hidden, Near, Noise}}

Refusing == {Case(Hidden, Relay)}

(* Two packets of one station; with SeqSpace = 1 they have one number. *)
Same == {Case(Hidden, {Pkt(1, n1, n2, "short"), Pkt(2, n1, n2, "short")})}
=============================================================================
