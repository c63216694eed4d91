------------------------------- MODULE MCAodv -------------------------------
(* Networks of mobile nodes for Aodv, and who sends to whom. *)
EXTENDS Aodv

Ring4 == {{1, 2}, {2, 3}, {3, 4}, {1, 4}}
Kite == {{1, 2}, {1, 3}, {2, 3}, {3, 4}}
Line3 == {{1, 2}, {2, 3}}
Tail5 == Kite \cup {{4, 5}}
Line5 == {{1, 2}, {2, 3}, {3, 4}, {4, 5}}
Shortcut == {{1, 5}}
One == [p \in Packet |-> 1]
Six == [p \in Packet |-> 6]
First == [p \in Packet |-> p]
Third == [p \in Packet |-> 3]
Across == [p \in Packet |-> IF p % 2 = 1 THEN 1 ELSE 3]
Out == [p \in Packet |-> IF p % 2 = 1 THEN 1 ELSE 4]
Home == [p \in Packet |-> IF p % 2 = 1 THEN 5 ELSE 1]
Back == [p \in Packet |-> IF p % 2 = 1 THEN 3 ELSE 1]
=============================================================================
