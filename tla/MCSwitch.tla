------------------------------ MODULE MCSwitch ------------------------------
(* Instances of the learning switch for TLC. *)
EXTENDS Switch, TLC

CONSTANTS m1, m2, m3, p1, p2, p3

\* One line too many for a table of two, and a station listed twice.
File == {<<[mac |-> m1, port |-> p1], [mac |-> m1, port |-> p2], [mac |-> m2, port |-> p1],
           [mac |-> m3, port |-> p2]>>}
\* Every file of up to three lines on the stations and ports there are.
Files == UNION {[1 .. n -> [mac : Mac, port : Port]] : n \in 0 .. 3}

Perms == Permutations(Mac) \cup Permutations(Port)
=============================================================================
