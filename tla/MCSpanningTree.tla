-------------------------- MODULE MCSpanningTree ---------------------------
(* Networks of switches for TLC.  Port 10 * b + k is port k of switch b.    *)
EXTENDS SpanningTree

PortOf == [p \in Port |-> p \div 10]

\* TLC evaluates a constant definition once unless a cfg names it, and what a cfg names
\* whenever it is used: each network has a definition and the name the cfg uses.
\* Every link is written from one of its ends.
Wired(l) == [p \in Port |-> IF \E q \in Port : <<p, q>> \in l \/ <<q, p>> \in l
                              THEN CHOOSE q \in Port : <<p, q>> \in l \/ <<q, p>> \in l
                              ELSE None]

Ring == Wired({<<12, 21>>, <<22, 31>>, <<32, 41>>, <<42, 51>>, <<52, 61>>, <<62, 71>>, <<72, 11>>})
Ring7 == Ring
\* Two by three, the root in a corner: 6 - 4 - 1 over 3 - 5 - 2.
TwoByThree == Wired({<<61, 41>>, <<42, 11>>, <<31, 51>>, <<52, 21>>, <<62, 32>>, <<43, 53>>, <<12, 22>>})
Grid == TwoByThree

\* Four switches, every two of them linked.
Complete == Wired({<<11, 21>>, <<12, 31>>, <<13, 41>>, <<22, 32>>, <<23, 42>>, <<33, 43>>})
Square == Complete

\* All links work and stay; all the networks that are left when some fail from the
\* start; a triangle, two links of which change, with a fourth switch apart; all of
\* these and one change of the full square.
Steady   == {[down |-> {}, changes |-> 0]}
Networks == {[down |-> UNION L, changes |-> 0] : L \in SUBSET Links}
Three    == {[down |-> {p \in Port : 4 \in {At[p], At[Peer[p]]}}, changes |-> 2]}
Some     == Networks \cup Three \cup {[down |-> {}, changes |-> 1]}

\* The switches that a link not in D leads to from S, and S; how far each switch is
\* from r, where one that cannot be reached is farther away than any cost goes.
Nearby(D, S) == S \cup {At[Peer[p]] : p \in {q \in Port \ D : Peer[q] # None /\ At[q] \in S}}
Within(D, r) ==
  LET W[n \in 0 .. Cardinality(Bridge)] == IF n = 0 THEN {r} ELSE Nearby(D, W[n - 1])
  IN  [n \in 0 .. Cardinality(Bridge) |-> W[n]]
Away == [D \in EndsOfLinks |-> [r \in Bridge |->
           LET W == Within(D, r)
           IN  [b \in Bridge |-> Min({n \in DOMAIN W : b \in W[n]} \cup {MaxCost + 2})]]]
Distance == Away
=============================================================================
