------------------------------- MODULE MCArp -------------------------------
EXTENDS Arp, TLC

CONSTANTS n1, n2, n3

(* n1 and n2 run ARP towards each other; n1 also talks to n3. *)
BothWays == {<<n1, n2>>, <<n2, n1>>}
WithThird == BothWays \cup {<<n1, n3>>}
=============================================================================
