---------------------------- MODULE MCEthernet ----------------------------
EXTENDS Ethernet, TLC

Perms == Permutations(Station)
=============================================================================
