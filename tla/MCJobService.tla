---------------------------- MODULE MCJobService ----------------------------
EXTENDS JobService, TLC

Perms == Permutations(Job) \cup Permutations(Host)
=============================================================================
