---------------------------- MODULE MCReplication ----------------------------
\* Constants for model checking Replication.
EXTENDS Replication, TLC

Symmetry == Permutations(Servers)
=============================================================================
