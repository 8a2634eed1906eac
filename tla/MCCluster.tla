----------------------------- MODULE MCCluster -----------------------------
EXTENDS Cluster

CONSTANTS a, b, c, r1
=============================================================================
