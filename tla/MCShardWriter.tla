---------------------------- MODULE MCShardWriter ----------------------------
EXTENDS ShardWriter

CONSTANTS u1, u2
=============================================================================
