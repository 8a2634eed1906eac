---------------------------- MODULE MCHNSWSegment ----------------------------
EXTENDS HNSWSegment

CONSTANTS d1, d2, c1, c2
=============================================================================
