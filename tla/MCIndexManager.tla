--------------------------- MODULE MCIndexManager ---------------------------
EXTENDS IndexManager

CONSTANTS c1, c2

=============================================================================
