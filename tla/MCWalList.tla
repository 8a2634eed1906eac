------------------------------ MODULE MCWalList ------------------------------
(* Small instances of WalList: two requests, up to three loads.            *)
EXTENDS WalList

CONSTANTS r1, r2
=============================================================================
