----------------------------- MODULE MCWalShard -----------------------------
(* Small instances of WalShard: what one shard's write path promises to    *)
(* clients that wait, to clients that do not, and after faults.            *)
EXTENDS WalShard

CONSTANTS d1, d2, c1, c2

=============================================================================
