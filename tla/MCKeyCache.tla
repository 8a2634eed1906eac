----------------------------- MODULE MCKeyCache -----------------------------
(* Two overlapping prefixes, two listers and two writers. *)
EXTENDS KeyCache, TLC

CONSTANTS k1, k2, p1, p2

MCKeys == {k1, k2}
MCPrefixes == {p1, p2}
MCKeysOf == (p1 :> {k1, k2}) @@ (p2 :> {k2})
MCSymmetry == Permutations(Lister) \cup Permutations(Writer)
=============================================================================
