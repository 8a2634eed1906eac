---------------------------- MODULE MCIvfPqIndex ----------------------------
(* IvfPqIndex for TLC: the clients are interchangeable, and the documents. *)
EXTENDS IvfPqIndex, TLC

CONSTANTS c1, c2, d1, d2

Symmetry == Permutations({c1, c2}) \cup Permutations({d1, d2})
=============================================================================
