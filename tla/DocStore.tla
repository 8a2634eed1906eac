------------------------------ MODULE DocStore ------------------------------
(***************************************************************************)
(* What the write path of one index shard promises about each document:    *)
(* an acknowledged operation is shown later, on its own, and nothing but   *)
(* the last acknowledged operation ever replaces what is shown.            *)
(***************************************************************************)
CONSTANTS Doc, Version

VARIABLES
    acked,    \* acked[d]: the versions d has after its last acknowledged operation
    shown,    \* shown[d]: the versions of d that a search finds
    waiting   \* the documents whose acknowledged operation is not settled

vars == <<acked, shown, waiting>>

\* A document has at most one version; a deleted or unknown one has none.
Content == {{}} \cup {{v} : v \in Version}

Init ==
    /\ acked = [d \in Doc |-> {}]
    /\ shown = [d \in Doc |-> {}]
    /\ waiting = {}

\* An operation on a settled document is acknowledged.
Acknowledge(d) ==
    /\ d \notin waiting
    /\ \E c \in Content : acked' = [acked EXCEPT ![d] = c]
    /\ waiting' = waiting \cup {d}
    /\ UNCHANGED shown

\* Searches begin to see the acknowledged operations on the documents of D.
Show(D) ==
    /\ D \subseteq waiting
    /\ shown' = [d \in Doc |-> IF d \in D THEN acked[d] ELSE shown[d]]
    /\ UNCHANGED <<acked, waiting>>

\* The operations on D are settled: they are shown.
Settle(D) ==
    /\ D \subseteq waiting
    /\ \A d \in D : shown[d] = acked[d]
    /\ waiting' = waiting \ D
    /\ UNCHANGED <<acked, shown>>

Next ==
    \/ \E d \in Doc : Acknowledge(d)
    \/ \E D \in SUBSET Doc : Show(D) \/ Settle(D)

Spec == Init /\ [][Next]_vars
=============================================================================
