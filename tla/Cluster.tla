------------------------------ MODULE Cluster ------------------------------
(***************************************************************************)
(* The partitions of a cluster: the manager that distributes them over the *)
(* nodes that are alive (cmd/cluster-manager/manager.go), the requests     *)
(* that change the list of nodes (http.go), and the goroutines of a node   *)
(* and of the proxy that follow the assignment (pkg/cluster/cluster.go,    *)
(* cmd/zinc-proxy/proxy.go).                                               *)
(*                                                                         *)
(* An index belongs to the partition that the first two digits of its      *)
(* name's hash say.  What the nodes and the proxy know is kept for the     *)
(* partition of one index only.  etcd, behind the package clusterkit, is   *)
(* external: a reader gets the values of one moment, a watch tells that    *)
(* something has changed, a write of several keys may fail in between.     *)
(***************************************************************************)
EXTENDS Integers, FiniteSets, Sequences, SequencesExt

CONSTANTS
    Node,      \* node ids, none of them 0
    Prefix,    \* the partitions, 256 in the code
    Index,     \* the partition of the index that is looked at
    Follower,  \* the nodes that are looked at, and the Proxy
    Request,   \* requests to the manager that may run at the same time
    MaxEvents  \* bound: requests, crashes, lapsed heartbeats, failing calls

Proxy == 0

ASSUME ClusterAssumption ==
    /\ Node \subseteq Nat \ {0} /\ IsFiniteSet(Node)
    /\ IsFiniteSet(Prefix) /\ Index \in Prefix
    /\ Follower \subseteq Node \cup {Proxy}
    /\ MaxEvents \in Nat

VARIABLES
    up,      \* the nodes that run
    beat,    \* the nodes with a heartbeat in etcd
    nodes,   \* the node list in etcd
    assign,  \* assign[p]: the node of the partition in etcd, or 0
    mgr,     \* watchCluster: where it is, and its local variables
    req,     \* req[r]: a request to the manager
    sync,    \* sync[w]: syncAssigns of a follower, and the node it has for the partition
    events   \* events so far

vars == <<up, beat, nodes, assign, mgr, req, sync, events>>

Waiting == [pc |-> "wait", hbs |-> <<>>, cur |-> <<>>, plan |-> {}]
NoRequest == [pc |-> "none", list |-> {}]
\* pc: about to list the assignments, watching them, or told of a change
OutOfSync == [pc |-> "list", at |-> 0]

Init ==
    /\ up \in SUBSET Node /\ nodes = up /\ beat = up
    /\ assign = [p \in Prefix |-> 0]
    /\ mgr = Waiting
    /\ req = [r \in Request |-> NoRequest]
    /\ sync = [w \in Follower |-> OutOfSync]
    /\ events = 0

Event == events < MaxEvents /\ events' = events + 1

\* A write to etcd wakes everyone who watches the assignments.
SetAssigns(new) ==
    /\ assign' = new
    /\ sync' = [w \in Follower |-> IF new # assign /\ sync[w].pc = "watch" THEN [sync[w] EXCEPT !.pc = "told"] ELSE sync[w]]

-----------------------------------------------------------------------------
(* distribute *)

\* The partitions that the i-th of the nodes ids is to have
ShareOneMore(ids, i) ==
    Cardinality(Prefix) \div Len(ids) + (IF i - 1 <= Cardinality(Prefix) % Len(ids) THEN 1 ELSE 0)

Share(ids, i) ==
    Cardinality(Prefix) \div Len(ids) + (IF i - 1 < Cardinality(Prefix) % Len(ids) THEN 1 ELSE 0)

List(cur, n) == {p \in Prefix : cur[p] = n}

\* What every node keeps of its list, which is in any order: all of it, or
\* as much as its share.
KeepsOneLess(ids, cur) ==
    {keep \in [DOMAIN ids -> SUBSET Prefix] :
        \A i \in DOMAIN ids :
            /\ keep[i] \subseteq List(cur, ids[i])
            /\ Cardinality(keep[i]) = Min({Cardinality(List(cur, ids[i])), Share(ids, i) - 1})}

Keeps(ids, cur) ==
    {keep \in [DOMAIN ids -> SUBSET Prefix] :
        \A i \in DOMAIN ids :
            /\ keep[i] \subseteq List(cur, ids[i])
            /\ Cardinality(keep[i]) = Min({Cardinality(List(cur, ids[i])), Share(ids, i)})}

\* The rest is the pool, shuffled.
Pool(keep) == Prefix \ UNION Range(keep)

\* It is dealt out in the order of the nodes: each gets what it lacks.  What
\* is left over at the end gets no node.
Deal(ids, keep) ==
    LET lack == [i \in DOMAIN ids |-> Share(ids, i) - Cardinality(keep[i])]
        before == [i \in 1 .. Len(ids) + 1 |-> MapThenSumSet(LAMBDA j : lack[j], 1 .. i - 1)]
        takers(k) == {i \in DOMAIN ids : before[i] < k /\ k <= before[i + 1]}
    IN  [k \in 1 .. Cardinality(Pool(keep)) |->
            IF takers(k) = {} THEN 0 ELSE ids[CHOOSE i \in takers(k) : TRUE]]

\* The results: partitions and their new nodes
Results(ids, cur) ==
    UNION {LET to == Deal(ids, keep)
           IN  {{<<pool[k], to[k]>> : k \in {j \in DOMAIN to : to[j] # cur[pool[j]]}} :
                  pool \in SetToSeqs(Pool(keep))} : keep \in Keeps(ids, cur)}
Distribute ==
    [ids \in UNION {SetToSeqs(S) : S \in SUBSET Node \ {{}}}, cur \in [Prefix -> Node \cup {0}] |->
        Results(ids, cur)]

-----------------------------------------------------------------------------
(* updateAssigns of the manager, every 15 seconds *)

ListHeartbeats ==
    /\ mgr.pc = "wait"
    /\ \E hbs \in SetToSeqs(beat) : mgr' = [mgr EXCEPT !.pc = "nodes", !.hbs = hbs]
    /\ UNCHANGED <<up, beat, nodes, assign, req, sync, events>>

\* Heartbeats of deleted nodes do not count; without a live node there is
\* nothing to do.
GetClusterNodes ==
    /\ mgr.pc = "nodes"
    /\ LET alive == SelectSeq(mgr.hbs, LAMBDA n : n \in nodes)
       IN  mgr' = IF alive = <<>> THEN Waiting ELSE [mgr EXCEPT !.pc = "assigns", !.hbs = alive]
    /\ UNCHANGED <<up, beat, nodes, assign, req, sync, events>>

\* "Node IDs should be sorted to keep the distribute result steady."
NodeOrderAsListed(alive) == alive
NodeOrder(alive) == SortSeq(alive, <)

ListAndDistribute ==
    /\ mgr.pc = "assigns"
    /\ LET ids == NodeOrder(mgr.hbs)
       IN  \E plan \in Distribute[ids, assign] :
              mgr' = IF plan = {} THEN Waiting ELSE [pc |-> "set", hbs |-> ids, cur |-> assign, plan |-> plan]
    /\ UNCHANGED <<up, beat, nodes, assign, req, sync, events>>

Updated(cur, plan) == [p \in Prefix |-> IF \E x \in plan : x[1] = p THEN (CHOOSE x \in plan : x[1] = p)[2] ELSE cur[p]]

ManagerSetsAssigns ==
    /\ mgr.pc = "set"
    /\ SetAssigns(Updated(assign, mgr.plan))
    /\ mgr' = Waiting
    /\ UNCHANGED <<up, beat, nodes, req, events>>

\* An error of etcd: some of the assignments may have been written.  After
\* one that hits the reads the manager has done nothing.
ManagerFails ==
    /\ mgr.pc = "set" /\ Event
    /\ \E done \in SUBSET mgr.plan : SetAssigns(Updated(assign, done))
    /\ mgr' = Waiting
    /\ UNCHANGED <<up, beat, nodes, req>>

-----------------------------------------------------------------------------
(* Requests to the manager: each reads the node list and writes it back *)

BeginCreate(r, n) ==
    /\ req[r] = NoRequest /\ n \notin nodes /\ Event
    /\ req' = [req EXCEPT ![r] = [pc |-> "write", list |-> nodes \cup {n}]]
    /\ UNCHANGED <<up, beat, nodes, assign, mgr, sync>>

BeginDelete(r, n) ==
    /\ req[r] = NoRequest /\ n \in nodes /\ Event
    /\ req' = [req EXCEPT ![r] = [pc |-> "write", list |-> nodes \ {n}]]
    /\ UNCHANGED <<up, beat, nodes, assign, mgr, sync>>

\* updateClusterNodes changes the address of a node, which is left out.
BeginUpdate(r, n) ==
    /\ req[r] = NoRequest /\ n \in nodes /\ Event
    /\ req' = [req EXCEPT ![r] = [pc |-> "write", list |-> nodes]]
    /\ UNCHANGED <<up, beat, nodes, assign, mgr, sync>>

SetClusterNode(r) ==
    /\ req[r].pc = "write"
    /\ nodes' = req[r].list
    /\ req' = [req EXCEPT ![r] = NoRequest]
    /\ UNCHANGED <<up, beat, assign, mgr, sync, events>>

\* cleanClusterData
CleanNodes(r) ==
    /\ req[r] = NoRequest /\ Event
    /\ nodes' = {}
    /\ req' = [req EXCEPT ![r].pc = "clean"]
    /\ UNCHANGED <<up, beat, assign, mgr, sync>>

CleanAssigns(r) ==
    /\ req[r].pc = "clean"
    /\ SetAssigns([p \in Prefix |-> 0])
    /\ req' = [req EXCEPT ![r] = NoRequest]
    /\ UNCHANGED <<up, beat, nodes, mgr, events>>

-----------------------------------------------------------------------------
(* A node and its heartbeat *)

Start(n) ==
    /\ n \notin up /\ Event
    /\ up' = up \cup {n}
    /\ UNCHANGED <<beat, nodes, assign, mgr, req, sync>>

\* The heartbeat stays in etcd until it lapses.
Crash(n) ==
    /\ n \in up /\ Event
    /\ up' = up \ {n}
    /\ sync' = [w \in Follower |-> IF w = n THEN OutOfSync ELSE sync[w]]
    /\ UNCHANGED <<beat, nodes, assign, mgr, req>>

KeepHeartbeat(n) ==
    /\ n \in up \ beat
    /\ beat' = beat \cup {n}
    /\ UNCHANGED <<up, nodes, assign, mgr, req, sync, events>>

HeartbeatLapses(n) ==
    /\ n \in beat
    /\ IF n \in up THEN Event ELSE UNCHANGED events
    /\ beat' = beat \ {n}
    /\ UNCHANGED <<up, nodes, assign, mgr, req, sync>>

-----------------------------------------------------------------------------
(* syncAssigns of a node and of the proxy *)

Runs(w) == w \in up \cup {Proxy}

\* updateAssigns: a node keeps its own partitions, the proxy everyone's.
ListsOnce(w) ==
    /\ Runs(w) /\ sync[w].pc = "list"
    /\ sync' = [sync EXCEPT ![w] = [pc |-> "watch", at |-> IF assign[Index] = w \/ w = Proxy THEN assign[Index] ELSE 0]]
    /\ UNCHANGED <<up, beat, nodes, assign, mgr, req, events>>

Lists(w) ==
    /\ Runs(w) /\ sync[w].pc \in {"list", "told"}
    /\ sync' = [sync EXCEPT ![w] = [pc |-> "watch", at |-> IF assign[Index] = w \/ w = Proxy THEN assign[Index] ELSE 0]]
    /\ UNCHANGED <<up, beat, nodes, assign, mgr, req, events>>

\* The watch or the listing fails: the map is reset.
SyncFails(w) ==
    /\ Runs(w) /\ sync[w] # OutOfSync /\ Event
    /\ sync' = [sync EXCEPT ![w] = OutOfSync]
    /\ UNCHANGED <<up, beat, nodes, assign, mgr, req>>

\* Whether a node accepts requests for the index, and where the proxy sends them
AssignCheck(n) == n \in up /\ sync[n].at = n
GetAddrByIndex == sync[Proxy].at

-----------------------------------------------------------------------------
ManagerStep == ListHeartbeats \/ GetClusterNodes \/ ListAndDistribute \/ ManagerSetsAssigns

Next ==
    \/ ManagerStep \/ ManagerFails
    \/ \E r \in Request :
         \/ \E n \in Node : BeginCreate(r, n) \/ BeginUpdate(r, n) \/ BeginDelete(r, n)
         \/ SetClusterNode(r) \/ CleanNodes(r) \/ CleanAssigns(r)
    \/ \E n \in Node :
         \/ Start(n) \/ Crash(n) \/ KeepHeartbeat(n) \/ HeartbeatLapses(n)
    \/ \E w \in Follower : Lists(w) \/ SyncFails(w)

Spec == Init /\ [][Next]_vars

\* The manager's loop and the goroutines of the nodes and of the proxy keep
\* running, and the heartbeat of a node that is down lapses.
FairSpec ==
    /\ Spec
    /\ WF_vars(ManagerStep)
    /\ \A n \in Node : WF_vars(KeepHeartbeat(n) \/ (n \notin up /\ HeartbeatLapses(n)))
    /\ \A w \in Follower : WF_vars(Lists(w))

-----------------------------------------------------------------------------
(* Properties *)

(* Whatever the manager finds, what it is about to write leaves every      *)
(* partition with exactly one of the nodes it found alive, and every node  *)
(* with its share, which differ by one at most: the pool neither runs out  *)
(* nor is anything left in it ("n > len (list) has been guaranteed         *)
(* before").                                                               *)
Live == beat \cap nodes
Loads(a, S) == {Cardinality(List(a, n)) : n \in S}
Balanced(a, S) ==
    /\ \A p \in Prefix : a[p] \in S
    /\ \A x, y \in Loads(a, S) : x - y <= 1
PlanIsBalanced ==
    mgr.pc = "set" =>
        LET new == Updated(mgr.cur, mgr.plan)
        IN  /\ Balanced(new, Range(mgr.hbs))
            /\ \A i \in DOMAIN mgr.hbs : Cardinality(List(new, mgr.hbs[i])) = Share(mgr.hbs, i)

(* A partition is taken from a node that is alive only when the node has   *)
(* more than its share, and the node is left with its share.               *)
LiveNodesKeepTheirs ==
    mgr.pc = "set" =>
        \A i \in DOMAIN mgr.hbs :
            LET n == mgr.hbs[i]
                lost == {p \in List(mgr.cur, n) : Updated(mgr.cur, mgr.plan)[p] # n}
            IN  Cardinality(lost) = Max({0, Cardinality(List(mgr.cur, n)) - Share(mgr.hbs, i)})

(* When nodes stop coming and going, the partitions end up balanced over   *)
(* the live nodes, and a request for the index that the proxy routes is    *)
(* accepted by the one node that it goes to and by no other.               *)
Settled ==
    Live # {} =>
        /\ Balanced(assign, Live)
        /\ GetAddrByIndex \in Live
        /\ \A n \in Follower \ {Proxy} : AssignCheck(n) <=> GetAddrByIndex = n
Settles == <>[]Settled

(* And then no partition is moved again ("to keep the distribute result    *)
(* steady").                                                               *)
StopsMoving == <>[][UNCHANGED assign]_vars
=============================================================================
