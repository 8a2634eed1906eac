---------------------------- MODULE IndexManager ----------------------------
(***************************************************************************)
(* The life of one index name on one node: the cache of loaded indexes     *)
(* (pkg/core/indexmgr.go), the metadata store behind it, and the           *)
(* assignment of the index to nodes (pkg/cluster/cluster.go with           *)
(* watchIndexUpdate in pkg/core/indexlist.go).                             *)
(*                                                                         *)
(* An index object in memory is abstracted to its generation (the creation *)
(* it stems from) and the set of updates (of mappings, settings, vector    *)
(* indexes, statistics) made to it.                                        *)
(***************************************************************************)
EXTENDS Naturals, Sequences

CONSTANTS
    Client,     \* request goroutines
    Ops,        \* the operations clients call
    MaxObj,     \* bound: index objects ever made
    MaxUpd,     \* bound: updates ever made
    MaxFaults,  \* bound: changes of the assignment and failing calls
    None

ASSUME ManagerAssumption ==
    /\ Ops \subseteq {"get", "getOrCreate", "create", "update", "delete"}
    /\ MaxObj \in Nat /\ MaxUpd \in Nat /\ MaxFaults \in Nat
    /\ None \notin Nat /\ None \notin Client /\ None \notin [gen : Nat, upd : SUBSET Nat]

VARIABLES
    meta,       \* the stored metadata, or None
    objs,       \* the index objects made so far
    closed,     \* the objects that Close was called on
    cache,      \* mgr.cache[name]: an object, or None
    ready,      \* the client that put mgr.ready[name] there, or None
    cl,         \* cl[c]: where c is, in which call, with which object
    upds,       \* updates made so far
    acked,      \* the updates whose Store returned, as <<generation, update>>
    assigned,   \* assignMap has the prefix of the index
    owner,      \* whom the assignments listed last give the prefix to
    event,      \* updateAssigns is sending on UnassignChan
    watch,      \* watchIndexUpdate: where it is, and the object it dropped
    moves,      \* changes of the assignment so far; none on a single node
    fails       \* calls of the metadata store or the file system that failed so far

mgr == <<meta, objs, closed, cache, ready>>
history == <<upds, acked>>
cluster == <<assigned, owner, event, watch, moves>>
env == <<cluster, fails>>
vars == <<mgr, cl, history, env>>

Obj == 1 .. MaxObj
Content == [gen : 0 .. MaxObj, upd : SUBSET (1 .. MaxUpd)]
Call ==
    [pc : {"idle", "enter", "read", "set", "publish", "marshal", "look", "close", "remove", "drop", "fail"},
     op : {"none"} \cup Ops,
     obj : Obj \cup {None},
     upd : 0 .. MaxUpd,
     snap : Content \cup {None}]
Node == {"us", "other", "nobody"}
Watch == [pc : {"idle", "drop", "close"}, obj : Obj \cup {None}]

\* The handler of c with the index object o in hand and no call in progress.
Holding(o) == [pc |-> "idle", op |-> "none", obj |-> o, upd |-> 0, snap |-> None]

\* The index is stored and not loaded, or does not exist.
Init ==
    /\ meta \in {None, [gen |-> 0, upd |-> {}]}
    /\ objs = << >> /\ closed = {} /\ cache = None /\ ready = None
    /\ cl = [c \in Client |-> Holding(None)]
    /\ upds = 0 /\ acked = {}
    /\ assigned = TRUE /\ owner = "us" /\ event = FALSE
    /\ watch = [pc |-> "idle", obj |-> None] /\ moves = 0 /\ fails = 0

At(c, pc) == cl[c].pc = pc
Goto(c, pc) == cl' = [cl EXCEPT ![c].pc = pc]

-----------------------------------------------------------------------------
(* The calls, up to the manager's mutex *)

Begin(c, op, o, u) ==
    cl' = [cl EXCEPT ![c] = [pc |-> "enter", op |-> op, obj |-> o, upd |-> u, snap |-> None]]

\* Get, GetOrCreate and Delete go on when the index is assigned to this node.
BeginByName(c, op) ==
    /\ At(c, "idle") /\ op \in Ops \cap {"get", "getOrCreate", "delete"}
    /\ assigned
    /\ Begin(c, op, None, 0)
    /\ UNCHANGED <<mgr, history, env>>

\* CreateIndexWorker: the metadata must not exist; NewIndex, then Store.
BeginCreate(c) ==
    /\ At(c, "idle") /\ "create" \in Ops
    /\ assigned
    /\ meta = None /\ Len(objs) < MaxObj
    /\ objs' = Append(objs, [gen |-> Len(objs) + 1, upd |-> {}])
    /\ Begin(c, "create", Len(objs) + 1, 0)
    /\ UNCHANGED <<meta, closed, cache, ready, history, env>>

\* A handler changes the index object it holds in memory, then calls Store.
BeginUpdate(c) ==
    /\ At(c, "idle") /\ "update" \in Ops
    /\ cl[c].obj # None /\ upds < MaxUpd
    /\ upds' = upds + 1
    /\ objs' = [objs EXCEPT ![cl[c].obj].upd = @ \cup {upds + 1}]
    /\ Begin(c, "update", cl[c].obj, upds + 1)
    /\ UNCHANGED <<meta, closed, cache, ready, acked, env>>

-----------------------------------------------------------------------------
(* Under the mutex: Get and GetOrCreate take the cached object even while  *)
(* another call owns ready; otherwise a call waits for ready and takes it. *)

Lookup(c) == cl[c].op \in {"get", "getOrCreate"}

Hit(c) ==
    /\ At(c, "enter") /\ Lookup(c) /\ cache # None
    /\ cl' = [cl EXCEPT ![c] = Holding(cache)]
    /\ UNCHANGED <<mgr, history, env>>

EnterRegardless(c) ==
    /\ At(c, "enter") /\ (Lookup(c) => cache = None)
    /\ ready' = c
    /\ Goto(c, IF Lookup(c) THEN "read" ELSE IF cl[c].op = "delete" THEN "look" ELSE "marshal")
    /\ UNCHANGED <<meta, objs, closed, cache, history, env>>

Enter(c) ==
    /\ At(c, "enter") /\ (Lookup(c) => cache = None)
    /\ ready = None /\ ready' = c
    /\ Goto(c, IF Lookup(c) THEN "read" ELSE IF cl[c].op = "delete" THEN "look" ELSE "marshal")
    /\ UNCHANGED <<meta, objs, closed, cache, history, env>>

\* Every error path gives ready back and returns the error.
FailForgetsReady(c) ==
    /\ At(c, "fail")
    /\ cl' = [cl EXCEPT ![c] = Holding(None)]
    /\ UNCHANGED <<mgr, history, env>>

Fail(c) ==
    /\ At(c, "fail")
    /\ ready' = None
    /\ cl' = [cl EXCEPT ![c] = Holding(None)]
    /\ UNCHANGED <<meta, objs, closed, cache, history, env>>

\* A call of the metadata store or of the file system returns an error; a
\* change of the metadata may have been made all the same.
Errs(c) ==
    /\ moves + fails < MaxFaults /\ fails' = fails + 1
    /\ cl[c].pc \in {"read", "set", "look", "close", "remove"}
    /\ meta' \in {meta} \cup (IF At(c, "set") THEN {cl[c].snap} ELSE {})
                       \cup (IF At(c, "remove") THEN {None} ELSE {})
    /\ Goto(c, "fail")
    /\ UNCHANGED <<objs, closed, cache, ready, upds, acked, cluster>>

-----------------------------------------------------------------------------
(* Get and GetOrCreate: getIndex, getOrCreateIndex *)

\* The metadata exists: formatIndex makes an object of it.
ReadFound(c) ==
    /\ At(c, "read") /\ Lookup(c) /\ meta # None /\ Len(objs) < MaxObj
    /\ objs' = Append(objs, meta)
    /\ cl' = [cl EXCEPT ![c].pc = "publish", ![c].obj = Len(objs) + 1]
    /\ UNCHANGED <<meta, closed, cache, ready, history, env>>

ReadNotFound(c) ==
    /\ At(c, "read") /\ cl[c].op = "get" /\ meta = None
    /\ Goto(c, "fail")
    /\ UNCHANGED <<mgr, history, env>>

\* It does not exist: NewIndex and checkIndex, and in the next step Set.
ReadCreates(c) ==
    /\ At(c, "read") /\ cl[c].op = "getOrCreate" /\ meta = None /\ Len(objs) < MaxObj
    /\ objs' = Append(objs, [gen |-> Len(objs) + 1, upd |-> {}])
    /\ cl' = [cl EXCEPT ![c].pc = "set", ![c].obj = Len(objs) + 1,
                        ![c].snap = [gen |-> Len(objs) + 1, upd |-> {}]]
    /\ UNCHANGED <<meta, closed, cache, ready, history, env>>

\* metadata.Index.Set of getOrCreateIndex and storeIndex
Set(c) ==
    /\ At(c, "set")
    /\ meta' = cl[c].snap
    /\ Goto(c, "publish")
    /\ UNCHANGED <<objs, closed, cache, ready, upds, acked, env>>

\* The loaded or created object goes into the cache.
PublishLoaded(c) ==
    /\ At(c, "publish") /\ Lookup(c)
    /\ ready' = None /\ cache' = cl[c].obj
    /\ cl' = [cl EXCEPT ![c] = Holding(cl[c].obj)]
    /\ UNCHANGED <<meta, objs, closed, history, env>>

-----------------------------------------------------------------------------
(* Store *)

\* storeIndex marshals the object as it is now,
Marshal(c) ==
    /\ At(c, "marshal")
    /\ cl' = [cl EXCEPT ![c].pc = "set", ![c].snap = objs[cl[c].obj]]
    /\ UNCHANGED <<mgr, history, env>>

\* Set follows, and a cached object other than the stored one is dropped.
PublishStoredKeeps(c) ==
    /\ At(c, "publish") /\ ~Lookup(c)
    /\ ready' = None
    /\ acked' = IF cl[c].op = "update" THEN acked \cup {<<cl[c].snap.gen, cl[c].upd>>} ELSE acked
    /\ cl' = [cl EXCEPT ![c] = Holding(cl[c].obj)]
    /\ UNCHANGED <<meta, objs, closed, cache, upds, env>>

PublishStored(c) ==
    /\ At(c, "publish") /\ ~Lookup(c)
    /\ ready' = None
    /\ cache' = IF cache = cl[c].obj THEN cache ELSE None
    /\ acked' = IF cl[c].op = "update" THEN acked \cup {<<cl[c].snap.gen, cl[c].upd>>} ELSE acked
    /\ cl' = [cl EXCEPT ![c] = Holding(cl[c].obj)]
    /\ UNCHANGED <<meta, objs, closed, upds, env>>

-----------------------------------------------------------------------------
(* Delete *)

\* deleteIndex takes the cached index, or reads the metadata; nothing stored
\* means nothing to delete.
DeleteLooks(c) ==
    /\ At(c, "look")
    /\ cl' = [cl EXCEPT ![c].obj = cache,
                        ![c].pc = IF cache # None THEN "close" ELSE IF meta = None THEN "drop" ELSE "remove"]
    /\ UNCHANGED <<mgr, history, env>>

\* A cached index is closed,
DeleteCloses(c) ==
    /\ At(c, "close")
    /\ closed' = closed \cup {cl[c].obj}
    /\ Goto(c, "remove")
    /\ UNCHANGED <<meta, objs, cache, ready, history, env>>

\* the vector indexes and the files are removed, then the metadata,
DeleteRemoves(c) ==
    /\ At(c, "remove")
    /\ meta' = None
    /\ Goto(c, "drop")
    /\ UNCHANGED <<objs, closed, cache, ready, history, env>>

DeleteDropsNothing(c) ==
    /\ At(c, "drop")
    /\ ready' = None
    /\ cl' = [cl EXCEPT ![c] = Holding(None)]
    /\ UNCHANGED <<meta, objs, closed, cache, history, env>>

\* and the cached object goes.
DeleteDrops(c) ==
    /\ At(c, "drop")
    /\ ready' = None /\ cache' = None
    /\ cl' = [cl EXCEPT ![c] = Holding(None)]
    /\ UNCHANGED <<meta, objs, closed, history, env>>

-----------------------------------------------------------------------------
(* The cluster *)

\* updateAssigns: the new assignment, then the send on UnassignChan.
UpdateAssigns(n) ==
    /\ ~event /\ moves + fails < MaxFaults /\ moves' = moves + 1
    /\ assigned' = (n = "us") /\ owner' = n /\ event' = TRUE
    /\ UNCHANGED <<mgr, cl, history, watch, fails>>

\* watchAssigns failed: the assignment is forgotten until it is listed again.
LoseAssigns ==
    /\ ~event /\ assigned /\ moves + fails < MaxFaults /\ moves' = moves + 1
    /\ assigned' = FALSE
    /\ UNCHANGED <<mgr, cl, history, owner, event, watch, fails>>

\* watchIndexUpdate receives; updateIndexList lists the cached indexes,
WatchReceives ==
    /\ event /\ watch.pc = "idle"
    /\ event' = FALSE
    /\ watch' = [watch EXCEPT !.pc = IF owner = "other" /\ cache # None THEN "drop" ELSE "idle"]
    /\ UNCHANGED <<mgr, cl, history, assigned, owner, moves, fails>>

WatchDropsNothing ==
    /\ watch.pc = "drop"
    /\ watch' = IF cache # None THEN [pc |-> "close", obj |-> cache] ELSE [pc |-> "idle", obj |-> None]
    /\ UNCHANGED <<mgr, cl, history, assigned, owner, event, moves, fails>>

\* drops the ones that are assigned to another node,
WatchDrops ==
    /\ watch.pc = "drop"
    /\ cache' = None
    /\ watch' = IF cache # None THEN [pc |-> "close", obj |-> cache] ELSE [pc |-> "idle", obj |-> None]
    /\ UNCHANGED <<meta, objs, closed, ready, cl, history, assigned, owner, event, moves, fails>>

\* and closes them.
WatchCloses ==
    /\ watch.pc = "close"
    /\ closed' = closed \cup {watch.obj}
    /\ watch' = [pc |-> "idle", obj |-> None]
    /\ UNCHANGED <<meta, objs, cache, ready, cl, history, assigned, owner, event, moves, fails>>

\* The node that owns the index stores an update of it or deletes it.
RemoteUpdate ==
    /\ owner = "other" /\ meta # None /\ upds < MaxUpd
    /\ upds' = upds + 1
    /\ meta' = [meta EXCEPT !.upd = @ \cup {upds + 1}]
    /\ acked' = acked \cup {<<meta.gen, upds + 1>>}
    /\ UNCHANGED <<objs, closed, cache, ready, cl, env>>

RemoteDelete ==
    /\ owner = "other" /\ meta # None
    /\ meta' = None
    /\ UNCHANGED <<objs, closed, cache, ready, cl, history, env>>

-----------------------------------------------------------------------------
ClientStep(c) ==
    \/ Hit(c) \/ Enter(c) \/ Fail(c) \/ Errs(c)
    \/ ReadFound(c) \/ ReadNotFound(c) \/ ReadCreates(c) \/ Set(c)
    \/ PublishLoaded(c) \/ Marshal(c) \/ PublishStored(c)
    \/ DeleteLooks(c) \/ DeleteCloses(c) \/ DeleteRemoves(c) \/ DeleteDrops(c)

Next ==
    \/ \E c \in Client :
         \/ \E op \in Ops : BeginByName(c, op)
         \/ BeginCreate(c) \/ BeginUpdate(c)
         \/ ClientStep(c)
    \/ \E n \in Node : UpdateAssigns(n)
    \/ RemoteUpdate \/ RemoteDelete
    \/ LoseAssigns \/ WatchReceives \/ WatchDrops \/ WatchCloses

Spec == Init /\ [][Next]_vars

\* A goroutine that is not blocked keeps running.
FairSpec == Spec /\ \A c \in Client : WF_vars(ClientStep(c))

-----------------------------------------------------------------------------
(* Properties *)

TypeOK ==
    /\ meta \in Content \cup {None}
    /\ objs \in Seq(Content) /\ Len(objs) <= MaxObj
    /\ closed \subseteq Obj
    /\ cache \in Obj \cup {None}
    /\ ready \in Client \cup {None}
    /\ cl \in [Client -> Call]
    /\ upds \in 0 .. MaxUpd
    /\ acked \subseteq (0 .. MaxObj) \X (1 .. MaxUpd)
    /\ assigned \in BOOLEAN /\ owner \in Node /\ event \in BOOLEAN
    /\ watch \in Watch
    /\ moves \in 0 .. MaxFaults /\ fails \in 0 .. MaxFaults

(* While no call is between taking and giving back ready, a cached index   *)
(* is one that is stored, and has every update that is stored: whatever    *)
(* Get, GetOrCreate, Store and Delete do at the same time, and with stale  *)
(* objects in the hands of other handlers.  (Until the first failing call, *)
(* or the first change of the assignment.)                                 *)
CacheMatchesMetadata ==
    moves = 0 /\ fails = 0 /\ ready = None /\ cache # None =>
        /\ meta # None
        /\ objs[cache].gen = meta.gen
        /\ meta.upd \subseteq objs[cache].upd

(* Without failing calls, Get never leaves a closed index in the cache,    *)
(* also when watchIndexUpdate closes indexes that move to another node.    *)
CachedIsOpen == fails = 0 /\ ready = None /\ cache # None => cache \notin closed

(* An update whose Store has returned stays in the stored metadata, as     *)
(* long as this node keeps the index and has one object of each creation.  *)
StoredUpdateKept ==
    /\ moves = 0 /\ meta # None
    /\ \A i, j \in DOMAIN objs : objs[i].gen = objs[j].gen => i = j
    => \A a \in acked : a[1] = meta.gen => a[2] \in meta.upd

-----------------------------------------------------------------------------
(* The inductive invariant.  Whatever fails or moves, ready is a lock      *)
(* around the work of a call: the calls that are between taking and giving *)
(* it back are at most one, its owner's.                                   *)
Owning == {"read", "set", "publish", "marshal", "look", "close", "remove", "drop", "fail"}

\* The place of a call fits its operation, and the call has what it needs there.
Fits(k) ==
    /\ k.pc # "idle" => k.op # "none"
    /\ k.pc # "idle" /\ k.op \in {"create", "update"} => k.obj # None
    /\ k.pc # "idle" /\ k.op = "update" => k.upd # 0
    /\ k.pc = "read" => k.op \in {"get", "getOrCreate"}
    /\ k.pc = "marshal" => k.op \in {"create", "update"}
    /\ k.pc \in {"look", "close", "remove", "drop"} => k.op = "delete"
    /\ k.pc = "close" => k.obj # None
    /\ k.pc \in {"set", "publish"} => k.obj # None /\ k.op # "delete"
    /\ k.pc = "set" => k.snap # None
    /\ k.pc = "publish" /\ k.op \notin {"get", "getOrCreate"} => k.snap # None

\* Objects and generations are numbered as they are made.
Made(o) == o # None => o <= Len(objs)
MadeGen(m) == m # None => m.gen <= Len(objs)

CallOK(c) ==
    /\ Fits(cl[c]) /\ Made(cl[c].obj) /\ MadeGen(cl[c].snap)
    /\ cl[c].pc \in Owning <=> ready = c
    /\ cl[c].pc \in Owning /\ Lookup(c) => cache = None

Numbered ==
    /\ Made(cache) /\ MadeGen(meta)
    /\ \A o \in closed : o <= Len(objs)
    /\ \A o \in DOMAIN objs : objs[o].gen <= Len(objs)
    /\ \A a \in acked : a[1] <= Len(objs)

\* Nothing happens in the cluster before the first change of the assignment.
ClusterOK ==
    /\ watch.pc = "close" => watch.obj # None /\ Made(watch.obj)
    /\ moves = 0 => owner = "us" /\ ~event /\ watch.pc = "idle"

Sound == TypeOK /\ (\A c \in Client : CallOK(c)) /\ Numbered /\ ClusterOK

(* Behind CacheMatchesMetadata: what is being stored describes the object  *)
(* of the call, and what is stored describes the cached object unless the  *)
(* owner of ready has changed it and not yet touched the cache.            *)
Describes(m, o) ==
    m # None /\ objs[o].gen = m.gen /\ m.upd \subseteq objs[o].upd

Coherent ==
    /\ \A c \in Client :
         /\ cl[c].pc = "set" => Describes(cl[c].snap, cl[c].obj)
         /\ cl[c].pc = "publish" => Describes(meta, cl[c].obj)
    /\ cache # None /\ (\A c \in Client : cl[c].pc \notin {"publish", "drop"}) => Describes(meta, cache)

(* Behind CachedIsOpen: a cached object is closed only while a Delete is   *)
(* about to drop it, and nobody is about to cache one that is closed or    *)
(* that watchIndexUpdate has dropped and will close.                       *)
Open ==
    /\ cache # None /\ cache \in closed => \E c \in Client : cl[c].pc \in {"remove", "drop"}
    /\ watch.pc = "close" => watch.obj # cache
    /\ \A c \in Client :
         Lookup(c) /\ cl[c].pc \in {"set", "publish"} =>
             cl[c].obj \notin closed /\ (watch.pc = "close" => watch.obj # cl[c].obj)

(* Behind StoredUpdateKept: with one object of each creation, the object,  *)
(* what is marshalled of it and what is stored of it have every update     *)
(* whose Store returned, and the one that the call is about.               *)
Distinct == \A i, j \in DOMAIN objs : objs[i].gen = objs[j].gen => i = j

HasAcked(m) == \A a \in acked : a[1] = m.gen => a[2] \in m.upd

Kept ==
    /\ meta # None => HasAcked(meta)
    /\ \A o \in DOMAIN objs : HasAcked(objs[o])
    /\ \A c \in Client :
         /\ cl[c].pc = "set" => HasAcked(cl[c].snap)
         /\ cl[c].pc \in {"set", "publish"} /\ ~Lookup(c) =>
              /\ Describes(cl[c].snap, cl[c].obj)
              /\ cl[c].pc = "publish" => meta = cl[c].snap
              /\ cl[c].op = "update" => cl[c].upd \in cl[c].snap.upd
         /\ cl[c].pc \in {"enter", "marshal"} /\ cl[c].op = "update" => cl[c].upd \in objs[cl[c].obj].upd

IInv ==
    /\ Sound
    /\ moves = 0 /\ fails = 0 => Coherent
    /\ fails = 0 => Open
    /\ moves = 0 /\ Distinct => Kept

(* Every call that takes ready gives it back, on every error path too      *)
(* (unless the bound on objects stops it).                                 *)
ReadyReleased ==
    ready # None ~> ready = None \/ (Len(objs) = MaxObj /\ \E c \in Client : At(c, "read"))

=============================================================================
