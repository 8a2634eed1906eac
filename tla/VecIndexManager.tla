-------------------------- MODULE VecIndexManager --------------------------
(***************************************************************************)
(* The objects of one vector index in memory (vec_index_manager.go):       *)
(* GetVectorIndex takes the cached object or loads one, CloseVectorIndex   *)
(* gives it back, backgroundGC frees an object nobody used for an hour,    *)
(* and deleteVecIndexFromIndex waits until it can free the object.  Every  *)
(* action is one section under vecIdxManager.lock, or the work between two *)
(* sections.                                                               *)
(***************************************************************************)
EXTENDS Integers, FiniteSets

CONSTANTS
    Client,     \* goroutines that write to or search the index
    Sealer,     \* the goroutine of backgroundSeal
    Collector,  \* the goroutine of backgroundGC
    Deleter,    \* the goroutine of IndexManager.Delete, while mgr.ready has its channel
    MaxObj,     \* how many objects can be in memory at a time
    None

Holder == Client \cup {Sealer}
Proc == Holder \cup {Collector, Deleter}
Obj == 1 .. MaxObj

ASSUME VecManagerAssumption ==
    /\ Sealer \notin {Collector, Deleter, None} /\ Collector \notin {Deleter, None} /\ Deleter # None
    /\ {Sealer, Collector, Deleter, None} \cap Client = {} /\ IsFiniteSet(Client)
    /\ MaxObj \in Nat

VARIABLES
    cached,  \* vecIdxManager.cache[name], 0 for none
    ready,   \* who put vecIdxManager.ready[name] there, or None
    refs,    \* refs[o]: refCount of the object o
    open,    \* the objects that were made and not freed; the name of a freed one is used again
    old,     \* nobody took a reference to the cached object for an hour
    at,      \* at[p]: where p is, and its object (0 for none)
    exists   \* the index has not been deleted

manager == <<cached, ready, refs, open, old>>
managerVars == <<manager, at, exists>>

ManagerInit ==
    /\ cached = 0 /\ ready = None /\ refs = [o \in Obj |-> 0] /\ open = {}
    /\ old = FALSE /\ exists = TRUE
    /\ at = [p \in Proc |-> [pc |-> "idle", obj |-> 0]]

At(p, pc) == at[p].pc = pc
Goto(p, pc, o) == at' = [at EXCEPT ![p] = [pc |-> pc, obj |-> o]]

\* The index manager's Delete is under way: IndexMgr.Store of this index waits.
Deleting == ~At(Deleter, "idle")

-----------------------------------------------------------------------------
(* GetVectorIndex and CloseVectorIndex without wait *)

Asks(p) == At(p, "idle") /\ Goto(p, "get", 0) /\ UNCHANGED <<manager, exists>>

TakesUncounted(p) ==
    /\ At(p, "get") /\ cached # 0
    /\ old' = FALSE
    /\ Goto(p, "hold", cached)
    /\ UNCHANGED <<cached, ready, refs, open, exists>>

Takes(p) ==
    /\ At(p, "get") /\ cached # 0
    /\ refs' = [refs EXCEPT ![cached] = @ + 1] /\ old' = FALSE
    /\ Goto(p, "hold", cached)
    /\ UNCHANGED <<cached, ready, open, exists>>

\* With another goroutine's channel in ready, p waits for it to be closed.
Claims(p) ==
    /\ At(p, "get") /\ cached = 0 /\ ready = None
    /\ ready' = p
    /\ Goto(p, IF exists THEN "load" ELSE "lost", 0)
    /\ UNCHANGED <<cached, refs, open, old, exists>>

\* MakeVecIndex has returned an object,
Publishes(p) ==
    /\ At(p, "load") /\ open # Obj
    /\ LET o == CHOOSE n \in Obj \ open : TRUE
       IN  /\ open' = open \cup {o} /\ cached' = o
           /\ refs' = [refs EXCEPT ![o] = 1] /\ old' = FALSE
           /\ ready' = None
           /\ Goto(p, "hold", o)
           /\ UNCHANGED exists

\* or an error.
LoadFails(p) ==
    /\ At(p, "load") \/ At(p, "lost")
    /\ ready' = None
    /\ Goto(p, "idle", 0)
    /\ UNCHANGED <<cached, refs, open, old, exists>>

Closes(p) ==
    /\ At(p, "hold")
    /\ refs' = [refs EXCEPT ![at[p].obj] = @ - 1]
    /\ Goto(p, "idle", 0)
    /\ UNCHANGED <<cached, ready, open, old, exists>>

-----------------------------------------------------------------------------
(* backgroundGC *)

\* An hour passes.  Nobody keeps a reference, and no deleter waits, that long.
Expires ==
    /\ cached # 0 /\ refs[cached] = 0 /\ ~old /\ ~Deleting
    /\ old' = TRUE
    /\ UNCHANGED <<cached, ready, refs, open, at, exists>>

CollectsUnready ==
    /\ At(Collector, "idle") /\ cached # 0 /\ refs[cached] = 0 /\ old /\ ready = None
    /\ cached' = 0
    /\ Goto(Collector, "free", cached)
    /\ UNCHANGED <<ready, refs, open, old, exists>>

Collects ==
    /\ At(Collector, "idle") /\ cached # 0 /\ refs[cached] = 0 /\ old /\ ready = None
    /\ cached' = 0 /\ ready' = Collector
    /\ Goto(Collector, "free", cached)
    /\ UNCHANGED <<refs, open, old, exists>>

\* Free, and the channel closed: of backgroundGC, or of CloseVectorIndex with
\* wait, after which the deleter goes on.
Frees(p) ==
    /\ At(p, "free")
    /\ open' = open \ {at[p].obj} /\ ready' = None
    /\ Goto(p, IF p = Deleter THEN "remove" ELSE "idle", 0)
    /\ UNCHANGED <<cached, refs, old, exists>>

-----------------------------------------------------------------------------
(* deleteVecIndexFromIndex *)

DeleteBegins ==
    /\ At(Deleter, "idle") /\ exists
    /\ IF cached = 0
       THEN Goto(Deleter, "remove", 0) /\ UNCHANGED <<refs, old>>
       ELSE /\ refs' = [refs EXCEPT ![cached] = @ + 1] /\ old' = FALSE
            /\ Goto(Deleter, "drop", cached)
    /\ UNCHANGED <<cached, ready, open, exists>>

\* CloseVectorIndex with wait gives the reference back,
DeleteDrops ==
    /\ At(Deleter, "drop")
    /\ refs' = [refs EXCEPT ![at[Deleter].obj] = @ - 1]
    /\ Goto(Deleter, "wait", at[Deleter].obj)
    /\ UNCHANGED <<cached, ready, open, old, exists>>

\* and looks once a second whether the others have.
DeleteTakes ==
    /\ At(Deleter, "wait") /\ refs[at[Deleter].obj] = 0
    /\ IF ready # None
       THEN Goto(Deleter, "remove", 0) /\ UNCHANGED <<ready, cached>>
       ELSE ready' = Deleter /\ cached' = 0 /\ Goto(Deleter, "free", at[Deleter].obj)
    /\ UNCHANGED <<refs, open, old, exists>>

\* The files are removed, and the index manager's Delete removes the metadata.
DeleteRemoves ==
    /\ At(Deleter, "remove")
    /\ exists' = FALSE
    /\ Goto(Deleter, "idle", 0)
    /\ UNCHANGED manager

-----------------------------------------------------------------------------

\* The process dies and starts again.
Restart ==
    /\ cached' = 0 /\ ready' = None /\ refs' = [o \in Obj |-> 0] /\ open' = {} /\ old' = FALSE
    /\ at' = [p \in Proc |-> [pc |-> "idle", obj |-> 0]]
    /\ UNCHANGED exists

ManagerNext ==
    \/ \E p \in Holder :
        Asks(p) \/ Takes(p) \/ Claims(p) \/ Publishes(p) \/ LoadFails(p) \/ Closes(p)
    \/ Expires \/ Collects \/ \E p \in {Collector, Deleter} : Frees(p)
    \/ DeleteBegins \/ DeleteDrops \/ DeleteTakes \/ DeleteRemoves
    \/ Restart

(* What the manager does, whoever uses its objects and for what: every     *)
(* step of the index is one of these steps, or leaves the manager alone.   *)
ManagerSpec == ManagerInit /\ [][ManagerNext]_managerVars

-----------------------------------------------------------------------------
(* Properties *)

Place == [pc : {"idle", "get", "load", "lost", "hold", "free", "drop", "wait", "remove"},
          obj : 0 .. MaxObj]

\* The variables of the manager have their types.
ManagerTypeOK ==
    /\ cached \in 0 .. MaxObj /\ ready \in Proc \cup {None}
    /\ refs \in [Obj -> Nat] /\ open \subseteq Obj
    /\ old \in BOOLEAN /\ exists \in BOOLEAN
    /\ at \in [Proc -> Place]

Loading(p) == At(p, "load") \/ At(p, "lost")
Referring == {p \in Proc : At(p, "hold") \/ At(p, "drop")}

Places ==
    /\ \A p \in Holder : at[p].pc \in {"idle", "get", "load", "lost", "hold"}
    /\ at[Collector].pc \in {"idle", "free"}
    /\ at[Deleter].pc \in {"idle", "drop", "wait", "free", "remove"}
ReadyOwned == \A p \in Proc : ready = p <=> Loading(p) \/ At(p, "free")
FreesOnly == \A p \in Proc : At(p, "free") => open = {at[p].obj}
UsesCached ==
    \A p \in Proc : At(p, "hold") \/ At(p, "drop") \/ At(p, "wait") => cached # 0 /\ at[p].obj = cached
CachedOnly == cached # 0 => open = {cached} /\ ready = None
Counted == cached # 0 => refs[cached] = Cardinality(Referring)
NoneOpen == cached = 0 /\ ready \notin {Collector, Deleter} => open = {}
DeletedYoung == Deleting /\ cached # 0 => ~old

(* The invariant behind the two properties below: the count of the cached  *)
(* object is the number of goroutines that refer to it, everybody who      *)
(* refers to an object or waits to free it has the cached one, which is    *)
(* then the only open one, and an object being freed is in nobody's hands  *)
(* while ready keeps loads away.                                           *)
ManagerInv ==
    /\ ManagerTypeOK /\ Places /\ ReadyOwned /\ FreesOnly /\ UsesCached
    /\ CachedOnly /\ Counted /\ NoneOpen /\ DeletedYoung

(* An object is not freed, and nobody is about to free it, while a         *)
(* goroutine that got it from GetVectorIndex has not closed it: a freed    *)
(* object has deleted its faiss index and closed its writers.              *)
HeldNotFreed ==
    \A p \in Holder : At(p, "hold") =>
        /\ at[p].obj \in open
        /\ \A q \in {Collector, Deleter} : At(q, "free") => at[q].obj # at[p].obj

(* At most one object of the index is open at a time, so that no two       *)
(* objects write to the same bluge directories: while an object is being   *)
(* freed, GetVectorIndex makes no other.                                   *)
OneOpen == \A o, u \in open : o = u
=============================================================================
