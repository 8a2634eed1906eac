------------------------------- MODULE WalList -------------------------------
(***************************************************************************)
(* Opening, consuming and closing the WAL of one shard:                    *)
(* IndexShard.OpenWAL, GetWriter and Close, and the ticker goroutine of    *)
(* IndexShardWALList.ConsumeWAL.  The list is keyed by the shard's name,   *)
(* while the shard object of that name is a new one (an incarnation) each  *)
(* time the index is loaded again.                                         *)
(***************************************************************************)
EXTENDS Naturals

CONSTANTS
    Request,   \* request goroutines
    MaxLoad,   \* bound: how often the index is loaded
    RollbackFails, \* whether Rollback may fail
    Quiet,     \* an index is closed only while no request uses it, and before it is loaded again
    None

ASSUME WalListAssumption == MaxLoad \in Nat \ {0} /\ {Quiet, RollbackFails} \subseteq BOOLEAN /\ None \notin Nat

Shard == 1 .. MaxLoad      \* the incarnations, in the order of loading

VARIABLES
    cur,       \* the incarnation in IndexMgr's cache, or None
    loads,     \* how often the index has been loaded
    flag,      \* the incarnations with s.open = 1
    wal,       \* the incarnations with s.wal # nil
    chan,      \* the incarnations whose s.close has been made
    list,      \* ZINC_INDEX_SHARD_WAL_LIST.Shards[name], or None
    caller,    \* caller[r]: where r is, and in which incarnation
    closer,    \* closer[i]: where Close of i is
    tick       \* the ticker goroutine: where it is, and the incarnation it listed

shards == <<flag, wal, chan>>
listVars == <<cur, loads, shards, list, caller, closer, tick>>

ReqState == {"idle", "check", "lock", "flag", "chan", "add", "use", "store"}
CloseState == {"no", "begin", "sending", "stuck", "flag", "wal", "done"}
TickState == {"idle", "run", "consume", "newShard", "update", "remove"}

ListTypeOK ==
    /\ cur \in Shard \cup {None} /\ loads \in 0 .. MaxLoad
    /\ flag \subseteq Shard /\ wal \subseteq Shard /\ chan \subseteq Shard
    /\ list \in Shard \cup {None}
    /\ caller \in [Request -> [pc : ReqState, at : Shard \cup {None}]]
    /\ closer \in [Shard -> CloseState]
    /\ tick \in [pc : TickState, at : Shard \cup {None}]

ListInit ==
    /\ cur = None /\ loads = 0
    /\ flag = {} /\ wal = {} /\ chan = {}
    /\ list = None
    /\ caller = [r \in Request |-> [pc |-> "idle", at |-> None]]
    /\ closer = [i \in Shard |-> "no"]
    /\ tick = [pc |-> "idle", at |-> None]

Used(i) == \E r \in Request : caller[r].pc # "idle" /\ caller[r].at = i
CallerAt(r, pc) == caller[r].pc = pc
CallerGoes(r, pc) == caller' = [caller EXCEPT ![r].pc = pc]

-----------------------------------------------------------------------------
(* Requests *)

\* IndexMgr.Get loads the index when it is not cached.
Load ==
    /\ cur = None /\ loads < MaxLoad
    /\ Quiet => \A i \in 1 .. loads : closer[i] = "done"
    /\ cur' = loads + 1 /\ loads' = loads + 1
    /\ UNCHANGED <<shards, list, caller, closer, tick>>

RequestBegins(r) ==
    /\ CallerAt(r, "idle") /\ cur # None
    /\ Quiet => closer[cur] = "no"
    /\ caller' = [caller EXCEPT ![r] = [pc |-> "check", at |-> cur]]
    /\ UNCHANGED <<cur, loads, shards, list, closer, tick>>

OpenCheckEarly(r) ==
    /\ CallerAt(r, "check")
    /\ IF caller[r].at \in flag
       THEN CallerGoes(r, "use") /\ UNCHANGED flag
       ELSE CallerGoes(r, "lock") /\ flag' = flag \cup {caller[r].at}
    /\ UNCHANGED <<cur, loads, wal, chan, list, closer, tick>>

\* OpenWAL: return at once when the flag is set.
OpenCheck(r) ==
    /\ CallerAt(r, "check")
    /\ CallerGoes(r, IF caller[r].at \in flag THEN "use" ELSE "lock")
    /\ UNCHANGED <<cur, loads, shards, list, closer, tick>>

\* Under the lock: open the WAL unless another request has done so.
OpenLock(r) ==
    /\ CallerAt(r, "lock")
    /\ CallerGoes(r, IF caller[r].at \in wal THEN "use" ELSE "flag")
    /\ wal' = wal \cup {caller[r].at}
    /\ UNCHANGED <<cur, loads, flag, chan, list, closer, tick>>

\* After the lock: the flag, the channel, Rollback, and the list.
OpenFlag(r) ==
    /\ CallerAt(r, "flag") /\ CallerGoes(r, "chan")
    /\ flag' = flag \cup {caller[r].at}
    /\ UNCHANGED <<cur, loads, wal, chan, list, closer, tick>>

OpenChan(r) ==
    /\ CallerAt(r, "chan") /\ CallerGoes(r, "add")
    /\ chan' = chan \cup {caller[r].at}
    /\ UNCHANGED <<cur, loads, flag, wal, list, closer, tick>>

OpenAdd(r) ==
    /\ CallerAt(r, "add") /\ CallerGoes(r, "use")
    /\ list' = caller[r].at
    /\ UNCHANGED <<cur, loads, shards, closer, tick>>

\* Rollback fails, and the request with it.
OpenFails(r) ==
    /\ RollbackFails
    /\ CallerAt(r, "add") /\ CallerGoes(r, "idle")
    /\ UNCHANGED <<cur, loads, shards, list, closer, tick>>

\* The request writes to or reads from s.wal and returns,
RequestReturns(r) ==
    /\ CallerAt(r, "use") /\ CallerGoes(r, "idle")
    /\ UNCHANGED <<cur, loads, shards, list, closer, tick>>

\* or it was GetWriter's call of OpenWAL, and GetWriter sets the flag again.
GetWriterReturns(r) ==
    /\ CallerAt(r, "use") /\ CallerGoes(r, "store")
    /\ UNCHANGED <<cur, loads, shards, list, closer, tick>>

GetWriterStore(r) ==
    /\ CallerAt(r, "store") /\ CallerGoes(r, "idle")
    /\ flag' = flag \cup {caller[r].at}
    /\ UNCHANGED <<cur, loads, wal, chan, list, closer, tick>>

-----------------------------------------------------------------------------
(* Close: updateIndexList drops the index from the cache and closes it,    *)
(* deleteIndex closes it and Delete drops it afterwards.                   *)

CloseBegins(i) ==
    /\ cur = i /\ closer[i] = "no"
    /\ Quiet => ~Used(i)
    /\ cur' \in {i, None}
    /\ closer' = [closer EXCEPT ![i] = "begin"]
    /\ UNCHANGED <<loads, shards, list, caller, tick>>

CloseChecksWithoutSignal(i) ==
    /\ closer[i] = "begin"
    /\ closer' = [closer EXCEPT ![i] = IF i \notin flag THEN "wal" ELSE "flag"]
    /\ UNCHANGED <<cur, loads, shards, list, caller, tick>>

\* With the flag set, wait to hand the close signal to the ticker goroutine;
\* a send on the nil channel waits forever.
CloseChecks(i) ==
    /\ closer[i] = "begin"
    /\ closer' = [closer EXCEPT ![i] =
                    IF i \notin flag THEN "wal" ELSE IF i \in chan THEN "sending" ELSE "stuck"]
    /\ UNCHANGED <<cur, loads, shards, list, caller, tick>>

CloseFlag(i) ==
    /\ closer[i] = "flag"
    /\ flag' = flag \ {i}
    /\ closer' = [closer EXCEPT ![i] = "wal"]
    /\ UNCHANGED <<cur, loads, wal, chan, list, caller, tick>>

CloseWal(i) ==
    /\ closer[i] = "wal"
    /\ wal' = wal \ {i}
    /\ closer' = [closer EXCEPT ![i] = "done"]
    /\ cur' = IF cur = i THEN None ELSE cur
    /\ UNCHANGED <<loads, flag, chan, list, caller, tick>>

-----------------------------------------------------------------------------
(* The ticker goroutine; other shards' goroutines may delay every step.    *)

TickSkipsClosing ==
    /\ tick.pc = "idle" /\ list # None /\ closer[list] = "no"
    /\ tick' = [pc |-> "run", at |-> list]
    /\ UNCHANGED <<cur, loads, shards, list, caller, closer>>

TickLists ==
    /\ tick.pc = "idle" /\ list # None
    /\ tick' = [pc |-> "run", at |-> list]
    /\ UNCHANGED <<cur, loads, shards, list, caller, closer>>

\* The shard's goroutine receives a waiting close signal,
TickReceives ==
    /\ tick.pc = "run" /\ closer[tick.at] = "sending"
    /\ closer' = [closer EXCEPT ![tick.at] = "flag"]
    /\ tick' = [tick EXCEPT !.pc = "remove"]
    /\ UNCHANGED <<cur, loads, shards, list, caller>>

\* or finds none and consumes the WAL.
TickConsumes ==
    /\ tick.pc = "run" /\ closer[tick.at] # "sending"
    /\ tick' = [tick EXCEPT !.pc = "consume"]
    /\ UNCHANGED <<cur, loads, shards, list, caller, closer>>

\* ConsumeWAL found nothing to write, or wrote it,
TickConsumed ==
    /\ tick.pc = "consume"
    /\ tick' \in {[pc |-> "idle", at |-> None], [tick EXCEPT !.pc = "update"]}
    /\ UNCHANGED <<cur, loads, shards, list, caller, closer>>

\* perhaps with a new second-layer shard, of which NewShard stores the metadata.
TickNewShard ==
    /\ tick.pc = "consume"
    /\ tick' = [tick EXCEPT !.pc = "newShard"]
    /\ UNCHANGED <<cur, loads, shards, list, caller, closer>>

\* IndexMgr.Store waits while Delete, which closes the cached incarnation, has
\* its channel in mgr.ready.
Deleting == cur # None /\ closer[cur] # "no"

TickStoresShard ==
    /\ tick.pc = "newShard" /\ ~Deleting
    /\ tick' = [tick EXCEPT !.pc = "update"]
    /\ UNCHANGED <<cur, loads, shards, list, caller, closer>>

\* UpdateMetadata, when every goroutine has returned.
TickUpdates ==
    /\ tick.pc = "update" /\ ~Deleting
    /\ tick' = [pc |-> "idle", at |-> None]
    /\ UNCHANGED <<cur, loads, shards, list, caller, closer>>

\* When every goroutine has returned, the closed shards are removed by name.
TickRemoves ==
    /\ tick.pc = "remove"
    /\ list' = None
    /\ tick' = [pc |-> "idle", at |-> None]
    /\ UNCHANGED <<cur, loads, shards, caller, closer>>

-----------------------------------------------------------------------------
RequestStep(r) ==
    \/ OpenCheck(r) \/ OpenLock(r) \/ OpenFlag(r) \/ OpenChan(r) \/ OpenAdd(r) \/ OpenFails(r)
    \/ RequestReturns(r) \/ GetWriterReturns(r) \/ GetWriterStore(r)

CloseStep(i) == CloseChecks(i) \/ CloseFlag(i) \/ CloseWal(i)

Tick ==
    \/ TickLists \/ TickReceives \/ TickConsumes \/ TickConsumed
    \/ TickNewShard \/ TickStoresShard \/ TickUpdates \/ TickRemoves

ListNext ==
    \/ Load
    \/ \E r \in Request : RequestBegins(r) \/ RequestStep(r)
    \/ \E i \in Shard : CloseBegins(i) \/ CloseStep(i)
    \/ Tick

ListSpec == ListInit /\ [][ListNext]_listVars

(* Requests and Close run on their goroutines until they block, and the    *)
(* ticker keeps firing.                                                    *)
ListFairSpec ==
    /\ ListSpec
    /\ \A r \in Request : WF_listVars(RequestStep(r))
    /\ \A i \in Shard : WF_listVars(CloseStep(i))
    /\ WF_listVars(Tick)

-----------------------------------------------------------------------------
(* Properties *)

(* ConsumeWAL only ever runs on an open WAL: Close waits for the ticker    *)
(* goroutine to take its signal before it closes the WAL.                  *)
ConsumedWalIsOpen == tick.pc \in {"consume", "newShard"} => tick.at \in wal

(* A request that OpenWAL let through finds s.wal open when it uses it.    *)
RequestHasWal == \A r \in Request : CallerAt(r, "use") => caller[r].at \in wal

(* s.open "mark[s] shard has opened WAL": with the flag set, the WAL is    *)
(* open.                                                                   *)
FlagMeansOpen == flag \subseteq wal

(* The inductive invariant behind the three safety properties when indexes *)
(* are closed quietly.  Only the incarnation loaded last is in use: the    *)
(* earlier ones are closed.  What is listed is open and its Close, if      *)
(* begun, has not got past the signal.  A closing incarnation has no       *)
(* request inside.                                                         *)
ListInv ==
    /\ cur # None => cur <= loads
    /\ list # None => list <= loads
    /\ list # None /\ ~(tick.pc = "remove" /\ tick.at = list) =>
         list \in flag /\ list \in chan /\ closer[list] \in {"no", "begin", "sending"}
    /\ tick.pc \in {"run", "consume", "newShard"} => tick.at = list
    /\ tick.pc # "idle" => tick.at # None

ReqInv(r) ==
    caller[r].pc # "idle" =>
         /\ caller[r].at # None /\ caller[r].at <= loads /\ closer[caller[r].at] = "no"
         /\ caller[r].pc \in {"flag", "chan", "add", "use", "store"} => caller[r].at \in wal
         /\ caller[r].pc \in {"chan", "add"} => caller[r].at \in flag
         /\ caller[r].pc = "add" => caller[r].at \in chan

ShardInv(i) ==
    /\ i \in flag => i \in wal
    /\ i < loads => closer[i] = "done"
    /\ closer[i] \in {"wal", "done"} => i \notin flag

HandshakeInv == ListTypeOK /\ ListInv /\ (\A r \in Request : ReqInv(r)) /\ (\A i \in Shard : ShardInv(i))

\* Nothing but the ticker goroutine has to act for Close of i to get on.
Attended(i) == i \notin flag \/ (list = i /\ tick.pc # "remove")

(* Close returns: at once when no WAL is open, and when the WAL is listed  *)
(* (and the ticker is not removing a namesake of it) because the ticker    *)
(* goroutine takes its signal in a later tick.  When Delete closes, that   *)
(* holds unless the ticker goroutine is at IndexMgr.Store or gets there.   *)
CloseReturns ==
    \A i \in Shard :
        closer[i] = "begin" /\ Attended(i)
            ~> closer[i] = "done" \/ (cur = i /\ tick.pc \in {"newShard", "update"})

(* Delete, which removes the index, returns under the same conditions.     *)
DeleteReturns ==
    \A i \in Shard : closer[i] = "begin" /\ cur = i /\ Attended(i) ~> closer[i] = "done"
=============================================================================
