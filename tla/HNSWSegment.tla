----------------------------- MODULE HNSWSegment -----------------------------
(***************************************************************************)
(* An HNSW vector index (pkg/core/hnsw_segment.go with HNSWIndex of        *)
(* vec_index.go) and the goroutine that rebuilds it                        *)
(* (vec_index_manager.go).  Writes are appended as rows to the "log/"      *)
(* family; the builder applies the rows to the "doc/" family, saves a new  *)
(* HNSW file and removes the rows.  Searches overlay the rows, kept in     *)
(* memory, on the documents and the HNSW index.                            *)
(*                                                                         *)
(* The vector of a document is abstracted to the ID of the row that        *)
(* carried it, 0 standing for none.  An HNSW index is abstracted to the    *)
(* set of its keys: searches take the vectors from the "doc/" family.      *)
(* writer.Batch is atomic, and writes nothing when it returns an error.    *)
(***************************************************************************)
EXTENDS Integers, FiniteSets

CONSTANTS
    Doc,          \* document IDs
    Client,       \* goroutines that call HNSWIndex.Batch
    HNSWMaxLogs,  \* config.Global.VectorConfig.HNSWMaxLogs
    MaxLog,       \* bound: rows ever written
    MaxFaults     \* bound: crashes and failing calls

\* A batch names finitely many documents: its lists have lengths.
ASSUME HNSWAssumption ==
    /\ HNSWMaxLogs \in Nat /\ MaxLog \in Nat /\ MaxFaults \in Nat
    /\ \A S \in SUBSET Doc : Cardinality(S) \in Nat

VARIABLES
    rows,     \* the "log/" family
    lastID,   \* "latest_log_id"
    hnswID,   \* "hnsw_log_id"
    docs,     \* docs[d]: the vector of "doc/d"
    file,     \* the keys of the saved HNSW file
    saved,    \* ref.Count in the metadata store
    loaded,   \* seg.loaded
    latest,   \* seg.latestLogID
    hnsw,     \* seg.hnswLogID
    cache,    \* cache[d]: the vector of d in seg.cache
    docTS,    \* docTS[d]: seg.docTS[d], 0 when absent
    index,    \* the keys of seg.index
    count,    \* ref.Count
    cl,       \* cl[c]: where c is, and the delta it has to count
    queued,   \* buildHNSWIndexTasks has the task of this index
    builder,  \* where the builder is, up to which ID it applies, what it read
    last,     \* last[d]: the row of d that was written last (history)
    faults    \* crashes and failing calls so far

store == <<rows, lastID, hnswID, docs, file, saved>>
seg == <<loaded, latest, hnsw, cache, docTS, index, count>>
vars == <<store, seg, cl, queued, builder, last, faults>>

ID == 0 .. MaxLog
Row == [id : 1 .. MaxLog, doc : Doc, del : BOOLEAN]
Vector(r) == IF r.del THEN 0 ELSE r.id

\* The row of d with the greatest ID in R: none or one.
Newest(R, d) == {r \in R : r.doc = d /\ \A q \in R : q.doc = d => q.id <= r.id}
\* Its ID, 0 for none, and the vector that applying it to v leaves.
NewestID(R, d) == IF Newest(R, d) = {} THEN 0 ELSE (CHOOSE r \in Newest(R, d) : TRUE).id
Applied(R, d, v) ==
    IF Newest(R, d) = {} THEN v ELSE Vector(CHOOSE r \in Newest(R, d) : TRUE)
UpTo(n) == {r \in rows : r.id <= n}

NoCall == [pc |-> "idle", delta |-> 0]
NoBuild == [pc |-> "idle", upto |-> 0, read |-> {}, keys |-> {}]

Init ==
    /\ rows = {} /\ lastID = 0 /\ hnswID = 0 /\ docs = [d \in Doc |-> 0]
    /\ file = {} /\ saved = 0
    /\ loaded = FALSE /\ latest = 0 /\ hnsw = 0
    /\ cache = [d \in Doc |-> 0] /\ docTS = [d \in Doc |-> 0] /\ index = {} /\ count = 0
    /\ cl = [c \in Client |-> NoCall] /\ queued = FALSE /\ builder = NoBuild
    /\ last = [d \in Doc |-> [id |-> 0, del |-> TRUE]] /\ faults = 0

-----------------------------------------------------------------------------
(* load, on the first use of the index *)

Load ==
    /\ ~loaded /\ loaded' = TRUE
    /\ latest' = lastID /\ hnsw' = hnswID
    /\ docTS' = [d \in Doc |-> NewestID(rows, d)]
    /\ cache' = [d \in Doc |-> Applied(rows, d, 0)]
    /\ index' = file /\ count' = saved
    /\ UNCHANGED <<store, cl, queued, builder, last, faults>>

-----------------------------------------------------------------------------
(* HNSWIndex.Batch *)

\* countDelta: is d there now, by what is in memory?
PresentByIndex(d) == cache[d] # 0 \/ d \in index

Present(d) == cache[d] # 0 \/ (docTS[d] = 0 /\ d \in index)
Delta(dels, adds) ==
    Cardinality({d \in adds : ~Present(d)}) - Cardinality({d \in dels \ adds : Present(d)})

\* The order in which the IDs of one list get their rows.
Numbering(S, from) ==
    {f \in [S -> from + 1 .. from + Cardinality(S)] : \A d, e \in S : f[d] = f[e] => d = e}

DelRows(f) == {[id |-> f[d], doc |-> d, del |-> TRUE] : d \in DOMAIN f}
AddRows(g) == {[id |-> g[d], doc |-> d, del |-> FALSE] : d \in DOMAIN g}

\* Under the mutex: the rows of the deletions and then of the additions, in one
\* bluge batch, and then what is kept in memory.
BatchWrites(c, dels, adds) ==
    LET n == Cardinality(dels) + Cardinality(adds) IN
    /\ loaded /\ cl[c].pc = "idle" /\ dels \cup adds # {} /\ latest + n <= MaxLog
    /\ \E f \in Numbering(dels, latest), g \in Numbering(adds, latest + Cardinality(dels)) :
         /\ rows' = rows \cup DelRows(f) \cup AddRows(g)
         /\ cache' = [d \in Doc |-> IF d \in adds THEN g[d] ELSE IF d \in dels THEN 0 ELSE cache[d]]
         /\ docTS' = [d \in Doc |-> IF d \in adds THEN g[d] ELSE IF d \in dels THEN f[d] ELSE docTS[d]]
         /\ last' = [d \in Doc |-> IF d \in adds THEN [id |-> g[d], del |-> FALSE]
                                   ELSE IF d \in dels THEN [id |-> f[d], del |-> TRUE] ELSE last[d]]
    /\ latest' = latest + n /\ lastID' = latest + n
    /\ cl' = [cl EXCEPT ![c] = [pc |-> "count", delta |-> Delta(dels, adds)]]
    /\ UNCHANGED <<hnswID, docs, file, saved, loaded, hnsw, index, count, queued, builder, faults>>

BatchCounts(c) ==
    /\ cl[c].pc = "count"
    /\ count' = count + cl[c].delta
    /\ cl' = [cl EXCEPT ![c] = [pc |-> "save", delta |-> 0]]
    /\ UNCHANGED <<store, loaded, latest, hnsw, cache, docTS, index, queued, builder, last, faults>>

\* SaveVecIndexMeta stores what the count is when its turn comes; when it
\* fails, Batch returns.
BatchSaves(c) ==
    /\ cl[c].pc = "save"
    /\ saved' = count
    /\ cl' = [cl EXCEPT ![c].pc = "check"]
    /\ UNCHANGED <<rows, lastID, hnswID, docs, file, seg, queued, builder, last, faults>>

BatchFails(c) ==
    /\ cl[c].pc = "save" /\ faults < MaxFaults
    /\ cl' = [cl EXCEPT ![c] = NoCall] /\ faults' = faults + 1
    /\ UNCHANGED <<store, seg, queued, builder, last>>

NeedRebuildHNSW == latest - hnsw > HNSWMaxLogs

BatchChecks(c) ==
    /\ cl[c].pc = "check"
    /\ cl' = [cl EXCEPT ![c].pc = IF NeedRebuildHNSW THEN "set" ELSE "idle"]
    /\ UNCHANGED <<store, seg, queued, builder, last, faults>>

\* BuildHNSWIndex: a task that is in the set already is not sent again.
BatchQueues(c) ==
    /\ cl[c].pc = "set"
    /\ queued' = TRUE
    /\ cl' = [cl EXCEPT ![c].pc = IF queued THEN "idle" ELSE "send"]
    /\ UNCHANGED <<store, seg, builder, last, faults>>

-----------------------------------------------------------------------------
(* The builder *)

\* The unbuffered channel: a waiting sender and the idle builder meet.
BuildReceives(c) ==
    /\ cl[c].pc = "send" /\ builder.pc = "idle"
    /\ cl' = [cl EXCEPT ![c].pc = "idle"]
    /\ builder' = [builder EXCEPT !.pc = "get"]
    /\ UNCHANGED <<store, seg, queued, last, faults>>

\* GetVectorIndex: until here the index may be freed, and is loaded again then.
BuildGets ==
    /\ builder.pc = "get" /\ loaded
    /\ builder' = [builder EXCEPT !.pc = "loop"]
    /\ UNCHANGED <<store, seg, cl, queued, last, faults>>

BuildLoops ==
    /\ builder.pc = "loop"
    /\ builder' = [builder EXCEPT !.pc = IF NeedRebuildHNSW THEN "read" ELSE "done"]
    /\ UNCHANGED <<store, seg, cl, queued, last, faults>>

\* applyLogs: the reader and the latest ID, under the mutex,
BuildReads ==
    /\ builder.pc = "read"
    /\ builder' = [builder EXCEPT !.pc = "apply", !.upto = latest]
    /\ UNCHANGED <<store, seg, cl, queued, last, faults>>

\* and one batch with the newest row of each document.
BuildApplies ==
    /\ builder.pc = "apply"
    /\ docs' = [d \in Doc |-> Applied(UpTo(builder.upto), d, docs[d])]
    /\ builder' = [builder EXCEPT !.pc = "save"]
    /\ UNCHANGED <<rows, lastID, hnswID, file, saved, seg, cl, queued, last, faults>>

\* buildHNSW: an index of all the documents, saved to storage.
BuildSaves ==
    /\ builder.pc = "save"
    /\ builder' = [builder EXCEPT !.pc = "clean", !.keys = {d \in Doc : docs[d] # 0}]
    /\ file' = {d \in Doc : docs[d] # 0}
    /\ UNCHANGED <<rows, lastID, hnswID, docs, saved, seg, cl, queued, last, faults>>

\* cleanLogs: one batch that removes the applied rows,
BuildCleans ==
    /\ builder.pc = "clean"
    /\ rows' = rows \ UpTo(builder.upto) /\ hnswID' = builder.upto
    /\ builder' = [builder EXCEPT !.pc = "swap", !.read = {r.doc : r \in UpTo(builder.upto)}]
    /\ UNCHANGED <<lastID, docs, file, saved, seg, cl, queued, last, faults>>

BuildSwapsAll ==
    /\ builder.pc = "swap"
    /\ hnsw' = builder.upto /\ index' = builder.keys
    /\ cache' = [d \in Doc |-> IF d \in builder.read THEN 0 ELSE cache[d]]
    /\ docTS' = [d \in Doc |-> IF d \in builder.read THEN 0 ELSE docTS[d]]
    /\ builder' = [NoBuild EXCEPT !.pc = "loop"]
    /\ UNCHANGED <<store, loaded, latest, count, cl, queued, last, faults>>

BuildSwapsLate ==
    /\ builder.pc = "swap"
    /\ hnsw' = builder.upto
    /\ LET Old(d) == d \in builder.read /\ docTS[d] <= builder.upto IN
         /\ cache' = [d \in Doc |-> IF Old(d) THEN 0 ELSE cache[d]]
         /\ docTS' = [d \in Doc |-> IF Old(d) THEN 0 ELSE docTS[d]]
    /\ builder' = [NoBuild EXCEPT !.pc = "loop"]
    /\ UNCHANGED <<store, loaded, latest, index, count, cl, queued, last, faults>>

BuildSwapsOnce ==
    /\ builder.pc = "swap"
    /\ hnsw' = builder.upto /\ index' = builder.keys
    /\ LET Old(d) == d \in builder.read /\ docTS[d] <= builder.upto IN
         /\ cache' = [d \in Doc |-> IF Old(d) THEN 0 ELSE cache[d]]
         /\ docTS' = [d \in Doc |-> IF Old(d) THEN 0 ELSE docTS[d]]
    /\ builder' = [NoBuild EXCEPT !.pc = "done"]
    /\ UNCHANGED <<store, loaded, latest, count, cl, queued, last, faults>>

\* and, under the mutex, what is kept in memory; documents that have got a
\* newer row meanwhile stay.
BuildSwaps ==
    /\ builder.pc = "swap"
    /\ hnsw' = builder.upto /\ index' = builder.keys
    /\ LET Old(d) == d \in builder.read /\ docTS[d] <= builder.upto IN
         /\ cache' = [d \in Doc |-> IF Old(d) THEN 0 ELSE cache[d]]
         /\ docTS' = [d \in Doc |-> IF Old(d) THEN 0 ELSE docTS[d]]
    /\ builder' = [NoBuild EXCEPT !.pc = "loop"]
    /\ UNCHANGED <<store, loaded, latest, count, cl, queued, last, faults>>

\* Getting the index, or a call of bluge or of the storage, fails.
BuildFails ==
    /\ builder.pc \in {"get", "apply", "save", "clean"} /\ faults < MaxFaults
    /\ builder' = [NoBuild EXCEPT !.pc = "done"] /\ faults' = faults + 1
    /\ UNCHANGED <<store, seg, cl, queued, last>>

BuildDoneLoops ==
    /\ builder.pc = "done"
    /\ queued' = FALSE /\ builder' = [NoBuild EXCEPT !.pc = "loop"]
    /\ UNCHANGED <<store, seg, cl, last, faults>>

\* The task leaves the set.
BuildDone ==
    /\ builder.pc = "done"
    /\ queued' = FALSE /\ builder' = NoBuild
    /\ UNCHANGED <<store, seg, cl, last, faults>>

-----------------------------------------------------------------------------
(* Losing the memory *)

Forget ==
    /\ loaded' = FALSE /\ latest' = 0 /\ hnsw' = 0 /\ index' = {} /\ count' = 0
    /\ cache' = [d \in Doc |-> 0] /\ docTS' = [d \in Doc |-> 0]

\* Where the builder has no reference to the index.
Apart == {"idle", "get", "done"}

\* CloseVectorIndex frees an index nobody refers to; the next use makes a new
\* object.
Free ==
    /\ loaded /\ builder.pc \in Apart /\ \A c \in Client : cl[c].pc = "idle"
    /\ Forget
    /\ UNCHANGED <<store, cl, queued, builder, last, faults>>

\* The program stops and starts again.  Stopping inside a batch, between its
\* write and the change of the memory, leaves what stopping after it leaves.
Crash ==
    /\ Forget
    /\ faults < MaxFaults /\ faults' = faults + 1
    /\ cl' = [c \in Client |-> NoCall] /\ queued' = FALSE /\ builder' = NoBuild
    /\ UNCHANGED <<store, last>>

-----------------------------------------------------------------------------
BatchStep(c) ==
    \/ BatchCounts(c) \/ BatchSaves(c) \/ BatchFails(c) \/ BatchChecks(c) \/ BatchQueues(c)

Build ==
    \/ \E c \in Client : BuildReceives(c)
    \/ BuildGets \/ BuildLoops \/ BuildReads \/ BuildApplies \/ BuildSaves \/ BuildCleans \/ BuildSwaps
    \/ BuildFails \/ BuildDone

Next ==
    \/ Load
    \/ \E c \in Client : \/ \E dels, adds \in SUBSET Doc : BatchWrites(c, dels, adds)
                         \/ BatchStep(c)
    \/ Build
    \/ Free \/ Crash

Spec == Init /\ [][Next]_vars

\* Goroutines that are not blocked run, and the builder loads the index it gets.
FairSpec ==
    /\ Spec /\ (\A c \in Client : WF_vars(BatchStep(c))) /\ WF_vars(Build)
    /\ WF_vars(builder.pc = "get" /\ Load)

-----------------------------------------------------------------------------
(* Properties *)

TypeOK ==
    /\ rows \subseteq Row /\ lastID \in ID /\ hnswID \in ID
    /\ docs \in [Doc -> ID] /\ file \subseteq Doc /\ saved \in Int
    /\ loaded \in BOOLEAN /\ latest \in ID /\ hnsw \in ID
    /\ cache \in [Doc -> ID] /\ docTS \in [Doc -> ID] /\ index \subseteq Doc /\ count \in Int
    /\ cl \in [Client -> [pc : {"idle", "count", "save", "check", "set", "send"}, delta : Int]]
    /\ queued \in BOOLEAN
    /\ builder \in [pc : {"idle", "get", "loop", "read", "apply", "save", "clean", "swap", "done"},
                    upto : ID, read : SUBSET Doc, keys : SUBSET Doc]
    /\ last \in [Doc -> [id : ID, del : BOOLEAN]]
    /\ faults \in 0 .. MaxFaults

\* The row that the last write of d left, while it is there.
LastRow(d) == [id |-> last[d].id, doc |-> d, del |-> last[d].del]
HasRow(d) == \E r \in rows : r.doc = d

\* The vector that the last write of d gave it, and the documents that have one.
Written(d) == Vector(last[d])
Live == {<<d, Written(d)>> : d \in {e \in Doc : Written(e) # 0}}

\* Storage: if d has rows, the last one is there; if not, it has been applied
\* and indexed.
StoreInv(d) ==
    /\ last[d].id <= lastID /\ (last[d].id = 0 => last[d].del)
    /\ \A r \in rows : r.doc = d => r.id <= last[d].id /\ (r.id = last[d].id => r = LastRow(d))
    /\ HasRow(d) => LastRow(d) \in rows
    /\ ~HasRow(d) => docs[d] = Written(d) /\ (d \in file <=> docs[d] # 0)

\* Memory: d is in docTS while it has rows, and until the builder has swapped
\* the index.
Swapping(d) == builder.pc = "swap" /\ d \in builder.read /\ last[d].id <= builder.upto
MemoryInv(d) ==
    IF docTS[d] # 0
    THEN /\ docTS[d] = last[d].id /\ cache[d] = Written(d)
         /\ HasRow(d) \/ Swapping(d)
    ELSE cache[d] = 0 /\ ~HasRow(d) /\ (d \in index <=> docs[d] # 0)

\* The builder: what it has applied is in the documents, the new index and the
\* file have all of them, and the applied rows are gone before it swaps.
BuilderInv ==
    /\ builder.pc \notin Apart \/ (\E c \in Client : cl[c].pc # "idle") => loaded
    /\ builder.pc \in {"save", "clean"} =>
         \A d \in Doc : last[d].id <= builder.upto => docs[d] = Written(d)
    /\ builder.pc \in {"clean", "swap"} =>
         builder.keys = {d \in Doc : docs[d] # 0} /\ file = builder.keys
    /\ builder.pc = "swap" => UpTo(builder.upto) = {}
    /\ builder.upto <= lastID

(* The inductive invariant.                                                *)
IInv ==
    /\ TypeOK /\ BuilderInv
    /\ \A d \in Doc : StoreInv(d)
    /\ loaded => latest = lastID /\ \A d \in Doc : MemoryInv(d)

\* What SearchByIDs (of all IDs) and Search (with k large enough, and an HNSW
\* index that finds all its keys) return, by docID and vector.
InCache == {<<d, cache[d]>> : d \in {e \in Doc : cache[e] # 0}}
SearchByIDs == InCache \cup {<<d, docs[d]>> : d \in {e \in Doc : docs[e] # 0 /\ docTS[e] = 0}}
Search == InCache \cup {<<d, docs[d]>> : d \in {e \in index : docs[e] # 0 /\ docTS[e] = 0}}

(* SearchByIDs finds for every document exactly the vector written last,   *)
(* at any point of a rebuild and after any crash.                          *)
SearchByIDsIsExact == loaded => SearchByIDs = Live

(* So does Search: the HNSW index in memory has every document that is not *)
(* found in the cache.                                                     *)
SearchIsComplete == loaded => Search = Live

(* Until something fails, ref.Count is the number of documents once the    *)
(* batches have counted, and it is the stored count that a new object of   *)
(* the index starts from.                                                  *)
CountIsExact ==
    faults = 0 /\ (\A c \in Client : cl[c].pc # "count") =>
        IF loaded THEN count = Cardinality(Live) ELSE saved = Cardinality(Live)

Sending == \E c \in Client : cl[c].pc = "send"

(* "The background worker will periodically apply those logs": once a task *)
(* is being sent, the unapplied rows come down to HNSWMaxLogs whatever is  *)
(* written meanwhile, if nothing fails on the way.                         *)
TaskIsDone ==
    Sending /\ faults = 0 ~>
        lastID - hnswID <= HNSWMaxLogs \/ faults > 0

(* No Batch waits for good with its task: the builder takes the task of    *)
(* the sender, whatever became of the tasks before it.                     *)
SenderReturns == Sending ~> ~Sending
=============================================================================
