----------------------------- MODULE IvfPqIndex -----------------------------
(***************************************************************************)
(* The vectors of one IVFPQ index (vec_index.go, ivfpq_segment.go): its    *)
(* segments, each a bluge store and, once sealed, a faiss index; the WAL   *)
(* consumers that add and delete vectors, the searches, the goroutine that *)
(* seals full segments, and the metadata, in memory and in the metadata    *)
(* store.  The object the operations work on comes from VecIndexManager.   *)
(*                                                                         *)
(* Segments are counted from 1.  The consumers of two shards never address *)
(* the same document.  A segment is opened when it is first used; only the *)
(* opened segment writes its files, so here all are opened by the load.    *)
(* After a recovery two segments in memory may have the same identifier    *)
(* and share their files.                                                  *)
(***************************************************************************)
EXTENDS VecIndexManager, Sequences, Functions

CONSTANTS
    Doc,        \* documents with a vector
    Threshold,  \* VectorConfig.IvfPqThreshold
    Hashed,     \* StoreWithHash: the storage path holds the hash of the name
    MaxOps,     \* bound: writes begun
    MaxSearches, \* bound: searches begun
    MaxTasks,   \* bound: seals requested, the hourly check included
    MaxFaults,  \* bound: failed calls and crashes
    MaxSeg      \* bound: segments

ASSUME IvfPqAssumption ==
    /\ IsFiniteSet(Doc) /\ Threshold \in Nat \ {0} /\ Hashed \in BOOLEAN
    /\ MaxOps \in Nat /\ MaxSearches \in Nat /\ MaxTasks \in Nat /\ MaxFaults \in Nat /\ MaxSeg \in Nat \ {0}

VARIABLES
    store,      \* store[i][d]: how often the document d is in the bluge store of segment i
    written,    \* the segments whose store has files
    faiss,      \* faiss[i][d]: the same for its saved faiss index
    meta,       \* the metadata in memory: the current segment, and the segments
    saved,      \* the metadata in the metadata store
    cache,      \* cache[n][d]: the same for cachedVectorsCache of the n-th segment in
                \* memory; NoCache for none
    index,      \* index[n][d]: the same for its faiss index
    job,        \* job[p]: what the holder p does with the index
    tasks,      \* tasks in sealCh, and whether the hourly check is still to come
    want,       \* the documents whose vector was put last, and not deleted
    repeated,   \* the documents whose insert was repeated after it had been stored
    recovered,  \* checkStoredSegments has recorded a segment
    shared,     \* two recorded segments have had the same identifier, and so the same files
    ops,        \* the writes and the searches begun
    faults

disk == <<store, written, faiss>>
segments == <<meta, cache, index>>
history == <<want, repeated, recovered, shared, ops>>
vars == <<managerVars, disk, segments, saved, job, tasks, history, faults>>

SegId == 1 .. MaxSeg
Empty == [d \in Doc |-> 0]
NoCache == [d \in Doc |-> -1]

Writes == {"insert", "update", "delete"}
NoJob == [op |-> "none", doc |-> None, step |-> "begin", todo |-> {}]

NewSegment(i, n) == [id |-> i, status |-> "growing", count |-> n]

Init ==
    /\ ManagerInit
    /\ store = [i \in SegId |-> Empty] /\ written = {} /\ faiss = [i \in SegId |-> Empty]
    /\ meta = [cur |-> 1, segs |-> <<NewSegment(1, 0)>>] /\ saved = meta
    /\ cache = [i \in SegId |-> NoCache] /\ index = [i \in SegId |-> Empty]
    /\ job = [p \in Holder |-> NoJob]
    /\ tasks = [queued |-> 0, asked |-> 0, check |-> TRUE, sealing |-> FALSE]
    /\ want = {} /\ repeated = {} /\ recovered = FALSE /\ shared = FALSE
    /\ ops = [writes |-> 0, searches |-> 0] /\ faults = 0

-----------------------------------------------------------------------------
(* The segments *)

\* The documents of a bag, every copy counted.
Count(bag) == Cardinality(UNION {{d} \X (1 .. bag[d]) : d \in DOMAIN bag})
\* The n-th segment of the metadata.
Id(n) == meta.segs[n].id
Growing(n) == meta.segs[n].status = "growing"
InPlace(m) == \A n \in DOMAIN m.segs : m.segs[n].id = n
Full(s) == s.status = "growing" /\ s.count >= Threshold

\* ListVecSegments of the index's name: with hashed paths, nothing is found.
Listed == IF Hashed THEN {} ELSE written

MissingWithCurrent == {s \in Range(meta.segs) : s.id \notin Listed}

\* The recorded segments checkStoredSegments misses.  The current one may not
\* have been written to.
Missing == {s \in Range(meta.segs) : s.id \notin Listed /\ s.id # meta.cur}

UnrecordedOneLess ==
    IF Cardinality(Listed) = Len(meta.segs) THEN <<>>
    ELSE [n \in 1 .. Cardinality(Listed) - 1 - meta.cur |->
            NewSegment(meta.cur + n, Count(store[meta.cur + n]))]

\* The segments it records.
Unrecorded ==
    IF Cardinality(Listed) = Len(meta.segs) THEN <<>>
    ELSE [n \in 1 .. Cardinality(Listed) - meta.cur |->
            NewSegment(meta.cur + n, Count(store[meta.cur + n]))]

\* MakeVecIndex: checkStoredSegments saves the metadata unless every listed
\* segment is recorded, and the save waits for a deletion of the index.
Load(p) ==
    /\ Missing = {}
    /\ Cardinality(Listed) # Len(meta.segs) => ~Deleting
    /\ Publishes(p)
    /\ meta' = [meta EXCEPT !.segs = @ \o Unrecorded]
    /\ recovered' = (recovered \/ Unrecorded # <<>>) /\ shared' = (shared \/ ~InPlace(meta'))
    /\ saved' = IF Cardinality(Listed) # Len(meta.segs) THEN meta' ELSE saved
    /\ cache' = [n \in SegId |-> NoCache]
    /\ index' = [n \in SegId |-> IF n <= Len(meta'.segs) THEN faiss[meta'.segs[n].id] ELSE Empty]
    /\ UNCHANGED <<disk, job, tasks, want, repeated, ops, faults>>

\* ErrVecIndexCorruption, or the index is no longer there.
LoadFailsFor(p) ==
    /\ At(p, "lost") \/ Missing # {} \/ ~exists
    /\ LoadFails(p)
    /\ job' = IF p = Sealer \/ job[p].op = "search" \/ ~exists
              THEN [job EXCEPT ![p] = NoJob] ELSE job
    /\ tasks' = IF p = Sealer THEN [tasks EXCEPT !.sealing = FALSE] ELSE tasks
    /\ UNCHANGED <<disk, segments, saved, history, faults>>

Get(p) ==
    /\ Takes(p) \/ Claims(p)
    /\ UNCHANGED <<disk, segments, saved, job, tasks, history, faults>>

Step(p, step, todo) == job' = [job EXCEPT ![p].step = step, ![p].todo = todo]

-----------------------------------------------------------------------------
(* Batch: the write of a WAL consumer *)

Busy(d) == \E c \in Client : job[c].op \in Writes /\ job[c].doc = d

\* A document is inserted once, when it is new.  Delete has closed the shards
\* before it deletes the vectors, so that nothing is consumed meanwhile.
BeginWrite(c, op, d) ==
    /\ job[c] = NoJob /\ exists /\ ~Deleting /\ ops.writes < MaxOps
    /\ ~Busy(d) /\ (op = "insert" => d \notin want) /\ (op = "delete" => d \in want)
    /\ Asks(c)
    /\ job' = [job EXCEPT ![c] = [NoJob EXCEPT !.op = op, !.doc = d]]
    /\ ops' = [ops EXCEPT !.writes = @ + 1]
    /\ UNCHANGED <<disk, segments, saved, tasks, want, repeated, recovered, shared, faults>>

\* A write that failed, or that a crash cut short, is consumed again.
Retry(c) ==
    /\ job[c].op \in Writes /\ exists /\ ~Deleting
    /\ Asks(c)
    /\ UNCHANGED <<disk, segments, saved, job, tasks, history, faults>>

AtStep(p, step) == At(p, "hold") /\ job[p].step = step

FindDeletesInCurrent(c) ==
    /\ AtStep(c, "begin") /\ job[c].op \in Writes
    /\ LET found == {n \in {meta.cur} : store[Id(n)][job[c].doc] > 0}
       IN  IF job[c].op = "insert" \/ found = {} THEN Step(c, "add", {}) ELSE Step(c, "delete", found)
    /\ UNCHANGED <<managerVars, disk, segments, saved, tasks, history, faults>>

\* processDel: the segments that hold the document.
FindDeletes(c) ==
    /\ AtStep(c, "begin") /\ job[c].op \in Writes
    /\ LET found == {n \in DOMAIN meta.segs : store[Id(n)][job[c].doc] > 0}
       IN  IF job[c].op = "insert" \/ found = {} THEN Step(c, "add", {}) ELSE Step(c, "delete", found)
    /\ UNCHANGED <<managerVars, disk, segments, saved, tasks, history, faults>>

FreeCacheNot(n) == cache

FreeCache(n) == [cache EXCEPT ![n] = NoCache]

\* save of the n-th segment: a growing one frees its cache and counts the
\* documents of its store; a sealed one saves its faiss index.
Save(n) ==
    /\ cache' = IF Growing(n) THEN FreeCache(n) ELSE cache
    /\ faiss' = IF Growing(n) THEN faiss ELSE [faiss EXCEPT ![Id(n)] = index'[n]]

CountOf(n) == IF Growing(n) THEN Count(store'[Id(n)]) ELSE Count(index'[n])

\* Batch of one segment, under its lock: removeIDs takes the document out of
\* the faiss index of a sealed segment and then out of the store.
DeleteSegment(c, n) ==
    /\ AtStep(c, "delete") /\ n \in job[c].todo
    /\ index' = IF Growing(n) THEN index ELSE [index EXCEPT ![n][job[c].doc] = 0]
    /\ store' = [store EXCEPT ![Id(n)][job[c].doc] = 0]
    /\ Save(n)
    /\ meta' = [meta EXCEPT !.segs[n].count = CountOf(n)]
    /\ Step(c, IF job[c].todo = {n} THEN "add" ELSE "delete", job[c].todo \ {n})
    /\ UNCHANGED <<managerVars, written, saved, tasks, history, faults>>

\* A call of it fails: in the faiss index, in the store, or in save, when only
\* the count or the saved index is behind.  The batch returns the error.
DeleteFails(c, n) ==
    /\ AtStep(c, "delete") /\ n \in job[c].todo /\ faults < MaxFaults
    /\ faults' = faults + 1
    /\ \E done \in {{}, {"faiss"}, {"faiss", "store"}} :
        /\ index' = IF "faiss" \in done /\ ~Growing(n)
                    THEN [index EXCEPT ![n][job[c].doc] = 0] ELSE index
        /\ store' = IF "store" \in done THEN [store EXCEPT ![Id(n)][job[c].doc] = 0] ELSE store
        /\ cache' = IF "store" \in done /\ Growing(n) THEN FreeCache(n) ELSE cache
    /\ Closes(c)
    /\ Step(c, "begin", {})
    /\ UNCHANGED <<written, faiss, meta, saved, tasks, history>>

CheckNewSegAppendsOnly(m) ==
    IF m.segs[m.cur].count < Threshold THEN m
    ELSE [m EXCEPT !.segs = Append(@, NewSegment(m.cur + 1, 0))]

\* checkNewSeg: a full segment is followed by a new current one.
CheckNewSeg(m) ==
    IF m.segs[m.cur].count < Threshold THEN m
    ELSE [cur |-> m.cur + 1, segs |-> Append(m.segs, NewSegment(m.cur + 1, 0))]

\* addVectors of the current segment, which refuses a sealed one.
StoreVectors(c) ==
    IF job[c].op = "delete" THEN UNCHANGED <<store, written, repeated>>
    ELSE /\ Growing(meta.cur)
         /\ store' = [store EXCEPT ![Id(meta.cur)][job[c].doc] = @ + 1]
         /\ written' = written \cup {Id(meta.cur)}
         /\ repeated' = IF job[c].op = "insert" /\ \E i \in SegId : store[i][job[c].doc] > 0
                        THEN repeated \cup {job[c].doc} ELSE repeated

\* processAdd, with the index locked; without vectors to add it only saves.
AddVectors(c) ==
    /\ AtStep(c, "add")
    /\ StoreVectors(c)
    /\ UNCHANGED index
    /\ Save(meta.cur)
    /\ meta' = CheckNewSeg([meta EXCEPT !.segs[meta.cur].count = CountOf(meta.cur)])
    /\ Len(meta'.segs) <= MaxSeg /\ shared' = (shared \/ ~InPlace(meta'))
    /\ want' = IF job[c].op = "delete" THEN want \ {job[c].doc} ELSE want \cup {job[c].doc}
    /\ Step(c, "done", {})
    /\ UNCHANGED <<managerVars, saved, tasks, recovered, ops, faults>>

\* A call fails before the vectors are in the store, or after.
AddFails(c) ==
    /\ AtStep(c, "add") /\ faults < MaxFaults
    /\ faults' = faults + 1
    /\ \/ StoreVectors(c) /\ cache' = IF Growing(meta.cur) THEN FreeCache(meta.cur) ELSE cache
       \/ UNCHANGED <<store, written, cache, repeated>>
    /\ Closes(c)
    /\ Step(c, "begin", {})
    /\ UNCHANGED <<faiss, meta, index, saved, tasks, want, recovered, shared, ops>>

\* "cannot add vectors to a non-Growing segment"
AddRefused(c) ==
    /\ AtStep(c, "add") /\ job[c].op # "delete" /\ ~Growing(meta.cur)
    /\ Closes(c)
    /\ Step(c, "begin", {})
    /\ UNCHANGED <<disk, segments, saved, tasks, history, faults>>

Finish(c) ==
    /\ AtStep(c, "done")
    /\ Closes(c)
    /\ job' = [job EXCEPT ![c] = NoJob]
    /\ UNCHANGED <<disk, segments, saved, tasks, history, faults>>

-----------------------------------------------------------------------------
(* Search *)

BeginSearch(c) ==
    /\ job[c] = NoJob /\ ops.searches < MaxSearches
    /\ Asks(c)
    /\ job' = [job EXCEPT ![c].op = "search"]
    /\ ops' = [ops EXCEPT !.searches = @ + 1]
    /\ UNCHANGED <<disk, segments, saved, tasks, want, repeated, recovered, shared, faults>>

\* A growing segment fills its cache, under its lock, and searches it; a sealed
\* one asks its faiss index.
SearchSegments(c) ==
    /\ AtStep(c, "begin") /\ job[c].op = "search"
    /\ cache' = [n \in SegId |->
                   IF n \in DOMAIN meta.segs /\ Growing(n) /\ cache[n] = NoCache
                   THEN store[Id(n)] ELSE cache[n]]
    /\ Step(c, "done", {})
    /\ UNCHANGED <<managerVars, disk, meta, index, saved, tasks, history, faults>>

-----------------------------------------------------------------------------
(* backgroundSeal *)

\* SealIndex, the request of a user, and backgroundSealCheck, which reads the
\* stored metadata once, an hour after the start.
RequestSeal ==
    /\ exists /\ tasks.asked < MaxTasks /\ ~tasks.sealing
    /\ \E s \in Range(meta.segs) : Full(s)
    /\ tasks' = [tasks EXCEPT !.queued = @ + 1, !.asked = @ + 1]
    /\ UNCHANGED <<managerVars, disk, segments, saved, job, history, faults>>

CheckSeals ==
    /\ tasks.check /\ tasks.asked < MaxTasks
    /\ tasks' = [tasks EXCEPT !.check = FALSE, !.asked = @ + 1,
                   !.queued = IF exists /\ ~tasks.sealing /\ \E s \in Range(saved.segs) : Full(s)
                              THEN @ + 1 ELSE @]
    /\ UNCHANGED <<managerVars, disk, segments, saved, job, history, faults>>

TakeTask ==
    /\ tasks.queued > 0 /\ job[Sealer] = NoJob
    /\ Asks(Sealer)
    /\ tasks' = [tasks EXCEPT !.queued = @ - 1, !.sealing = TRUE]
    /\ job' = [job EXCEPT ![Sealer].op = "seal"]
    /\ UNCHANGED <<disk, segments, saved, history, faults>>

\* SealSeg: the full segments that are not the current one,
Picks == {s.id : s \in {s \in Range(meta.segs) : Full(s) /\ s.id # meta.cur}}

PickSegments ==
    /\ AtStep(Sealer, "begin")
    /\ Step(Sealer, IF Picks = {} THEN "done" ELSE "seal", Picks)
    /\ UNCHANGED <<managerVars, disk, segments, saved, tasks, history, faults>>

First(todo) == CHOOSE i \in todo : \A j \in todo : i <= j

\* one after the other.  Seal builds the faiss index from the cache, which it
\* fills if need be, saves it, and the segment is sealed; an empty one stays.
SealSegment ==
    /\ AtStep(Sealer, "seal")
    /\ LET n == First(job[Sealer].todo)
           vectors == IF cache[n] = NoCache THEN store[Id(n)] ELSE cache[n]
       IN  IF vectors = Empty
           THEN cache' = [cache EXCEPT ![n] = vectors] /\ UNCHANGED <<index, faiss, meta>>
           ELSE /\ index' = [index EXCEPT ![n] = vectors]
                /\ faiss' = [faiss EXCEPT ![Id(n)] = vectors]
                /\ meta' = [meta EXCEPT !.segs[n].status = "sealed"]
                /\ cache' = FreeCache(n)
    /\ Step(Sealer, "save", job[Sealer].todo)
    /\ UNCHANGED <<managerVars, store, written, saved, tasks, history, faults>>

\* SaveVecIndexMeta waits for a deletion of the index that is under way.
SaveMeta ==
    /\ AtStep(Sealer, "save") /\ ~Deleting
    /\ saved' = meta
    /\ LET left == job[Sealer].todo \ {First(job[Sealer].todo)}
       IN  Step(Sealer, IF left = {} THEN "done" ELSE "seal", left)
    /\ UNCHANGED <<managerVars, disk, segments, tasks, history, faults>>

\* The cache cannot be filled, the index not built or not saved (what is left in
\* s.index is replaced by the next Seal), or the metadata not stored.
SealFails ==
    /\ AtStep(Sealer, "seal") \/ AtStep(Sealer, "save")
    /\ faults < MaxFaults /\ faults' = faults + 1
    /\ LET n == First(job[Sealer].todo)
       IN  \/ UNCHANGED cache
           \/ /\ AtStep(Sealer, "seal") /\ cache[n] = NoCache
              /\ cache' = [cache EXCEPT ![n] = store[Id(n)]]
    /\ Step(Sealer, "done", {})
    /\ UNCHANGED <<managerVars, disk, meta, index, saved, tasks, history>>

SealerDone ==
    /\ AtStep(Sealer, "done")
    /\ Closes(Sealer)
    /\ job' = [job EXCEPT ![Sealer] = NoJob]
    /\ tasks' = [tasks EXCEPT !.sealing = FALSE]
    /\ UNCHANGED <<disk, segments, saved, history, faults>>

-----------------------------------------------------------------------------
(* The rest of the system *)

\* Other code stores the index's metadata: UpdateMetadata after a consumption.
MetaStored ==
    /\ exists /\ ~Deleting /\ saved # meta
    /\ saved' = meta
    /\ UNCHANGED <<managerVars, disk, segments, job, tasks, history, faults>>

Collect ==
    /\ Expires \/ Collects \/ Frees(Collector)
    /\ UNCHANGED <<disk, segments, saved, job, tasks, history, faults>>

\* IndexManager.Delete has closed the shards: their consumers have finished.
DeleteIndex ==
    /\ DeleteBegins
    /\ \A c \in Client : job[c].op \in Writes => At(c, "idle")
    /\ job' = [p \in Holder |-> IF At(p, "idle") THEN NoJob ELSE job[p]]
    /\ UNCHANGED <<disk, segments, saved, tasks, history, faults>>

DeleteGoesOnUnwaited ==
    /\ \/ DeleteDrops \/ DeleteTakes \/ Frees(Deleter)
       \/ At(Deleter, "wait") /\ Goto(Deleter, "remove", 0) /\ UNCHANGED <<manager, exists>>
    /\ UNCHANGED <<disk, segments, saved, job, tasks, history, faults>>

DeleteGoesOn ==
    /\ DeleteDrops \/ DeleteTakes \/ Frees(Deleter)
    /\ UNCHANGED <<disk, segments, saved, job, tasks, history, faults>>

DeleteFiles ==
    /\ DeleteRemoves
    /\ store' = [i \in SegId |-> Empty] /\ written' = {} /\ faiss' = [i \in SegId |-> Empty]
    /\ UNCHANGED <<segments, saved, job, tasks, history, faults>>

\* The process dies and starts again with the stored metadata.
Crash ==
    /\ exists /\ ~Deleting /\ faults < MaxFaults
    /\ faults' = faults + 1
    /\ Restart
    /\ meta' = saved
    /\ job' = [p \in Holder |-> IF job[p].op \in Writes
                                THEN [job[p] EXCEPT !.step = "begin", !.todo = {}] ELSE NoJob]
    /\ tasks' = [tasks EXCEPT !.queued = 0, !.check = TRUE, !.sealing = FALSE]
    /\ UNCHANGED <<disk, cache, index, saved, history>>

WriteStep(c) ==
    \/ FindDeletes(c) \/ AddVectors(c) \/ AddRefused(c) \/ Finish(c) \/ SearchSegments(c)
    \/ \E n \in SegId : DeleteSegment(c, n)

GetStep(p) == Get(p) \/ Load(p) \/ LoadFailsFor(p)
SealStep == PickSegments \/ SealSegment \/ SaveMeta \/ SealerDone

Next ==
    \/ \E c \in Client :
        \/ \E op \in Writes, d \in Doc : BeginWrite(c, op, d)
        \/ BeginSearch(c) \/ Retry(c) \/ WriteStep(c) \/ AddFails(c)
        \/ \E n \in SegId : DeleteFails(c, n)
    \/ \E p \in Holder : GetStep(p)
    \/ RequestSeal \/ CheckSeals \/ TakeTask \/ SealStep \/ SealFails
    \/ MetaStored \/ Collect \/ DeleteIndex \/ DeleteGoesOn \/ DeleteFiles \/ Crash

Spec == Init /\ [][Next]_vars

-----------------------------------------------------------------------------
(* Properties *)
(*                                                                         *)
(* checkStoredSegments records the segments a crash left unrecorded, but   *)
(* leaves CurrentSegmentId behind them, so the next checkNewSeg may give a *)
(* new segment the identifier, and so the files, of a recorded one.  Four  *)
(* of the properties speak of the index until that has happened (~shared): *)
(* each of them fails some writes later.                                   *)

(* What a search sees of a document nobody writes is what was stored: the  *)
(* cache of a growing segment is never older than its store, and the faiss *)
(* index of a sealed one misses nothing of it, across concurrent batches,  *)
(* seals, failed calls and reloads, until two recorded segments share      *)
(* their files.  (It may have more: a crash between the delete in the      *)
(* store and saveFaissIndex leaves a deleted vector.)                      *)
SearchShowsStored ==
    cached # 0 /\ exists /\ ~Deleting /\ ~shared =>
        \A n \in DOMAIN meta.segs, d \in Doc : ~Busy(d) =>
            IF Growing(n) THEN cache[n] = NoCache \/ cache[n][d] = store[Id(n)][d]
            ELSE index[n][d] >= store[Id(n)][d]

(* Without a recovery the current segment is the last one, it is growing,  *)
(* and a segment's identifier is its place: checkNewSeg, SealSeg and       *)
(* loadSegments rely on it, and addVectors says of a sealed segment that   *)
(* "this should never have happened".                                      *)
CurrentIsLast ==
    ~recovered =>
        /\ meta.cur = Len(meta.segs) /\ Growing(meta.cur)
        /\ InPlace(meta)

(* A vector that was put is stored once over all segments, and a deleted   *)
(* one nowhere, when no write of its document is under way: not even       *)
(* retries after failed calls and crashes leave a second copy, except of   *)
(* an insert, which Batch does not delete first, until two recorded        *)
(* segments share their files.                                             *)
OneCopy ==
    exists /\ ~Deleting /\ ~shared =>
        \A d \in Doc \ repeated : ~Busy(d) =>
            Count([i \in SegId |-> store[i][d]]) = (IF d \in want THEN 1 ELSE 0)

(* Every segment with stored vectors is in the metadata of an open index:  *)
(* checkStoredSegments finds what a crash left unrecorded, until two       *)
(* recorded segments share their files.                                    *)
AllRecorded ==
    cached # 0 /\ exists /\ ~shared => written \subseteq {s.id : s \in Range(meta.segs)}

(* A load finds every recorded segment: with nothing removed from the      *)
(* storage, it does not fail with ErrVecIndexCorruption, until two         *)
(* recorded segments share their files.                                    *)
LoadsAgain ==
    exists /\ ~Deleting /\ ~shared => \A p \in Holder : At(p, "load") => Missing = {}

-----------------------------------------------------------------------------
(* The inductive invariant behind these properties.  It says nothing once  *)
(* two recorded segments have shared their files.                          *)

Bag == [Doc -> Nat]
Segment == [id : SegId, status : {"growing", "sealed"}, count : Nat]
Metadata == [cur : SegId, segs : Seq(Segment)]
Job == [op : Writes \cup {"none", "search", "seal"}, doc : Doc \cup {None},
        step : {"begin", "delete", "add", "done", "seal", "save"}, todo : SUBSET SegId]

Typed ==
    /\ store \in [SegId -> Bag] /\ faiss \in [SegId -> Bag] /\ index \in [SegId -> Bag]
    /\ cache \in [SegId -> Bag \cup {NoCache}] /\ written \subseteq SegId
    /\ meta \in Metadata /\ saved \in Metadata /\ job \in [Holder -> Job]
    /\ want \subseteq Doc /\ repeated \subseteq Doc /\ recovered \in BOOLEAN

\* The metadata m, in memory or stored: the current segment is a growing one, and
\* without a recovery the last.
WellFormed(m) ==
    /\ m.cur \in DOMAIN m.segs /\ DOMAIN m.segs \subseteq SegId /\ InPlace(m)
    /\ m.segs[m.cur].status = "growing"
    /\ ~recovered => m.cur = Len(m.segs)

\* The stored metadata is behind the metadata in memory.
Behind ==
    /\ DOMAIN saved.segs \subseteq DOMAIN meta.segs
    /\ \A n \in DOMAIN saved.segs : saved.segs[n].status = "sealed" => ~Growing(n)

Writing(c, d) == job[c].op \in Writes /\ job[c].doc = d

JobsOK ==
    /\ job[Sealer].op \in {"none", "seal"}
    /\ \A p \in Holder : job[p].op \in Writes => job[p].doc \in Doc
    /\ \A p \in Holder : job[p].step # "begin" => At(p, "hold")
    /\ \A c \in Client : job[c].step \in {"delete", "add"} => job[c].op \in Writes
    /\ \A c \in Client : job[c].step = "delete" => job[c].op # "insert"
    /\ \A b, c \in Client, d \in Doc : Writing(b, d) /\ Writing(c, d) => b = c

\* What SealSeg still has to seal is behind the current segment, and growing.
SealOK ==
    job[Sealer].step \in {"seal", "save"} =>
        /\ job[Sealer].todo # {} /\ job[Sealer].todo \subseteq DOMAIN meta.segs \ {meta.cur}
        /\ \A n \in job[Sealer].todo :
             Growing(n) \/ (job[Sealer].step = "save" /\ n = First(job[Sealer].todo))

\* What a write still has to delete from is recorded.
TodoOK == \A c \in Client : job[c].todo \subseteq DOMAIN meta.segs

Book == Typed /\ WellFormed(meta) /\ WellFormed(saved) /\ Behind /\ JobsOK /\ TodoOK /\ SealOK

Alive == exists /\ ~Deleting

\* Only the current segment of the metadata m may have no files.
Filled(m) == DOMAIN m.segs \ {m.cur} \subseteq written

Files ==
    /\ \E w \in 0 .. MaxSeg : written = 1 .. w
    /\ \A i \in SegId : store[i] # Empty => i \in written
    /\ Filled(meta) /\ Filled(saved)
    /\ ~Hashed /\ cached # 0 => written \subseteq DOMAIN meta.segs

\* A write still has to take the document d out of the n-th segment.
HalfDeleted(n, d) ==
    \E c \in Client :
        /\ Writing(c, d) /\ job[c].op # "insert"
        /\ job[c].step = "begin" \/ (job[c].step = "delete" /\ n \in job[c].todo)

\* The vectors misses no vector of the store of the n-th segment.
Has(vectors, n) == \A d \in Doc : vectors[d] >= store[n][d] \/ HalfDeleted(n, d)

\* The n-th segment is growing, and its cache holds its vectors.
Filling(n) == n \in DOMAIN meta.segs /\ Growing(n) /\ cache[n] = store[n]

Vectors ==
    /\ \A n \in DOMAIN meta.segs : ~Growing(n) => Has(faiss[n], n) /\ (cached # 0 => Has(index[n], n))
    /\ cached # 0 => \A n \in SegId : cache[n] = NoCache \/ Filling(n)

Nowhere(d) == \A i \in SegId : store[i][d] = 0
Once(d) == \E j \in SegId : store[j][d] = 1 /\ \A i \in SegId \ {j} : store[i][d] = 0
\* As a finished write left it.
Settled(d) == IF d \in want THEN Once(d) ELSE Nowhere(d)

\* What the write c knows of its document d.
WriteOK(c, d) ==
    /\ Nowhere(d) \/ Once(d)
    /\ job[c].op # "insert" /\ job[c].step = "add" => Nowhere(d)
    /\ job[c].step = "delete" => \A i \in SegId : store[i][d] > 0 => i \in job[c].todo
    /\ job[c].step = "done" => Settled(d)

Copies ==
    \A d \in Doc \ repeated :
        /\ ~Busy(d) => Settled(d)
        /\ \A c \in Client : Writing(c, d) => WriteOK(c, d)

IInv ==
    /\ ManagerInv
    /\ shared => recovered
    /\ ~shared => Book
    /\ ~shared /\ exists => Files
    /\ ~shared /\ Alive => Vectors /\ (~Hashed => Copies)
=============================================================================
