------------------------------ MODULE WalShard ------------------------------
(***************************************************************************)
(* The write path of one index shard with the WAL enabled:                 *)
(* pkg/core/index_document.go (the handlers' side: find the document, log  *)
(* the operation), pkg/core/index_shards_wal.go (the consumer: merge the   *)
(* logged operations per second-layer shard and document, write them,      *)
(* keep the redo log, truncate), and recovery by OpenWAL and Rollback.     *)
(*                                                                         *)
(* A document's version is the WAL index of the operation that wrote it.   *)
(* A second-layer shard holds, for every document, the sequence of copies  *)
(* that its bluge index has.                                               *)
(***************************************************************************)
EXTENDS Integers, Sequences, FiniteSets

CONSTANTS
    Doc,          \* document ids hashed to this shard
    Client,       \* request handlers that run concurrently
    HasVec,       \* whether the index has vector fields
    MayOmit,      \* whether a document may come without its vector
    SearchFails,  \* whether the search of FindShardByDocID may fail
    Patient,      \* clients leave a document alone while an operation on it is unsettled
    BatchSize,    \* config.Global.BatchSize
    MaxBatchSize, \* the constant of index_shards_wal.go
    MaxOps,       \* bound: operations written to the WAL
    MaxShards,    \* bound: second-layer shards
    MaxFaults     \* bound: crashes and failed calls

ASSUME WalAssumption ==
    /\ {HasVec, MayOmit, SearchFails, Patient} \subseteq BOOLEAN
    /\ BatchSize \in Nat \ {0} /\ MaxBatchSize \in Nat \ {0}
    /\ MaxOps \in Nat /\ MaxShards \in Nat \ {0} /\ MaxFaults \in Nat

Latest == -1      \* ShardIDNeedLatest
Version == 1 .. MaxOps
Action == {"insert", "update", "delete", "deleteVecOnly"}
ShardKey == {Latest} \cup (0 .. MaxShards - 1)
Entry == [doc : Doc, action : Action, shard : ShardKey, vector : BOOLEAN]

\* The redo log's value "min:max"; NotFound stands for the missing record.
NotFound == <<0, 0>>

VARIABLES
    log,          \* every operation ever written to the WAL, in index order
    first,        \* the first index still in the WAL
    redo,         \* the redo log's Read and Write records
    content,      \* content[s][d]: the copies of d in second-layer shard s
    shardNum,     \* ref.ShardNum
    vec,          \* vec[d]: the version of d in the vector indexes, 0 if none
    open,         \* whether this process has opened the WAL (s.open)
    listed,       \* whether the shard is in the WAL list and so consumed
    con,          \* the consumer goroutine inside ConsumeWAL
    req,          \* req[c]: the operation c has decided on and not yet logged
    faults        \* crashes and failures so far

disk == <<log, first, redo, content, shardNum, vec>>
vars == <<disk, open, listed, con, req, faults>>

ConsumerState ==
    [pc : {"idle", "redoRead", "write", "vectors", "truncate", "check"},
     lo : Nat, cur : Nat, hi : Nat, todo : SUBSET ShardKey, key : ShardKey]
RedoLog == [read : Nat \X Nat, write : Nat \X Nat]
Idle == [pc |-> "idle", lo |-> 0, cur |-> 0, hi |-> 0, todo |-> {}, key |-> Latest]
NoReq == [doc |-> "none", action |-> "none", shard |-> Latest, vector |-> FALSE]

Init ==
    /\ log = << >> /\ first = 1
    /\ redo = [read |-> NotFound, write |-> NotFound]
    /\ content = [s \in 0 .. MaxShards - 1 |-> [d \in Doc |-> << >>]]
    /\ shardNum = 1
    /\ vec = [d \in Doc |-> 0]
    /\ open = FALSE /\ listed = FALSE /\ con = Idle
    /\ req = [c \in Client |-> NoReq]
    /\ faults = 0

Committed == redo.write[2]
-----------------------------------------------------------------------------
(* walMergeDocs: the operations lo..hi, grouped by shard key and document. *)

Ops(lo, hi, k, d) == {i \in lo .. hi : log[i].shard = k /\ log[i].doc = d}
Keys(lo, hi) == {log[i].shard : i \in lo .. hi}
DocsOf(lo, hi, k) == {d \in Doc : Ops(lo, hi, k, d) # {}}

FirstOp(S) == CHOOSE i \in S : \A j \in S : i <= j
LastOp(S) == CHOOSE i \in S : \A j \in S : j <= i

\* MaxShardLen() of the documents lo..hi reaches the batch size.
BatchFull(lo, hi) == \E k \in Keys(lo, hi) : Cardinality(DocsOf(lo, hi, k)) >= BatchSize

DocOpInsertsAgain(f, l) ==
    CASE l = "deleteVecOnly" -> "none"
      [] l = "delete" -> IF f = "insert" THEN "none" ELSE "delete"
      [] OTHER -> "insert"

\* What WriteToShard does to the bluge index, from the first and last action.
DocOp(f, l) ==
    CASE l = "deleteVecOnly" -> "none"
      [] l = "delete" -> IF f = "insert" THEN "none" ELSE "delete"
      [] OTHER -> IF f = "insert" THEN "insert" ELSE "update"

VecOpKeepsDeleted(f, l) == IF l \in {"insert", "update"} THEN "put" ELSE "none"

\* The vector action that goes with it.
VecOp(f, l) ==
    CASE l \in {"insert", "update"} -> "put"
      [] f = "insert" /\ l = "delete" -> "none"
      [] OTHER -> "delete"

\* bluge: Insert adds a copy, Update replaces every copy, Delete drops them.
Apply(op, copies, v) ==
    CASE op = "insert" -> Append(copies, v)
      [] op = "update" -> <<v>>
      [] op = "delete" -> << >>
      [] OTHER -> copies

WriterShardLatest(k) == shardNum - 1

\* The writer of a shard key; inserts go to the latest second-layer shard.
WriterShard(k) == IF k = Latest THEN shardNum - 1 ELSE k

\* writer.Batch of WriteToShard for the key k.
WrittenDocs(lo, hi, k) ==
    [content EXCEPT ![WriterShard(k)] =
       [d \in Doc |->
          LET S == Ops(lo, hi, k, d) IN
          IF S = {} THEN content[WriterShard(k)][d]
          ELSE Apply(DocOp(log[FirstOp(S)].action, log[LastOp(S)].action),
                     content[WriterShard(k)][d], LastOp(S))]]

\* BatchVectors of WriteToShard for the key k.
WrittenVecs(lo, hi, k) ==
    [d \in Doc |->
       LET S == Ops(lo, hi, k, d)
           op == VecOp(log[FirstOp(S)].action, log[LastOp(S)].action) IN
       IF HasVec /\ S # {} /\ op = "put" /\ log[LastOp(S)].vector THEN LastOp(S)
       ELSE IF HasVec /\ S # {} /\ op = "delete" THEN 0
       ELSE vec[d]]

\* WriteToShardRollback: delete the documents whose first action is an insert.
RolledBack(lo, hi) ==
    [s \in 0 .. MaxShards - 1 |->
       [d \in Doc |->
          LET S == Ops(lo, hi, s, d) IN
          IF S # {} /\ log[FirstOp(S)].action = "insert" THEN << >> ELSE content[s][d]]]

-----------------------------------------------------------------------------
(* The handlers *)

FoundInLatest(d) == IF content[shardNum - 1][d] = << >> THEN {Latest} ELSE {shardNum - 1}

\* FindShardByDocID: a shard that has a copy of d, or -1.
Found(d) ==
    LET S == {s \in 0 .. shardNum - 1 : content[s][d] # << >>} IN
    IF S = {} THEN {Latest} ELSE S

Unsettled(d) ==
    \/ \E i \in Committed + 1 .. Len(log) : log[i].doc = d
    \/ \E c \in Client : req[c].doc = d

\* A client that waits until its earlier operations on d are searchable.
MayAddress(d) == Patient => ~Unsettled(d)

Vectors == IF ~HasVec THEN {FALSE} ELSE IF MayOmit THEN BOOLEAN ELSE {TRUE}

Decide(c, d, action, s, v) ==
    /\ req' = [req EXCEPT ![c] = [doc |-> d, action |-> action, shard |-> s, vector |-> v]]
    /\ UNCHANGED <<disk, open, listed, con>>

\* CreateDocument and UpdateDocument with insert: insert what is not found.
Upsert(c, d) ==
    /\ req[c] = NoReq /\ MayAddress(d)
    /\ \E s \in Found(d), v \in Vectors :
         Decide(c, d, IF s = Latest THEN "insert" ELSE "update", s, v)
    /\ UNCHANGED faults

\* The same when a failed search is taken for "not found".
UpsertMisses(c, d) ==
    /\ req[c] = NoReq /\ MayAddress(d)
    /\ SearchFails /\ faults < MaxFaults
    /\ faults' = faults + 1
    /\ \E v \in Vectors : Decide(c, d, "insert", Latest, v)

\* UpdateDocument without insert fails when the document is not found.
Update(c, d) ==
    /\ req[c] = NoReq /\ MayAddress(d)
    /\ \E s \in Found(d) \ {Latest}, v \in Vectors : Decide(c, d, "update", s, v)
    /\ UNCHANGED faults

\* DeleteDocument: a document that is not found still loses its vectors.
Delete(c, d) ==
    /\ req[c] = NoReq /\ MayAddress(d)
    /\ \E s \in Found(d) :
         /\ s = Latest => HasVec
         /\ Decide(c, d, IF s = Latest THEN "deleteVecOnly" ELSE "delete", s, FALSE)
    /\ UNCHANGED faults

\* shard.wal.Write: the operation is acknowledged.
WalWrite(c) ==
    /\ req[c] # NoReq /\ open
    /\ Len(log) < MaxOps
    /\ log' = Append(log, req[c])
    /\ req' = [req EXCEPT ![c] = NoReq]
    /\ UNCHANGED <<first, redo, content, shardNum, vec, open, listed, con, faults>>

-----------------------------------------------------------------------------
(* OpenWAL and Rollback *)

\* Nothing to roll back: no batch was begun, or the last one begun was finished.
Finished == redo.read = NotFound \/ redo.read = redo.write

\* An error of the truncation after a rollback is only logged.
OpenWAL ==
    /\ ~open
    /\ open' = TRUE /\ listed' = TRUE
    /\ IF Finished
       THEN UNCHANGED <<content, first>>
       ELSE /\ content' = RolledBack(redo.read[1], redo.read[2])
            /\ first' \in {first, IF redo.read[1] - 1 > first THEN redo.read[1] - 1 ELSE first}
    /\ UNCHANGED <<log, redo, shardNum, vec, con, req, faults>>

(* Rollback fails, perhaps with some shard keys done: the WAL stays open   *)
(* and the shard is never put in the list.                                 *)
OpenWALFails ==
    /\ ~open /\ ~Finished /\ faults < MaxFaults
    /\ faults' = faults + 1
    /\ open' = TRUE
    /\ \E done \in SUBSET (0 .. MaxShards - 1) :
         content' = [s \in 0 .. MaxShards - 1 |->
                       IF s \in done THEN RolledBack(redo.read[1], redo.read[2])[s] ELSE content[s]]
    /\ UNCHANGED <<log, first, redo, shardNum, vec, listed, con, req>>

-----------------------------------------------------------------------------
(* ConsumeWAL *)

\* The loop over lo..hi writes a batch at the first entry that fills it, or at hi.
BatchEnds(lo, hi) ==
    {m \in lo .. hi : /\ m = hi \/ BatchFull(lo, m)
                     /\ \A j \in lo .. m - 1 : ~BatchFull(lo, j)}

ConsumeBeginSkipsOne ==
    LET lo == Committed + 1
        hi == IF Len(log) - Committed > MaxBatchSize THEN Committed + MaxBatchSize ELSE Len(log) IN
    /\ listed /\ con.pc = "idle"
    /\ Committed + 1 < Len(log)
    /\ \E m \in BatchEnds(lo, hi) :
         con' = [Idle EXCEPT !.pc = "redoRead", !.lo = lo, !.cur = m, !.hi = hi]
    /\ UNCHANGED <<disk, open, listed, req, faults>>

\* Nothing is done when the last index is the last one written.
ConsumeBegin ==
    LET lo == Committed + 1
        hi == IF Len(log) - Committed > MaxBatchSize THEN Committed + MaxBatchSize ELSE Len(log) IN
    /\ listed /\ con.pc = "idle"
    /\ Committed # Len(log)
    /\ \E m \in BatchEnds(lo, hi) :
         con' = [Idle EXCEPT !.pc = "redoRead", !.lo = lo, !.cur = m, !.hi = hi]
    /\ UNCHANGED <<disk, open, listed, req, faults>>

\* writeRedoLog(RedoActionRead, startID, minID)
ConsumeRedoRead ==
    /\ con.pc = "redoRead"
    /\ redo' = [redo EXCEPT !.read = <<con.lo, con.cur>>]
    /\ con' = [con EXCEPT !.pc = "write", !.todo = Keys(con.lo, con.cur)]
    /\ UNCHANGED <<log, first, content, shardNum, vec, open, listed, req, faults>>

\* WriteTo, one shard key at a time in the order of a Go map: the bluge batch,
ConsumeWriteDocs(k) ==
    /\ con.pc = "write" /\ k \in con.todo
    /\ content' = WrittenDocs(con.lo, con.cur, k)
    /\ con' = [con EXCEPT !.pc = "vectors", !.key = k, !.todo = con.todo \ {k}]
    /\ UNCHANGED <<log, first, redo, shardNum, vec, open, listed, req, faults>>

\* then the vectors.
ConsumeWriteVecs ==
    /\ con.pc = "vectors"
    /\ vec' = WrittenVecs(con.lo, con.cur, con.key)
    /\ con' = [con EXCEPT !.pc = "write", !.key = Latest]
    /\ UNCHANGED <<log, first, redo, content, shardNum, open, listed, req, faults>>

ConsumeRedoWriteKeepsStart ==
    /\ con.pc = "write" /\ con.todo = {}
    /\ redo' = [redo EXCEPT !.write = <<con.lo, con.cur>>]
    /\ IF con.cur = con.hi
       THEN con' = [con EXCEPT !.pc = "truncate"]
       ELSE \E m \in BatchEnds(con.cur + 1, con.hi) :
              con' = [con EXCEPT !.pc = "redoRead", !.cur = m]
    /\ UNCHANGED <<log, first, content, shardNum, vec, open, listed, req, faults>>

\* writeRedoLog(RedoActionWrite, startID, minID), then the next batch or the end.
ConsumeRedoWrite ==
    /\ con.pc = "write" /\ con.todo = {}
    /\ redo' = [redo EXCEPT !.write = <<con.lo, con.cur>>]
    /\ IF con.cur = con.hi
       THEN con' = [con EXCEPT !.pc = "truncate"]
       ELSE \E m \in BatchEnds(con.cur + 1, con.hi) :
              con' = [con EXCEPT !.pc = "redoRead", !.lo = con.cur + 1, !.cur = m]
    /\ UNCHANGED <<log, first, content, shardNum, vec, open, listed, req, faults>>

ConsumeTruncateAtLast ==
    /\ con.pc = "truncate"
    /\ first' = Len(log)
    /\ con' = [con EXCEPT !.pc = "check"]
    /\ UNCHANGED <<log, redo, content, shardNum, vec, open, listed, req, faults>>

\* TruncateFront(minID) keeps entry minID itself.
ConsumeTruncate ==
    /\ con.pc = "truncate"
    /\ first' = con.cur
    /\ con' = [con EXCEPT !.pc = "check"]
    /\ UNCHANGED <<log, redo, content, shardNum, vec, open, listed, req, faults>>

\* CheckShards: a new second-layer shard when the latest one is over its size.
ConsumeCheckShards ==
    /\ con.pc = "check"
    /\ \/ UNCHANGED shardNum
       \/ shardNum < MaxShards /\ shardNum' = shardNum + 1
    /\ con' = Idle
    /\ UNCHANGED <<log, first, redo, content, vec, open, listed, req, faults>>

-----------------------------------------------------------------------------
(* Faults *)

\* A call of ConsumeWAL returns an error: it is logged and ConsumeWAL returns.
ConsumeFails ==
    /\ con.pc # "idle" /\ faults < MaxFaults
    /\ faults' = faults + 1
    /\ con' = Idle
    /\ UNCHANGED <<disk, open, listed, req>>

\* The process stops; what it held in memory is gone.
Crash ==
    /\ open /\ faults < MaxFaults
    /\ faults' = faults + 1
    /\ open' = FALSE /\ listed' = FALSE /\ con' = Idle
    /\ req' = [c \in Client |-> NoReq]
    /\ UNCHANGED disk

-----------------------------------------------------------------------------
Handler ==
    \E c \in Client, d \in Doc :
        Upsert(c, d) \/ UpsertMisses(c, d) \/ Update(c, d) \/ Delete(c, d)

Consumer ==
    \/ ConsumeBegin \/ ConsumeRedoRead \/ ConsumeWriteVecs \/ ConsumeRedoWrite
    \/ ConsumeTruncate \/ ConsumeCheckShards
    \/ \E k \in ShardKey : ConsumeWriteDocs(k)

Next ==
    \/ Handler
    \/ \E c \in Client : WalWrite(c)
    \/ OpenWAL
    \/ OpenWALFails
    \/ Consumer
    \/ ConsumeFails
    \/ Crash

Spec == Init /\ [][Next]_vars

(* The ticker of IndexShardWALList.ConsumeWAL keeps calling the consumer,  *)
(* and requests keep touching the shard, which opens its WAL.              *)
FairSpec == Spec /\ WF_vars(Consumer) /\ WF_vars(OpenWAL)

-----------------------------------------------------------------------------
(* Properties *)

\* The variables of the write path have their types.
TypeOK ==
    /\ log \in Seq(Entry) /\ Len(log) <= MaxOps
    /\ first \in Nat
    /\ redo \in RedoLog
    /\ content \in [0 .. MaxShards - 1 -> [Doc -> Seq(Nat)]]
    /\ shardNum \in 1 .. MaxShards
    /\ vec \in [Doc -> Nat]
    /\ open \in BOOLEAN /\ listed \in BOOLEAN
    /\ con \in ConsumerState
    /\ req \in [Client -> Entry \cup {NoReq}]
    /\ faults \in 0 .. MaxFaults

(* Whatever crashes or fails in ConsumeWAL, the WAL still holds every      *)
(* operation that the redo log does not call written, and every operation  *)
(* that Rollback is going to read; a batch that was begun and not finished *)
(* starts right behind the last finished one.                              *)
NothingUnwrittenTruncated ==
    /\ Committed <= Len(log)
    /\ first <= Committed + 1
    /\ ~Finished => /\ redo.read[1] = Committed + 1
                    /\ first <= redo.read[1]
                    /\ redo.read[2] \in redo.read[1] .. Len(log)

\* What ConsumeWAL knows of the redo log at each of its steps.
ConsumerInv ==
    /\ con.pc \in {"redoRead", "write", "vectors"} =>
         con.lo = Committed + 1 /\ con.cur \in con.lo .. con.hi /\ con.hi <= Len(log)
    /\ con.pc \in {"write", "vectors"} => redo.read = <<con.lo, con.cur>>
    /\ con.pc \in {"truncate", "check"} => con.cur = Committed /\ redo.read = redo.write

\* The inductive invariant behind the two properties of the log.
IInv == TypeOK /\ NothingUnwrittenTruncated /\ ConsumerInv

(* Finished batches follow each other without gap and without overlap: the *)
(* Write record of the redo log only moves to the range that starts behind *)
(* the one it held, across failures, crashes and restarts.                 *)
BatchesAreContiguous ==
    [][redo'.write # redo.write =>
          redo'.write[1] = Committed + 1 /\ redo'.write[2] >= redo'.write[1]]_vars

\* The versions of d that a search over the second-layer shards finds.
Shown(d) == UNION {{content[s][d][n] : n \in DOMAIN content[s][d]} : s \in DOMAIN content}

OpsOn(d) == {i \in DOMAIN log : log[i].doc = d}
IsDelete(i) == log[i].action \in {"delete", "deleteVecOnly"}

\* What the last logged operation on d makes of d and of its vector.
AckedDoc(d) ==
    IF OpsOn(d) = {} \/ IsDelete(LastOp(OpsOn(d))) THEN {} ELSE {LastOp(OpsOn(d))}
AckedVec(d) ==
    LET live == {i \in OpsOn(d) : log[i].vector /\ \A j \in OpsOn(d) : j > i => ~IsDelete(j)} IN
    IF live = {} THEN {} ELSE {LastOp(live)}
Waiting == {d \in Doc : \E i \in OpsOn(d) : i > Committed}

DocStoreOfIndex == INSTANCE DocStore WITH
    acked <- [d \in Doc |-> AckedDoc(d)], shown <- [d \in Doc |-> Shown(d)], waiting <- Waiting

DocStoreOfVectors == INSTANCE DocStore WITH
    acked <- [d \in Doc |-> AckedVec(d)], shown <- [d \in Doc |-> {vec[d]} \ {0}],
    waiting <- Waiting

(* For clients that let an operation settle before the next one on the     *)
(* same document, the bluge indexes of the shard implement DocStore: every *)
(* document goes from what it was to its acknowledged version in one step  *)
(* and is there before the batch counts as written, with crashes and       *)
(* failed calls anywhere in the consumer.                                  *)
IndexImplementsDocStore == DocStoreOfIndex!Spec

\* The vector index implements it too, for the vectors of the documents.
VectorsImplementDocStore == DocStoreOfVectors!Spec

(* All the copies of a document are in one second-layer shard: an update   *)
(* or a delete is sent to one such shard only, and reaches all of them.    *)
CopiesInOneShard ==
    \A d \in Doc : Cardinality({s \in DOMAIN content : content[s][d] # << >>}) <= 1

(* "CreateDocument inserts or updates a document": a document has one copy *)
(* at most, an insert never meets another copy.                            *)
NoDuplicates ==
    \A d \in Doc, s, t \in DOMAIN content :
        /\ Len(content[s][d]) <= 1
        /\ content[s][d] # << >> /\ content[t][d] # << >> => s = t

(* Clients that let an operation settle first get that until something     *)
(* crashes or fails.                                                       *)
OneCopyWithoutFaults == faults = 0 => NoDuplicates

(* Every logged operation is written in the end, unless OpenWAL failed and *)
(* left the shard open but out of the WAL list.                            *)
EventuallyWritten ==
    \A i \in Version : Len(log) >= i ~> (Committed >= i \/ (open /\ ~listed))

-----------------------------------------------------------------------------
(* The invariant behind CopiesInOneShard, OneCopyWithoutFaults and the two *)
(* refinements, for patient clients whose searches do not fail             *)

Pending(d) == {i \in Committed + 1 .. Len(log) : log[i].doc = d}
Asking(d) == {c \in Client : req[c] # NoReq /\ req[c].doc = d}

\* At most one operation on a document is decided on or logged, and not settled.
OneAtATime ==
    \A d \in Doc :
        /\ \A i, j \in Pending(d) : i = j
        /\ \A b, c \in Asking(d) : b = c
        /\ Pending(d) = {} \/ Asking(d) = {}

\* The second-layer shards with copies of d; they have been made.
Where(d) == {s \in DOMAIN content : content[s][d] # << >>}
InMadeShards == \A d \in Doc : Where(d) \subseteq 0 .. shardNum - 1

\* An operation goes to the shard that has all the copies, or to none.
Addressed(e) ==
    /\ e.shard < shardNum
    /\ e.shard = Latest <=> e.action \in {"insert", "deleteVecOnly"}
    /\ e.action \in {"delete", "deleteVecOnly"} => ~e.vector
    /\ e.vector => HasVec
Finds(e) == Where(e.doc) \subseteq {e.shard}

\* An insert that a batch, this one or one that was cut short, may have written.
MayBeWritten(i) ==
    /\ log[i].action = "insert" /\ ~Finished /\ i <= redo.read[2]
    /\ faults = 0 => con.pc \in {"write", "vectors"} /\ Latest \notin con.todo

Inserted(i) ==
    LET d == log[i].doc IN MayBeWritten(i) /\ Where(d) \subseteq {shardNum - 1} /\ Shown(d) \subseteq {i}

Addressing ==
    /\ \A c \in Client : req[c] # NoReq => Addressed(req[c]) /\ Finds(req[c])
    /\ \A i \in DOMAIN log : Addressed(log[i])
    /\ \A i \in Committed + 1 .. Len(log) : Finds(log[i]) \/ Inserted(i)

\* A batch that was begun and not finished is written again as a whole, before
\* CheckShards may make a new shard: a later batch does not end before it.
NotFull(lo, hi) == \A j \in lo .. hi - 1 : ~BatchFull(lo, j)
Resumes ==
    /\ ~Finished => redo.read[2] <= Committed + MaxBatchSize /\ NotFull(redo.read[1], redo.read[2])
    /\ con.pc \in {"redoRead", "write", "vectors"} =>
         con.hi <= Committed + MaxBatchSize /\ NotFull(con.lo, con.cur)
    /\ con.pc = "redoRead" /\ ~Finished => redo.read[2] <= con.cur

\* The operations of the batch whose shard key has been written, to bluge and
\* to the vectors, are shown.
DocsWritten ==
    con.pc \in {"write", "vectors"} =>
        \A i \in con.lo .. con.cur :
            log[i].shard \notin con.todo => Shown(log[i].doc) = AckedDoc(log[i].doc)

ShownVec(d) == {vec[d]} \ {0}
NoVecs == ~HasVec => \A d \in Doc : vec[d] = 0
VecsWritten ==
    con.pc \in {"write", "vectors"} =>
        \A i \in con.lo .. con.cur :
            /\ log[i].shard \notin con.todo
            /\ con.pc = "vectors" => log[i].shard # con.key
            => ShownVec(log[i].doc) = AckedVec(log[i].doc)

\* What leaves the vectors of a document alone shows them already.
VecsShown ==
    /\ \A d \in Doc : Pending(d) = {} => ShownVec(d) = AckedVec(d)
    /\ \A i \in Committed + 1 .. Len(log) :
         ~IsDelete(i) /\ ~log[i].vector => ShownVec(log[i].doc) = AckedVec(log[i].doc)

SingleCopies == faults = 0 => \A s \in DOMAIN content, d \in Doc : Len(content[s][d]) <= 1
OneShard == \A d \in Doc : \A s, t \in Where(d) : s = t

Settling ==
    /\ OneAtATime /\ InMadeShards /\ Addressing /\ Resumes
    /\ DocsWritten /\ NoVecs /\ VecsWritten /\ VecsShown /\ SingleCopies /\ OneShard

StoreInv == IInv /\ Settling
=============================================================================
