--------------------------- MODULE WalShardProofs ---------------------------
(***************************************************************************)
(* Proofs about WalShard.  The log never loses an operation, whatever the  *)
(* bounds, the clients, the batch sizes and the faults.  For clients that  *)
(* let an operation settle before the next one on the same document, with  *)
(* searches that do not fail, the index and its vectors implement          *)
(* DocStore, through crashes and failed calls.                             *)
(***************************************************************************)
EXTENDS WalShard, WellFoundedInduction, FiniteSetTheorems, TLAPS

USE DEF Committed

\* Every nonempty set of natural numbers has a least element.
LEMMA LeastExists ==
    ASSUME NEW S \in SUBSET Nat, S # {}
    PROVE  \E i \in S : \A j \in S : i <= j
<1>1. PICK i \in S : \A j \in S : ~(<<j, i>> \in OpToRel(<, Nat))
  BY WFMin, NatLessThanWellFounded, Zenon
<1>2. \A j \in S : ~(j < i)
  BY <1>1, Zenon DEF OpToRel
<1>3. QED
  BY <1>2

\* LastOp of a nonempty range of WAL indexes is one of them.
LEMMA LastOpInSet ==
    ASSUME NEW lo \in Nat, NEW hi \in Nat, NEW S \in SUBSET (lo .. hi), S # {}
    PROVE  LastOp(S) \in S
<1> DEFINE T == {hi - i : i \in S}
<1>1. T \in SUBSET Nat /\ T # {}
  <2>1. ASSUME NEW i \in S PROVE hi - i \in Nat
    OBVIOUS
  <2> QED
    BY <2>1, Zenon
<1>2. PICK t \in T : \A u \in T : t <= u
  BY <1>1, LeastExists, Zenon
<1>3. PICK i \in S : t = hi - i
  BY <1>2, Zenon
<1>4. ASSUME NEW j \in S PROVE j <= i
  <2>1. hi - j \in T
    OBVIOUS
  <2>2. hi - i <= hi - j
    BY <2>1, <1>2, <1>3, Zenon
  <2>3. i \in Int /\ j \in Int
    OBVIOUS
  <2>4. QED
    BY <2>2, <2>3
<1>5. QED
  BY <1>4, Zenon DEF LastOp

\* Ops selects WAL indexes of the range it is given.
LEMMA OpsInRange ==
    ASSUME NEW lo \in Nat, NEW hi \in Nat, NEW k, NEW d
    PROVE  Ops(lo, hi, k, d) \in SUBSET (lo .. hi)
BY Zenon DEF Ops

\* The last operation of a merged document is a WAL index.
LEMMA LastOpNat ==
    ASSUME NEW lo \in Nat, NEW hi \in Nat, NEW k, NEW d, Ops(lo, hi, k, d) # {}
    PROVE  LastOp(Ops(lo, hi, k, d)) \in Nat
<1> DEFINE S == Ops(lo, hi, k, d)
<1>1. S \in SUBSET (lo .. hi) /\ S # {}
  BY OpsInRange
<1> HIDE DEF S
<1>2. LastOp(S) \in S
  BY <1>1, LastOpInSet, Zenon
<1>3. \A i \in S : i \in Nat
  BY <1>1
<1>4. LastOp(S) \in Nat
  BY <1>2, <1>3, Zenon
<1>5. QED
  BY <1>4, Zenon DEF S

\* What is applied to a sequence of versions is a sequence of versions.
LEMMA ApplyType ==
    ASSUME NEW op, NEW copies \in Seq(Nat), NEW v \in Nat
    PROVE  Apply(op, copies, v) \in Seq(Nat)
<1>1. Append(copies, v) \in Seq(Nat) /\ <<v>> \in Seq(Nat) /\ << >> \in Seq(Nat)
  OBVIOUS
<1>2. QED
  BY <1>1 DEF Apply

\* WriteToShard keeps the copies typed.
LEMMA WrittenDocsType ==
    ASSUME TypeOK, NEW lo \in Nat, NEW hi \in Nat, NEW k \in ShardKey
    PROVE  WrittenDocs(lo, hi, k) \in [0 .. MaxShards - 1 -> [Doc -> Seq(Nat)]]
<1> DEFINE w == WriterShard(k)
           new == [d \in Doc |->
                     LET S == Ops(lo, hi, k, d) IN
                     IF S = {} THEN content[w][d]
                     ELSE Apply(DocOp(log[FirstOp(S)].action, log[LastOp(S)].action),
                                content[w][d], LastOp(S))]
<1>1. w \in 0 .. MaxShards - 1
  <2>1. shardNum \in 1 .. MaxShards /\ MaxShards \in Nat
    BY WalAssumption DEF TypeOK
  <2>2. CASE k = Latest
    BY <2>1, <2>2 DEF WriterShard
  <2>3. CASE k # Latest
    BY <2>3, Zenon DEF WriterShard, ShardKey
  <2>4. QED
    BY <2>2, <2>3, Zenon
<1>2. content \in [0 .. MaxShards - 1 -> [Doc -> Seq(Nat)]]
  BY Zenon DEF TypeOK
<1>3. new \in [Doc -> Seq(Nat)]
  <2>1. SUFFICES ASSUME NEW d \in Doc PROVE new[d] \in Seq(Nat)
    BY Zenon
  <2>2. content[w][d] \in Seq(Nat)
    BY <1>1, <1>2, Zenon
  <2>3. CASE Ops(lo, hi, k, d) = {}
    BY <2>2, <2>3, Zenon
  <2>4. CASE Ops(lo, hi, k, d) # {}
    <3>1. LastOp(Ops(lo, hi, k, d)) \in Nat
      BY <2>4, LastOpNat, Zenon
    <3>2. QED
      BY <2>2, <2>4, <3>1, ApplyType, Zenon
  <2>5. QED
    BY <2>3, <2>4, Zenon
<1>4. WrittenDocs(lo, hi, k) = [content EXCEPT ![w] = new]
  BY DEF WrittenDocs
<1>5. QED
  BY <1>1, <1>2, <1>3, <1>4, Zenon

\* BatchVectors keeps the vector index typed.
LEMMA WrittenVecsType ==
    ASSUME TypeOK, NEW lo \in Nat, NEW hi \in Nat, NEW k
    PROVE  WrittenVecs(lo, hi, k) \in [Doc -> Nat]
<1>1. SUFFICES ASSUME NEW d \in Doc PROVE WrittenVecs(lo, hi, k)[d] \in Nat
  BY Zenon DEF WrittenVecs
<1>2. vec[d] \in Nat
  BY DEF TypeOK
<1>3. CASE Ops(lo, hi, k, d) = {}
  BY <1>2, <1>3, Zenon DEF WrittenVecs
<1>4. CASE Ops(lo, hi, k, d) # {}
  <2>1. LastOp(Ops(lo, hi, k, d)) \in Nat
    BY <1>4, LastOpNat, Zenon
  <2>2. QED
    BY <1>2, <1>4, <2>1, Zenon DEF WrittenVecs
<1>5. QED
  BY <1>3, <1>4, Zenon

\* Rollback keeps the copies typed.
LEMMA RolledBackType ==
    ASSUME TypeOK, NEW lo, NEW hi
    PROVE  RolledBack(lo, hi) \in [0 .. MaxShards - 1 -> [Doc -> Seq(Nat)]]
<1>1. << >> \in Seq(Nat)
  OBVIOUS
<1>2. content \in [0 .. MaxShards - 1 -> [Doc -> Seq(Nat)]]
  BY DEF TypeOK
<1>3. QED
  BY <1>1, <1>2 DEF RolledBack

\* The initial state satisfies the invariant.
LEMMA InitInv == Init => IInv
<1> SUFFICES ASSUME Init PROVE IInv
  OBVIOUS
<1>1. TypeOK
  <2>0. first \in Nat /\ shardNum \in 1 .. MaxShards /\ faults \in 0 .. MaxFaults
    BY WalAssumption DEF Init
  <2>a. vec \in [Doc -> Nat]
    BY DEF Init
  <2>b. open \in BOOLEAN /\ listed \in BOOLEAN
    BY Zenon DEF Init
  <2>1. log \in Seq(Entry) /\ Len(log) <= MaxOps
    BY WalAssumption DEF Init
  <2>2. redo \in RedoLog
    BY DEF Init, RedoLog, NotFound
  <2>3. content \in [0 .. MaxShards - 1 -> [Doc -> Seq(Nat)]]
    BY DEF Init
  <2>4. con \in ConsumerState
    BY DEF Init, Idle, ConsumerState, ShardKey
  <2>5. req \in [Client -> Entry \cup {NoReq}]
    BY Zenon DEF Init
  <2>6. QED
    BY <2>1, <2>2, <2>3, <2>4, <2>5, <2>0, <2>a, <2>b, ZenonT(60) DEF TypeOK
<1>2. NothingUnwrittenTruncated
  BY DEF Init, NothingUnwrittenTruncated, Finished, NotFound
<1>3. ConsumerInv
  BY Zenon DEF Init, ConsumerInv, Idle
<1>4. QED
  BY <1>1, <1>2, <1>3, Zenon DEF IInv

\* A handler decides on an operation that fits the WAL.
LEMMA DecideType ==
    ASSUME TypeOK, NEW c \in Client, NEW d \in Doc, NEW a \in Action,
           NEW s \in ShardKey, NEW v \in BOOLEAN, Decide(c, d, a, s, v)
    PROVE  req' \in [Client -> Entry \cup {NoReq}]
<1>1. [doc |-> d, action |-> a, shard |-> s, vector |-> v] \in Entry
  BY DEF Entry
<1>2. QED
  BY <1>1, Zenon DEF Decide, TypeOK

\* The shards FindShardByDocID can name are shard keys, and a vector is there or not.
LEMMA FoundType ==
    ASSUME TypeOK, NEW d
    PROVE  Found(d) \subseteq ShardKey /\ Vectors \subseteq BOOLEAN
<1>1. shardNum \in 1 .. MaxShards /\ MaxShards \in Nat
  BY WalAssumption, Zenon DEF TypeOK
<1>2. 0 .. shardNum - 1 \subseteq ShardKey /\ Latest \in ShardKey
  BY <1>1 DEF ShardKey
<1>3. QED
  BY <1>2, Zenon DEF Found, Vectors

\* What the handlers do before the WAL is written changes only req and faults.
LEMMA HandlerStep ==
    ASSUME TypeOK, NEW c \in Client, NEW d \in Doc,
           Upsert(c, d) \/ UpsertMisses(c, d) \/ Update(c, d) \/ Delete(c, d)
    PROVE  /\ req' \in [Client -> Entry \cup {NoReq}]
           /\ faults' \in 0 .. MaxFaults
           /\ UNCHANGED <<disk, open, listed, con>>
<1>1. Found(d) \subseteq ShardKey /\ Vectors \subseteq BOOLEAN /\ Latest \in ShardKey
  BY FoundType DEF ShardKey
<1>2. faults \in 0 .. MaxFaults /\ MaxFaults \in Nat
  BY WalAssumption, Zenon DEF TypeOK
<1>3. CASE Upsert(c, d)
  <2>1. PICK s \in Found(d), v \in Vectors :
          Decide(c, d, IF s = Latest THEN "insert" ELSE "update", s, v)
    BY <1>3 DEF Upsert
  <2>2. (IF s = Latest THEN "insert" ELSE "update") \in Action
    BY DEF Action
  <2>3. req' \in [Client -> Entry \cup {NoReq}]
    BY <1>1, <2>1, <2>2, DecideType, Zenon
  <2>4. QED
    BY <1>2, <1>3, <2>1, <2>3, Zenon DEF Upsert, Decide
<1>4. CASE UpsertMisses(c, d)
  <2>1. PICK v \in Vectors : Decide(c, d, "insert", Latest, v)
    BY <1>4 DEF UpsertMisses
  <2>2. req' \in [Client -> Entry \cup {NoReq}]
    BY <1>1, <2>1, DecideType, ZenonT(60) DEF Action
  <2>3. faults' \in 0 .. MaxFaults
    BY <1>2, <1>4 DEF UpsertMisses
  <2>4. QED
    BY <2>1, <2>2, <2>3, Zenon DEF Decide
<1>5. CASE Update(c, d)
  <2>1. PICK s \in Found(d), v \in Vectors : Decide(c, d, "update", s, v)
    BY <1>5, Zenon DEF Update
  <2>2. req' \in [Client -> Entry \cup {NoReq}]
    BY <1>1, <2>1, DecideType, ZenonT(60) DEF Action
  <2>3. QED
    BY <1>2, <1>5, <2>1, <2>2, ZenonT(60) DEF Update, Decide
<1>6. CASE Delete(c, d)
  <2>1. PICK s \in Found(d) :
          Decide(c, d, IF s = Latest THEN "deleteVecOnly" ELSE "delete", s, FALSE)
    BY <1>6, Zenon DEF Delete
  <2>2. (IF s = Latest THEN "deleteVecOnly" ELSE "delete") \in Action
    BY DEF Action
  <2>3. req' \in [Client -> Entry \cup {NoReq}]
    BY <1>1, <2>1, <2>2, DecideType, Zenon
  <2>4. QED
    BY <1>2, <1>6, <2>1, <2>3, ZenonT(60) DEF Delete, Decide
<1>7. QED
  BY <1>3, <1>4, <1>5, <1>6, Zenon

\* The consumer's local state is typed after each of its steps.
LEMMA ConsumerStateUpdate ==
    ASSUME NEW x \in ConsumerState, NEW pc \in {"redoRead", "write", "vectors", "truncate", "check"},
           NEW lo \in Nat, NEW end \in Nat, NEW hi \in Nat,
           NEW todo \in SUBSET ShardKey, NEW key \in ShardKey
    PROVE  /\ [x EXCEPT !.pc = pc] \in ConsumerState
           /\ [x EXCEPT !.pc = pc, !.todo = todo] \in ConsumerState
           /\ [x EXCEPT !.pc = pc, !.key = key] \in ConsumerState
           /\ [x EXCEPT !.pc = pc, !.key = key, !.todo = todo] \in ConsumerState
           /\ [x EXCEPT !.pc = pc, !.lo = lo, !.cur = end] \in ConsumerState
           /\ [x EXCEPT !.pc = pc, !.lo = lo, !.cur = end, !.hi = hi] \in ConsumerState
BY Zenon DEF ConsumerState

\* A consumer outside ConsumeWAL is typed.
LEMMA IdleType == Idle \in ConsumerState
BY DEF Idle, ConsumerState, ShardKey

\* ConsumeBegin takes a range of unwritten operations and the end of its first batch.
LEMMA BeginStep ==
    ASSUME IInv, ConsumeBegin
    PROVE  /\ con' \in ConsumerState /\ con'.pc = "redoRead"
           /\ con'.lo = Committed + 1 /\ con'.cur \in con'.lo .. con'.hi
           /\ con'.hi <= Len(log)
           /\ UNCHANGED <<disk, open, listed, req, faults>>
<1> DEFINE lo == Committed + 1
           hi == IF Len(log) - Committed > MaxBatchSize THEN Committed + MaxBatchSize ELSE Len(log)
<1>1. Len(log) \in Nat /\ Committed \in Nat /\ Committed <= Len(log) /\ MaxBatchSize \in Nat
  <2>1. TypeOK /\ NothingUnwrittenTruncated
    BY Zenon DEF IInv
  <2>2. Committed \in Nat
    BY <2>1 DEF TypeOK, RedoLog
  <2>3. Committed <= Len(log)
    BY <2>1, Zenon DEF NothingUnwrittenTruncated
  <2>4. Len(log) \in Nat
    BY <2>1 DEF TypeOK
  <2> QED
    BY <2>2, <2>3, <2>4, WalAssumption
<1>2. lo \in Nat /\ hi \in Nat /\ hi <= Len(log)
  <2>1. ASSUME NEW n \in Nat, NEW m \in Nat, m <= n, NEW b \in Nat
        PROVE  LET h == IF n - m > b THEN m + b ELSE n
               IN  m + 1 \in Nat /\ h \in Nat /\ h <= n
    BY <2>1
  <2> QED
    BY <1>1, <2>1, Zenon
<1>3. PICK m \in BatchEnds(lo, hi) :
        con' = [Idle EXCEPT !.pc = "redoRead", !.lo = lo, !.cur = m, !.hi = hi]
  BY Zenon DEF ConsumeBegin
<1>4. m \in lo .. hi /\ m \in Nat
  BY <1>2, SMTT(30) DEF BatchEnds
<1> HIDE DEF lo, hi
<1>5. con' \in ConsumerState
  BY <1>2, <1>3, <1>4, IdleType, ConsumerStateUpdate, ZenonT(60) DEF ShardKey
<1>6. con'.pc = "redoRead" /\ con'.lo = lo /\ con'.cur = m /\ con'.hi = hi
  BY <1>3 DEF Idle
<1>7. QED
  BY <1>2, <1>4, <1>5, <1>6, ZenonT(60) DEF ConsumeBegin, lo

\* ConsumeRedoWrite ends ConsumeWAL's loop or starts the batch behind this one.
LEMMA RedoWriteStep ==
    ASSUME IInv, ConsumeRedoWrite
    PROVE  /\ con' \in ConsumerState
           /\ \/ con'.pc = "truncate" /\ con'.cur = con.cur
              \/ /\ con'.pc = "redoRead" /\ con'.lo = con.cur + 1
                 /\ con'.cur \in con'.lo .. con'.hi /\ con'.hi = con.hi
           /\ redo' = [read |-> redo.read, write |-> <<con.lo, con.cur>>]
           /\ redo' \in RedoLog
           /\ UNCHANGED <<log, first, content, shardNum, vec, open, listed, req, faults>>
<1>1. /\ con \in ConsumerState /\ con.lo \in Nat /\ con.cur \in Nat /\ con.hi \in Nat
      /\ redo \in RedoLog
  BY DEF IInv, TypeOK, ConsumerState
<1>2. redo' = [read |-> redo.read, write |-> <<con.lo, con.cur>>] /\ redo' \in RedoLog
  BY <1>1, ZenonT(60) DEF ConsumeRedoWrite, RedoLog
<1>3. CASE con.cur = con.hi
  <2>1. con' = [con EXCEPT !.pc = "truncate"]
    BY <1>3 DEF ConsumeRedoWrite
  <2>2. con' \in ConsumerState
    BY <1>1, <2>1 DEF ConsumerState
  <2>3. con'.pc = "truncate" /\ con'.cur = con.cur
    BY <1>1, <2>1, Zenon DEF ConsumerState
  <2>4. QED
    BY <1>2, <2>2, <2>3, Zenon DEF ConsumeRedoWrite
<1>4. CASE con.cur # con.hi
  <2>1. PICK m \in BatchEnds(con.cur + 1, con.hi) :
          con' = [con EXCEPT !.pc = "redoRead", !.lo = con.cur + 1, !.cur = m]
    BY <1>4, Zenon DEF ConsumeRedoWrite
  <2>2. m \in con.cur + 1 .. con.hi /\ m \in Nat
    BY <1>1, <2>1 DEF BatchEnds
  <2>a. con.cur + 1 \in Nat
    BY <1>1
  <2>3. con' \in ConsumerState
    BY <1>1, <2>1, <2>2, <2>a, Zenon DEF ConsumerState
  <2>4. con'.pc = "redoRead" /\ con'.lo = con.cur + 1 /\ con'.cur = m /\ con'.hi = con.hi
    BY <1>1, <2>1, Zenon DEF ConsumerState
  <2>5. QED
    BY <1>2, <2>2, <2>3, <2>4, ZenonT(60) DEF ConsumeRedoWrite
<1>5. QED
  BY <1>3, <1>4, Zenon

\* Every step of the write path keeps the types.
LEMMA TypeStep == IInv /\ [Next]_vars => TypeOK'
<1> SUFFICES ASSUME IInv, [Next]_vars PROVE TypeOK'
  OBVIOUS
<1>1. TypeOK
  BY Zenon DEF IInv
<1>2. /\ con \in ConsumerState /\ con.lo \in Nat /\ con.cur \in Nat /\ con.key \in ShardKey
      /\ con.todo \in SUBSET ShardKey /\ redo \in RedoLog
      /\ faults \in 0 .. MaxFaults /\ MaxFaults \in Nat
  BY <1>1, WalAssumption, Zenon DEF TypeOK, ConsumerState
<1>a. CASE Handler
  <2>1. PICK c \in Client, d \in Doc :
          Upsert(c, d) \/ UpsertMisses(c, d) \/ Update(c, d) \/ Delete(c, d)
    BY <1>a DEF Handler
  <2>2. /\ req' \in [Client -> Entry \cup {NoReq}] /\ faults' \in 0 .. MaxFaults
        /\ UNCHANGED <<disk, open, listed, con>>
    BY <1>1, <2>1, HandlerStep, Zenon
  <2>3. QED
    BY <1>1, <2>2, Zenon DEF TypeOK, disk
<1>b. ASSUME NEW c \in Client, WalWrite(c) PROVE TypeOK'
  <2>1. req[c] \in Entry
    BY <1>1, <1>b, Zenon DEF TypeOK, WalWrite
  <2>2. log' \in Seq(Entry) /\ Len(log') = Len(log) + 1
    BY <1>1, <1>b, <2>1 DEF TypeOK, WalWrite
  <2>3. Len(log') <= MaxOps
    BY <1>1, <1>b, <2>2, WalAssumption DEF TypeOK, WalWrite
  <2>4. req' \in [Client -> Entry \cup {NoReq}]
    BY <1>1, <1>b, Zenon DEF TypeOK, WalWrite
  <2>5. QED
    BY <1>1, <1>b, <2>2, <2>3, <2>4, ZenonT(60) DEF TypeOK, WalWrite
<1>c. CASE OpenWAL \/ OpenWALFails
  <2>1. content' \in [0 .. MaxShards - 1 -> [Doc -> Seq(Nat)]]
    <3>1. /\ content \in [0 .. MaxShards - 1 -> [Doc -> Seq(Nat)]]
          /\ RolledBack(redo.read[1], redo.read[2]) \in [0 .. MaxShards - 1 -> [Doc -> Seq(Nat)]]
      BY <1>1, RolledBackType, ZenonT(60) DEF TypeOK
    <3>2. CASE OpenWAL
      BY <3>1, <3>2, Zenon DEF OpenWAL
    <3>3. CASE OpenWALFails
      <4>1. PICK done \in SUBSET (0 .. MaxShards - 1) :
              content' = [s \in 0 .. MaxShards - 1 |->
                            IF s \in done THEN RolledBack(redo.read[1], redo.read[2])[s]
                            ELSE content[s]]
        BY <3>3, ZenonT(60) DEF OpenWALFails
      <4>2. QED
        BY <3>1, <4>1, Zenon
    <3>4. QED
      BY <1>c, <3>2, <3>3, Zenon
  <2>2. first' \in Nat
    <3>1. first \in Nat /\ redo.read[1] \in Nat
      BY <1>1, <1>2, ZenonT(60) DEF TypeOK, RedoLog
    <3>2. QED
      BY <1>c, <3>1 DEF OpenWAL, OpenWALFails
  <2>3. open' \in BOOLEAN /\ listed' \in BOOLEAN
    BY <1>1, <1>c, ZenonT(60) DEF TypeOK, OpenWAL, OpenWALFails
  <2>4. faults' \in 0 .. MaxFaults
    BY <1>2, <1>c DEF OpenWAL, OpenWALFails
  <2>5. UNCHANGED <<log, redo, shardNum, vec, con, req>>
    BY <1>c, Zenon DEF OpenWAL, OpenWALFails
  <2>6. QED
    BY <1>1, <2>1, <2>2, <2>3, <2>4, <2>5, Zenon DEF TypeOK
<1>d. CASE ConsumeBegin
  <2>1. con' \in ConsumerState /\ UNCHANGED <<disk, open, listed, req, faults>>
    BY <1>d, BeginStep, Zenon
  <2>2. QED
    BY <1>1, <2>1, Zenon DEF TypeOK, disk
<1>e. CASE ConsumeRedoRead
  <2>1. Keys(con.lo, con.cur) \subseteq ShardKey
    <3>1. con.cur <= Len(log) /\ con.lo >= 1 /\ Len(log) \in Nat
      BY <1>1, <1>2, <1>e, SMTT(30) DEF IInv, ConsumerInv, ConsumeRedoRead, ConsumerState, TypeOK, RedoLog
    <3>2. \A i \in con.lo .. con.cur : log[i] \in Entry
      BY <1>1, <1>2, <3>1 DEF TypeOK
    <3>3. QED
      BY <3>2, Zenon DEF Keys, Entry
  <2>2. con' \in ConsumerState
    BY <1>2, <1>e, <2>1, Zenon DEF ConsumeRedoRead, ConsumerState
  <2>3. redo' \in RedoLog
    BY <1>2, <1>e, Zenon DEF ConsumeRedoRead, RedoLog
  <2>4. QED
    BY <1>1, <1>e, <2>2, <2>3, ZenonT(60) DEF TypeOK, ConsumeRedoRead
<1>f. ASSUME NEW k \in ShardKey, ConsumeWriteDocs(k) PROVE TypeOK'
  <2>1. content' \in [0 .. MaxShards - 1 -> [Doc -> Seq(Nat)]]
    BY <1>1, <1>2, <1>f, WrittenDocsType, Zenon DEF ConsumeWriteDocs
  <2>2. con' \in ConsumerState
    BY <1>2, <1>f, Zenon DEF ConsumeWriteDocs, ConsumerState
  <2>3. QED
    BY <1>1, <1>f, <2>1, <2>2, Zenon DEF TypeOK, ConsumeWriteDocs
<1>g. CASE ConsumeWriteVecs
  <2>1. vec' \in [Doc -> Nat]
    BY <1>1, <1>2, <1>g, WrittenVecsType, Zenon DEF ConsumeWriteVecs
  <2>2. con' \in ConsumerState
    BY <1>2, <1>g, Zenon DEF ConsumeWriteVecs, ConsumerState, ShardKey
  <2>3. QED
    BY <1>1, <1>g, <2>1, <2>2, Zenon DEF TypeOK, ConsumeWriteVecs
<1>h. CASE ConsumeRedoWrite
  BY <1>1, <1>h, RedoWriteStep, Zenon DEF TypeOK
<1>i. CASE ConsumeTruncate
  <2>1. con' \in ConsumerState
    BY <1>2, <1>i, Zenon DEF ConsumeTruncate, ConsumerState
  <2>2. QED
    BY <1>1, <1>2, <1>i, <2>1, Zenon DEF TypeOK, ConsumeTruncate
<1>j. CASE ConsumeCheckShards
  <2>1. shardNum' \in 1 .. MaxShards
    BY <1>1, <1>j, WalAssumption DEF TypeOK, ConsumeCheckShards
  <2>2. QED
    BY <1>1, <1>j, <2>1, IdleType, ZenonT(60) DEF TypeOK, ConsumeCheckShards
<1>k. CASE ConsumeFails
  <2>1. faults' \in 0 .. MaxFaults
    BY <1>2, <1>k DEF ConsumeFails
  <2>2. QED
    BY <1>1, <1>k, <2>1, IdleType, ZenonT(60) DEF TypeOK, ConsumeFails, disk
<1>l. CASE Crash
  <2>1. faults' \in 0 .. MaxFaults
    BY <1>2, <1>l DEF Crash
  <2>2. open' \in BOOLEAN /\ listed' \in BOOLEAN
    BY <1>l, Zenon DEF Crash
  <2>3. QED
    BY <1>1, <1>l, <2>1, <2>2, IdleType, ZenonT(60) DEF TypeOK, Crash, disk
<1>m. CASE UNCHANGED vars
  BY <1>1, <1>m, Zenon DEF TypeOK, vars, disk
<1>n. QED
  BY <1>a, <1>b, <1>c, <1>d, <1>e, <1>f, <1>g, <1>h, <1>i, <1>j, <1>k, <1>l, <1>m, ZenonT(60)
     DEF Next, Consumer

\* A step that leaves the log, the redo log and the consumer's position alone.
LEMMA QuietStep ==
    ASSUME IInv, UNCHANGED <<log, first, redo, con>>
    PROVE  NothingUnwrittenTruncated' /\ ConsumerInv'
BY ZenonT(60) DEF IInv, NothingUnwrittenTruncated, ConsumerInv, Finished

\* So does a step that only ends ConsumeWAL.
LEMMA ConsumeEnds ==
    ASSUME IInv, UNCHANGED <<log, first, redo>>, con' = Idle
    PROVE  NothingUnwrittenTruncated' /\ ConsumerInv'
BY DEF IInv, NothingUnwrittenTruncated, ConsumerInv, Finished, Idle

\* Every step keeps the log complete and the consumer's view of it.
LEMMA LogStep == IInv /\ [Next]_vars => NothingUnwrittenTruncated' /\ ConsumerInv'
<1> SUFFICES ASSUME IInv, [Next]_vars PROVE NothingUnwrittenTruncated' /\ ConsumerInv'
  BY Zenon
<1>1. /\ log \in Seq(Entry) /\ Len(log) \in Nat /\ first \in Nat
      /\ redo \in RedoLog /\ con \in ConsumerState
      /\ redo.read \in Nat \X Nat /\ redo.write \in Nat \X Nat
      /\ con.lo \in Nat /\ con.cur \in Nat /\ con.hi \in Nat
  BY DEF IInv, TypeOK, ConsumerState, RedoLog
<1>2. NothingUnwrittenTruncated /\ ConsumerInv
  BY DEF IInv
<1>a. CASE Handler
  <2>1. PICK c \in Client, d \in Doc :
          Upsert(c, d) \/ UpsertMisses(c, d) \/ Update(c, d) \/ Delete(c, d)
    BY <1>a DEF Handler
  <2>2. UNCHANGED <<disk, con>>
    BY <2>1, HandlerStep DEF IInv
  <2>3. QED
    BY <2>2, QuietStep, Zenon DEF disk
<1>b. ASSUME NEW c \in Client, WalWrite(c) PROVE NothingUnwrittenTruncated' /\ ConsumerInv'
  <2>1. Len(log') = Len(log) + 1 /\ UNCHANGED <<first, redo, con>>
    BY <1>1, <1>b DEF WalWrite
  <2>2. NothingUnwrittenTruncated'
    BY <1>1, <1>2, <2>1, SMTT(30) DEF NothingUnwrittenTruncated, Finished
  <2>3. ConsumerInv'
    BY <1>1, <1>2, <2>1 DEF ConsumerInv
  <2>4. QED
    BY <2>2, <2>3, ZenonT(60)
<1>c. CASE OpenWAL
  <2>1. UNCHANGED <<log, redo, con>>
    BY <1>c, Zenon DEF OpenWAL
  <2>2. first' <= Committed + 1
    BY <1>1, <1>2, <1>c DEF OpenWAL, NothingUnwrittenTruncated
  <2>3. ~Finished => first' <= redo.read[1]
    BY <1>1, <1>2, <2>2, Zenon DEF NothingUnwrittenTruncated
  <2>4. NothingUnwrittenTruncated'
    BY <1>2, <2>1, <2>2, <2>3, ZenonT(60) DEF NothingUnwrittenTruncated, Finished
  <2>5. ConsumerInv'
    BY <1>2, <2>1, Zenon DEF ConsumerInv
  <2>6. QED
    BY <2>4, <2>5, Zenon
<1>d. CASE OpenWALFails
  BY <1>d, QuietStep, Zenon DEF OpenWALFails
<1>e. CASE ConsumeBegin
  <2>1. /\ con'.pc = "redoRead" /\ con'.lo = Committed + 1
        /\ con'.cur \in con'.lo .. con'.hi /\ con'.hi <= Len(log)
        /\ UNCHANGED disk
    BY <1>e, BeginStep, Zenon
  <2>2. NothingUnwrittenTruncated'
    BY <1>2, <2>1, Zenon DEF NothingUnwrittenTruncated, Finished, disk
  <2>3. ConsumerInv'
    BY <2>1, Zenon DEF ConsumerInv, disk
  <2>4. QED
    BY <2>2, <2>3
<1>f. CASE ConsumeRedoRead
  <2>1. /\ con'.pc = "write" /\ con'.lo = con.lo /\ con'.cur = con.cur /\ con'.hi = con.hi
        /\ redo'.read = <<con.lo, con.cur>> /\ redo'.write = redo.write
        /\ UNCHANGED <<log, first>>
    BY <1>1, <1>f, Zenon DEF ConsumeRedoRead, ConsumerState, RedoLog
  <2>2. con.lo = Committed + 1 /\ con.cur \in con.lo .. con.hi /\ con.hi <= Len(log)
    BY <1>2, <1>f, ZenonT(60) DEF ConsumerInv, ConsumeRedoRead
  <2>3. NothingUnwrittenTruncated'
    <3>1. Committed <= Len(log) /\ first <= Committed + 1
      BY <1>2, Zenon DEF NothingUnwrittenTruncated
    <3>2. redo'.read[1] = con.lo /\ redo'.read[2] = con.cur
      BY <2>1
    <3>3. con.cur \in con.lo .. Len(log)
      BY <1>1, <2>2
    <3> QED
      BY <2>1, <2>2, <3>1, <3>2, <3>3, Zenon DEF NothingUnwrittenTruncated, Finished
  <2>4. ConsumerInv'
    BY <2>1, <2>2 DEF ConsumerInv
  <2>5. QED
    BY <2>3, <2>4
<1>g. ASSUME NEW k \in ShardKey, ConsumeWriteDocs(k)
      PROVE NothingUnwrittenTruncated' /\ ConsumerInv'
  <2>1. /\ con'.pc = "vectors" /\ con'.lo = con.lo /\ con'.cur = con.cur /\ con'.hi = con.hi
        /\ UNCHANGED <<log, first, redo>>
    BY <1>1, <1>g, Zenon DEF ConsumeWriteDocs, ConsumerState
  <2>2. QED
    BY <1>2, <1>g, <2>1, ZenonT(60) DEF NothingUnwrittenTruncated, ConsumerInv, Finished, ConsumeWriteDocs
<1>h. CASE ConsumeWriteVecs
  <2>1. /\ con'.pc = "write" /\ con'.lo = con.lo /\ con'.cur = con.cur /\ con'.hi = con.hi
        /\ UNCHANGED <<log, first, redo>>
    BY <1>1, <1>h, ZenonT(60) DEF ConsumeWriteVecs, ConsumerState
  <2>2. QED
    BY <1>2, <1>h, <2>1, ZenonT(60) DEF NothingUnwrittenTruncated, ConsumerInv, Finished, ConsumeWriteVecs
<1>i. CASE ConsumeRedoWrite
  <2>1. /\ \/ con'.pc = "truncate" /\ con'.cur = con.cur
           \/ /\ con'.pc = "redoRead" /\ con'.lo = con.cur + 1
              /\ con'.cur \in con'.lo .. con'.hi /\ con'.hi = con.hi
        /\ redo'.read = redo.read /\ redo'.write = <<con.lo, con.cur>>
        /\ UNCHANGED <<log, first>>
    BY <1>i, RedoWriteStep, SMTT(30)
  <2>2. /\ con.lo = Committed + 1 /\ con.cur \in con.lo .. con.hi /\ con.hi <= Len(log)
        /\ redo.read = <<con.lo, con.cur>>
    BY <1>2, <1>i, Zenon DEF ConsumerInv, ConsumeRedoWrite
  <2>3. redo'.read = redo'.write /\ redo'.write[2] = con.cur
    BY <2>1, <2>2
  <2>4. NothingUnwrittenTruncated'
    BY <1>1, <1>2, <2>1, <2>2, <2>3, SMTT(30) DEF NothingUnwrittenTruncated, Finished
  <2>5. ConsumerInv'
    BY <1>1, <2>1, <2>2, <2>3, ZenonT(60) DEF ConsumerInv
  <2>6. QED
    BY <2>4, <2>5
<1>j. CASE ConsumeTruncate
  <2>1. /\ con'.pc = "check" /\ con'.cur = con.cur /\ first' = con.cur
        /\ UNCHANGED <<log, redo>>
    BY <1>1, <1>j DEF ConsumeTruncate, ConsumerState
  <2>2. con.cur = Committed /\ redo.read = redo.write
    BY <1>2, <1>j, ZenonT(60) DEF ConsumerInv, ConsumeTruncate
  <2>3. NothingUnwrittenTruncated'
    BY <1>1, <1>2, <2>1, <2>2 DEF NothingUnwrittenTruncated, Finished
  <2>4. ConsumerInv'
    BY <2>1, <2>2, Zenon DEF ConsumerInv
  <2>5. QED
    BY <2>3, <2>4
<1>k. CASE ConsumeCheckShards
  BY <1>k, ConsumeEnds, Zenon DEF ConsumeCheckShards
<1>l. CASE ConsumeFails \/ Crash
  BY <1>l, ConsumeEnds, Zenon DEF ConsumeFails, Crash, disk
<1>m. CASE UNCHANGED vars
  BY <1>m, QuietStep DEF vars, disk
<1>n. QED
  BY <1>a, <1>b, <1>c, <1>d, <1>e, <1>f, <1>g, <1>h, <1>i, <1>j, <1>k, <1>l, <1>m, ZenonT(60)
     DEF Next, Consumer

(* At every step ConsumeWAL agrees with the redo log about the batch it is *)
(* writing, and the WAL holds all that the redo log does not call written. *)
THEOREM InvariantHolds == Spec => []IInv
<1>1. IInv /\ [Next]_vars => IInv'
  BY TypeStep, LogStep DEF IInv
<1>2. QED
  BY <1>1, InitInv, PTL DEF Spec

(* The WAL never loses an unwritten operation: what ConsumeWAL has not     *)
(* recorded as written, and what Rollback is to read, is still in the WAL, *)
(* for any number of clients, operations, shards, failures and crashes.    *)
THEOREM WalComplete == Spec => []NothingUnwrittenTruncated
<1>1. IInv => NothingUnwrittenTruncated
  BY Zenon DEF IInv
<1>2. QED
  BY <1>1, InvariantHolds, PTL

(* The batches ConsumeWAL records as written follow each other without gap *)
(* or overlap, also when a batch is begun again after a failure.           *)
THEOREM WalContiguous == Spec => BatchesAreContiguous
<1> DEFINE P == redo'.write # redo.write =>
                  redo'.write[1] = Committed + 1 /\ redo'.write[2] >= redo'.write[1]
<1>1. ASSUME IInv, [Next]_vars PROVE P
  <2>1. CASE ConsumeRedoWrite
    <3>1. redo'.write = <<con.lo, con.cur>>
      BY <1>1, <2>1, RedoWriteStep, SMTT(30)
    <3>2. con.lo = Committed + 1 /\ con.cur \in con.lo .. con.hi
      BY <1>1, <2>1, Zenon DEF IInv, ConsumerInv, ConsumeRedoWrite
    <3>3. con.lo \in Nat /\ con.cur \in Nat /\ con.hi \in Nat
      BY <1>1, Zenon DEF IInv, TypeOK, ConsumerState
    <3>4. QED
      BY <3>1, <3>2, <3>3
  <2>2. CASE ConsumeRedoRead
    BY <1>1, <2>2, Zenon DEF ConsumeRedoRead, IInv, TypeOK, RedoLog
  <2>3. CASE ~ConsumeRedoWrite /\ ~ConsumeRedoRead
    <3>1. UNCHANGED redo
      BY <1>1, <2>3, ZenonT(60) DEF Next, Handler, Upsert, UpsertMisses, Update, Delete, Decide, WalWrite,
           OpenWAL, OpenWALFails, Consumer, ConsumeBegin, ConsumeWriteDocs, ConsumeWriteVecs,
           ConsumeTruncate, ConsumeCheckShards, ConsumeFails, Crash, vars, disk
    <3>2. QED
      BY <3>1, Zenon
  <2>4. QED
    BY <2>1, <2>2, <2>3, Zenon
<1>2. IInv /\ [Next]_vars => [P]_vars
  BY <1>1
<1>3. QED
  BY <1>2, InvariantHolds, PTL DEF Spec, BatchesAreContiguous

-----------------------------------------------------------------------------
(* The write path as a document store, for patient clients *)

(* What the types say of the log, the redo log and the consumer.           *)
Typing ==
  /\ log \in Seq(Entry) /\ Len(log) \in Nat /\ DOMAIN log = 1 .. Len(log)
  /\ \A i \in 1 .. Len(log) : log[i] \in Entry
  /\ Committed \in Nat /\ Committed <= Len(log) /\ redo.read[1] \in Nat /\ redo.read[2] \in Nat
  /\ con.lo \in Nat /\ con.cur \in Nat /\ con.hi \in Nat /\ con.todo \subseteq ShardKey
  /\ content \in [0 .. MaxShards - 1 -> [Doc -> Seq(Nat)]]
  /\ shardNum \in 1 .. MaxShards /\ MaxShards \in Nat /\ MaxBatchSize \in Nat
  /\ vec \in [Doc -> Nat] /\ faults \in Nat
  /\ req \in [Client -> Entry \cup {NoReq}]

(* The invariant of the log gives them.                                    *)
LEMMA Types ==
  ASSUME IInv
  PROVE  Typing
<1>1. /\ log \in Seq(Entry) /\ redo \in RedoLog /\ con \in ConsumerState
      /\ content \in [0 .. MaxShards - 1 -> [Doc -> Seq(Nat)]]
      /\ shardNum \in 1 .. MaxShards /\ faults \in 0 .. MaxFaults
      /\ vec \in [Doc -> Nat] /\ req \in [Client -> Entry \cup {NoReq}]
  BY Zenon DEF IInv, TypeOK
<1>2. Len(log) \in Nat /\ DOMAIN log = 1 .. Len(log) /\ \A i \in 1 .. Len(log) : log[i] \in Entry
  BY <1>1
<1>3. Committed \in Nat /\ redo.read[1] \in Nat /\ redo.read[2] \in Nat
  BY <1>1 DEF RedoLog
<1>4. con.lo \in Nat /\ con.cur \in Nat /\ con.hi \in Nat /\ con.todo \subseteq ShardKey
  BY <1>1 DEF ConsumerState
<1>5. Committed <= Len(log)
  BY Zenon DEF IInv, NothingUnwrittenTruncated
<1>6. MaxShards \in Nat /\ MaxBatchSize \in Nat /\ faults \in Nat
  BY <1>1, WalAssumption
<1> QED
  BY <1>1, <1>2, <1>3, <1>4, <1>5, <1>6, Zenon DEF Typing

(* The last of some operations.                                            *)
LEMMA LastIs ==
  ASSUME NEW S, S \subseteq Nat, NEW i \in S, \A j \in S : j <= i
  PROVE  LastOp(S) = i
<1>1. LastOp(S) \in S /\ \A j \in S : j <= LastOp(S)
  BY Zenon DEF LastOp
<1>2. LastOp(S) \in Nat /\ i \in Nat /\ i <= LastOp(S) /\ LastOp(S) <= i
  BY <1>1, Zenon
<1> QED
  BY <1>2

(* One operation is the first and the last.                                *)
LEMMA OnlyOp ==
  ASSUME NEW i \in Nat
  PROVE  FirstOp({i}) = i /\ LastOp({i}) = i
<1>1. i <= i
  OBVIOUS
<1>2. FirstOp({i}) \in {i}
  BY <1>1, Zenon DEF FirstOp
<1>3. LastOp({i}) \in {i}
  BY <1>1, Zenon DEF LastOp
<1> QED
  BY <1>2, <1>3, Zenon

(* An unsettled operation is the last one on its document,                 *)
LEMMA PendingIsLast ==
  ASSUME Typing, OneAtATime, NEW d \in Doc, NEW i \in Pending(d)
  PROVE  /\ i \in OpsOn(d) /\ LastOp(OpsOn(d)) = i
         /\ \A j \in OpsOn(d) : j <= i /\ (j # i => j < i)
<1>1. i \in Committed + 1 .. Len(log) /\ log[i].doc = d
  BY Zenon DEF Pending
<1>2. Len(log) \in Nat /\ Committed \in Nat /\ DOMAIN log = 1 .. Len(log)
  BY Zenon DEF Typing
<1>3. i \in OpsOn(d)
  BY <1>1, <1>2 DEF OpsOn
<1>4. ASSUME NEW j \in OpsOn(d) PROVE j \in Nat /\ (j = i \/ j <= Committed)
  <2>1. j \in 1 .. Len(log) /\ log[j].doc = d
    BY <1>2, Zenon DEF OpsOn
  <2>2. CASE j <= Committed
    BY <2>1, <2>2
  <2>3. CASE ~(j <= Committed)
    <3>1. j \in Committed + 1 .. Len(log)
      BY <1>2, <2>1, <2>3
    <3>2. j \in Pending(d)
      BY <2>1, <3>1, Zenon DEF Pending
    <3>3. j = i
      BY <3>2, Zenon DEF OneAtATime
    <3> QED
      BY <2>1, <3>3
  <2> QED
    BY <2>2, <2>3, Zenon
<1>5. \A j \in OpsOn(d) : j <= i /\ (j # i => j < i)
  BY <1>1, <1>2, <1>4
<1>6. OpsOn(d) \subseteq Nat
  BY <1>4, Zenon
<1> QED
  BY <1>3, <1>5, <1>6, LastIs, Zenon

(* and so it decides what the document is to be,                           *)
LEMMA PendingAcked ==
  ASSUME Typing, OneAtATime, NEW d \in Doc, NEW i \in Pending(d)
  PROVE  AckedDoc(d) = IF IsDelete(i) THEN {} ELSE {i}
BY PendingIsLast, Zenon DEF AckedDoc

(* and what its vector is to be, unless it has none.                       *)
LEMMA PendingVec ==
  ASSUME Typing, OneAtATime, NEW d \in Doc, NEW i \in Pending(d), Addressed(log[i])
  PROVE  /\ IsDelete(i) => AckedVec(d) = {}
         /\ ~IsDelete(i) /\ log[i].vector => AckedVec(d) = {i}
<1> DEFINE live == {k \in OpsOn(d) : log[k].vector /\ \A j \in OpsOn(d) : j > k => ~IsDelete(j)}
<1>1. i \in OpsOn(d) /\ \A j \in OpsOn(d) : j <= i /\ (j # i => j < i)
  BY PendingIsLast, Zenon
<1>2. OpsOn(d) \subseteq Nat
  <2>1. DOMAIN log \subseteq Nat
    BY DEF Typing
  <2> QED
    BY <2>1, Zenon DEF OpsOn
<1>3. ASSUME IsDelete(i) PROVE live = {}
  <2> SUFFICES ASSUME NEW k \in live PROVE FALSE
    BY Zenon
  <2>1. ~log[i].vector
    BY <1>3, Zenon DEF Addressed, IsDelete
  <2>2. k # i
    BY <2>1, Zenon
  <2>3. i > k
    BY <1>1, <1>2, <2>2
  <2> QED
    BY <1>1, <1>3, <2>3, Zenon
<1>4. ASSUME ~IsDelete(i), log[i].vector PROVE i \in live /\ LastOp(live) = i
  <2>1. \A j \in OpsOn(d) : ~(j > i)
    BY <1>1, <1>2
  <2>2. i \in live
    BY <1>1, <1>4, <2>1, Zenon
  <2>3. live \subseteq Nat /\ \A j \in live : j <= i
    BY <1>1, <1>2, Zenon
  <2> QED
    BY <2>2, <2>3, LastIs, Zenon
<1>5. AckedVec(d) = IF live = {} THEN {} ELSE {LastOp(live)}
  BY Zenon DEF AckedVec
<1> HIDE DEF live
<1> QED
  BY <1>3, <1>4, <1>5, Zenon

(* One more operation leaves the others as they were.                      *)
LEMMA LogGrows ==
  ASSUME Typing, NEW e \in Entry, log' = Append(log, e)
  PROVE  /\ Len(log') = Len(log) + 1 /\ DOMAIN log' = 1 .. Len(log) + 1
         /\ log'[Len(log) + 1] = e
         /\ \A i \in 1 .. Len(log) : log'[i] = log[i]
<1>1. log \in Seq(Entry)
  BY Zenon DEF Typing
<1> QED
  BY <1>1

(* The batches of the log so far are as full as they were.                 *)
LEMMA BatchFullStays ==
  ASSUME Typing, NEW e \in Entry, log' = Append(log, e), NEW lo \in Nat \ {0}, NEW hi \in Nat, hi <= Len(log)
  PROVE  NotFull(lo, hi)' = NotFull(lo, hi)
<1>1. ASSUME NEW j \in lo .. hi PROVE BatchFull(lo, j)' = BatchFull(lo, j)
  <2>1. \A i \in lo .. j : log'[i] = log[i]
    BY LogGrows DEF Typing
  <2>2. Keys(lo, j)' = Keys(lo, j)
    BY <2>1, Zenon DEF Keys
  <2>3. ASSUME NEW k PROVE DocsOf(lo, j, k)' = DocsOf(lo, j, k)
    <3>1. ASSUME NEW d \in Doc PROVE Ops(lo, j, k, d)' = Ops(lo, j, k, d)
      BY <2>1, Zenon DEF Ops
    <3> QED
      BY <3>1, Zenon DEF DocsOf
  <2> QED
    BY <2>2, <2>3, Zenon DEF BatchFull
<1>2. \A j \in lo .. hi - 1 : j \in lo .. hi
  OBVIOUS
<1> QED
  BY <1>1, <1>2, Zenon DEF NotFull

(* What is acknowledged of the other documents stays,                      *)
LEMMA AckedStays ==
  ASSUME Typing, NEW e \in Entry, log' = Append(log, e), NEW d \in Doc, d # e.doc
  PROVE  OpsOn(d)' = OpsOn(d) /\ AckedDoc(d)' = AckedDoc(d) /\ AckedVec(d)' = AckedVec(d)
<1>1. /\ Len(log) \in Nat /\ DOMAIN log = 1 .. Len(log) /\ DOMAIN log' = 1 .. Len(log) + 1
      /\ log'[Len(log) + 1] = e
      /\ \A i \in 1 .. Len(log) : log'[i] = log[i]
  BY LogGrows, Zenon DEF Typing
<1>2. DOMAIN log' = DOMAIN log \cup {Len(log) + 1}
  BY <1>1
<1>3. OpsOn(d)' = OpsOn(d)
  BY <1>1, <1>2, Zenon DEF OpsOn
<1>4. \A i \in OpsOn(d) : log'[i] = log[i] /\ IsDelete(i)' = IsDelete(i)
  BY <1>1, Zenon DEF OpsOn, IsDelete
<1>5. AckedDoc(d)' = AckedDoc(d)
  <2>1. CASE OpsOn(d) = {}
    BY <1>3, <2>1, Zenon DEF AckedDoc
  <2>2. CASE OpsOn(d) # {}
    <3>1. OpsOn(d) \in SUBSET (1 .. Len(log))
      BY <1>1, Zenon DEF OpsOn
    <3>2. LastOp(OpsOn(d)) \in OpsOn(d)
      BY <1>1, <2>2, <3>1, LastOpInSet, Zenon
    <3>3. IsDelete(LastOp(OpsOn(d)))' = IsDelete(LastOp(OpsOn(d)))
      BY <1>3, <1>4, <3>2, Zenon DEF IsDelete
    <3> QED
      BY <1>3, <2>2, <3>3, Zenon DEF AckedDoc
  <2> QED
    BY <2>1, <2>2, Zenon
<1>6. AckedVec(d)' = AckedVec(d)
  BY <1>3, <1>4, Zenon DEF AckedVec
<1> QED
  BY <1>3, <1>5, <1>6, Zenon

(* and the vector of the document when the operation leaves it alone.      *)
LEMMA AckedVecStays ==
  ASSUME Typing, NEW e \in Entry, log' = Append(log, e),
         ~e.vector, e.action \notin {"delete", "deleteVecOnly"}
  PROVE  AckedVec(e.doc)' = AckedVec(e.doc)
<1> DEFINE d == e.doc
           live == {k \in OpsOn(d) : log[k].vector /\ \A j \in OpsOn(d) : j > k => ~IsDelete(j)}
           live1 == {k \in OpsOn(d)' : log'[k].vector /\ \A j \in OpsOn(d)' : j > k => ~(IsDelete(j)')}
<1>1. /\ Len(log) \in Nat /\ DOMAIN log = 1 .. Len(log) /\ DOMAIN log' = 1 .. Len(log) + 1
      /\ log'[Len(log) + 1] = e
      /\ \A i \in 1 .. Len(log) : log'[i] = log[i]
  BY LogGrows, Zenon DEF Typing
<1>0. PICK n : n = Len(log) + 1
  OBVIOUS
<1>2. DOMAIN log' = DOMAIN log \cup {n} /\ n \notin DOMAIN log
  BY <1>0, <1>1
<1>3. OpsOn(d)' = OpsOn(d) \cup {n}
  BY <1>0, <1>1, <1>2, Zenon DEF OpsOn
<1>4. \A i \in OpsOn(d) : log'[i] = log[i] /\ IsDelete(i)' = IsDelete(i)
  BY <1>1, Zenon DEF OpsOn, IsDelete
<1>5. ~(IsDelete(n)') /\ ~(log'[n].vector)
  BY <1>0, <1>1, Zenon DEF IsDelete
<1>6. live1 = live
  BY <1>3, <1>4, <1>5, Zenon
<1>7. AckedVec(d) = IF live = {} THEN {} ELSE {LastOp(live)}
  BY Zenon DEF AckedVec
<1>8. AckedVec(d)' = IF live1 = {} THEN {} ELSE {LastOp(live1)}
  BY Zenon DEF AckedVec, LastOp
<1> QED
  BY <1>6, <1>7, <1>8, Zenon

(* A rollback leaves the copies alone: the inserts have the key Latest.    *)
LEMMA RollbackIdle ==
  ASSUME IInv, Addressing, ~Finished
  PROVE  RolledBack(redo.read[1], redo.read[2]) = content
<1> DEFINE lo == redo.read[1]
           hi == redo.read[2]
<1>1. Typing
  BY Types
<1>2. lo = Committed + 1 /\ hi \in lo .. Len(log)
  BY Zenon DEF IInv, NothingUnwrittenTruncated
<1>3. lo .. hi \subseteq DOMAIN log /\ lo \in Nat /\ hi \in Nat
  BY <1>1, <1>2, SMTT(30) DEF Typing
<1>4. content = [s \in 0 .. MaxShards - 1 |-> [d \in Doc |-> content[s][d]]]
  BY <1>1, Zenon DEF Typing
<1> HIDE DEF lo, hi
<1>5. ASSUME NEW s \in 0 .. MaxShards - 1, NEW d \in Doc, Ops(lo, hi, s, d) # {}
      PROVE  log[FirstOp(Ops(lo, hi, s, d))].action # "insert"
  <2> DEFINE S == Ops(lo, hi, s, d)
  <2>1. S \in SUBSET Nat /\ S \subseteq lo .. hi /\ \A i \in S : log[i].shard = s
    BY <1>3 DEF Ops
  <2>2. FirstOp(S) \in S
    <3>1. \E i \in S : \A j \in S : i <= j
      BY <1>5, <2>1, LeastExists, Zenon
    <3> QED
      BY <3>1, Zenon DEF FirstOp
  <2>3. Addressed(log[FirstOp(S)]) /\ log[FirstOp(S)].shard = s
    BY <1>3, <2>1, <2>2, Zenon DEF Addressing
  <2>4. s # Latest
    BY DEF Latest
  <2> QED
    BY <2>3, <2>4, Zenon DEF Addressed
<1>6. RolledBack(lo, hi) = [s \in 0 .. MaxShards - 1 |-> [d \in Doc |-> content[s][d]]]
  BY <1>5, Zenon DEF RolledBack
<1> QED
  BY <1>4, <1>6, Zenon DEF lo, hi

(* OpenWAL leaves the copies alone, whether it fails or not.               *)
LEMMA OpenKeepsCopies ==
  ASSUME IInv, Addressing, OpenWAL \/ OpenWALFails
  PROVE  UNCHANGED <<log, redo, content, shardNum, vec, con, req>>
<1>1. UNCHANGED <<log, redo, shardNum, vec, con, req>>
  BY Zenon DEF OpenWAL, OpenWALFails
<1>2. CASE Finished
  BY <1>1, <1>2, Zenon DEF OpenWAL, OpenWALFails
<1>3. CASE ~Finished
  <2>1. RolledBack(redo.read[1], redo.read[2]) = content
    BY <1>3, RollbackIdle, Zenon
  <2>2. CASE OpenWAL
    BY <1>1, <1>3, <2>1, <2>2, Zenon DEF OpenWAL
  <2>3. CASE OpenWALFails
    <3>1. content = [s \in 0 .. MaxShards - 1 |-> content[s]]
      BY Types, Zenon DEF Typing
    <3>2. content' = [s \in 0 .. MaxShards - 1 |-> content[s]]
      BY <2>1, <2>3, Zenon DEF OpenWALFails
    <3> QED
      BY <1>1, <3>1, <3>2, Zenon
  <2> QED
    BY <2>2, <2>3, Zenon
<1> QED
  BY <1>2, <1>3, Zenon

(* The batch being written: begun and not finished, of unsettled           *)
(* operations only.                                                        *)
LEMMA InBatch ==
  ASSUME IInv, con.pc \in {"write", "vectors"}
  PROVE  /\ ~Finished /\ con.lo = Committed + 1 /\ redo.read[1] = con.lo /\ redo.read[2] = con.cur
         /\ con.cur <= con.hi /\ con.hi <= Len(log)
         /\ con.lo .. con.cur \subseteq Committed + 1 .. Len(log)
         /\ con.lo .. con.cur \subseteq DOMAIN log /\ con.lo .. con.cur \subseteq Nat \ {0}
<1>1. Typing
  BY Types
<1>2. /\ con.lo = Committed + 1 /\ con.cur \in con.lo .. con.hi /\ con.hi <= Len(log)
      /\ redo.read = <<con.lo, con.cur>>
  BY Zenon DEF IInv, ConsumerInv
<1>3. redo.read[1] = con.lo /\ redo.read[2] = con.cur
  BY <1>2
<1>4. con.cur # Committed /\ con.cur # 0
  BY <1>1, <1>2 DEF Typing
<1>5. ~Finished
  <2>1. NotFound[2] = 0
    BY DEF NotFound
  <2>2. ASSUME redo.read = NotFound PROVE FALSE
    <3>1. redo.read[2] = 0
      BY <2>1, <2>2, Zenon
    <3> QED
      BY <1>3, <1>4, <3>1, Zenon
  <2>3. ASSUME redo.read = redo.write PROVE FALSE
    <3>1. redo.read[2] = redo.write[2]
      BY <2>3, Zenon
    <3> QED
      BY <1>3, <1>4, <3>1, Zenon
  <2> QED
    BY <2>2, <2>3, Zenon DEF Finished
<1>6. /\ con.lo .. con.cur \subseteq Committed + 1 .. Len(log) /\ con.cur <= con.hi
      /\ con.lo .. con.cur \subseteq DOMAIN log /\ con.lo .. con.cur \subseteq Nat \ {0}
  BY <1>1, <1>2, SMTT(30) DEF Typing
<1> QED
  BY <1>2, <1>3, <1>5, <1>6, Zenon

(* An operation of the batch is the only one of it on its document.        *)
LEMMA OneOp ==
  ASSUME IInv, OneAtATime, con.pc \in {"write", "vectors"}, NEW i \in con.lo .. con.cur
  PROVE  /\ i \in Pending(log[i].doc) /\ log[i] \in Entry
         /\ Ops(con.lo, con.cur, log[i].shard, log[i].doc) = {i}
         /\ \A j \in con.lo .. con.cur : log[j].doc = log[i].doc => j = i
<1>1. Typing /\ i \in Committed + 1 .. Len(log) /\ i \in DOMAIN log
  BY InBatch, Types, Zenon
<1>2. log[i] \in Entry
  BY <1>1, Zenon DEF Typing
<1>3. log[i].doc \in Doc
  BY <1>2, Zenon DEF Entry
<1>4. \A j \in con.lo .. con.cur : log[j].doc = log[i].doc => j \in Pending(log[i].doc)
  BY InBatch, Zenon DEF Pending
<1>5. \A j \in con.lo .. con.cur : log[j].doc = log[i].doc => j = i
  BY <1>3, <1>4, Zenon DEF OneAtATime
<1> QED
  BY <1>2, <1>4, <1>5, Zenon DEF Ops

(* The copies of a document, as the writer of the batch leaves them.       *)
Copies(d, i, w) ==
  /\ Shown(d)' = IF IsDelete(i) THEN {} ELSE {i}
  /\ Where(d)' \subseteq {w} /\ (IsDelete(i) => Where(d)' = {})
  /\ faults = 0 => \A s \in DOMAIN content : Len(content'[s][d]) <= 1

(* The copies of one shard are all the copies.                             *)
LEMMA ShownIn ==
  ASSUME NEW d, NEW w, Where(d) \subseteq {w}, w \in DOMAIN content
  PROVE  Shown(d) = {content[w][d][n] : n \in DOMAIN content[w][d]}
<1>1. DOMAIN << >> = {}
  OBVIOUS
<1>2. \A s \in DOMAIN content : s # w => content[s][d] = << >>
  BY Zenon DEF Where
<1>3. \A s \in DOMAIN content : s # w => DOMAIN content[s][d] = {}
  BY <1>1, <1>2, Zenon
<1> QED
  BY <1>3, ZenonT(40) DEF Shown

(* One more copy of i beside copies of i.                                  *)
LEMMA AppendSame ==
  ASSUME NEW q \in Seq(Nat), NEW i \in Nat, \A n \in DOMAIN q : q[n] = i, NEW r, r = Append(q, i)
  PROVE  {r[n] : n \in DOMAIN r} = {i}
<1>1. Len(q) \in Nat /\ DOMAIN q = 1 .. Len(q) /\ DOMAIN r = 1 .. Len(q) + 1
  OBVIOUS
<1>2. \A n \in DOMAIN r : r[n] = i
  BY <1>1
<1>3. 1 \in DOMAIN r
  BY <1>1
<1> QED
  BY <1>2, <1>3, Zenon

(* WriteToShard replaces, adds or deletes the copies of each document with *)
(* an operation under the shard key k, and leaves the other documents.     *)
LEMMA WriteEffect ==
  ASSUME StoreInv, NEW k \in ShardKey, ConsumeWriteDocs(k), NEW d \in Doc
  PROVE  \/ /\ \A i \in con.lo .. con.cur : log[i].doc = d => log[i].shard # k
            /\ \A s \in DOMAIN content : content'[s][d] = content[s][d]
         \/ \E i \in con.lo .. con.cur :
              log[i].doc = d /\ log[i].shard = k /\ Copies(d, i, WriterShard(k))
<1> DEFINE w == WriterShard(k)
           S == Ops(con.lo, con.cur, k, d)
<1>0. IInv /\ OneAtATime /\ Addressing /\ SingleCopies /\ con.pc = "write" /\ k \in con.todo
  BY Zenon DEF StoreInv, Settling, ConsumeWriteDocs
<1>1. Typing
  BY <1>0, Types
<1>2. content' = WrittenDocs(con.lo, con.cur, k)
  BY Zenon DEF ConsumeWriteDocs
<1>3. w \in 0 .. MaxShards - 1
  <2>1. CASE k = Latest
    BY <1>1, <2>1, SMTT(30) DEF WriterShard, Typing
  <2>2. CASE k # Latest
    BY <2>2, Zenon DEF WriterShard, ShardKey
  <2> QED
    BY <2>1, <2>2, Zenon
<1>4. DOMAIN content = 0 .. MaxShards - 1 /\ DOMAIN content' = DOMAIN content
  BY <1>1, <1>2, Zenon DEF Typing, WrittenDocs
<1>5. \A s \in DOMAIN content : s # w => content'[s] = content[s]
  BY <1>2, <1>4, Zenon DEF WrittenDocs
<1>6. content'[w][d] = IF S = {} THEN content[w][d]
                       ELSE Apply(DocOp(log[FirstOp(S)].action, log[LastOp(S)].action), content[w][d], LastOp(S))
  BY <1>2, <1>3, <1>4, Zenon DEF WrittenDocs
<1>7. CASE S = {}
  <2>1. \A s \in DOMAIN content : content'[s][d] = content[s][d]
    BY <1>5, <1>6, <1>7, Zenon
  <2>2. \A i \in con.lo .. con.cur : log[i].doc = d => log[i].shard # k
    BY <1>7, Zenon DEF Ops
  <2> QED
    BY <2>1, <2>2, Zenon
<1>8. ASSUME NEW i \in con.lo .. con.cur, log[i].doc = d, log[i].shard = k
      PROVE  Copies(d, i, w)
  <2>1. S = {i} /\ i \in Pending(d) /\ i \in Nat /\ log[i].action \in Action
    BY <1>0, <1>8, OneOp, InBatch, Zenon DEF Entry
  <2>2. FirstOp(S) = i /\ LastOp(S) = i /\ S # {}
    BY <2>1, OnlyOp, Zenon
  <2>3. content'[w][d] = Apply(DocOp(log[i].action, log[i].action), content[w][d], i)
    BY <1>6, <2>2, Zenon
  <2>4. Addressed(log[i]) /\ (Finds(log[i]) \/ Inserted(i))
    BY <1>0, <1>8, InBatch, Zenon DEF Addressing
  <2>5. content[w][d] \in Seq(Nat)
    BY <1>1, <1>3, Zenon DEF Typing
  <2>6. /\ Where(d) \subseteq {w}
        /\ Where(d) = {} \/ log[i].action \notin {"insert", "deleteVecOnly"}
           \/ (log[i].action = "insert" /\ Shown(d) \subseteq {i} /\ faults # 0)
    <3>1. CASE k = Latest
      <4>1. Where(d) = {} \/ Inserted(i)
        <5>1. Latest \notin DOMAIN content
          BY <1>1, <1>4 DEF Latest, Typing
        <5>2. Finds(log[i]) => Where(d) \subseteq {Latest}
          BY <1>8, <3>1, Zenon DEF Finds
        <5>3. Where(d) \subseteq DOMAIN content
          BY Zenon DEF Where
        <5> QED
          BY <2>4, <5>1, <5>2, <5>3, Zenon
      <4>2. Inserted(i) => /\ Where(d) \subseteq {w} /\ log[i].action = "insert"
                           /\ Shown(d) \subseteq {i} /\ faults # 0
        BY <1>0, <1>8, <3>1, Zenon DEF Inserted, MayBeWritten, WriterShard
      <4> QED
        BY <4>1, <4>2, Zenon
    <3>2. CASE k # Latest
      BY <1>8, <2>4, <3>2, Zenon DEF Addressed, Finds, Inserted, MayBeWritten, WriterShard
    <3> QED
      BY <3>1, <3>2, Zenon
  <2>7. \A s \in DOMAIN content : s # w => content'[s][d] = << >>
    BY <1>5, <2>6, Zenon DEF Where
  <2>8. Where(d)' \subseteq {w} /\ (content'[w][d] = << >> => Where(d)' = {})
    BY <1>4, <2>7, Zenon DEF Where
  <2>9. Shown(d)' = {content'[w][d][n] : n \in DOMAIN content'[w][d]}
    <3>1. \A s \in DOMAIN content' : s # w => DOMAIN content'[s][d] = {}
      BY <1>4, <2>7
    <3>2. w \in DOMAIN content'
      BY <1>3, <1>4, Zenon
    <3> QED
      BY <3>1, <3>2, Zenon DEF Shown
  <2>10. \A s \in DOMAIN content : s # w => Len(content'[s][d]) <= 1
    BY <2>7
  <2>11. Shown(d) = {content[w][d][n] : n \in DOMAIN content[w][d]}
    BY <1>3, <1>4, <2>6, ShownIn, Zenon
  <2>12. CASE log[i].action = "insert"
    <3>1. content'[w][d] = Append(content[w][d], i)
      BY <2>3, <2>12, Zenon DEF Apply, DocOp
    <3>2. \A n \in DOMAIN content[w][d] : content[w][d][n] = i
      <4>1. CASE Where(d) = {}
        <5>1. content[w][d] = << >>
          BY <1>3, <1>4, <4>1, Zenon DEF Where
        <5> QED
          BY <5>1
      <4>2. CASE Shown(d) \subseteq {i}
        BY <2>11, <4>2, Zenon
      <4> QED
        BY <2>6, <2>12, <4>1, <4>2, Zenon
    <3>3. {content'[w][d][n] : n \in DOMAIN content'[w][d]} = {i}
      <4>1. PICK q : q = content[w][d]
        OBVIOUS
      <4>2. PICK r : r = content'[w][d]
        OBVIOUS
      <4>3. q \in Seq(Nat) /\ i \in Nat /\ r = Append(q, i) /\ \A n \in DOMAIN q : q[n] = i
        BY <2>1, <2>5, <3>1, <3>2, <4>1, <4>2, Zenon
      <4>4. {r[n] : n \in DOMAIN r} = {i}
        BY <4>3, AppendSame
      <4> QED
        BY <4>2, <4>4, Zenon
    <3>4. faults = 0 => content[w][d] = << >>
      BY <1>3, <1>4, <2>6, <2>12, Zenon DEF Where
    <3>5. faults = 0 => Len(content'[w][d]) <= 1
      BY <2>1, <3>1, <3>4
    <3>6. ~IsDelete(i)
      BY <2>12 DEF IsDelete
    <3> QED
      BY <2>8, <2>9, <2>10, <3>3, <3>5, <3>6, Zenon DEF Copies
  <2>13. CASE log[i].action = "update"
    <3>1. content'[w][d] = <<i>>
      BY <2>3, <2>13, Zenon DEF Apply, DocOp
    <3>2. {content'[w][d][n] : n \in DOMAIN content'[w][d]} = {i} /\ Len(content'[w][d]) <= 1
      BY <3>1
    <3>3. ~IsDelete(i)
      BY <2>13 DEF IsDelete
    <3> QED
      BY <2>8, <2>9, <2>10, <3>2, <3>3, Zenon DEF Copies
  <2>14. CASE log[i].action \in {"delete", "deleteVecOnly"}
    <3>1. content'[w][d] = << >>
      <4>1. CASE log[i].action = "delete"
        BY <2>3, <4>1, Zenon DEF Apply, DocOp
      <4>2. CASE log[i].action = "deleteVecOnly"
        <5>1. content'[w][d] = content[w][d]
          BY <2>3, <4>2, Zenon DEF Apply, DocOp
        <5>2. Where(d) = {}
          BY <2>6, <4>2
        <5> QED
          BY <1>3, <1>4, <5>1, <5>2, Zenon DEF Where
      <4> QED
        BY <2>14, <4>1, <4>2, Zenon
    <3>2. {content'[w][d][n] : n \in DOMAIN content'[w][d]} = {} /\ Len(content'[w][d]) <= 1
      BY <3>1
    <3>3. IsDelete(i)
      BY <2>14 DEF IsDelete
    <3> QED
      BY <2>8, <2>9, <2>10, <3>1, <3>2, <3>3, Zenon DEF Copies
  <2> QED
    BY <2>1, <2>12, <2>13, <2>14, Zenon DEF Action
<1>9. CASE S # {}
  <2>1. PICK i \in con.lo .. con.cur : log[i].doc = d /\ log[i].shard = k
    BY <1>9, Zenon DEF Ops
  <2> QED
    BY <1>8, <2>1, Zenon
<1> QED
  BY <1>7, <1>9, Zenon

(* The vector of a document, as BatchVectors leaves it.                    *)
LEMMA VecEffect ==
  ASSUME StoreInv, ConsumeWriteVecs, NEW d \in Doc
  PROVE  \/ /\ \A i \in con.lo .. con.cur : log[i].doc = d => log[i].shard # con.key
            /\ vec'[d] = vec[d]
         \/ /\ \E i \in con.lo .. con.cur : log[i].doc = d /\ log[i].shard = con.key
            /\ ShownVec(d)' = AckedVec(d)
<1> DEFINE S == Ops(con.lo, con.cur, con.key, d)
<1>0. IInv /\ OneAtATime /\ Addressing /\ NoVecs /\ VecsShown /\ con.pc = "vectors"
  BY Zenon DEF StoreInv, Settling, ConsumeWriteVecs
<1>1. Typing
  BY <1>0, Types
<1>2. vec' = WrittenVecs(con.lo, con.cur, con.key)
  BY Zenon DEF ConsumeWriteVecs
<1>3. CASE S = {}
  <2>1. vec'[d] = vec[d]
    BY <1>2, <1>3, Zenon DEF WrittenVecs
  <2>2. \A i \in con.lo .. con.cur : log[i].doc = d => log[i].shard # con.key
    BY <1>3, Zenon DEF Ops
  <2> QED
    BY <2>1, <2>2, Zenon
<1>4. CASE S # {}
  <2>1. PICK i \in con.lo .. con.cur : log[i].doc = d /\ log[i].shard = con.key
    BY <1>4, Zenon DEF Ops
  <2>2. /\ S = {i} /\ i \in Pending(d) /\ i \in Nat \ {0} /\ log[i].action \in Action
        /\ i \in Committed + 1 .. Len(log) /\ i \in DOMAIN log
    BY <1>0, <2>1, OneOp, InBatch, Zenon DEF Entry
  <2>3. FirstOp(S) = i /\ LastOp(S) = i
    BY <2>2, OnlyOp, Zenon
  <2>4. Addressed(log[i])
    BY <1>0, <2>2, Zenon DEF Addressing
  <2>5. /\ IsDelete(i) => AckedVec(d) = {}
        /\ ~IsDelete(i) /\ log[i].vector => AckedVec(d) = {i}
    BY <1>0, <1>1, <2>2, <2>4, PendingVec, Zenon
  <2>6. vec'[d] = IF HasVec /\ VecOp(log[i].action, log[i].action) = "put" /\ log[i].vector THEN i
                  ELSE IF HasVec /\ VecOp(log[i].action, log[i].action) = "delete" THEN 0
                  ELSE vec[d]
    BY <1>2, <1>4, <2>3, Zenon DEF WrittenVecs
  <2>7. CASE IsDelete(i)
    <3>1. VecOp(log[i].action, log[i].action) = "delete"
      BY <2>7 DEF IsDelete, VecOp
    <3>2. vec'[d] = 0
      BY <1>0, <2>6, <3>1, Zenon DEF NoVecs
    <3>3. ShownVec(d)' = {}
      BY <3>2, Zenon DEF ShownVec
    <3> QED
      BY <2>1, <2>5, <2>7, <3>3, Zenon
  <2>8. CASE ~IsDelete(i) /\ log[i].vector
    <3>1. VecOp(log[i].action, log[i].action) = "put"
      BY <2>2, <2>8 DEF IsDelete, VecOp, Action
    <3>2. vec'[d] = i
      BY <2>4, <2>6, <2>8, <3>1, Zenon DEF Addressed
    <3>3. ShownVec(d)' = {i}
      BY <2>2, <3>2, Zenon DEF ShownVec
    <3> QED
      BY <2>1, <2>5, <2>8, <3>3, Zenon
  <2>9. CASE ~IsDelete(i) /\ ~log[i].vector
    <3>1. VecOp(log[i].action, log[i].action) = "put"
      BY <2>2, <2>9 DEF IsDelete, VecOp, Action
    <3>2. vec'[d] = vec[d]
      BY <2>6, <2>9, <3>1, Zenon
    <3>3. ShownVec(d)' = ShownVec(d)
      BY <3>2, Zenon DEF ShownVec
    <3>4. ShownVec(d) = AckedVec(d)
      BY <1>0, <2>1, <2>2, <2>9, Zenon DEF VecsShown
    <3> QED
      BY <2>1, <3>3, <3>4, Zenon
  <2> QED
    BY <2>7, <2>8, <2>9, Zenon
<1> QED
  BY <1>3, <1>4, Zenon

(* Operations that go away leave one at a time.                            *)
LEMMA FewerOps ==
  ASSUME OneAtATime, \A d \in Doc : Pending(d)' \subseteq Pending(d) /\ Asking(d)' \subseteq Asking(d)
  PROVE  OneAtATime'
BY Zenon DEF OneAtATime

(* The same log means the same to every document,                          *)
LEMMA SameOps ==
  ASSUME UNCHANGED <<log, redo>>, NEW d
  PROVE  /\ Pending(d)' = Pending(d) /\ OpsOn(d)' = OpsOn(d)
         /\ AckedDoc(d)' = AckedDoc(d) /\ AckedVec(d)' = AckedVec(d)
BY Zenon DEF Pending, OpsOn, AckedDoc, AckedVec, IsDelete

(* and the same indexes show the same.                                     *)
LEMMA SameCopies ==
  ASSUME UNCHANGED content, NEW d
  PROVE  Where(d)' = Where(d) /\ Shown(d)' = Shown(d)
BY DEF Where, Shown

(* A step that moves the consumer only, or ends what was in memory.        *)
LEMMA ConsumerMoves ==
  ASSUME StoreInv, UNCHANGED <<log, redo, content, shardNum, vec>>,
         \A c \in Client : req'[c] = req[c] \/ req'[c] = NoReq,
         faults' = 0 => faults = 0,
         con' = con \/ con'.pc \notin {"write", "vectors"},
         faults' = 0 /\ con' # con => con.pc \notin {"write", "vectors"},
         Resumes'
  PROVE  Settling'
<1>0. /\ OneAtATime /\ InMadeShards /\ Addressing /\ DocsWritten /\ NoVecs /\ VecsWritten
      /\ VecsShown /\ SingleCopies /\ OneShard
  BY Zenon DEF StoreInv, Settling
<1>1. OneAtATime'
  <2>1. \A d \in Doc : Pending(d)' = Pending(d)
    BY SameOps, Zenon
  <2>2. \A d \in Doc : Asking(d)' \subseteq Asking(d)
    BY Zenon DEF Asking
  <2> QED
    BY <1>0, <2>1, <2>2, FewerOps, Zenon
<1>2. InMadeShards' /\ OneShard' /\ SingleCopies' /\ NoVecs'
  BY <1>0, SameCopies, Zenon DEF InMadeShards, OneShard, SingleCopies, NoVecs
<1>3. Addressing'
  <2>1. ASSUME NEW c \in Client, req'[c] # NoReq PROVE Addressed(req[c])' /\ Finds(req[c])'
    <3>1. req'[c] = req[c] /\ Addressed(req[c]) /\ Finds(req[c])
      BY <1>0, <2>1, Zenon DEF Addressing
    <3> QED
      BY <3>1, SameCopies, Zenon DEF Addressed, Finds, Where
  <2>2. ASSUME NEW i \in DOMAIN log PROVE Addressed(log[i])'
    <3>1. Addressed(log[i])
      BY <1>0, Zenon DEF Addressing
    <3> QED
      BY <3>1, Zenon DEF Addressed
  <2>3. ASSUME NEW i \in Committed + 1 .. Len(log) PROVE (Finds(log[i]) \/ Inserted(i))'
    <3>1. CASE Finds(log[i])
      BY <3>1, Zenon DEF Finds, Where
    <3>2. CASE Inserted(i)
      <4>1. MayBeWritten(i)'
        BY <3>2, Zenon DEF Inserted, MayBeWritten, Finished
      <4>2. PICK d : d = log[i].doc /\ d = log'[i].doc
        BY Zenon
      <4>3. Where(d)' \subseteq {shardNum' - 1} /\ Shown(d)' \subseteq {i}
        BY <3>2, <4>2, SameCopies, Zenon DEF Inserted
      <4> QED
        BY <4>1, <4>2, <4>3, Zenon DEF Inserted
    <3> QED
      BY <1>0, <3>1, <3>2, Zenon DEF Addressing
  <2> QED
    BY <2>1, <2>2, <2>3, Zenon DEF Addressing
<1>4. DocsWritten'
  BY <1>0, SameOps, SameCopies, Zenon DEF DocsWritten
<1>5. VecsWritten'
  BY <1>0, SameOps, Zenon DEF VecsWritten, ShownVec
<1>6. VecsShown'
  BY <1>0, SameOps, Zenon DEF VecsShown, ShownVec, IsDelete
<1> QED
  BY <1>1, <1>2, <1>3, <1>4, <1>5, <1>6, Zenon DEF Settling

(* The batches of the same log are as full as they were.                   *)
LEMMA SameFull ==
  ASSUME UNCHANGED log, NEW lo, NEW hi
  PROVE  NotFull(lo, hi)' = NotFull(lo, hi)
<1>1. ASSUME NEW j PROVE BatchFull(lo, j)' = BatchFull(lo, j)
  <2>1. Keys(lo, j)' = Keys(lo, j)
    BY Zenon DEF Keys
  <2>2. ASSUME NEW k PROVE DocsOf(lo, j, k)' = DocsOf(lo, j, k)
    <3>1. ASSUME NEW d \in Doc PROVE Ops(lo, j, k, d)' = Ops(lo, j, k, d)
      BY Zenon DEF Ops
    <3> QED
      BY <3>1, Zenon DEF DocsOf
  <2> QED
    BY <2>1, <2>2, Zenon DEF BatchFull
<1> QED
  BY <1>1, Zenon DEF NotFull

(* The consumer's batch stays as it is.                                    *)
LEMMA SameBatch ==
  ASSUME Resumes, UNCHANGED <<log, redo>>, con' = con \/ con'.pc \notin {"redoRead", "write", "vectors"}
  PROVE  Resumes'
<1>1. PICK a, b, lo, hi : a = redo.read[1] /\ b = redo.read[2] /\ lo = con.lo /\ hi = con.cur
  BY Zenon
<1>2. NotFull(a, b)' = NotFull(a, b) /\ NotFull(lo, hi)' = NotFull(lo, hi)
  BY SameFull, Zenon
<1>3. Finished' = Finished
  BY Zenon DEF Finished
<1>4. NotFull(redo.read[1], redo.read[2]) => NotFull(redo.read[1], redo.read[2])'
  BY <1>1, <1>2, Zenon
<1>5. con' = con /\ NotFull(con.lo, con.cur) => NotFull(con.lo, con.cur)'
  BY <1>1, <1>2, Zenon
<1> QED
  BY <1>3, <1>4, <1>5, Zenon DEF Resumes

(* OpenWAL keeps the invariant,                                              *)
LEMMA OpenSettles ==
  ASSUME StoreInv, OpenWAL \/ OpenWALFails
  PROVE  Settling'
<1>1. IInv /\ Addressing /\ Resumes
  BY Zenon DEF StoreInv, Settling
<1>2. UNCHANGED <<log, redo, content, shardNum, vec, con, req>>
  BY <1>1, OpenKeepsCopies, Zenon
<1>3. faults' = 0 => faults = 0
  <2>1. faults \in Nat
    BY <1>1, Types, Zenon DEF Typing
  <2> QED
    BY <2>1 DEF OpenWAL, OpenWALFails
<1>4. Resumes'
  BY <1>1, <1>2, SameBatch, Zenon
<1> QED
  BY <1>2, <1>3, <1>4, ConsumerMoves, Zenon

(* as the end of ConsumeWAL does, however it comes,                        *)
LEMMA EndSettles ==
  ASSUME StoreInv, ConsumeTruncate \/ ConsumeFails \/ Crash
  PROVE  Settling'
<1>1. Resumes /\ faults \in Nat
  BY Types, Zenon DEF StoreInv, Settling, Typing
<1>2. UNCHANGED <<log, redo, content, shardNum, vec>>
  BY Zenon DEF ConsumeTruncate, ConsumeFails, Crash, disk
<1>3. \A c \in Client : req'[c] = req[c] \/ req'[c] = NoReq
  BY Zenon DEF ConsumeTruncate, ConsumeFails, Crash
<1>4. con'.pc \in {"idle", "check"}
  <2>1. con \in ConsumerState
    BY Zenon DEF StoreInv, IInv, TypeOK
  <2> QED
    BY <2>1 DEF ConsumeTruncate, ConsumeFails, Crash, Idle, ConsumerState
<1>5. faults' = 0 => faults = 0 /\ con.pc \notin {"write", "vectors"}
  BY <1>1 DEF ConsumeTruncate, ConsumeFails, Crash
<1>6. con'.pc \notin {"redoRead", "write", "vectors"}
  BY <1>4
<1>7. Resumes'
  BY <1>1, <1>2, <1>6, SameBatch, Zenon
<1> QED
  BY <1>2, <1>3, <1>5, <1>6, <1>7, ConsumerMoves, Zenon

(* and a step that changes nothing,                                        *)
LEMMA StutterSettles ==
  ASSUME StoreInv, UNCHANGED vars
  PROVE  Settling'
<1>1. Resumes /\ UNCHANGED <<log, redo, content, shardNum, vec, con, req, faults>>
  BY Zenon DEF StoreInv, Settling, vars, disk
<1>2. Resumes'
  BY <1>1, SameBatch, Zenon
<1> QED
  BY <1>1, <1>2, ConsumerMoves, Zenon

(* and so does the choice of the next batch: it reaches the end of one     *)
(* that was begun and not finished.                                        *)
LEMMA BeginSettles ==
  ASSUME StoreInv, ConsumeBegin
  PROVE  Settling'
<1> DEFINE lo == Committed + 1
           hi == IF Len(log) - Committed > MaxBatchSize THEN Committed + MaxBatchSize ELSE Len(log)
<1>0. IInv /\ Resumes
  BY Zenon DEF StoreInv, Settling
<1>1. Typing
  BY <1>0, Types
<1>2. con.pc = "idle" /\ UNCHANGED <<log, redo, content, shardNum, vec, req, faults>>
  BY Zenon DEF ConsumeBegin, disk
<1>3. PICK m \in BatchEnds(lo, hi) :
        con' = [Idle EXCEPT !.pc = "redoRead", !.lo = lo, !.cur = m, !.hi = hi]
  BY Zenon DEF ConsumeBegin
<1>4. con'.pc = "redoRead" /\ con'.lo = lo /\ con'.cur = m /\ con'.hi = hi
  BY <1>3 DEF Idle
<1>5. m \in lo .. hi /\ (m = hi \/ BatchFull(lo, m)) /\ NotFull(lo, m)
  BY <1>3, Zenon DEF BatchEnds, NotFull
<1>6. hi <= Committed + MaxBatchSize
  BY <1>1, SMTT(30) DEF Typing
<1>7. ASSUME ~Finished PROVE redo.read[2] <= m
  <2>1. redo.read[1] = lo /\ redo.read[2] \in lo .. Len(log)
    BY <1>0, <1>7, Zenon DEF IInv, NothingUnwrittenTruncated
  <2>2. redo.read[2] <= Committed + MaxBatchSize /\ NotFull(lo, redo.read[2])
    BY <1>0, <1>7, <2>1, Zenon DEF Resumes
  <2>3. redo.read[2] <= hi
    BY <1>1, <2>1, <2>2 DEF Typing
  <2>4. CASE m = hi
    BY <2>3, <2>4, Zenon
  <2>5. CASE BatchFull(lo, m)
    <3>1. m \notin lo .. redo.read[2] - 1
      BY <2>2, <2>5, Zenon DEF NotFull
    <3>2. m \in Nat /\ lo <= m /\ redo.read[2] \in Nat
      BY <1>1, <1>5 DEF Typing
    <3>3. lo \in Nat
      BY <1>1, SMTT(30) DEF Typing
    <3> HIDE DEF lo
    <3> QED
      BY <3>1, <3>2, <3>3
  <2> QED
    BY <1>5, <2>4, <2>5, Zenon
<1> HIDE DEF hi
<1>8. Resumes'
  <2>1. PICK a, b, c, d : a = redo.read[1] /\ b = redo.read[2] /\ c = con'.lo /\ d = con'.cur
    BY Zenon
  <2>2. Finished' = Finished
    BY <1>2, Zenon DEF Finished
  <2>3. NotFull(c, d) /\ con'.hi <= Committed + MaxBatchSize
    BY <1>4, <1>5, <1>6, <2>1, Zenon
  <2>4. NotFull(a, b)' = NotFull(a, b) /\ NotFull(c, d)' = NotFull(c, d)
    BY <1>2, SameFull, Zenon
  <2>5. NotFull(con.lo, con.cur)'
    BY <2>1, <2>3, <2>4, Zenon
  <2>6. (~Finished)' => NotFull(redo.read[1], redo.read[2])' /\ redo.read[2] <= Committed + MaxBatchSize
    BY <1>0, <1>2, <2>1, <2>2, <2>4, Zenon DEF Resumes
  <2> QED
    BY <1>2, <1>4, <1>7, <2>2, <2>3, <2>5, <2>6, Zenon DEF Resumes
<1>9. con'.pc \notin {"write", "vectors"} /\ con.pc \notin {"write", "vectors"}
  BY <1>2, <1>4
<1> QED
  BY <1>2, <1>8, <1>9, ConsumerMoves, Zenon

(* When a new shard is made nothing is left of an unfinished batch.        *)
LEMMA CheckShardsSettles ==
  ASSUME StoreInv, ConsumeCheckShards
  PROVE  Settling'
<1>0. IInv /\ Settling
  BY Zenon DEF StoreInv
<1>1. Typing
  BY <1>0, Types
<1>2. con.pc = "check" /\ con' = Idle /\ UNCHANGED <<log, redo, content, vec, req, faults>>
  BY Zenon DEF ConsumeCheckShards
<1>3. Finished
  BY <1>0, <1>2, Zenon DEF IInv, ConsumerInv, Finished
<1>4. shardNum' \in Nat /\ shardNum <= shardNum' /\ shardNum \in Nat
  BY <1>1 DEF ConsumeCheckShards, Typing
<1>5. con'.pc \notin {"redoRead", "write", "vectors"}
  BY <1>2 DEF Idle
<1>6. OneAtATime'
  <2>1. \A d \in Doc : Pending(d)' = Pending(d) /\ Asking(d)' = Asking(d)
    BY <1>2, SameOps, Zenon DEF Asking
  <2> QED
    BY <1>0, <2>1, FewerOps, Zenon DEF Settling
<1>7. InMadeShards'
  <2>1. 0 .. shardNum - 1 \subseteq 0 .. shardNum' - 1
    <3>1. \A m, n \in Nat : m <= n => 0 .. m - 1 \subseteq 0 .. n - 1
      OBVIOUS
    <3> QED
      BY <1>4, <3>1, Zenon
  <2> QED
    BY <1>0, <1>2, <2>1, SameCopies, Zenon DEF InMadeShards, Settling
<1>8. OneShard' /\ SingleCopies' /\ NoVecs'
  BY <1>0, <1>2, SameCopies, Zenon DEF OneShard, SingleCopies, NoVecs, Settling
<1>9. Addressing'
  <2>1. ASSUME NEW e \in Entry, Addressed(e) PROVE Addressed(e)'
    <3>1. e.shard < shardNum'
      <4>1. e.shard \in Int
        <5>1. e.shard \in ShardKey
          BY Zenon DEF Entry
        <5> QED
          BY <1>1, <5>1 DEF ShardKey, Latest, Typing
      <4> QED
        BY <1>4, <2>1, <4>1 DEF Addressed
    <3> QED
      BY <2>1, <3>1, Zenon DEF Addressed
  <2>2. ASSUME NEW e, Finds(e) PROVE Finds(e)'
    BY <1>2, <2>2, SameCopies, Zenon DEF Finds, Where
  <2>3. \A c \in Client : req[c] # NoReq => Addressed(req[c])' /\ Finds(req[c])'
    <3> SUFFICES ASSUME NEW c \in Client, req[c] # NoReq PROVE Addressed(req[c])' /\ Finds(req[c])'
      BY Zenon
    <3>1. PICK e \in Entry : e = req[c] /\ e = req'[c]
      BY <1>1, <1>2, Zenon DEF Typing
    <3>2. Addressed(e) /\ Finds(e)
      BY <1>0, <3>1, Zenon DEF Addressing, Settling
    <3>3. Addressed(e)' /\ Finds(e)'
      BY <2>1, <2>2, <3>2, Zenon
    <3> QED
      BY <3>1, <3>3, Zenon DEF Addressed, Finds
  <2>4. ASSUME NEW i \in DOMAIN log PROVE Addressed(log[i])'
    <3>1. PICK e \in Entry : e = log[i] /\ e = log'[i]
      BY <1>1, <1>2, Zenon DEF Typing
    <3>2. Addressed(e)
      BY <1>0, <3>1, Zenon DEF Addressing, Settling
    <3>3. Addressed(e)'
      BY <2>1, <3>2, Zenon
    <3> QED
      BY <3>1, <3>3, Zenon DEF Addressed
  <2>5. ASSUME NEW i \in Committed + 1 .. Len(log) PROVE Finds(log[i])'
    <3>1. Finds(log[i])
      BY <1>0, <1>3, Zenon DEF Addressing, Settling, Inserted, MayBeWritten
    <3> QED
      BY <1>2, <3>1, Zenon DEF Finds, Where
  <2> QED
    BY <1>2, <2>3, <2>4, <2>5, Zenon DEF Addressing
<1>10. Resumes'
  BY <1>0, <1>2, <1>5, SameBatch, Zenon DEF Settling
<1>11. DocsWritten' /\ VecsWritten'
  BY <1>5, Zenon DEF DocsWritten, VecsWritten
<1>12. VecsShown'
  BY <1>0, <1>2, SameOps, Zenon DEF VecsShown, ShownVec, IsDelete, Settling
<1> QED
  BY <1>6, <1>7, <1>8, <1>9, <1>10, <1>11, <1>12, Zenon DEF Settling

(* What holds of the copies holds when the log, the redo log's commit, the *)
(* copies and the vectors stay.                                            *)
LEMMA SameDisk ==
  ASSUME Settling, UNCHANGED <<log, content, shardNum, vec, req, faults>>, redo'.write = redo.write
  PROVE  OneAtATime' /\ InMadeShards' /\ OneShard' /\ SingleCopies' /\ NoVecs' /\ VecsShown'
<1>1. \A d \in Doc : Pending(d)' = Pending(d) /\ Asking(d)' = Asking(d)
  BY Zenon DEF Pending, Asking
<1>2. OneAtATime'
  BY <1>1, FewerOps, Zenon DEF Settling
<1>3. InMadeShards' /\ OneShard' /\ SingleCopies' /\ NoVecs'
  BY SameCopies, Zenon DEF InMadeShards, OneShard, SingleCopies, NoVecs, Settling
<1>4. \A d \in Doc : AckedVec(d)' = AckedVec(d)
  BY Zenon DEF AckedVec, OpsOn, IsDelete
<1>5. VecsShown'
  <2>1. \A d \in Doc : Pending(d)' = {} => ShownVec(d)' = AckedVec(d)'
    BY <1>1, <1>4, Zenon DEF VecsShown, ShownVec, Settling
  <2>2. ASSUME NEW i \in Committed + 1 .. Len(log), ~IsDelete(i), ~log[i].vector
        PROVE  ShownVec(log[i].doc)' = AckedVec(log[i].doc)'
    <3>1. ShownVec(log[i].doc) = AckedVec(log[i].doc)
      BY <2>2, Zenon DEF VecsShown, Settling
    <3> QED
      BY <3>1, Zenon DEF ShownVec, AckedVec, OpsOn, IsDelete
  <2> QED
    BY <2>1, <2>2, Zenon DEF VecsShown, IsDelete
<1> QED
  BY <1>2, <1>3, <1>5, Zenon

(* The batch is recorded as begun.                                         *)
LEMMA RedoReadSettles ==
  ASSUME StoreInv, ConsumeRedoRead
  PROVE  Settling'
<1>0. IInv /\ Settling
  BY Zenon DEF StoreInv
<1>1. Typing /\ con \in ConsumerState /\ redo \in RedoLog
  BY <1>0, Types, Zenon DEF IInv, TypeOK
<1>2. con.pc = "redoRead" /\ UNCHANGED <<log, content, shardNum, vec, req, faults>>
  BY Zenon DEF ConsumeRedoRead
<1>3. /\ con'.pc = "write" /\ con'.lo = con.lo /\ con'.cur = con.cur /\ con'.hi = con.hi
      /\ con'.todo = Keys(con.lo, con.cur)
  BY <1>1, Zenon DEF ConsumeRedoRead, ConsumerState
<1>4. redo'.write = redo.write /\ redo'.read = <<con.lo, con.cur>>
  BY <1>1, Zenon DEF ConsumeRedoRead, RedoLog
<1>5. redo'.read[1] = con.lo /\ redo'.read[2] = con.cur
  BY <1>4
<1>6. con.lo = Committed + 1 /\ con.cur \in con.lo .. con.hi /\ con.hi <= Len(log)
  BY <1>0, <1>2, Zenon DEF IInv, ConsumerInv
<1>7. ~Finished'
  <2>1. con.cur # Committed /\ con.cur # 0 /\ NotFound[2] = 0
    BY <1>1, <1>6 DEF Typing, NotFound
  <2>2. redo'.read # NotFound
    BY <1>5, <2>1, Zenon
  <2>3. redo'.read # redo'.write
    <3>1. redo'.read[2] # redo'.write[2]
      BY <1>4, <1>5, <2>1, Zenon
    <3> QED
      BY <3>1, Zenon
  <2> QED
    BY <2>2, <2>3, Zenon DEF Finished
<1>8. OneAtATime' /\ InMadeShards' /\ OneShard' /\ SingleCopies' /\ NoVecs' /\ VecsShown'
  BY <1>0, <1>2, <1>4, SameDisk, Zenon
<1>9. Resumes'
  <2>1. con.hi <= Committed + MaxBatchSize /\ NotFull(con.lo, con.cur)
    BY <1>0, <1>2, Zenon DEF Settling, Resumes
  <2>2. con.cur <= Committed + MaxBatchSize
    BY <1>1, <1>6, <2>1, SMTT(30) DEF Typing
  <2>3. PICK a, b : a = con.lo /\ b = con.cur
    BY Zenon
  <2>4. NotFull(a, b)'
    BY <1>2, <2>1, <2>3, SameFull, Zenon
  <2>5. NotFull(con.lo, con.cur)' /\ NotFull(redo.read[1], redo.read[2])'
    BY <1>3, <1>5, <2>3, <2>4, Zenon
  <2> QED
    BY <1>3, <1>4, <1>5, <2>1, <2>2, <2>5, Zenon DEF Resumes
<1>10. Addressing'
  <2>1. ASSUME NEW i \in Committed + 1 .. Len(log), Inserted(i) PROVE Inserted(i)'
    <3>1. MayBeWritten(i)
      BY <2>1, Zenon DEF Inserted
    <3>2. i <= redo.read[2] /\ redo.read[2] <= con.cur /\ faults # 0 /\ log[i].action = "insert"
      BY <1>0, <1>2, <3>1, ZenonT(40) DEF MayBeWritten, Settling, Resumes
    <3>3. i <= con.cur
      BY <1>1, <3>2, SMTT(30) DEF Typing
    <3>4. MayBeWritten(i)'
      BY <1>2, <1>5, <1>7, <3>2, <3>3, Zenon DEF MayBeWritten
    <3>5. PICK d : d = log[i].doc /\ d = log'[i].doc
      BY <1>2, Zenon
    <3>6. Where(d)' \subseteq {shardNum' - 1} /\ Shown(d)' \subseteq {i}
      BY <1>2, <2>1, <3>5, SameCopies, Zenon DEF Inserted
    <3> QED
      BY <3>4, <3>5, <3>6, Zenon DEF Inserted
  <2>2. \A c \in Client : req[c] # NoReq => Addressed(req[c])' /\ Finds(req[c])'
    BY <1>0, <1>2, Zenon DEF Addressing, Settling, Addressed, Finds, Where
  <2>3. \A i \in DOMAIN log : Addressed(log[i])'
    BY <1>0, <1>2, Zenon DEF Addressing, Settling, Addressed
  <2>4. ASSUME NEW i \in Committed + 1 .. Len(log) PROVE (Finds(log[i]) \/ Inserted(i))'
    <3>1. CASE Finds(log[i])
      BY <1>2, <3>1, Zenon DEF Finds, Where
    <3> QED
      BY <1>0, <2>1, <3>1, Zenon DEF Addressing, Settling
  <2> QED
    BY <1>2, <1>4, <2>2, <2>3, <2>4, Zenon DEF Addressing
<1>11. \A i \in con'.lo .. con'.cur : log'[i].shard \in con'.todo
  BY <1>2, <1>3, Zenon DEF Keys
<1>12. DocsWritten' /\ VecsWritten'
  BY <1>11, Zenon DEF DocsWritten, VecsWritten
<1> QED
  BY <1>8, <1>9, <1>10, <1>12, Zenon DEF Settling

(* The batch is recorded as written: all its operations are shown.         *)
LEMMA RedoWriteSettles ==
  ASSUME StoreInv, ConsumeRedoWrite
  PROVE  Settling'
<1>0. IInv /\ Settling
  BY Zenon DEF StoreInv
<1>1. Typing
  BY <1>0, Types
<1>2. con.pc = "write" /\ con.todo = {} /\ UNCHANGED <<log, content, shardNum, vec, req, faults>>
  BY Zenon DEF ConsumeRedoWrite
<1>3. /\ con.lo = Committed + 1 /\ redo.read[2] = con.cur /\ con.cur <= con.hi /\ con.hi <= Len(log)
      /\ redo.read = <<con.lo, con.cur>> /\ con.cur \in con.lo .. con.hi
  BY <1>0, <1>2, InBatch, Zenon DEF IInv, ConsumerInv
<1>4. redo'.read = redo.read /\ redo'.write = <<con.lo, con.cur>>
  BY <1>0, RedoWriteStep, SMTT(30)
<1>5. redo'.write[2] = con.cur /\ Finished'
  BY <1>3, <1>4 DEF Finished
<1>6. Committed < con.cur /\ con.cur \in Nat /\ con.cur <= Len(log)
  BY <1>1, <1>3 DEF Typing
<1>7. con.cur + 1 .. Len(log) \subseteq Committed + 1 .. Len(log)
  BY <1>1, <1>6 DEF Typing
<1>8. /\ con'.pc \in {"truncate", "redoRead"}
      /\ con'.pc = "redoRead" => con'.hi = con.hi /\ NotFull(con'.lo, con'.cur)
  <2>1. con \in ConsumerState
    BY <1>0, Zenon DEF IInv, TypeOK
  <2>2. CASE con.cur = con.hi
    <3>1. con'.pc = "truncate"
      BY <2>1, <2>2, Zenon DEF ConsumeRedoWrite, ConsumerState
    <3> QED
      BY <3>1
  <2>3. CASE con.cur # con.hi
    <3>1. PICK m \in BatchEnds(con.cur + 1, con.hi) :
            con' = [con EXCEPT !.pc = "redoRead", !.lo = con.cur + 1, !.cur = m]
      BY <2>3, Zenon DEF ConsumeRedoWrite
    <3>2. con'.pc = "redoRead" /\ con'.lo = con.cur + 1 /\ con'.cur = m /\ con'.hi = con.hi
      BY <2>1, <3>1, Zenon DEF ConsumerState
    <3>3. NotFull(con.cur + 1, m)
      BY <3>1, Zenon DEF BatchEnds, NotFull
    <3> QED
      BY <3>2, <3>3, Zenon
  <2> QED
    BY <2>2, <2>3, Zenon
<1>9. OneAtATime'
  <2>1. \A d \in Doc : Pending(d)' \subseteq Pending(d) /\ Asking(d)' = Asking(d)
    BY <1>2, <1>5, <1>7, Zenon DEF Pending, Asking
  <2> QED
    BY <1>0, <2>1, FewerOps, Zenon DEF Settling
<1>10. InMadeShards' /\ OneShard' /\ SingleCopies' /\ NoVecs'
  BY <1>0, <1>2, SameCopies, Zenon DEF InMadeShards, OneShard, SingleCopies, NoVecs, Settling
<1>11. Addressing'
  <2>1. \A c \in Client : req[c] # NoReq => Addressed(req[c])' /\ Finds(req[c])'
    BY <1>0, <1>2, Zenon DEF Addressing, Settling, Addressed, Finds, Where
  <2>2. \A i \in DOMAIN log : Addressed(log[i])'
    BY <1>0, <1>2, Zenon DEF Addressing, Settling, Addressed
  <2>3. ASSUME NEW i \in con.cur + 1 .. Len(log) PROVE Finds(log[i])'
    <3>1. ~(i <= redo.read[2])
      BY <1>1, <1>3 DEF Typing
    <3>2. Finds(log[i])
      BY <1>0, <1>7, <3>1, Zenon DEF Addressing, Settling, Inserted, MayBeWritten
    <3> QED
      BY <1>2, <3>2, Zenon DEF Finds, Where
  <2> QED
    BY <1>2, <1>5, <2>1, <2>2, <2>3, Zenon DEF Addressing
<1>12. Resumes'
  <2>1. CASE con'.pc = "truncate"
    BY <1>5, <2>1 DEF Resumes
  <2>2. CASE con'.pc = "redoRead"
    <3>1. PICK a, b : a = con'.lo /\ b = con'.cur
      BY Zenon
    <3>2. NotFull(a, b)'
      BY <1>2, <1>8, <2>2, <3>1, SameFull, Zenon
    <3>3. NotFull(con.lo, con.cur)'
      BY <3>1, <3>2, Zenon
    <3>4. con.hi <= Committed + MaxBatchSize
      BY <1>0, <1>2, Zenon DEF Resumes, Settling
    <3>5. con'.hi <= con.cur + MaxBatchSize
      BY <1>1, <1>6, <1>8, <2>2, <3>4, SMTT(30) DEF Typing
    <3> QED
      BY <1>5, <3>3, <3>5, Zenon DEF Resumes
  <2> QED
    BY <1>8, <2>1, <2>2
<1>13. DocsWritten' /\ VecsWritten'
  BY <1>8 DEF DocsWritten, VecsWritten
<1>14. VecsShown'
  <2>1. \A d \in Doc : ShownVec(d)' = ShownVec(d) /\ AckedVec(d)' = AckedVec(d)
    BY <1>2, Zenon DEF ShownVec, AckedVec, OpsOn, IsDelete
  <2>2. ASSUME NEW d \in Doc, Pending(d)' = {} PROVE ShownVec(d) = AckedVec(d)
    <3>1. CASE Pending(d) = {}
      BY <1>0, <3>1, Zenon DEF Settling, VecsShown
    <3>2. CASE Pending(d) # {}
      <4>1. PICK i \in Pending(d) : TRUE
        BY <3>2, Zenon
      <4>2. i \in Committed + 1 .. Len(log) /\ log[i].doc = d
        BY <4>1, Zenon DEF Pending
      <4>3. i \notin con.cur + 1 .. Len(log)
        BY <1>2, <1>5, <2>2, <4>2, ZenonT(40) DEF Pending
      <4>4. i \in con.lo .. con.cur
        BY <1>1, <1>3, <1>6, <4>2, <4>3, SMTT(30) DEF Typing
      <4> QED
        BY <1>0, <1>2, <4>2, <4>4 DEF Settling, VecsWritten
    <3> QED
      BY <3>1, <3>2, Zenon
  <2>3. ASSUME NEW i \in con.cur + 1 .. Len(log), ~IsDelete(i), ~log[i].vector
        PROVE  ShownVec(log[i].doc)' = AckedVec(log[i].doc)'
    <3>1. ShownVec(log[i].doc) = AckedVec(log[i].doc)
      BY <1>0, <1>7, <2>3, Zenon DEF VecsShown, Settling
    <3> QED
      BY <1>2, <3>1, Zenon DEF ShownVec, AckedVec, OpsOn, IsDelete
  <2>4. \A i : IsDelete(i)' = IsDelete(i)
    BY <1>2, Zenon DEF IsDelete
  <2> QED
    BY <1>2, <1>5, <2>1, <2>2, <2>3, <2>4, Zenon DEF VecsShown
<1> QED
  BY <1>9, <1>10, <1>11, <1>12, <1>13, <1>14, Zenon DEF Settling

(* The copies of a document that WriteToShard does not touch stay.         *)
LEMMA Untouched ==
  ASSUME NEW d, DOMAIN content' = DOMAIN content, \A s \in DOMAIN content : content'[s][d] = content[s][d]
  PROVE  Where(d)' = Where(d) /\ Shown(d)' = Shown(d)
<1>1. Where(d)' = Where(d)
  BY DEF Where
<1>2. Shown(d)' = Shown(d)
  BY DEF Shown
<1> QED
  BY <1>1, <1>2, Zenon

(* The documents of one shard key are written: their operations are shown, *)
(* and all their copies are in the shard the writer chose.                 *)
LEMMA WriteDocsSettles ==
  ASSUME StoreInv, NEW k \in ShardKey, ConsumeWriteDocs(k)
  PROVE  Settling'
<1>0. IInv /\ Settling
  BY Zenon DEF StoreInv
<1>1. Typing /\ con \in ConsumerState
  BY <1>0, Types, Zenon DEF IInv, TypeOK
<1>2. con.pc = "write" /\ k \in con.todo /\ UNCHANGED <<log, redo, shardNum, vec, req, faults>>
  BY Zenon DEF ConsumeWriteDocs
<1>3. /\ con'.pc = "vectors" /\ con'.lo = con.lo /\ con'.cur = con.cur /\ con'.hi = con.hi
      /\ con'.key = k /\ con'.todo = con.todo \ {k}
  BY <1>1, Zenon DEF ConsumeWriteDocs, ConsumerState
<1>4. DOMAIN content' = DOMAIN content /\ DOMAIN content = 0 .. MaxShards - 1
  BY <1>1, Zenon DEF ConsumeWriteDocs, WrittenDocs, Typing
<1>5. \A i \in con.lo .. con.cur : \A j \in con.lo .. con.cur : log[j].doc = log[i].doc => j = i
  BY <1>0, <1>2, OneOp, Zenon DEF Settling
<1>6. ASSUME NEW d \in Doc, \A i \in con.lo .. con.cur : log[i].doc = d => log[i].shard # k
      PROVE  /\ Where(d)' = Where(d) /\ Shown(d)' = Shown(d)
             /\ \A s \in DOMAIN content : content'[s][d] = content[s][d]
  <2>1. \A s \in DOMAIN content : content'[s][d] = content[s][d]
    BY <1>6, WriteEffect, ZenonT(40)
  <2> QED
    BY <1>4, <2>1, Untouched, Zenon
<1>7. ASSUME NEW d \in Doc, NEW i \in con.lo .. con.cur, log[i].doc = d, log[i].shard = k
      PROVE  Copies(d, i, WriterShard(k))
  <2>1. PICK j \in con.lo .. con.cur : log[j].doc = d /\ Copies(d, j, WriterShard(k))
    BY <1>7, WriteEffect, Zenon
  <2>2. j = i
    BY <1>5, <1>7, <2>1, Zenon
  <2> QED
    BY <2>1, <2>2, Zenon
<1>8. ASSUME NEW d \in Doc
      PROVE  \/ \A i \in con.lo .. con.cur : log[i].doc = d => log[i].shard # k
             \/ \E i \in con.lo .. con.cur : log[i].doc = d /\ log[i].shard = k /\ Copies(d, i, WriterShard(k))
  BY <1>7, Zenon
<1>9. ASSUME NEW i \in con.lo .. con.cur, log[i].shard = k PROVE WriterShard(k) \in 0 .. shardNum - 1
  <2>1. Addressed(log[i])
    BY <1>0, <1>2, InBatch, Zenon DEF Settling, Addressing
  <2>2. k < shardNum
    BY <1>9, <2>1, Zenon DEF Addressed
  <2>3. CASE k = Latest
    BY <1>1, <2>3, SMTT(30) DEF WriterShard, Typing
  <2>4. CASE k # Latest
    <3>1. k \in 0 .. MaxShards - 1 /\ WriterShard(k) = k
      BY <2>4, Zenon DEF WriterShard, ShardKey
    <3> QED
      BY <1>1, <2>2, <3>1 DEF Typing
  <2> QED
    BY <2>3, <2>4, Zenon
<1>10. OneAtATime'
  <2>1. \A d \in Doc : Pending(d)' = Pending(d) /\ Asking(d)' = Asking(d)
    BY <1>2, Zenon DEF Pending, Asking
  <2> QED
    BY <1>0, <2>1, FewerOps, Zenon DEF Settling
<1>11. InMadeShards' /\ OneShard'
  <2>1. ASSUME NEW d \in Doc
        PROVE  Where(d)' \subseteq 0 .. shardNum - 1 /\ \A s, t \in Where(d)' : s = t
    <3>1. CASE \A i \in con.lo .. con.cur : log[i].doc = d => log[i].shard # k
      BY <1>0, <1>6, <3>1, Zenon DEF Settling, InMadeShards, OneShard
    <3>2. CASE \E i \in con.lo .. con.cur : log[i].doc = d /\ log[i].shard = k /\ Copies(d, i, WriterShard(k))
      BY <1>9, <3>2, Zenon DEF Copies
    <3> QED
      BY <1>8, <3>1, <3>2, Zenon
  <2> QED
    BY <1>2, <2>1, Zenon DEF InMadeShards, OneShard
<1>12. SingleCopies'
  <2>1. ASSUME faults = 0, NEW s \in DOMAIN content, NEW d \in Doc PROVE Len(content'[s][d]) <= 1
    <3>1. CASE \A i \in con.lo .. con.cur : log[i].doc = d => log[i].shard # k
      <4>1. content'[s][d] = content[s][d] /\ Len(content[s][d]) <= 1
        BY <1>0, <1>6, <2>1, <3>1, Zenon DEF Settling, SingleCopies
      <4> QED
        BY <4>1, Zenon
    <3>2. CASE \E i \in con.lo .. con.cur : log[i].doc = d /\ log[i].shard = k /\ Copies(d, i, WriterShard(k))
      BY <2>1, <3>2, Zenon DEF Copies
    <3> QED
      BY <1>8, <3>1, <3>2, Zenon
  <2> QED
    BY <1>2, <1>4, <2>1, Zenon DEF SingleCopies
<1>13. Addressing'
  <2>1. ASSUME NEW c \in Client, req[c] # NoReq PROVE Addressed(req[c])' /\ Finds(req[c])'
    <3>1. PICK d \in Doc : d = req[c].doc /\ d = req'[c].doc
      BY <1>1, <1>2, <2>1, Zenon DEF Typing, Entry
    <3>2. Pending(d) = {}
      BY <1>0, <2>1, <3>1, Zenon DEF Settling, OneAtATime, Asking
    <3>3. \A i \in con.lo .. con.cur : log[i].doc # d
      BY <1>0, <1>2, <3>2, InBatch, Zenon DEF Pending
    <3>4. Where(d)' = Where(d)
      BY <1>6, <3>3, Zenon
    <3>5. Addressed(req[c]) /\ Where(d) \subseteq {req[c].shard}
      BY <1>0, <2>1, <3>1, Zenon DEF Settling, Addressing, Finds
    <3> QED
      BY <1>2, <3>1, <3>4, <3>5, Zenon DEF Addressed, Finds
  <2>2. \A i \in DOMAIN log : Addressed(log[i])'
    BY <1>0, <1>2, Zenon DEF Addressing, Settling, Addressed
  <2>3. ASSUME NEW i \in Committed + 1 .. Len(log) PROVE (Finds(log[i]) \/ Inserted(i))'
    <3>0. i \in 1 .. Len(log)
      BY <1>1, SMTT(30) DEF Typing
    <3>1. PICK d \in Doc : d = log[i].doc /\ d = log'[i].doc
      BY <1>1, <1>2, <3>0, Zenon DEF Typing, Entry
    <3>2. Latest \notin con'.todo \/ Latest \in con.todo
      BY <1>3, Zenon
    <3>3. Finished' = Finished
      BY <1>2, Zenon DEF Finished
    <3>4. CASE \A j \in con.lo .. con.cur : log[j].doc = d => log[j].shard # k
      <4>1. Where(d)' = Where(d) /\ Shown(d)' = Shown(d)
        BY <1>6, <3>4, Zenon
      <4>2. CASE Finds(log[i])
        BY <1>2, <3>1, <4>1, <4>2, Zenon DEF Finds
      <4>3. CASE Inserted(i)
        <5>1. MayBeWritten(i)'
          BY <1>2, <1>3, <3>2, <3>3, <4>3, Zenon DEF Inserted, MayBeWritten
        <5> QED
          BY <1>2, <3>1, <4>1, <4>3, <5>1, Zenon DEF Inserted
      <4> QED
        BY <1>0, <4>2, <4>3, Zenon DEF Settling, Addressing
    <3>5. CASE \E j \in con.lo .. con.cur : log[j].doc = d /\ log[j].shard = k /\ Copies(d, j, WriterShard(k))
      <4>1. PICK j \in con.lo .. con.cur : log[j].doc = d /\ log[j].shard = k /\ Copies(d, j, WriterShard(k))
        BY <3>5, Zenon
      <4>2. i = j
        <5>1. i \in Pending(d) /\ j \in Pending(d)
          BY <1>0, <1>2, <3>1, <4>1, InBatch, Zenon DEF Pending
        <5> QED
          BY <1>0, <5>1, Zenon DEF Settling, OneAtATime
      <4>3. /\ Where(d)' \subseteq {WriterShard(k)} /\ (IsDelete(i) => Where(d)' = {})
            /\ Shown(d)' \subseteq {i} /\ log[i].shard = k
        BY <4>1, <4>2, Zenon DEF Copies
      <4>4. CASE k # Latest
        BY <1>2, <3>1, <4>3, <4>4, Zenon DEF Finds, WriterShard
      <4>5. CASE k = Latest /\ IsDelete(i)
        BY <3>1, <4>3, <4>5, Zenon DEF Finds
      <4>6. CASE k = Latest /\ ~IsDelete(i)
        <5>1. log[i].action = "insert"
          <6>1. Addressed(log[i])
            BY <1>0, <1>1, <3>0, Zenon DEF Settling, Addressing, Typing
          <6> QED
            BY <4>3, <4>6, <6>1, Zenon DEF Addressed, IsDelete
        <5>2. ~Finished /\ redo.read[2] = con.cur /\ i <= con.cur
          <6>1. i \in con.lo .. con.cur /\ con.lo \in Nat /\ con.cur \in Nat
            BY <1>1, <4>2, Zenon DEF Typing
          <6>2. i <= con.cur
            BY <6>1
          <6> QED
            BY <1>0, <1>2, <6>2, InBatch, Zenon
        <5>3. Latest \notin con'.todo
          BY <1>3, <4>6, Zenon
        <5>4. MayBeWritten(i)'
          BY <1>2, <1>3, <3>3, <5>1, <5>2, <5>3, Zenon DEF MayBeWritten
        <5>5. Where(d)' \subseteq {shardNum - 1}
          BY <4>3, <4>6, Zenon DEF WriterShard
        <5> QED
          BY <1>2, <3>1, <4>3, <5>4, <5>5, Zenon DEF Inserted
      <4> QED
        BY <4>4, <4>5, <4>6, Zenon
    <3> QED
      BY <1>8, <3>4, <3>5, Zenon
  <2> QED
    BY <1>2, <2>1, <2>2, <2>3, Zenon DEF Addressing
<1>14. Resumes'
  <2>1. PICK a, b : a = con.lo /\ b = con.cur
    BY Zenon
  <2>2. NotFull(a, b)' /\ redo.read[1] = a /\ redo.read[2] = b
    BY <1>0, <1>2, <2>1, SameFull, InBatch, Zenon DEF Settling, Resumes
  <2>3. NotFull(con.lo, con.cur)' /\ NotFull(redo.read[1], redo.read[2])'
    BY <1>2, <1>3, <2>1, <2>2, Zenon
  <2>4. con.hi <= Committed + MaxBatchSize /\ redo.read[2] <= Committed + MaxBatchSize
    BY <1>0, <1>2, InBatch, Zenon DEF Settling, Resumes
  <2> QED
    BY <1>2, <1>3, <2>3, <2>4 DEF Resumes
<1>15. DocsWritten'
  <2>1. ASSUME NEW i \in con.lo .. con.cur, log[i].shard \notin con'.todo
        PROVE  Shown(log[i].doc)' = AckedDoc(log[i].doc)'
    <3>1. PICK d \in Doc : d = log[i].doc /\ d = log'[i].doc
      BY <1>0, <1>2, OneOp, Zenon DEF Settling, Entry
    <3>2. AckedDoc(d)' = AckedDoc(d)
      BY <1>2, SameOps, Zenon
    <3>3. CASE log[i].shard = k
      <4>1. Shown(d)' = IF IsDelete(i) THEN {} ELSE {i}
        BY <1>7, <3>1, <3>3, Zenon DEF Copies
      <4>2. AckedDoc(d) = IF IsDelete(i) THEN {} ELSE {i}
        BY <1>0, <1>1, <1>2, <3>1, OneOp, PendingAcked, Zenon DEF Settling
      <4> QED
        BY <1>2, <3>1, <3>2, <4>1, <4>2, Zenon
    <3>4. CASE log[i].shard # k
      <4>1. Shown(d)' = Shown(d)
        BY <1>5, <1>6, <3>1, <3>4, Zenon
      <4>2. Shown(d) = AckedDoc(d)
        BY <1>0, <1>2, <1>3, <2>1, <3>1, <3>4, Zenon DEF Settling, DocsWritten
      <4> QED
        BY <1>2, <3>1, <3>2, <4>1, <4>2, Zenon
    <3> QED
      BY <3>3, <3>4, Zenon
  <2> QED
    BY <1>2, <1>3, <2>1, Zenon DEF DocsWritten
<1>16. VecsWritten'
  <2>1. ASSUME NEW i \in con.lo .. con.cur, log[i].shard \notin con'.todo, log[i].shard # k
        PROVE  ShownVec(log[i].doc) = AckedVec(log[i].doc)
    <3>1. log[i].shard \notin con.todo
      BY <1>3, <2>1, Zenon
    <3> QED
      BY <1>0, <1>2, <3>1 DEF Settling, VecsWritten
  <2>2. \A d : ShownVec(d)' = ShownVec(d) /\ AckedVec(d)' = AckedVec(d)
    BY <1>2, SameOps, Zenon DEF ShownVec
  <2> QED
    BY <1>2, <1>3, <2>1, <2>2, Zenon DEF VecsWritten, ShownVec
<1>17. NoVecs' /\ VecsShown'
  BY <1>0, <1>2, SameOps, Zenon DEF NoVecs, VecsShown, ShownVec, IsDelete, Settling
<1> QED
  BY <1>10, <1>11, <1>12, <1>13, <1>14, <1>15, <1>16, <1>17, Zenon DEF Settling

(* The vectors of one shard key are written.                               *)
LEMMA WriteVecsSettles ==
  ASSUME StoreInv, ConsumeWriteVecs
  PROVE  Settling'
<1>0. IInv /\ Settling
  BY Zenon DEF StoreInv
<1>1. Typing /\ con \in ConsumerState
  BY <1>0, Types, Zenon DEF IInv, TypeOK
<1>2. con.pc = "vectors" /\ UNCHANGED <<log, redo, content, shardNum, req, faults>>
  BY Zenon DEF ConsumeWriteVecs
<1>3. /\ con'.pc = "write" /\ con'.lo = con.lo /\ con'.cur = con.cur /\ con'.hi = con.hi
      /\ con'.todo = con.todo
  BY <1>1, Zenon DEF ConsumeWriteVecs, ConsumerState
<1>4. \A d : AckedVec(d)' = AckedVec(d) /\ AckedDoc(d)' = AckedDoc(d) /\ Pending(d)' = Pending(d)
  BY <1>2, SameOps, Zenon
<1>5. OneAtATime'
  <2>1. \A d \in Doc : Pending(d)' = Pending(d) /\ Asking(d)' = Asking(d)
    BY <1>2, <1>4, Zenon DEF Asking
  <2> QED
    BY <1>0, <2>1, FewerOps, Zenon DEF Settling
<1>6. InMadeShards' /\ OneShard' /\ SingleCopies'
  BY <1>0, <1>2, SameCopies, Zenon DEF InMadeShards, OneShard, SingleCopies, Settling
<1>7. Addressing'
  <2>1. \A c \in Client : req[c] # NoReq => Addressed(req[c])' /\ Finds(req[c])'
    BY <1>0, <1>2, Zenon DEF Addressing, Settling, Addressed, Finds, Where
  <2>2. \A i \in DOMAIN log : Addressed(log[i])'
    BY <1>0, <1>2, Zenon DEF Addressing, Settling, Addressed
  <2>3. ASSUME NEW i \in Committed + 1 .. Len(log) PROVE (Finds(log[i]) \/ Inserted(i))'
    <3>1. CASE Finds(log[i])
      BY <1>2, <3>1, Zenon DEF Finds, Where
    <3>2. CASE Inserted(i)
      <4>1. MayBeWritten(i)'
        BY <1>2, <1>3, <3>2, Zenon DEF Inserted, MayBeWritten, Finished
      <4>2. PICK d : d = log[i].doc /\ d = log'[i].doc
        BY <1>2, Zenon
      <4>3. Where(d)' \subseteq {shardNum' - 1} /\ Shown(d)' \subseteq {i}
        BY <1>2, <3>2, <4>2, SameCopies, Zenon DEF Inserted
      <4> QED
        BY <4>1, <4>2, <4>3, Zenon DEF Inserted
    <3> QED
      BY <1>0, <3>1, <3>2, Zenon DEF Addressing, Settling
  <2> QED
    BY <1>2, <2>1, <2>2, <2>3, Zenon DEF Addressing
<1>8. Resumes'
  <2>1. PICK a, b : a = con.lo /\ b = con.cur
    BY Zenon
  <2>2. NotFull(a, b)' /\ redo.read[1] = a /\ redo.read[2] = b
    BY <1>0, <1>2, <2>1, SameFull, InBatch, Zenon DEF Settling, Resumes
  <2>3. NotFull(con.lo, con.cur)' /\ NotFull(redo.read[1], redo.read[2])'
    BY <1>2, <1>3, <2>1, <2>2, Zenon
  <2>4. con.hi <= Committed + MaxBatchSize /\ redo.read[2] <= Committed + MaxBatchSize
    BY <1>0, <1>2, InBatch, Zenon DEF Settling, Resumes
  <2> QED
    BY <1>2, <1>3, <2>3, <2>4 DEF Resumes
<1>9. DocsWritten'
  BY <1>0, <1>2, <1>3, <1>4, SameCopies, Zenon DEF DocsWritten, Settling
<1>10. NoVecs'
  <2>1. ~HasVec => \A d \in Doc : vec'[d] = vec[d]
    BY Zenon DEF ConsumeWriteVecs, WrittenVecs
  <2> QED
    BY <1>0, <2>1, Zenon DEF NoVecs, Settling
<1>11. \A d \in Doc : vec'[d] = vec[d] => ShownVec(d)' = ShownVec(d)
  BY Zenon DEF ShownVec
<1>12. VecsWritten'
  <2>1. ASSUME NEW i \in con.lo .. con.cur, log[i].shard \notin con.todo
        PROVE  ShownVec(log[i].doc)' = AckedVec(log[i].doc)'
    <3>1. PICK d \in Doc : d = log[i].doc /\ d = log'[i].doc
      BY <1>0, <1>2, OneOp, Zenon DEF Settling, Entry
    <3>2. CASE log[i].shard = con.key
      <4>1. ShownVec(d)' = AckedVec(d)
        BY <3>1, <3>2, VecEffect, Zenon
      <4> QED
        BY <1>2, <1>4, <3>1, <4>1, Zenon DEF ShownVec
    <3>3. CASE log[i].shard # con.key
      <4>1. ShownVec(d) = AckedVec(d)
        BY <1>0, <1>2, <2>1, <3>1, <3>3, Zenon DEF Settling, VecsWritten
      <4>2. ShownVec(d)' = AckedVec(d)
        BY <1>11, <4>1, VecEffect, Zenon
      <4> QED
        BY <1>2, <1>4, <3>1, <4>2, Zenon DEF ShownVec
    <3> QED
      BY <3>2, <3>3, Zenon
  <2> QED
    BY <1>2, <1>3, <2>1, Zenon DEF VecsWritten
<1>13. VecsShown'
  <2>1. ASSUME NEW d \in Doc, Pending(d) = {} PROVE ShownVec(d)' = AckedVec(d)'
    <3>1. \A i \in con.lo .. con.cur : log[i].doc # d
      BY <1>0, <1>2, <2>1, InBatch, Zenon DEF Pending
    <3>2. vec'[d] = vec[d]
      BY <3>1, VecEffect, Zenon
    <3> QED
      BY <1>0, <1>4, <1>11, <2>1, <3>2, Zenon DEF VecsShown, Settling
  <2>2. ASSUME NEW i \in Committed + 1 .. Len(log), ~IsDelete(i), ~log[i].vector
        PROVE  ShownVec(log[i].doc)' = AckedVec(log[i].doc)'
    <3>0. i \in 1 .. Len(log)
      BY <1>1, SMTT(30) DEF Typing
    <3>1. PICK d \in Doc : d = log[i].doc /\ d = log'[i].doc
      BY <1>1, <1>2, <3>0, Zenon DEF Typing, Entry
    <3>2. ShownVec(d) = AckedVec(d)
      BY <1>0, <2>2, <3>1, Zenon DEF VecsShown, Settling
    <3>3. ShownVec(d)' = AckedVec(d)
      BY <1>11, <3>2, VecEffect, Zenon
    <3> QED
      BY <1>2, <1>4, <3>1, <3>3, Zenon DEF ShownVec
  <2>3. \A i : IsDelete(i)' = IsDelete(i)
    BY <1>2, Zenon DEF IsDelete
  <2> QED
    BY <1>2, <1>4, <2>1, <2>2, <2>3, Zenon DEF VecsShown
<1> QED
  BY <1>5, <1>6, <1>7, <1>8, <1>9, <1>10, <1>12, <1>13, Zenon DEF Settling

(* FindShardByDocID finds the shard with all the copies, or there are none. *)
LEMMA FoundAll ==
  ASSUME StoreInv, NEW d \in Doc, NEW s \in Found(d)
  PROVE  /\ Where(d) \subseteq {s} /\ s < shardNum /\ s \in ShardKey
         /\ s # Latest => s \in Where(d)
<1>1. Typing /\ InMadeShards /\ OneShard
  BY Types, Zenon DEF StoreInv, Settling
<1>2. 0 .. shardNum - 1 \subseteq DOMAIN content
  <2>1. DOMAIN content = 0 .. MaxShards - 1
    BY <1>1, Zenon DEF Typing
  <2> QED
    BY <1>1, <2>1 DEF Typing
<1>3. {t \in 0 .. shardNum - 1 : content[t][d] # << >>} = Where(d)
  BY <1>1, <1>2, Zenon DEF Where, InMadeShards
<1>4. Found(d) = IF Where(d) = {} THEN {Latest} ELSE Where(d)
  BY <1>3, Zenon DEF Found
<1>5. CASE Where(d) = {}
  <2>1. s = Latest /\ Latest < shardNum
    BY <1>1, <1>4, <1>5 DEF Latest, Typing
  <2> QED
    BY <1>5, <2>1, Zenon DEF ShardKey
<1>6. CASE Where(d) # {}
  <2>1. s \in Where(d) /\ Where(d) \subseteq {s} /\ s \in 0 .. shardNum - 1
    BY <1>1, <1>4, <1>6, Zenon DEF OneShard, InMadeShards
  <2>2. s < shardNum /\ s \in 0 .. MaxShards - 1
    BY <1>1, <2>1 DEF Typing
  <2> QED
    BY <2>1, <2>2, Zenon DEF ShardKey
<1> QED
  BY <1>5, <1>6, Zenon

(* A handler decides on an operation that is addressed to that shard, on a *)
(* document that has no other one.                                         *)
LEMMA HandlerDecides ==
  ASSUME StoreInv, Patient, ~SearchFails, Handler
  PROVE  /\ UNCHANGED <<log, redo, content, shardNum, vec, con, faults>>
         /\ \E c \in Client, e \in Entry :
              /\ req' = [req EXCEPT ![c] = e] /\ Addressed(e) /\ Finds(e)
              /\ Pending(e.doc) = {} /\ Asking(e.doc) = {}
<1>1. PICK c \in Client, d \in Doc : Upsert(c, d) \/ Update(c, d) \/ Delete(c, d)
  BY Zenon DEF Handler, UpsertMisses
<1>2. Pending(d) = {} /\ Asking(d) = {}
  BY <1>1, Zenon DEF Upsert, Update, Delete, MayAddress, Unsettled, Pending, Asking
<1>3. ASSUME NEW action \in Action, NEW s \in Found(d), NEW v \in BOOLEAN, Decide(c, d, action, s, v),
             s = Latest <=> action \in {"insert", "deleteVecOnly"},
             action \in {"delete", "deleteVecOnly"} => ~v, v => HasVec
      PROVE  /\ UNCHANGED <<log, redo, content, shardNum, vec, con>>
             /\ \E e \in Entry :
                  /\ req' = [req EXCEPT ![c] = e] /\ Addressed(e) /\ Finds(e)
                  /\ Pending(e.doc) = {} /\ Asking(e.doc) = {}
  <2> DEFINE e == [doc |-> d, action |-> action, shard |-> s, vector |-> v]
  <2>1. Where(d) \subseteq {s} /\ s < shardNum /\ s \in ShardKey
    BY FoundAll, Zenon
  <2>2. e \in Entry /\ e.doc = d /\ e.action = action /\ e.shard = s /\ e.vector = v
    BY <2>1, Zenon DEF Entry
  <2>3. req' = [req EXCEPT ![c] = e] /\ UNCHANGED <<log, redo, content, shardNum, vec, con>>
    BY <1>3, Zenon DEF Decide, disk
  <2> HIDE DEF e
  <2>4. Addressed(e) /\ Finds(e)
    BY <1>3, <2>1, <2>2, Zenon DEF Addressed, Finds
  <2> QED
    BY <1>2, <2>2, <2>3, <2>4, Zenon
<1>4. \A v \in Vectors : v \in BOOLEAN /\ (v => HasVec)
  <2>1. HasVec \in BOOLEAN
    BY WalAssumption, Zenon
  <2> QED
    BY <2>1, Zenon DEF Vectors
<1>5. UNCHANGED faults
  BY <1>1, Zenon DEF Upsert, Update, Delete
<1>6. CASE Upsert(c, d)
  <2>1. PICK s \in Found(d), v \in Vectors : Decide(c, d, IF s = Latest THEN "insert" ELSE "update", s, v)
    BY <1>6, Zenon DEF Upsert
  <2>2. PICK a : a = IF s = Latest THEN "insert" ELSE "update"
    BY Zenon
  <2>3. /\ a \in Action /\ (s = Latest <=> a \in {"insert", "deleteVecOnly"})
        /\ a \notin {"delete", "deleteVecOnly"}
    BY <2>2 DEF Action
  <2>4. Decide(c, d, a, s, v)
    BY <2>1, <2>2, Zenon
  <2> QED
    BY <1>3, <1>4, <1>5, <2>3, <2>4, Zenon
<1>7. CASE Update(c, d)
  <2>1. PICK s \in Found(d) \ {Latest}, v \in Vectors : Decide(c, d, "update", s, v)
    BY <1>7, Zenon DEF Update
  <2>2. /\ "update" \in Action /\ ~("update" \in {"insert", "deleteVecOnly"})
        /\ ~("update" \in {"delete", "deleteVecOnly"})
    BY DEF Action
  <2> QED
    BY <1>3, <1>4, <1>5, <2>1, <2>2, Zenon
<1>8. CASE Delete(c, d)
  <2>1. PICK s \in Found(d) : Decide(c, d, IF s = Latest THEN "deleteVecOnly" ELSE "delete", s, FALSE)
    BY <1>8, Zenon DEF Delete
  <2>2. PICK a : a = IF s = Latest THEN "deleteVecOnly" ELSE "delete"
    BY Zenon
  <2>3. a \in Action /\ (s = Latest <=> a \in {"insert", "deleteVecOnly"})
    BY <2>2 DEF Action
  <2>4. Decide(c, d, a, s, FALSE)
    BY <2>1, <2>2, Zenon
  <2> QED
    BY <1>3, <1>5, <2>3, <2>4, Zenon
<1> QED
  BY <1>1, <1>6, <1>7, <1>8, Zenon

(* The handlers keep the invariant,                                        *)
LEMMA HandlerSettles ==
  ASSUME StoreInv, Patient, ~SearchFails, Handler
  PROVE  Settling'
<1>0. IInv /\ Settling
  BY Zenon DEF StoreInv
<1>1. Typing
  BY <1>0, Types
<1>2. UNCHANGED <<log, redo, content, shardNum, vec, con, faults>>
  BY HandlerDecides, Zenon
<1>3. PICK c \in Client, e \in Entry :
        /\ req' = [req EXCEPT ![c] = e] /\ Addressed(e) /\ Finds(e)
        /\ Pending(e.doc) = {} /\ Asking(e.doc) = {}
  BY HandlerDecides, Zenon
<1>4. req'[c] = e /\ \A b \in Client : b # c => req'[b] = req[b]
  BY <1>1, <1>3, Zenon DEF Typing
<1>5. OneAtATime'
  <2>1. ASSUME NEW d \in Doc
        PROVE  /\ \A i, j \in Pending(d)' : i = j
               /\ \A a, b \in Asking(d)' : a = b
               /\ Pending(d)' = {} \/ Asking(d)' = {}
    <3>1. Pending(d)' = Pending(d)
      BY <1>2, SameOps, Zenon
    <3>2. CASE d = e.doc
      <4>1. Asking(d)' \subseteq {c}
        BY <1>3, <1>4, <3>2, Zenon DEF Asking
      <4> QED
        BY <1>3, <3>1, <3>2, <4>1, Zenon
    <3>3. CASE d # e.doc
      <4>1. Asking(d)' \subseteq Asking(d)
        BY <1>4, <3>3, Zenon DEF Asking
      <4> QED
        BY <1>0, <3>1, <4>1, ZenonT(40) DEF Settling, OneAtATime
    <3> QED
      BY <3>2, <3>3, Zenon
  <2> QED
    BY <2>1, Zenon DEF OneAtATime
<1>6. InMadeShards' /\ OneShard' /\ SingleCopies' /\ NoVecs'
  BY <1>0, <1>2, SameCopies, Zenon DEF InMadeShards, OneShard, SingleCopies, NoVecs, Settling
<1>7. Addressing'
  <2>1. ASSUME NEW b \in Client, req'[b] # NoReq PROVE Addressed(req[b])' /\ Finds(req[b])'
    <3>1. PICK f : f = req'[b]
      BY Zenon
    <3>2. Addressed(f) /\ Finds(f)
      BY <1>0, <1>3, <1>4, <2>1, <3>1, Zenon DEF Settling, Addressing
    <3>3. Addressed(f)' /\ Finds(f)'
      BY <1>2, <3>2, SameCopies, Zenon DEF Addressed, Finds, Where
    <3> QED
      BY <3>1, <3>3, Zenon DEF Addressed, Finds
  <2>2. \A i \in DOMAIN log : Addressed(log[i])'
    BY <1>0, <1>2, Zenon DEF Addressing, Settling, Addressed
  <2>3. ASSUME NEW i \in Committed + 1 .. Len(log) PROVE (Finds(log[i]) \/ Inserted(i))'
    <3>1. CASE Finds(log[i])
      BY <1>2, <3>1, Zenon DEF Finds, Where
    <3>2. CASE Inserted(i)
      <4>1. MayBeWritten(i)'
        BY <1>2, <3>2, Zenon DEF Inserted, MayBeWritten, Finished
      <4>2. PICK d : d = log[i].doc /\ d = log'[i].doc
        BY <1>2, Zenon
      <4>3. Where(d)' \subseteq {shardNum' - 1} /\ Shown(d)' \subseteq {i}
        BY <1>2, <3>2, <4>2, SameCopies, Zenon DEF Inserted
      <4> QED
        BY <4>1, <4>2, <4>3, Zenon DEF Inserted
    <3> QED
      BY <1>0, <3>1, <3>2, Zenon DEF Addressing, Settling
  <2> QED
    BY <1>2, <2>1, <2>2, <2>3, Zenon DEF Addressing
<1>8. Resumes'
  BY <1>0, <1>2, SameBatch, Zenon DEF Settling
<1>9. DocsWritten'
  BY <1>0, <1>2, SameOps, SameCopies, Zenon DEF DocsWritten, Settling
<1>10. VecsWritten'
  BY <1>0, <1>2, SameOps, Zenon DEF VecsWritten, ShownVec, Settling
<1>11. VecsShown'
  BY <1>0, <1>2, SameOps, Zenon DEF VecsShown, ShownVec, IsDelete, Settling
<1> QED
  BY <1>5, <1>6, <1>7, <1>8, <1>9, <1>10, <1>11, Zenon DEF Settling

(* The write to the WAL: one more operation, on a document that has none.  *)
LEMMA WalWriteGrows ==
  ASSUME StoreInv, NEW c \in Client, WalWrite(c)
  PROVE  /\ UNCHANGED <<redo, content, shardNum, vec, con, faults>> /\ Len(log) < MaxOps
         /\ req'[c] = NoReq /\ \A b \in Client : b # c => req'[b] = req[b]
         /\ req[c] # NoReq /\ req[c] \in Entry /\ log' = Append(log, req[c])
         /\ Pending(req[c].doc) = {} /\ Asking(req[c].doc) = {c}
<1>1. Typing /\ OneAtATime
  BY Types, Zenon DEF StoreInv, Settling
<1>2. /\ UNCHANGED <<redo, content, shardNum, vec, con, faults>> /\ Len(log) < MaxOps
      /\ req[c] # NoReq /\ log' = Append(log, req[c])
  BY Zenon DEF WalWrite
<1>3. req'[c] = NoReq /\ \A b \in Client : b # c => req'[b] = req[b]
  BY <1>1, Zenon DEF WalWrite, Typing
<1>4. req[c] \in Entry
  BY <1>1, <1>2, Zenon DEF Typing
<1>5. req[c].doc \in Doc
  BY <1>4, Zenon DEF Entry
<1>6. c \in Asking(req[c].doc)
  BY <1>2, Zenon DEF Asking
<1>7. Pending(req[c].doc) = {} /\ Asking(req[c].doc) = {c}
  <2>1. PICK d \in Doc : d = req[c].doc
    BY <1>5, Zenon
  <2>2. /\ \A a, b \in Asking(d) : a = b
        /\ Pending(d) = {} \/ Asking(d) = {}
    BY <1>1, Zenon DEF OneAtATime
  <2>3. c \in Asking(d)
    BY <1>6, <2>1, Zenon
  <2>4. Pending(d) = {} /\ Asking(d) = {c}
    BY <2>2, <2>3
  <2> QED
    BY <2>1, <2>4, Zenon
<1> QED
  BY <1>2, <1>3, <1>4, <1>7, Zenon

(* and the write to the WAL keeps it too.                                  *)
LEMMA WalWriteSettles ==
  ASSUME StoreInv, NEW c \in Client, WalWrite(c)
  PROVE  Settling'
<1>0. IInv /\ Settling
  BY Zenon DEF StoreInv
<1>1. Typing
  BY <1>0, Types
<1>2. /\ UNCHANGED <<redo, content, shardNum, vec, con, faults>>
      /\ req'[c] = NoReq /\ \A b \in Client : b # c => req'[b] = req[b]
      /\ req[c] # NoReq
  BY WalWriteGrows, Zenon
<1>3. PICK e \in Entry : e = req[c] /\ log' = Append(log, e) /\ Pending(e.doc) = {} /\ Asking(e.doc) = {c}
  BY WalWriteGrows, Zenon
<1>4. PICK n : n = Len(log) + 1
  BY Zenon
<1>5. /\ Len(log') = n /\ n \in Nat /\ Len(log) <= n /\ log'[n] = e
      /\ DOMAIN log' = 1 .. Len(log) \cup {n} /\ DOMAIN log = 1 .. Len(log)
      /\ \A i \in 1 .. Len(log) : log'[i] = log[i]
      /\ n \notin 1 .. Len(log) /\ n \notin Committed + 1 .. Len(log)
      /\ Committed + 1 .. n = (Committed + 1 .. Len(log)) \cup {n}
      /\ Committed + 1 .. Len(log) \subseteq 1 .. Len(log)
  <2>1. Len(log) \in Nat /\ Committed \in Nat /\ Committed <= Len(log) /\ DOMAIN log = 1 .. Len(log)
    BY <1>1, Zenon DEF Typing
  <2>2. /\ Len(log') = n /\ log'[n] = e /\ DOMAIN log' = 1 .. Len(log) + 1
        /\ \A i \in 1 .. Len(log) : log'[i] = log[i]
    BY <1>1, <1>3, <1>4, LogGrows, Zenon
  <2>3. n \in Nat /\ Len(log) <= n /\ n \notin 1 .. Len(log) /\ n \notin Committed + 1 .. Len(log)
    BY <1>4, <2>1
  <2>4. DOMAIN log' = 1 .. Len(log) \cup {n}
    BY <1>4, <2>1, <2>2
  <2>5. Committed + 1 .. n = (Committed + 1 .. Len(log)) \cup {n}
    BY <1>4, <2>1
  <2>6. Committed + 1 .. Len(log) \subseteq 1 .. Len(log)
    BY <2>1
  <2> QED
    BY <2>1, <2>2, <2>3, <2>4, <2>5, <2>6, Zenon
<1>6. \A d \in Doc : d # e.doc => Pending(d)' = Pending(d) /\ Asking(d)' = Asking(d)
  <2>1. ASSUME NEW d \in Doc, d # e.doc PROVE Pending(d)' = Pending(d)
    BY <1>2, <1>5, <2>1, Zenon DEF Pending
  <2>2. ASSUME NEW d \in Doc, d # e.doc PROVE Asking(d)' = Asking(d)
    BY <1>2, <1>3, <2>2, Zenon DEF Asking
  <2> QED
    BY <2>1, <2>2, Zenon
<1>7. Pending(e.doc)' = {n} /\ Asking(e.doc)' = {}
  <2>1. Pending(e.doc)' = {n}
    <3>1. Pending(e.doc)' = {i \in Committed + 1 .. n : log'[i].doc = e.doc}
      BY <1>2, <1>5, Zenon DEF Pending
    <3>2. \A i \in Committed + 1 .. Len(log) : log'[i].doc # e.doc
      BY <1>3, <1>5, Zenon DEF Pending
    <3> QED
      BY <1>5, <3>1, <3>2, Zenon
  <2>2. Asking(e.doc)' = {}
    BY <1>2, <1>3, Zenon DEF Asking
  <2> QED
    BY <2>1, <2>2, Zenon
<1>8. OneAtATime'
  <2>1. ASSUME NEW d \in Doc
        PROVE  /\ \A i, j \in Pending(d)' : i = j
               /\ \A a, b \in Asking(d)' : a = b
               /\ Pending(d)' = {} \/ Asking(d)' = {}
    <3>1. CASE d = e.doc
      BY <1>7, <3>1, Zenon
    <3>2. CASE d # e.doc
      BY <1>0, <1>6, <3>2, Zenon DEF Settling, OneAtATime
    <3> QED
      BY <3>1, <3>2, Zenon
  <2> QED
    BY <2>1, Zenon DEF OneAtATime
<1>9. InMadeShards' /\ OneShard' /\ SingleCopies' /\ NoVecs'
  BY <1>0, <1>2, SameCopies, Zenon DEF InMadeShards, OneShard, SingleCopies, NoVecs, Settling
<1>10. Addressing'
  <2>1. \A f : Addressed(f)' = Addressed(f) /\ Finds(f)' = Finds(f)
    BY <1>2, SameCopies, Zenon DEF Addressed, Finds, Where
  <2>2. ASSUME NEW b \in Client, req'[b] # NoReq PROVE Addressed(req[b])' /\ Finds(req[b])'
    <3>1. PICK f : f = req'[b] /\ f = req[b]
      BY <1>2, <2>2, Zenon
    <3>2. Addressed(f)' /\ Finds(f)'
      BY <1>0, <2>1, <2>2, <3>1, Zenon DEF Settling, Addressing
    <3> QED
      BY <3>1, <3>2, Zenon DEF Addressed, Finds
  <2>3. Addressed(e) /\ Finds(e)
    BY <1>0, <1>2, <1>3, Zenon DEF Settling, Addressing
  <2>4. ASSUME NEW i \in DOMAIN log' PROVE Addressed(log[i])'
    <3>1. PICK f : f = log'[i] /\ (f = e \/ (i \in DOMAIN log /\ f = log[i]))
      BY <1>5, Zenon
    <3>2. Addressed(f)'
      BY <1>0, <2>1, <2>3, <3>1, Zenon DEF Settling, Addressing
    <3> QED
      BY <3>1, <3>2, Zenon DEF Addressed
  <2>5. ASSUME NEW i \in Committed + 1 .. Len(log) PROVE (Finds(log[i]) \/ Inserted(i))'
    <3>0. log'[i] = log[i]
      BY <1>5, Zenon
    <3>1. CASE Finds(log[i])
      BY <1>2, <3>0, <3>1, Zenon DEF Finds, Where
    <3>2. CASE Inserted(i)
      <4>1. MayBeWritten(i)'
        BY <1>2, <3>0, <3>2, Zenon DEF Inserted, MayBeWritten, Finished
      <4>2. PICK d : d = log[i].doc /\ d = log'[i].doc
        BY <3>0, Zenon
      <4>3. Where(d)' \subseteq {shardNum' - 1} /\ Shown(d)' \subseteq {i}
        BY <1>2, <3>2, <4>2, SameCopies, Zenon DEF Inserted
      <4> QED
        BY <4>1, <4>2, <4>3, Zenon DEF Inserted
    <3> QED
      BY <1>0, <3>1, <3>2, Zenon DEF Addressing, Settling
  <2>6. Finds(log[n])'
    <3>1. Finds(e)'
      BY <2>1, <2>3, Zenon
    <3> QED
      BY <1>5, <3>1, Zenon DEF Finds
  <2> QED
    BY <1>2, <1>5, <2>2, <2>4, <2>5, <2>6, Zenon DEF Addressing
<1>11. Resumes'
  <2>1. PICK a, b, lo, hi : a = redo.read[1] /\ b = redo.read[2] /\ lo = con.lo /\ hi = con.cur
    BY Zenon
  <2>2. Finished' = Finished
    BY <1>2, Zenon DEF Finished
  <2>3. ~Finished => NotFull(a, b)'
    <3>1. ~Finished => a \in Nat \ {0} /\ b \in Nat /\ b <= Len(log)
      <4>1. ~Finished => a = Committed + 1 /\ b \in a .. Len(log)
        BY <1>0, <2>1, Zenon DEF IInv, NothingUnwrittenTruncated
      <4>2. Committed \in Nat /\ Len(log) \in Nat
        BY <1>1, Zenon DEF Typing
      <4> QED
        BY <4>1, <4>2
    <3>2. ~Finished => NotFull(a, b)
      BY <1>0, <2>1, Zenon DEF Settling, Resumes
    <3> QED
      BY <1>1, <1>3, <3>1, <3>2, BatchFullStays, Zenon
  <2>4. con.pc \in {"redoRead", "write", "vectors"} => NotFull(lo, hi)'
    <3>1. con.pc \in {"redoRead", "write", "vectors"} => lo \in Nat \ {0} /\ hi \in Nat /\ hi <= Len(log)
      <4>1. con.pc \in {"redoRead", "write", "vectors"} =>
              lo = Committed + 1 /\ hi \in lo .. con.hi /\ con.hi <= Len(log)
        BY <1>0, <2>1, Zenon DEF IInv, ConsumerInv
      <4>2. Committed \in Nat /\ Len(log) \in Nat /\ con.hi \in Nat
        BY <1>1, Zenon DEF Typing
      <4> QED
        BY <4>1, <4>2
    <3>2. con.pc \in {"redoRead", "write", "vectors"} => NotFull(lo, hi)
      BY <1>0, <2>1, Zenon DEF Settling, Resumes
    <3> QED
      BY <1>1, <1>3, <3>1, <3>2, BatchFullStays, Zenon
  <2>5. ~Finished => NotFull(redo.read[1], redo.read[2])'
    BY <1>2, <2>1, <2>3, Zenon
  <2>6. con.pc \in {"redoRead", "write", "vectors"} => NotFull(con.lo, con.cur)'
    BY <1>2, <2>1, <2>4, Zenon
  <2> QED
    BY <1>0, <1>2, <2>2, <2>5, <2>6, Zenon DEF Resumes, Settling
<1>12. ASSUME NEW i \in Committed + 1 .. Len(log)
       PROVE  \E d \in Doc : /\ d = log[i].doc /\ d = log'[i].doc
                             /\ AckedDoc(d)' = AckedDoc(d) /\ AckedVec(d)' = AckedVec(d)
  <2>1. i \in 1 .. Len(log) /\ log'[i] = log[i]
    BY <1>5, Zenon
  <2>2. PICK d \in Doc : d = log[i].doc /\ d = log'[i].doc
    BY <1>1, <2>1, Zenon DEF Typing, Entry
  <2>3. d # e.doc
    BY <1>3, <2>2, Zenon DEF Pending
  <2> QED
    BY <1>1, <1>3, <2>2, <2>3, AckedStays, Zenon
<1>13. DocsWritten'
  <2>1. ASSUME con.pc \in {"write", "vectors"}, NEW i \in con.lo .. con.cur, log'[i].shard \notin con.todo
        PROVE  Shown(log[i].doc)' = AckedDoc(log[i].doc)'
    <3>1. i \in Committed + 1 .. Len(log)
      BY <1>0, <2>1, InBatch, Zenon
    <3>2. PICK d \in Doc : d = log[i].doc /\ d = log'[i].doc /\ AckedDoc(d)' = AckedDoc(d)
      BY <1>12, <3>1, Zenon
    <3>3. Shown(d) = AckedDoc(d)
      BY <1>0, <1>5, <2>1, <3>1, <3>2, Zenon DEF Settling, DocsWritten
    <3>4. Shown(d)' = AckedDoc(d)'
      BY <1>2, <3>2, <3>3, SameCopies, Zenon
    <3> QED
      BY <3>2, <3>4, Zenon
  <2> QED
    BY <1>2, <2>1, Zenon DEF DocsWritten
<1>14. VecsWritten'
  <2>1. ASSUME con.pc \in {"write", "vectors"}, NEW i \in con.lo .. con.cur, log'[i].shard \notin con.todo,
               con.pc = "vectors" => log'[i].shard # con.key
        PROVE  ShownVec(log[i].doc)' = AckedVec(log[i].doc)'
    <3>1. i \in Committed + 1 .. Len(log)
      BY <1>0, <2>1, InBatch, Zenon
    <3>2. PICK d \in Doc : d = log[i].doc /\ d = log'[i].doc /\ AckedVec(d)' = AckedVec(d)
      BY <1>12, <3>1, Zenon
    <3>3. ShownVec(d) = AckedVec(d)
      BY <1>0, <1>5, <2>1, <3>1, <3>2, Zenon DEF Settling, VecsWritten
    <3>4. ShownVec(d)' = AckedVec(d)'
      BY <1>2, <3>2, <3>3, Zenon DEF ShownVec
    <3> QED
      BY <3>2, <3>4, Zenon
  <2> QED
    BY <1>2, <2>1, Zenon DEF VecsWritten
<1>15. VecsShown'
  <2>1. ASSUME NEW d \in Doc, Pending(d)' = {} PROVE ShownVec(d)' = AckedVec(d)'
    <3>1. d # e.doc
      BY <1>7, <2>1, Zenon
    <3>2. ShownVec(d) = AckedVec(d)
      BY <1>0, <1>6, <2>1, <3>1, Zenon DEF Settling, VecsShown
    <3>3. AckedVec(d)' = AckedVec(d)
      BY <1>1, <1>3, <3>1, AckedStays, Zenon
    <3> QED
      BY <1>2, <3>2, <3>3, Zenon DEF ShownVec
  <2>2. ASSUME NEW i \in Committed + 1 .. Len(log), ~(IsDelete(i)'), ~log'[i].vector
        PROVE  ShownVec(log[i].doc)' = AckedVec(log[i].doc)'
    <3>1. PICK d \in Doc : d = log[i].doc /\ d = log'[i].doc /\ AckedVec(d)' = AckedVec(d)
      BY <1>12, Zenon
    <3>2. ShownVec(d) = AckedVec(d)
      BY <1>0, <1>5, <2>2, <3>1, Zenon DEF Settling, VecsShown, IsDelete
    <3>3. ShownVec(d)' = AckedVec(d)'
      BY <1>2, <3>1, <3>2, Zenon DEF ShownVec
    <3> QED
      BY <3>1, <3>3, Zenon
  <2>3. ASSUME ~(IsDelete(n)'), ~log'[n].vector PROVE ShownVec(log[n].doc)' = AckedVec(log[n].doc)'
    <3>1. ~e.vector /\ e.action \notin {"delete", "deleteVecOnly"}
      BY <1>5, <2>3, Zenon DEF IsDelete
    <3>2. AckedVec(e.doc)' = AckedVec(e.doc)
      BY <1>1, <1>3, <3>1, AckedVecStays, Zenon
    <3>3. ShownVec(e.doc) = AckedVec(e.doc)
      BY <1>0, <1>3, Zenon DEF Settling, VecsShown, Entry
    <3>4. ShownVec(e.doc)' = AckedVec(e.doc)'
      BY <1>2, <3>2, <3>3, Zenon DEF ShownVec
    <3> QED
      BY <1>5, <3>4, Zenon
  <2> QED
    BY <1>2, <1>5, <2>1, <2>2, <2>3, Zenon DEF VecsShown
<1> QED
  BY <1>8, <1>9, <1>10, <1>11, <1>13, <1>14, <1>15, Zenon DEF Settling

(* The unsettled documents are those with unsettled operations.            *)
LEMMA WaitingIs ==
  ASSUME Typing
  PROVE  Waiting = {d \in Doc : Pending(d) # {}}
<1>1. ASSUME NEW d \in Doc PROVE (\E i \in OpsOn(d) : i > Committed) <=> Pending(d) # {}
  <2>1. \A i : i \in DOMAIN log /\ i > Committed <=> i \in Committed + 1 .. Len(log)
    BY SMTT(30) DEF Typing
  <2> QED
    BY <2>1, Zenon DEF OpsOn, Pending
<1> QED
  BY <1>1, Zenon DEF Waiting

(* The same after a step.                                                  *)
LEMMA WaitingNext ==
  ASSUME Typing'
  PROVE  Waiting' = {d \in Doc : Pending(d)' # {}}
<1>1. ASSUME NEW d \in Doc PROVE (\E i \in OpsOn(d)' : i > Committed') <=> Pending(d)' # {}
  <2>1. PICK m, n : m = Committed' /\ n = Len(log')
    BY Zenon
  <2>2. m \in Nat /\ n \in Nat /\ DOMAIN log' = 1 .. n
    BY <2>1, Zenon DEF Typing
  <2>3. \A i : i \in 1 .. n /\ i > m <=> i \in m + 1 .. n
    BY <2>2
  <2>4. \A i : i \in DOMAIN log' /\ i > Committed' <=> i \in Committed' + 1 .. Len(log')
    BY <2>1, <2>2, <2>3, Zenon
  <2> QED
    BY <2>4, Zenon DEF OpsOn, Pending
<1> QED
  BY <1>1, Zenon DEF Waiting

(* Nothing happens to the store while log, commit and copies stay.         *)
LEMMA IndexStutters ==
  ASSUME UNCHANGED <<log, content>>, redo'.write = redo.write
  PROVE  UNCHANGED DocStoreOfIndex!vars
<1>1. \A d \in Doc : AckedDoc(d)' = AckedDoc(d) /\ Shown(d)' = Shown(d)
  BY SameCopies, Zenon DEF AckedDoc, OpsOn, IsDelete
<1>2. Waiting' = Waiting
  BY Zenon DEF Waiting, OpsOn
<1> QED
  BY <1>1, <1>2, Zenon DEF DocStoreOfIndex!vars

(* The same of the vectors.                                                *)
LEMMA VectorsStutter ==
  ASSUME UNCHANGED <<log, vec>>, redo'.write = redo.write
  PROVE  UNCHANGED DocStoreOfVectors!vars
<1>1. \A d \in Doc : AckedVec(d)' = AckedVec(d)
  BY Zenon DEF AckedVec, OpsOn, IsDelete
<1>2. Waiting' = Waiting
  BY Zenon DEF Waiting, OpsOn
<1> QED
  BY <1>1, <1>2, Zenon DEF DocStoreOfVectors!vars

(* The documents of a shard key begin to be shown.                         *)
LEMMA IndexShows ==
  ASSUME StoreInv, NEW k \in ShardKey, ConsumeWriteDocs(k)
  PROVE  \E D \in SUBSET Doc : DocStoreOfIndex!Show(D)
<1> DEFINE D == {d \in Doc : \E i \in con.lo .. con.cur : log[i].doc = d /\ log[i].shard = k}
<1>0. IInv /\ OneAtATime
  BY Zenon DEF StoreInv, Settling
<1>1. Typing /\ con.pc = "write" /\ UNCHANGED <<log, redo>>
  BY <1>0, Types, Zenon DEF ConsumeWriteDocs
<1>2. DOMAIN content' = DOMAIN content
  BY <1>1, Zenon DEF ConsumeWriteDocs, WrittenDocs, Typing
<1>3. D \subseteq Waiting
  BY <1>0, <1>1, WaitingIs, InBatch, Zenon DEF Pending
<1>4. ASSUME NEW d \in Doc PROVE Shown(d)' = IF d \in D THEN AckedDoc(d) ELSE Shown(d)
  <2>1. CASE d \in D
    <3>1. PICK i \in con.lo .. con.cur : log[i].doc = d /\ Copies(d, i, WriterShard(k))
      BY <2>1, WriteEffect, Zenon
    <3>2. i \in Pending(d)
      BY <1>0, <1>1, <3>1, InBatch, Zenon DEF Pending
    <3>3. AckedDoc(d) = IF IsDelete(i) THEN {} ELSE {i}
      BY <1>0, <1>1, <3>2, PendingAcked, Zenon
    <3> QED
      BY <2>1, <3>1, <3>3, Zenon DEF Copies
  <2>2. CASE d \notin D
    <3>1. \A s \in DOMAIN content : content'[s][d] = content[s][d]
      BY <2>2, WriteEffect, ZenonT(40)
    <3> QED
      BY <1>2, <2>2, <3>1, Untouched, Zenon
  <2> QED
    BY <2>1, <2>2, Zenon
<1>5. \A d \in Doc : AckedDoc(d)' = AckedDoc(d)
  BY <1>1, SameOps, Zenon
<1>6. Waiting' = Waiting
  BY <1>1, Zenon DEF Waiting, OpsOn
<1> HIDE DEF D
<1>7. D \in SUBSET Doc
  BY Zenon DEF D
<1>8. DocStoreOfIndex!Show(D)
  BY <1>3, <1>4, <1>5, <1>6, Zenon DEF DocStoreOfIndex!Show
<1> QED
  BY <1>7, <1>8, Zenon

(* Their vectors begin to be shown.                                        *)
LEMMA VectorsShow ==
  ASSUME StoreInv, ConsumeWriteVecs
  PROVE  \E D \in SUBSET Doc : DocStoreOfVectors!Show(D)
<1> DEFINE D == {d \in Doc : \E i \in con.lo .. con.cur : log[i].doc = d /\ log[i].shard = con.key}
<1>0. IInv /\ OneAtATime
  BY Zenon DEF StoreInv, Settling
<1>1. Typing /\ con.pc = "vectors" /\ UNCHANGED <<log, redo>>
  BY <1>0, Types, Zenon DEF ConsumeWriteVecs
<1>2. D \subseteq Waiting
  BY <1>0, <1>1, WaitingIs, InBatch, Zenon DEF Pending
<1>3. ASSUME NEW d \in Doc PROVE ShownVec(d)' = IF d \in D THEN AckedVec(d) ELSE ShownVec(d)
  <2>1. CASE d \in D
    BY <2>1, VecEffect, Zenon
  <2>2. CASE d \notin D
    <3>1. vec'[d] = vec[d]
      BY <2>2, VecEffect, Zenon
    <3> QED
      BY <2>2, <3>1, Zenon DEF ShownVec
  <2> QED
    BY <2>1, <2>2, Zenon
<1>4. \A d \in Doc : AckedVec(d)' = AckedVec(d)
  BY <1>1, SameOps, Zenon
<1>5. Waiting' = Waiting
  BY <1>1, Zenon DEF Waiting, OpsOn
<1> HIDE DEF D
<1>6. D \in SUBSET Doc
  BY Zenon DEF D
<1>7. PICK E \in SUBSET Doc : E = D
  BY <1>6, Zenon
<1>8. DocStoreOfVectors!Show(E)
  BY <1>2, <1>3, <1>4, <1>5, <1>7, Zenon DEF DocStoreOfVectors!Show, ShownVec
<1> QED
  BY <1>8, Zenon

(* The batch counts as written: its documents are settled.                 *)
LEMMA StoreSettles ==
  ASSUME StoreInv, ConsumeRedoWrite, Typing'
  PROVE  \E D \in SUBSET Doc : DocStoreOfIndex!Settle(D) /\ DocStoreOfVectors!Settle(D)
<1> DEFINE D == {d \in Doc : \E i \in con.lo .. con.cur : log[i].doc = d}
<1>0. IInv /\ Settling
  BY Zenon DEF StoreInv
<1>1. Typing
  BY <1>0, Types
<1>2. con.pc = "write" /\ con.todo = {} /\ UNCHANGED <<log, content, vec>>
  BY Zenon DEF ConsumeRedoWrite
<1>3. redo'.write = <<con.lo, con.cur>>
  BY <1>0, RedoWriteStep
<1>4. redo'.write[2] = con.cur
  BY <1>3, SMTT(30)
<1>5. con.lo = Committed + 1 /\ con.cur <= Len(log) /\ con.cur \in con.lo .. con.hi
  <2>1. con.lo = Committed + 1 /\ con.cur \in con.lo .. con.hi /\ con.hi <= Len(log)
    BY <1>0, <1>2, Zenon DEF IInv, ConsumerInv
  <2> QED
    BY <1>1, <2>1, SMTT(30) DEF Typing
<1>6. Committed + 1 .. Len(log) = (con.lo .. con.cur) \cup (con.cur + 1 .. Len(log))
  <2>1. \A a, b, n \in Nat : a + 1 <= b /\ b <= n => a + 1 .. n = (a + 1 .. b) \cup (b + 1 .. n)
    OBVIOUS
  <2>2. Committed \in Nat /\ con.cur \in Nat /\ Len(log) \in Nat /\ con.hi \in Nat
    BY <1>1, Zenon DEF Typing
  <2>3. Committed + 1 <= con.cur
    BY <1>5, <2>2
  <2>4. Committed + 1 .. Len(log) = (Committed + 1 .. con.cur) \cup (con.cur + 1 .. Len(log))
    BY <1>5, <2>1, <2>2, <2>3, SMTT(30)
  <2> QED
    BY <1>5, <2>4, Zenon
<1>7. (con.lo .. con.cur) \cap (con.cur + 1 .. Len(log)) = {}
  BY <1>1 DEF Typing
<1>8. D \subseteq Waiting
  BY <1>1, <1>6, WaitingIs, Zenon DEF Pending
<1>9. \A d \in D : Shown(d) = AckedDoc(d) /\ ShownVec(d) = AckedVec(d)
  <2>1. \A i \in con.lo .. con.cur : /\ Shown(log[i].doc) = AckedDoc(log[i].doc)
                                     /\ ShownVec(log[i].doc) = AckedVec(log[i].doc)
    BY <1>0, <1>2 DEF Settling, DocsWritten, VecsWritten
  <2> QED
    BY <2>1, Zenon
<1>10. Waiting' = Waiting \ D
  <2>1. ASSUME NEW d \in Doc PROVE Pending(d)' # {} <=> Pending(d) # {} /\ d \notin D
    <3>1. Pending(d)' = {i \in con.cur + 1 .. Len(log) : log[i].doc = d}
      BY <1>2, <1>4, Zenon DEF Pending
    <3>2. Pending(d) = {i \in Committed + 1 .. Len(log) : log[i].doc = d}
      BY Zenon DEF Pending
    <3>3. \A i, j \in Pending(d) : i = j
      BY <1>0, Zenon DEF Settling, OneAtATime
    <3> QED
      BY <1>6, <1>7, <3>1, <3>2, <3>3, Zenon
  <2> QED
    BY <1>1, <2>1, WaitingIs, WaitingNext, Zenon
<1>11. \A d \in Doc : /\ AckedDoc(d)' = AckedDoc(d) /\ AckedVec(d)' = AckedVec(d)
                      /\ Shown(d)' = Shown(d) /\ ShownVec(d)' = ShownVec(d)
  BY <1>2, SameCopies, Zenon DEF AckedDoc, AckedVec, OpsOn, IsDelete, ShownVec
<1> HIDE DEF D
<1>12. D \in SUBSET Doc
  BY Zenon DEF D
<1>13. DocStoreOfIndex!Settle(D)
  BY <1>8, <1>9, <1>10, <1>11, <1>12, Zenon DEF DocStoreOfIndex!Settle
<1>14. DocStoreOfVectors!Settle(D)
  BY <1>8, <1>9, <1>10, <1>11, <1>12, Zenon DEF DocStoreOfVectors!Settle, ShownVec
<1> QED
  BY <1>12, <1>13, <1>14, Zenon

(* What a new operation makes of its document and of its vector.           *)
LEMMA AckedOfWrite ==
  ASSUME Typing, NEW e \in Entry, log' = Append(log, e), Len(log) < MaxOps
  PROVE  /\ AckedDoc(e.doc)' = {} \/ \E v \in Version : AckedDoc(e.doc)' = {v}
         /\ AckedVec(e.doc)' = {} \/ \E v \in Version : AckedVec(e.doc)' = {v}
<1>1. PICK n : n = Len(log')
  BY Zenon
<1>2. DOMAIN log' = 1 .. n /\ n \in Nat /\ n <= MaxOps
  <2>1. n = Len(log) + 1 /\ DOMAIN log' = 1 .. Len(log) + 1
    BY <1>1, LogGrows, Zenon
  <2> QED
    BY <2>1, WalAssumption, SMTT(30) DEF Typing
<1>3. 1 .. n \subseteq Version
  BY <1>2, WalAssumption DEF Version
<1>4. ASSUME NEW S \in SUBSET (1 .. n), S # {} PROVE LastOp(S) \in Version
  <2>1. LastOp(S) \in S
    BY <1>2, <1>4, LastOpInSet, Zenon
  <2> QED
    BY <1>3, <2>1, Zenon
<1>5. PICK S : S = OpsOn(e.doc)'
  BY Zenon
<1>6. S \in SUBSET (1 .. n)
  BY <1>2, <1>5, Zenon DEF OpsOn
<1>7. AckedDoc(e.doc)' = {} \/ \E v \in Version : AckedDoc(e.doc)' = {v}
  <2>1. AckedDoc(e.doc)' = {} \/ (S # {} /\ AckedDoc(e.doc)' = {LastOp(S)})
    BY <1>5, Zenon DEF AckedDoc, LastOp
  <2> QED
    BY <1>4, <1>6, <2>1, Zenon
<1>8. AckedVec(e.doc)' = {} \/ \E v \in Version : AckedVec(e.doc)' = {v}
  <2>1. PICK T : T = {i \in S : log'[i].vector /\ \A j \in S : j > i => ~(IsDelete(j)')}
    BY Zenon
  <2>2. AckedVec(e.doc)' = {} \/ (T # {} /\ AckedVec(e.doc)' = {LastOp(T)})
    BY <1>5, <2>1, Zenon DEF AckedVec, LastOp
  <2>3. T \in SUBSET (1 .. n)
    BY <1>6, <2>1, Zenon
  <2> QED
    BY <1>4, <2>2, <2>3, Zenon
<1> QED
  BY <1>7, <1>8, Zenon

(* A write to the WAL acknowledges an operation on a settled document.     *)
LEMMA StoreAcknowledges ==
  ASSUME StoreInv, NEW c \in Client, WalWrite(c)
  PROVE  \E d \in Doc : DocStoreOfIndex!Acknowledge(d) /\ DocStoreOfVectors!Acknowledge(d)
<1>1. Typing /\ OneAtATime
  BY Types, Zenon DEF StoreInv, Settling
<1>2. UNCHANGED <<redo, content, vec>> /\ Len(log) < MaxOps
  BY WalWriteGrows, Zenon
<1>3. PICK e \in Entry : e = req[c] /\ log' = Append(log, e) /\ Pending(e.doc) = {}
  BY WalWriteGrows, Zenon
<1>4. PICK d \in Doc : d = e.doc
  BY Zenon DEF Entry
<1>5. /\ AckedDoc(d)' = {} \/ \E v \in Version : AckedDoc(d)' = {v}
      /\ AckedVec(d)' = {} \/ \E v \in Version : AckedVec(d)' = {v}
  BY <1>1, <1>2, <1>3, <1>4, AckedOfWrite, Zenon
<1>6. ASSUME NEW b \in Doc, b # d
      PROVE  AckedDoc(b)' = AckedDoc(b) /\ AckedVec(b)' = AckedVec(b) /\ OpsOn(b)' = OpsOn(b)
  BY <1>1, <1>3, <1>4, <1>6, AckedStays, Zenon
<1>7. d \notin Waiting
  BY <1>1, <1>3, <1>4, WaitingIs, Zenon
<1>8. Waiting' = Waiting \cup {d}
  <2>1. ASSUME NEW b \in Doc, b # d PROVE b \in Waiting' <=> b \in Waiting
    BY <1>2, <1>6, <2>1, Zenon DEF Waiting
  <2>2. d \in Waiting'
    <3>1. Len(log) + 1 \in OpsOn(d)'
      <4>1. log'[Len(log) + 1] = e /\ DOMAIN log' = 1 .. Len(log) + 1 /\ Len(log) \in Nat
        BY <1>1, <1>3, LogGrows, Zenon DEF Typing
      <4>2. Len(log) + 1 \in DOMAIN log'
        BY <4>1
      <4> QED
        BY <1>4, <4>1, <4>2, Zenon DEF OpsOn
    <3>2. Len(log) + 1 > Committed
      <4>1. Len(log) \in Nat /\ Committed \in Nat /\ Committed <= Len(log)
        BY <1>1, Zenon DEF Typing
      <4> QED
        BY <4>1
    <3> QED
      BY <1>2, <3>1, <3>2, Zenon DEF Waiting
  <2>3. Waiting \subseteq Doc /\ Waiting' \subseteq Doc
    BY Zenon DEF Waiting
  <2> QED
    BY <2>1, <2>2, <2>3, Zenon
<1>9. \A b \in Doc : Shown(b)' = Shown(b) /\ ShownVec(b)' = ShownVec(b)
  BY <1>2, SameCopies, Zenon DEF ShownVec
<1>10. DocStoreOfIndex!Acknowledge(d)
  <2>1. PICK x : x = AckedDoc(d)' /\ x \in {{}} \cup {{v} : v \in Version}
    BY <1>5, Zenon
  <2>2. [b \in Doc |-> AckedDoc(b)]' = [[b \in Doc |-> AckedDoc(b)] EXCEPT ![d] = x]
    BY <1>6, <2>1, Zenon
  <2> QED
    BY <1>7, <1>8, <1>9, <2>1, <2>2, Zenon DEF DocStoreOfIndex!Acknowledge, DocStoreOfIndex!Content
<1>11. DocStoreOfVectors!Acknowledge(d)
  <2>1. PICK x : x = AckedVec(d)' /\ x \in {{}} \cup {{v} : v \in Version}
    BY <1>5, Zenon
  <2>2. [b \in Doc |-> AckedVec(b)]' = [[b \in Doc |-> AckedVec(b)] EXCEPT ![d] = x]
    BY <1>6, <2>1, Zenon
  <2> QED
    BY <1>7, <1>8, <1>9, <2>1, <2>2, Zenon
       DEF DocStoreOfVectors!Acknowledge, DocStoreOfVectors!Content, ShownVec
<1> QED
  BY <1>10, <1>11, Zenon

(* Nothing is written at first.                                            *)
LEMMA InitSettles ==
  ASSUME Init
  PROVE  /\ Settling /\ Waiting = {}
         /\ \A d \in Doc : AckedDoc(d) = {} /\ AckedVec(d) = {} /\ Shown(d) = {} /\ ShownVec(d) = {}
<1>1. /\ log = << >> /\ redo = [read |-> NotFound, write |-> NotFound] /\ shardNum = 1
      /\ content = [s \in 0 .. MaxShards - 1 |-> [d \in Doc |-> << >>]]
      /\ vec = [d \in Doc |-> 0] /\ con = Idle /\ req = [c \in Client |-> NoReq]
  BY Zenon DEF Init
<1>2. Len(log) = 0 /\ DOMAIN log = {} /\ Committed = 0 /\ Finished /\ con.pc = "idle"
  BY <1>1 DEF NotFound, Finished, Idle
<1>3. Committed + 1 .. Len(log) = {}
  BY <1>2
<1>4. \A d \in Doc : Pending(d) = {} /\ Asking(d) = {} /\ Where(d) = {} /\ OpsOn(d) = {}
  BY <1>1, <1>2, <1>3, Zenon DEF Pending, Asking, Where, OpsOn
<1>5. \A d \in Doc : AckedDoc(d) = {} /\ AckedVec(d) = {} /\ ShownVec(d) = {}
  BY <1>1, <1>4, Zenon DEF AckedDoc, AckedVec, ShownVec
<1>6. \A d \in Doc : Shown(d) = {}
  BY <1>1 DEF Shown
<1>7. Waiting = {}
  BY <1>4, Zenon DEF Waiting
<1>8. OneAtATime /\ InMadeShards /\ OneShard
  BY <1>4, Zenon DEF OneAtATime, InMadeShards, OneShard
<1>9. Addressing
  BY <1>1, <1>2, <1>3, Zenon DEF Addressing
<1>10. Resumes /\ DocsWritten /\ VecsWritten
  BY <1>2 DEF Resumes, DocsWritten, VecsWritten
<1>11. NoVecs /\ VecsShown
  BY <1>1, <1>3, <1>5, Zenon DEF NoVecs, VecsShown
<1>12. SingleCopies
  BY <1>1 DEF SingleCopies
<1> QED
  BY <1>5, <1>6, <1>7, <1>8, <1>9, <1>10, <1>11, <1>12, Zenon DEF Settling

(* Every step keeps the invariant.                                         *)
LEMMA SettlingStep ==
  ASSUME Patient, ~SearchFails, StoreInv, [Next]_vars
  PROVE  Settling'
<1>1. CASE Handler
  BY <1>1, HandlerSettles, Zenon
<1>2. CASE \E c \in Client : WalWrite(c)
  BY <1>2, WalWriteSettles, Zenon
<1>3. CASE OpenWAL \/ OpenWALFails
  BY <1>3, OpenSettles, Zenon
<1>4. CASE Consumer
  BY <1>4, BeginSettles, RedoReadSettles, WriteDocsSettles, WriteVecsSettles, RedoWriteSettles,
     EndSettles, CheckShardsSettles, Zenon DEF Consumer
<1>5. CASE ConsumeFails \/ Crash
  BY <1>5, EndSettles, Zenon
<1>6. CASE UNCHANGED vars
  BY <1>6, StutterSettles, Zenon
<1> QED
  BY <1>1, <1>2, <1>3, <1>4, <1>5, <1>6, Zenon DEF Next

(* The two invariants together are inductive.                              *)
LEMMA StoreStep ==
  ASSUME Patient, ~SearchFails
  PROVE  StoreInv /\ [Next]_vars => StoreInv'
<1> SUFFICES ASSUME StoreInv, [Next]_vars PROVE StoreInv'
  BY Zenon
<1>1. IInv
  BY Zenon DEF StoreInv
<1>2. IInv'
  BY <1>1, TypeStep, LogStep, Zenon DEF IInv
<1>3. Settling'
  BY SettlingStep, Zenon
<1> QED
  BY <1>2, <1>3, Zenon DEF StoreInv

(* The types, after a step.                                                *)
LEMMA TypesNext ==
  ASSUME IInv'
  PROVE  Typing'
<1>1. /\ log' \in Seq(Entry) /\ redo' \in RedoLog /\ con' \in ConsumerState
      /\ content' \in [0 .. MaxShards - 1 -> [Doc -> Seq(Nat)]]
      /\ shardNum' \in 1 .. MaxShards /\ faults' \in 0 .. MaxFaults
      /\ vec' \in [Doc -> Nat] /\ req' \in [Client -> Entry \cup {NoReq}]
  BY Zenon DEF IInv, TypeOK
<1>2. Len(log') \in Nat /\ DOMAIN log' = 1 .. Len(log') /\ \A i \in 1 .. Len(log') : log'[i] \in Entry
  BY <1>1
<1>3. Committed' \in Nat /\ redo'.read[1] \in Nat /\ redo'.read[2] \in Nat
  BY <1>1 DEF RedoLog
<1>4. con'.lo \in Nat /\ con'.cur \in Nat /\ con'.hi \in Nat /\ con'.todo \subseteq ShardKey
  BY <1>1 DEF ConsumerState
<1>5. Committed' <= Len(log')
  BY Zenon DEF IInv, NothingUnwrittenTruncated
<1>6. MaxShards \in Nat /\ MaxBatchSize \in Nat /\ faults' \in Nat
  BY <1>1, WalAssumption
<1> QED
  BY <1>1, <1>2, <1>3, <1>4, <1>5, <1>6, Zenon DEF Typing

(* A step of the write path is a step of the store, or nothing to it.      *)
LEMMA StoreSimulates ==
  ASSUME Patient, ~SearchFails, StoreInv, [Next]_vars
  PROVE  /\ [DocStoreOfIndex!Next]_(DocStoreOfIndex!vars)
         /\ [DocStoreOfVectors!Next]_(DocStoreOfVectors!vars)
<1>0. Typing'
  <2>1. IInv'
    BY TypeStep, LogStep, Zenon DEF IInv, StoreInv
  <2> QED
    BY <2>1, TypesNext, Zenon
<1>1. ASSUME UNCHANGED <<log, content, vec>>, redo'.write = redo.write
      PROVE  UNCHANGED DocStoreOfIndex!vars /\ UNCHANGED DocStoreOfVectors!vars
  BY <1>1, IndexStutters, VectorsStutter, Zenon
<1>2. CASE Handler
  <2>1. UNCHANGED <<log, content, vec, redo>>
    BY <1>2, HandlerDecides, Zenon
  <2> QED
    BY <1>1, <2>1, Zenon
<1>3. CASE \E c \in Client : WalWrite(c)
  BY <1>3, StoreAcknowledges, Zenon DEF DocStoreOfIndex!Next, DocStoreOfVectors!Next
<1>4. CASE OpenWAL \/ OpenWALFails
  <2>1. UNCHANGED <<log, content, vec, redo>>
    BY <1>4, OpenKeepsCopies, Zenon DEF StoreInv, Settling
  <2> QED
    BY <1>1, <2>1, Zenon
<1>5. CASE \E k \in ShardKey : ConsumeWriteDocs(k)
  <2>1. DocStoreOfIndex!Next
    BY <1>5, IndexShows, Zenon DEF DocStoreOfIndex!Next
  <2>2. UNCHANGED <<log, vec, redo>>
    BY <1>5, Zenon DEF ConsumeWriteDocs
  <2>3. UNCHANGED DocStoreOfVectors!vars
    BY <2>2, VectorsStutter, Zenon
  <2> QED
    BY <2>1, <2>3, Zenon
<1>6. CASE ConsumeWriteVecs
  <2>1. DocStoreOfVectors!Next
    BY <1>6, VectorsShow, Zenon DEF DocStoreOfVectors!Next
  <2>2. UNCHANGED <<log, content, redo>>
    BY <1>6, Zenon DEF ConsumeWriteVecs
  <2>3. UNCHANGED DocStoreOfIndex!vars
    BY <2>2, IndexStutters, Zenon
  <2> QED
    BY <2>1, <2>3, Zenon
<1>7. CASE ConsumeRedoWrite
  BY <1>0, <1>7, StoreSettles, Zenon DEF DocStoreOfIndex!Next, DocStoreOfVectors!Next
<1>8. CASE ConsumeRedoRead
  <2>1. UNCHANGED <<log, content, vec>> /\ redo'.write = redo.write
    BY <1>8, Zenon DEF ConsumeRedoRead, StoreInv, IInv, TypeOK, RedoLog
  <2> QED
    BY <1>1, <2>1, Zenon
<1>9. CASE \/ ConsumeBegin \/ ConsumeTruncate \/ ConsumeCheckShards \/ ConsumeFails \/ Crash
           \/ UNCHANGED vars
  <2>1. UNCHANGED <<log, content, vec, redo>>
    BY <1>9, Zenon DEF ConsumeBegin, ConsumeTruncate, ConsumeCheckShards, ConsumeFails, Crash, vars, disk
  <2> QED
    BY <1>1, <2>1, Zenon
<1> QED
  BY <1>2, <1>3, <1>4, <1>5, <1>6, <1>7, <1>8, <1>9, Zenon DEF Next, Consumer

(* With clients that wait for an operation to settle before the next one   *)
(* on the same document, and with searches that do not fail, each document *)
(* has one unsettled operation at most, addressed to the shard with its    *)
(* copies; what was written of a batch is shown, and a batch that was cut  *)
(* short is written again as a whole.                                      *)
THEOREM StoreInvariant ==
  ASSUME Patient, ~SearchFails
  PROVE  Spec => []StoreInv
<1>1. Init => StoreInv
  BY InitInv, InitSettles, Zenon DEF StoreInv
<1>2. StoreInv /\ [Next]_vars => StoreInv'
  BY StoreStep, Zenon
<1> QED
  BY <1>1, <1>2, PTL DEF Spec

(* All the copies of a document are in one second-layer shard, with any    *)
(* number of crashes and failed calls: FindShardByDocID finds all of them. *)
THEOREM CopiesTogether ==
  ASSUME Patient, ~SearchFails
  PROVE  Spec => []CopiesInOneShard
<1>1. StoreInv => CopiesInOneShard
  <2> SUFFICES ASSUME StoreInv, NEW d \in Doc PROVE Cardinality(Where(d)) <= 1
    BY Zenon DEF CopiesInOneShard, Where
  <2>1. \A s, t \in Where(d) : s = t
    BY Zenon DEF StoreInv, Settling, OneShard
  <2>2. CASE Where(d) = {}
    BY <2>2, FS_EmptySet
  <2>3. CASE Where(d) # {}
    <3>1. PICK s : Where(d) = {s}
      BY <2>1, <2>3, Zenon
    <3>2. Cardinality({s}) = 1
      BY FS_Singleton, Zenon
    <3> QED
      BY <3>1, <3>2
  <2> QED
    BY <2>2, <2>3, Zenon
<1> QED
  BY <1>1, StoreInvariant, PTL

(* Until something crashes or fails, an insert never meets another copy.   *)
THEOREM SingleCopy ==
  ASSUME Patient, ~SearchFails
  PROVE  Spec => []OneCopyWithoutFaults
<1>1. StoreInv => OneCopyWithoutFaults
  BY Zenon DEF StoreInv, Settling, SingleCopies, OneShard, Where, OneCopyWithoutFaults, NoDuplicates
<1> QED
  BY <1>1, StoreInvariant, PTL

(* The bluge indexes of the shard implement DocStore: a search goes from   *)
(* one acknowledged version of a document to the next one in one step, and *)
(* has it before the redo log calls the batch written.                     *)
THEOREM IndexRefines ==
  ASSUME Patient, ~SearchFails
  PROVE  Spec => IndexImplementsDocStore
<1>1. Init => DocStoreOfIndex!Init
  BY InitSettles, Zenon DEF DocStoreOfIndex!Init
<1>2. StoreInv /\ [Next]_vars => [DocStoreOfIndex!Next]_(DocStoreOfIndex!vars)
  BY StoreSimulates, Zenon
<1> QED
  BY <1>1, <1>2, StoreInvariant, PTL DEF Spec, IndexImplementsDocStore, DocStoreOfIndex!Spec

(* The vector index implements DocStore for the vectors of the documents.  *)
THEOREM VectorsRefine ==
  ASSUME Patient, ~SearchFails
  PROVE  Spec => VectorsImplementDocStore
<1>1. Init => DocStoreOfVectors!Init
  BY InitSettles, Zenon DEF DocStoreOfVectors!Init, ShownVec
<1>2. StoreInv /\ [Next]_vars => [DocStoreOfVectors!Next]_(DocStoreOfVectors!vars)
  BY StoreSimulates, Zenon
<1> QED
  BY <1>1, <1>2, StoreInvariant, PTL DEF Spec, VectorsImplementDocStore, DocStoreOfVectors!Spec
=============================================================================
