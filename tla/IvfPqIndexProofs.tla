-------------------------- MODULE IvfPqIndexProofs --------------------------
(***************************************************************************)
(* What an IVF-PQ index keeps, for any goroutines, documents, thresholds,  *)
(* faults and crashes: the other steps, and so the whole, keep the         *)
(* invariant of IvfPqIndex.  It implies that the current segment is the    *)
(* last one, that searches show what is stored and, when the storage path  *)
(* is not hashed, that a vector is stored once, that every segment is      *)
(* recorded, and that the index can be loaded again.                       *)
(***************************************************************************)
EXTENDS IvfPqStepProofs

\* A step that names no prover is proved by Zenon.
USE Zenon

-----------------------------------------------------------------------------
(* The writes: a delete fails *)

(* A call of the delete fails.                                             *)
LEMMA DeleteFailsKeeps ==
  ASSUME ManagerInv, Inner, NEW c \in Client, NEW n \in SegId, DeleteFails(c, n)
  PROVE  Inner'
<1>0. PICK d : d = job[c].doc
  BY SMT
<1>1. /\ Book /\ c \in Holder /\ At(c, "hold") /\ job[c].step = "delete" /\ n \in job[c].todo
      /\ UNCHANGED <<written, faiss, meta, saved, want, repeated, recovered>>
      /\ Closes(c) /\ Step(c, "begin", {})
  BY Clients DEF DeleteFails, AtStep, history, Inner
<1> USE <1>1
<1>2. PICK done \in {{}, {"faiss"}, {"faiss", "store"}} :
        /\ index' = IF "faiss" \in done /\ ~Growing(n) THEN [index EXCEPT ![n][d] = 0] ELSE index
        /\ store' = IF "store" \in done THEN [store EXCEPT ![Id(n)][d] = 0] ELSE store
        /\ cache' = IF "store" \in done /\ Growing(n) THEN FreeCache(n) ELSE cache
  BY <1>0 DEF DeleteFails
<1>3. n \in DOMAIN meta.segs /\ Id(n) = n /\ job[c].op \in Writes /\ job[c].op # "insert" /\ d \in Doc
  <2>1. n \in DOMAIN meta.segs
    BY DEF Book, TodoOK
  <2>2. job[c].op \in Writes /\ job[c].op # "insert"
    BY SMT DEF Book, JobsOK
  <2> QED
    BY <1>0, <2>1, <2>2, IdIs DEF Book, JobsOK
<1> USE <1>3
<1>4. Writing(c, d) /\ \A b \in Client \ {c} : ~Writing(b, d)
  BY <1>0, OneWriter DEF Writing, Book
<1>5. /\ store' \in [SegId -> Bag] /\ (store' = store \/ store'[n][d] = 0)
      /\ \A e \in Doc \ {d} : store'[n][e] = store[n][e]
      /\ \A k \in SegId \ {n} : store'[k] = store[k]
      /\ \A k \in SegId, e \in Doc \ {d} : store'[k][e] = store[k][e]
  <2>1. store \in [SegId -> Bag] /\ (store' = store \/ store' = Without(store, n, d))
    BY <1>2 DEF Book, Typed, Without
  <2>2. store' = store \/ TakesOut(store', store, n, d)
    BY <2>1, TakenOut
  <2> QED
    BY <2>1, <2>2 DEF TakesOut
<1>6. /\ index' \in [SegId -> Bag] /\ \A k \in SegId \ {n} : index'[k] = index[k]
      /\ \A e \in Doc \ {d} : index'[n][e] = index[n][e]
  <2>1. index \in [SegId -> Bag] /\ (index' = index \/ index' = Without(index, n, d))
    BY <1>2 DEF Book, Typed, Without
  <2>2. index' = index \/ TakesOut(index', index, n, d)
    BY <2>1, TakenOut
  <2> QED
    BY <2>1, <2>2 DEF TakesOut
<1>7. /\ cache' \in [SegId -> Bag \cup {NoCache}] /\ \A k \in SegId \ {n} : cache'[k] = cache[k]
      /\ cache'[n] = NoCache \/ (cache'[n] = cache[n] /\ (store' = store \/ ~Growing(n)))
  <2>1. cache \in [SegId -> Bag \cup {NoCache}]
    BY DEF Book, Typed
  <2>2. \/ cache' = [cache EXCEPT ![n] = NoCache]
        \/ cache' = cache /\ (store' = store \/ ~Growing(n))
    BY <1>2 DEF FreeCache
  <2> QED
    BY <2>1, <2>2
<1>8. /\ job' \in [Holder -> Job] /\ \A q \in Holder \ {c} : job'[q] = job[q]
      /\ job'[c].op = job[c].op /\ job'[c].doc = d /\ job'[c].step = "begin" /\ job'[c].todo = {}
  BY <1>0, StepIs, SMT DEF Book
<1>9. /\ \A q \in Holder \ {c} : at'[q] = at[q]
      /\ (Alive' <=> Alive) /\ exists' = exists /\ cached' = cached
  BY HolderMoves, Names DEF Closes, manager
<1>10. \A b \in Client \ {c} : job'[b] = job[b]
  BY <1>8, Clients
<1>11. Typed'
  BY <1>5, <1>6, <1>7, <1>8 DEF Book, Typed
<1>12. WellFormed(meta)' /\ WellFormed(saved)' /\ Behind'
  BY MetaStays DEF Book
<1>13. JobsOK' /\ SealOK' /\ TodoOK'
  <2>1. JobsOK'
    <3>1. job'[c].step \notin {"delete", "add"} /\ job'[c].step # "delete"
      BY <1>8, SMT
    <3> QED
      BY <1>0, <1>8, <1>9, <3>1, ClientTurn DEF Book
  <2>2. SealOK'
    <3>1. job'[Sealer] = job[Sealer]
      BY <1>8, Clients
    <3> QED
      BY <3>1, SealStays DEF Book
  <2>3. TodoOK'
    <3>1. job'[c].todo \subseteq DOMAIN meta.segs
      BY <1>8
    <3> QED
      BY <1>10, <3>1, TodoStays DEF Book
  <2> QED
    BY <2>1, <2>2, <2>3
<1>14. exists' => Files'
  <2>1. CASE store' = store
    BY <1>9, <2>1, FilesStay DEF Inner
  <2>2. CASE store'[n][d] = 0
    BY <1>5, <1>9, <2>2, FilesLess DEF Inner, Book
  <2> QED
    BY <1>5, <2>1, <2>2
<1>15. ASSUME Alive' PROVE Vectors'
  <2>1. Alive /\ Vectors /\ cached # 0
    BY <1>9, <1>15, Holds DEF Inner
  <2>2. \A e \in Doc \ {d} : \A k : HalfDeleted(k, e) => HalfDeleted(k, e)'
    BY <1>0, <1>10, HalfKept DEF Writing
  <2>3. \A k : HalfDeleted(k, d)'
    BY <1>8 DEF HalfDeleted, Writing
  <2>4. ASSUME NEW k \in DOMAIN meta.segs, ~Growing(k) PROVE Has(faiss[k], k)' /\ Has(index[k], k)'
    <3>1. Has(faiss[k], k) /\ Has(index[k], k) /\ k \in SegId
      BY <2>1, <2>4 DEF Vectors, Book, WellFormed
    <3>2. \A e \in Doc \ {d} : faiss'[k][e] = faiss[k][e] /\ index'[k][e] = index[k][e] /\ store'[k][e] = store[k][e]
      BY <1>5, <1>6, <3>1
    <3> QED
      BY <2>2, <2>3, <3>1, <3>2 DEF Has
  <2>5. ASSUME NEW k \in SegId PROVE cache'[k] = NoCache \/ Filling(k)'
    <3>1. cache[k] = NoCache \/ Filling(k)
      BY <2>1 DEF Vectors
    <3>2. CASE k # n
      BY <1>5, <1>7, <3>1, <3>2 DEF Filling, Growing
    <3>3. CASE k = n
      BY <1>7, <3>1, <3>3 DEF Filling, Growing
    <3> QED
      BY <3>2, <3>3
  <2> QED
    BY <2>4, <2>5 DEF Vectors, Growing
<1>16. ASSUME Alive', ~Hashed PROVE Copies'
  <2>1. Copies
    BY <1>9, <1>16 DEF Inner
  <2>2. ASSUME d \in Doc \ repeated' PROVE WriteOK(c, d)'
    <3>1. WriteOK(c, d)
      BY <1>4, <2>1, <2>2 DEF Copies
    <3>2. Nowhere(d)' \/ Once(d)'
      <4>1. CASE store' = store
        BY <3>1, <4>1 DEF WriteOK, Nowhere, Once
      <4>2. CASE store'[n][d] = 0
        BY <1>5, <3>1, <4>2, CopiesLess DEF WriteOK
      <4> QED
        BY <1>5, <4>1, <4>2
    <3>3. job'[c].step \notin {"add", "delete", "done"}
      BY <1>8, SMT
    <3> QED
      BY <3>2, <3>3 DEF WriteOK
  <2>3. Writing(c, d)'
    BY <1>8 DEF Writing
  <2>4. /\ repeated \subseteq repeated'
        /\ \A e \in Doc \ {d} : (e \in want' <=> e \in want) /\ \A i \in SegId : store'[i][e] = store[i][e]
    BY <1>5
  <2>5. (job[c].op \in Writes => job[c].doc = d) /\ (job'[c].op \in Writes => job'[c].doc = d)
    BY <1>0, <1>8
  <2> QED
    BY <1>4, <1>10, <2>1, <2>2, <2>3, <2>4, <2>5, CopiesTurn
<1> QED
  BY <1>11, <1>12, <1>13, <1>14, <1>15, <1>16 DEF Inner, Book

-----------------------------------------------------------------------------
(* The writes: the vectors are added *)

(* The document d may have been added to the n-th store.                   *)
Puts(n, d) ==
  /\ store' \in [SegId -> Bag] /\ repeated \subseteq repeated' /\ repeated' \subseteq Doc
  /\ \A k \in SegId \ {n} : store'[k] = store[k]
  /\ \A k \in SegId, e \in Doc \ {d} : store'[k][e] = store[k][e]
  /\ \/ store' = store /\ written' = written
     \/ n \in written' /\ written' = written \cup {n}

(* StoreVectors puts the document in the current segment.                  *)
LEMMA PutsVectors ==
  ASSUME Book, NEW c \in Client, NEW d \in Doc, d = job[c].doc, StoreVectors(c)
  PROVE  Puts(meta.cur, d)
<1>1. /\ store \in [SegId -> Bag] /\ repeated \subseteq Doc
      /\ meta.cur \in DOMAIN meta.segs
  BY DEF Book, Typed, WellFormed
<1> USE <1>1
<1>2. Id(meta.cur) = meta.cur /\ meta.cur \in SegId
  BY IdIs
<1> USE <1>2
<1>3. CASE job[c].op = "delete"
  BY <1>3 DEF StoreVectors, Puts
<1>4. CASE job[c].op # "delete"
  <2> DEFINE n == meta.cur
             b == [store[n] EXCEPT ![d] = @ + 1]
  <2>1. store[n] \in Bag
    OBVIOUS
  <2>2. b \in Bag /\ \A e \in Doc \ {d} : b[e] = store[n][e]
    BY <2>1, SMT DEF Bag
  <2>3. store' = [store EXCEPT ![n] = b]
    BY <1>4 DEF StoreVectors
  <2>4. written' = written \cup {n} /\ repeated \subseteq repeated' /\ repeated' \subseteq Doc
    BY <1>4 DEF StoreVectors
  <2> HIDE DEF b
  <2>5. store' \in [SegId -> Bag] /\ store'[n] = b /\ \A k \in SegId \ {n} : store'[k] = store[k]
    BY <2>2, <2>3
  <2> QED
    BY <2>2, <2>4, <2>5 DEF Puts
<1> QED
  BY <1>3, <1>4

(* A write that adds leaves the copies it should.                          *)
LEMMA PutsOnce ==
  ASSUME Book, NEW c \in Client, NEW d \in Doc \ repeated', d = job[c].doc, job[c].op \in Writes,
         job[c].step = "add", WriteOK(c, d), StoreVectors(c)
  PROVE  IF job[c].op = "delete" THEN Nowhere(d)' ELSE Once(d)'
<1>1. CASE job[c].op = "delete"
  <2>1. "delete" # "insert"
    BY SMT
  <2>2. Nowhere(d) /\ store' = store
    BY <1>1, <2>1 DEF WriteOK, StoreVectors
  <2> QED
    BY <1>1, <2>2 DEF Nowhere
<1>2. CASE job[c].op # "delete"
  <2> USE <1>2
  <2> DEFINE n == meta.cur
             b == [store[n] EXCEPT ![d] = @ + 1]
  <2>1. store \in [SegId -> Bag] /\ n \in DOMAIN meta.segs
    BY DEF Book, Typed, WellFormed
  <2> USE <2>1
  <2>2. Id(n) = n /\ n \in SegId /\ store[n] \in Bag
    BY IdIs
  <2> USE <2>2
  <2>3. Nowhere(d)
    <3>1. CASE job[c].op = "insert"
      <4> SUFFICES ASSUME NEW i \in SegId PROVE store[i][d] = 0
        BY DEF Nowhere
      <4>1. ~(store[i][d] > 0)
        <5>1. repeated' = IF job[c].op = "insert" /\ \E j \in SegId : store[j][d] > 0
                          THEN repeated \cup {d} ELSE repeated
          BY DEF StoreVectors
        <5> QED
          BY <3>1, <5>1
      <4>2. store[i][d] \in Nat
        <5>1. store[i] \in Bag
          OBVIOUS
        <5> QED
          BY <5>1 DEF Bag
      <4> QED
        BY <4>1, <4>2, NatCase
    <3>2. CASE job[c].op # "insert"
      BY <3>2 DEF WriteOK
    <3> QED
      BY <3>1, <3>2
  <2>4. store[n][d] = 0
    BY <2>3 DEF Nowhere
  <2>5. b[d] = 1
    BY <2>4, SMT DEF Bag
  <2>6. store' = [store EXCEPT ![n] = b]
    BY DEF StoreVectors
  <2> HIDE DEF b
  <2>7. store'[n] = b /\ \A k \in SegId \ {n} : store'[k] = store[k]
    BY <2>6
  <2>8. store'[n][d] = 1 /\ \A i \in SegId \ {n} : store'[i][d] = 0
    BY <2>3, <2>5, <2>7 DEF Nowhere
  <2> QED
    BY <2>8 DEF Once
<1> QED
  BY <1>1, <1>2

(* The segments with files stay the first ones.                            *)
LEMMA FirstWritten ==
  ASSUME NEW w \in 0 .. MaxSeg, NEW n \in SegId, 1 .. n - 1 \subseteq 1 .. w
  PROVE  \E v \in 0 .. MaxSeg : (1 .. w) \cup {n} = 1 .. v
<1>1. w \in Nat /\ n \in Nat /\ n >= 1 /\ n <= MaxSeg /\ MaxSeg \in Nat /\ w <= MaxSeg
  BY IvfPqAssumption, SMT DEF SegId
<1> USE <1>1
<1>2. n - 1 <= w
  <2>1. CASE n = 1
    BY <2>1, SMT
  <2>2. CASE n # 1
    <3>1. n - 1 \in 1 .. n - 1
      BY <2>2, SMT
    <3> QED
      BY <3>1, SMT
  <2> QED
    BY <2>1, <2>2
<1>3. CASE n <= w
  <2>1. (1 .. w) \cup {n} = 1 .. w
    BY <1>3, SMT
  <2> QED
    BY <2>1
<1>4. CASE n = w + 1
  <2>1. (1 .. w) \cup {n} = 1 .. n /\ n \in 0 .. MaxSeg
    BY <1>4, SMT
  <2> QED
    BY <2>1
<1> QED
  BY <1>2, <1>3, <1>4, SMT

(* Storing a document in the current segment keeps the files in order.     *)
LEMMA FilesMore ==
  ASSUME Book, Files, NEW d \in Doc, Puts(meta.cur, d), saved' = saved
  PROVE  /\ \E w \in 0 .. MaxSeg : written' = 1 .. w
         /\ written' \subseteq SegId /\ Filled(saved)'
         /\ \A i \in SegId : store'[i] # Empty => i \in written'
         /\ DOMAIN meta.segs \ {meta.cur} \subseteq written'
         /\ ~Hashed /\ cached # 0 => written' \subseteq DOMAIN meta.segs
<1> DEFINE n == meta.cur
<1>1. n \in DOMAIN meta.segs /\ n \in SegId /\ written \subseteq SegId
  BY DEF Book, WellFormed, Typed
<1> USE <1>1
<1>2. \A i \in SegId : store'[i] # Empty => i \in written'
  BY DEF Files, Puts
<1>3. /\ written \subseteq written' /\ written' \subseteq written \cup {n}
      /\ written' = written \/ written' = written \cup {n}
  BY DEF Puts
<1>4. \E w \in 0 .. MaxSeg : written' = 1 .. w
  <2>1. PICK w \in 0 .. MaxSeg : written = 1 .. w
    BY DEF Files
  <2> USE <2>1
  <2>2. CASE written' = written
    BY <2>2
  <2>3. CASE written' = written \cup {n}
    <3>1. meta \in Metadata
      BY DEF Book, Typed
    <3>2. 1 .. n - 1 \subseteq DOMAIN meta.segs \ {n}
      <4>1. DOMAIN meta.segs = 1 .. Len(meta.segs) /\ Len(meta.segs) \in Nat /\ n \in Nat
        BY <3>1, SegPlaces
      <4> HIDE DEF n
      <4> QED
        BY <4>1, SMT
    <3>3. 1 .. n - 1 \subseteq 1 .. w
      BY <3>2 DEF Files, Filled
    <3> QED
      BY <2>3, <3>3, FirstWritten
  <2> QED
    BY <1>3, <2>2, <2>3
<1> QED
  BY <1>2, <1>3, <1>4 DEF Files, Filled

(* The metadata keeps its segments, and a new one is the current one, when *)
(* the one before it has files.                                            *)
Grown ==
  /\ meta' \in Metadata /\ WellFormed(meta)' /\ DOMAIN meta.segs \subseteq DOMAIN meta'.segs
  /\ \A k \in DOMAIN meta.segs : meta'.segs[k].status = meta.segs[k].status
  /\ \A k \in DOMAIN meta'.segs \ DOMAIN meta.segs : Growing(k)'
  /\ DOMAIN meta.segs \ {meta.cur} \subseteq DOMAIN meta'.segs \ {meta'.cur}
  /\ DOMAIN meta'.segs \ {meta'.cur} \subseteq DOMAIN meta.segs
  /\ exists /\ meta.cur \in DOMAIN meta'.segs \ {meta'.cur} => meta.cur \in written'

(* Metadata that do not change have grown by no segment.                   *)
LEMMA GrownByNone ==
  ASSUME Book, meta' = meta, recovered' = recovered
  PROVE  Grown
BY DEF Grown, Book, Typed, WellFormed, InPlace

(* The numbers a new segment can have.                                     *)
LEMMA NextPlace ==
  ASSUME NEW k \in Nat, NEW n \in 1 .. k, k + 1 <= MaxSeg
  PROVE  n + 1 \in SegId /\ 1 .. k + 1 \subseteq SegId /\ k + 1 \notin 1 .. k /\ (n + 1 = k + 1 => n = k)
BY IvfPqAssumption, SMT DEF SegId

(* The segments of a record are the ones it was made with.                 *)
LEMMA SegsOf ==
  ASSUME NEW i, NEW q, NEW m, m = [cur |-> i, segs |-> q]
  PROVE  m.segs = q
BY SMT

(* checkNewSeg adds one, or none.                                          *)
LEMMA NewSegIs ==
  ASSUME Book, NEW v \in Nat, meta' = CheckNewSeg([meta EXCEPT !.segs[meta.cur].count = v]),
         Len(meta'.segs) <= MaxSeg
  PROVE  \/ v < Threshold /\ Like(meta', meta)
         \/ /\ ~(v < Threshold)
            /\ \E m : Like(m, meta) /\ Longer(meta', m) /\ Len(meta.segs) + 1 <= MaxSeg
<1>0. PICK m : m = [meta EXCEPT !.segs[meta.cur].count = v]
  BY SMT
<1>1. meta \in Metadata /\ meta.cur \in DOMAIN meta.segs
  BY DEF Book, Typed, WellFormed
<1>2. Like(m, meta) /\ m.segs[meta.cur].count = v
  <2>1. Like(m, meta)
    BY <1>0, <1>1, SetCount
  <2>2. HasCount(m, meta.cur, v)
    BY <1>0, <1>1, CountSet
  <2> QED
    BY <2>1, <2>2 DEF HasCount
<1>3. meta' = CheckNewSeg(m)
  BY <1>0
<1>4. m \in Metadata /\ m.cur = meta.cur /\ Len(m.segs) = Len(meta.segs)
  BY <1>2 DEF Like
<1>5. CASE v < Threshold
  BY <1>2, <1>3, <1>4, <1>5 DEF CheckNewSeg
<1>6. CASE ~(v < Threshold)
  <2>1. meta' = [cur |-> m.cur + 1, segs |-> Append(m.segs, NewSegment(m.cur + 1, 0))]
    BY <1>2, <1>3, <1>4, <1>6 DEF CheckNewSeg
  <2>2. meta'.segs = Append(m.segs, NewSegment(m.cur + 1, 0))
    BY <2>1, SegsOf
  <2>3. Len(m.segs) \in Nat /\ m.cur \in 1 .. Len(m.segs)
    BY <1>1, <1>4, SegPlaces
  <2>4. Len(m.segs) + 1 <= MaxSeg
    <3>1. m.segs \in Seq(Segment)
      BY <1>4, SMT DEF Metadata
    <3>2. Len(Append(m.segs, NewSegment(m.cur + 1, 0))) = Len(m.segs) + 1
      BY <3>1, SMT
    <3> QED
      BY <2>2, <3>2
  <2>5. m.cur + 1 \in SegId
    BY <2>3, <2>4, NextPlace
  <2>6. Longer(meta', m)
    BY <1>4, <2>1, <2>5, AddSegment
  <2> QED
    BY <1>2, <1>4, <1>6, <2>4, <2>6
<1> QED
  BY <1>5, <1>6

(* checkNewSeg adds at most one segment, and a written one is left behind. *)
LEMMA NewSegGrows ==
  ASSUME Book, NEW v \in Nat, meta' = CheckNewSeg([meta EXCEPT !.segs[meta.cur].count = v]),
         Len(meta'.segs) <= MaxSeg, InPlace(meta)', recovered' = recovered,
         exists /\ ~(v < Threshold) => meta.cur \in written'
  PROVE  Grown
<1>1. /\ meta \in Metadata /\ meta.cur \in DOMAIN meta.segs /\ DOMAIN meta.segs \subseteq SegId
      /\ Growing(meta.cur) /\ (~recovered => meta.cur = Len(meta.segs))
  BY DEF Book, Typed, WellFormed, Growing
<1>2. CASE v < Threshold /\ Like(meta', meta)
  BY <1>1, <1>2 DEF Like, Grown, WellFormed, Growing
<1>3. ASSUME NEW m, ~(v < Threshold), Like(m, meta), Longer(meta', m), Len(meta.segs) + 1 <= MaxSeg
      PROVE  Grown
  <2> USE <1>3
  <2> DEFINE k == Len(meta.segs)
  <2>1. DOMAIN meta.segs = 1 .. k /\ k \in Nat /\ meta.cur \in 1 .. k /\ k + 1 <= MaxSeg
    BY <1>1, SegPlaces
  <2> USE <2>1
  <2>2. /\ meta' \in Metadata /\ meta'.cur = meta.cur + 1 /\ DOMAIN meta'.segs = 1 .. k + 1
        /\ Len(meta'.segs) = k + 1
        /\ \A n \in 1 .. k : meta'.segs[n].status = meta.segs[n].status
        /\ meta'.segs[k + 1].id = meta.cur + 1 /\ meta'.segs[k + 1].status = "growing"
    BY DEF Like, Longer
  <2> HIDE DEF k
  <2>3. /\ 1 .. k + 1 \subseteq SegId /\ k + 1 \notin 1 .. k /\ k + 1 \in 1 .. k + 1
        /\ 1 .. k + 1 = (1 .. k) \cup {k + 1}
    BY IvfPqAssumption, SMT DEF SegId
  <2> USE <2>3
  <2>4. meta.cur = k /\ meta'.cur = k + 1
    <3>1. meta.cur + 1 = k + 1
      BY <2>2 DEF InPlace
    <3> QED
      BY <2>2, <3>1, NextPlace DEF k
  <2>5. WellFormed(meta)'
    BY <2>2, <2>4 DEF WellFormed
  <2>6. \A n \in DOMAIN meta'.segs \ DOMAIN meta.segs : Growing(n)'
    BY <2>2 DEF Growing
  <2> QED
    BY <2>2, <2>4, <2>5, <2>6 DEF Grown
<1> QED
  BY <1>2, <1>3, NewSegIs

(* Without a recovery the new segment is in its place.                     *)
LEMMA NewSegInPlace ==
  ASSUME Book, NEW v \in Nat, meta' = CheckNewSeg([meta EXCEPT !.segs[meta.cur].count = v]),
         Len(meta'.segs) <= MaxSeg, ~recovered
  PROVE  InPlace(meta')
<1>1. meta \in Metadata /\ meta.cur = Len(meta.segs) /\ InPlace(meta)
  BY DEF Book, Typed, WellFormed
<1> USE <1>1
<1>2. CASE Like(meta', meta)
  BY <1>2 DEF Like, InPlace
<1>3. ASSUME NEW m, Like(m, meta), Longer(meta', m) PROVE InPlace(meta')
  <2>0. PICK k : k = Len(meta.segs)
    OBVIOUS
  <2>1. DOMAIN meta.segs = 1 .. k /\ k \in Nat
    BY <2>0, SegPlaces
  <2>2. m.cur = k /\ Len(m.segs) = k /\ DOMAIN m.segs = 1 .. k /\ \A n \in 1 .. k : m.segs[n].id = n
    BY <1>3, <2>0, <2>1 DEF Like, InPlace
  <2>3. /\ DOMAIN meta'.segs = 1 .. k + 1 /\ meta'.segs[k + 1].id = k + 1
        /\ \A n \in 1 .. k : meta'.segs[n].id = n
    BY <1>3, <2>2 DEF Longer
  <2>4. \A n \in 1 .. k + 1 : n \in 1 .. k \/ n = k + 1
    BY <2>1, SMT
  <2> QED
    BY <2>3, <2>4 DEF InPlace
<1> QED
  BY <1>2, <1>3, NewSegIs

(* The vectors are added, or an error says that they may not be.           *)
LEMMA AddStep ==
  ASSUME Inner, NEW c \in Client, NEW d \in Doc, Writing(c, d), job[c].step = "add", cached # 0,
         Puts(meta.cur, d), Grown, UNCHANGED <<faiss, index, saved, recovered, exists, cached>>,
         want' \subseteq Doc, \A e \in Doc \ {d} : e \in want' <=> e \in want,
         \/ cache' = cache /\ store' = store
         \/ cache' = [cache EXCEPT ![meta.cur] = NoCache],
         JobsOK', job' \in [Holder -> Job], \A q \in Holder \ {c} : job'[q] = job[q],
         job'[c].op = job[c].op, job'[c].doc = d, job'[c].todo = {}, Alive' => Alive,
         d \notin repeated' /\ WriteOK(c, d) => WriteOK(c, d)'
  PROVE  Inner'
<1>1. Book /\ meta.cur \in DOMAIN meta.segs /\ meta.cur \in SegId /\ Growing(meta.cur)
  BY DEF Inner, Book, WellFormed, Growing
<1> USE <1>1
<1>2. \A b \in Client \ {c} : job'[b] = job[b] /\ ~Writing(b, d)
  BY Clients, OneWriter DEF Book
<1>3. /\ cache' \in [SegId -> Bag \cup {NoCache}]
      /\ \A k \in SegId \ {meta.cur} : cache'[k] = cache[k]
      /\ cache'[meta.cur] = NoCache \/ (cache'[meta.cur] = cache[meta.cur] /\ store' = store)
  <2>1. cache \in [SegId -> Bag \cup {NoCache}]
    BY DEF Book, Typed
  <2> QED
    BY <2>1
<1>4. exists => Files'
  <2> SUFFICES ASSUME exists PROVE Files'
    BY SMT
  <2>1. Files
    BY DEF Inner
  <2>2. /\ \E w \in 0 .. MaxSeg : written' = 1 .. w
        /\ Filled(saved)' /\ \A i \in SegId : store'[i] # Empty => i \in written'
        /\ DOMAIN meta.segs \ {meta.cur} \subseteq written'
        /\ ~Hashed /\ cached # 0 => written' \subseteq DOMAIN meta.segs
    BY <2>1, FilesMore
  <2>3. Filled(meta)'
    BY <2>2 DEF Filled, Grown
  <2>4. ~Hashed => written' \subseteq DOMAIN meta'.segs
    BY <2>2 DEF Grown
  <2> QED
    BY <2>2, <2>3, <2>4 DEF Files
<1>5. Typed'
  <2>1. written' \subseteq SegId
    BY DEF Book, Typed, Puts
  <2> QED
    BY <1>3, <2>1 DEF Book, Typed, Puts, Grown
<1>6. WellFormed(meta)' /\ WellFormed(saved)' /\ Behind'
  <2>1. WellFormed(saved)'
    BY DEF Book, WellFormed, InPlace
  <2>2. Behind'
    BY DEF Book, Behind, Growing, Grown
  <2> QED
    BY <2>1, <2>2 DEF Grown
<1>7. SealOK' /\ TodoOK'
  <2>1. job'[Sealer] = job[Sealer]
    BY Clients
  <2>2. SealOK'
    BY <2>1, SealStays DEF Book, Grown
  <2>3. DOMAIN meta.segs \subseteq DOMAIN meta'.segs /\ job'[c].todo \subseteq DOMAIN meta.segs
    BY DEF Grown
  <2> QED
    BY <1>2, <2>2, <2>3, TodoStays DEF Book
<1>8. ASSUME Alive' PROVE Vectors'
  <2>1. Vectors
    BY <1>8 DEF Inner
  <2>2. \A k, e : HalfDeleted(k, e) => HalfDeleted(k, e)'
    <3>1. job[c].step \notin {"begin", "delete"}
      BY SMT
    <3> QED
      BY <1>2, <3>1, HalfKept
  <2>3. ASSUME NEW k \in DOMAIN meta'.segs, ~Growing(k)' PROVE Has(faiss[k], k)' /\ Has(index[k], k)'
    <3>1. k \in DOMAIN meta.segs /\ ~Growing(k)
      BY <2>3 DEF Grown, Growing
    <3>2. k \in SegId \ {meta.cur}
      BY <3>1 DEF Book, WellFormed
    <3>3. store'[k] = store[k]
      BY <3>2 DEF Puts
    <3> QED
      BY <2>1, <2>2, <3>1, <3>3 DEF Vectors, Has
  <2>4. ASSUME NEW k \in SegId PROVE cache'[k] = NoCache \/ Filling(k)'
    <3>1. cache[k] = NoCache \/ Filling(k)
      BY <2>1 DEF Vectors
    <3>2. k \in DOMAIN meta.segs /\ Growing(k) => k \in DOMAIN meta'.segs /\ Growing(k)'
      BY DEF Grown, Growing
    <3>3. CASE k # meta.cur
      BY <1>3, <3>1, <3>2, <3>3 DEF Filling, Puts
    <3>4. CASE k = meta.cur
      BY <1>3, <3>1, <3>2, <3>4 DEF Filling
    <3> QED
      BY <3>3, <3>4
  <2> QED
    BY <2>3, <2>4 DEF Vectors
<1>9. ASSUME Alive', ~Hashed PROVE Copies'
  <2>1. Copies
    BY <1>9 DEF Inner
  <2>2. ASSUME d \in Doc \ repeated' PROVE WriteOK(c, d)'
    BY <2>1, <2>2 DEF Copies, Puts
  <2>3. Writing(c, d)'
    BY DEF Writing
  <2>4. /\ repeated \subseteq repeated'
        /\ \A e \in Doc \ {d} : (e \in want' <=> e \in want) /\ \A i \in SegId : store'[i][e] = store[i][e]
    BY DEF Puts
  <2>5. (job[c].op \in Writes => job[c].doc = d) /\ (job'[c].op \in Writes => job'[c].doc = d)
    BY DEF Writing
  <2>6. d \in Doc \ repeated' =>
          /\ \A b \in Client \ {c} : ~Writing(b, d)
          /\ Writing(c, d)' => WriteOK(c, d)'
          /\ ~Writing(c, d)' => Settled(d)'
    BY <1>2, <2>2, <2>3
  <2>7. \A b \in Client \ {c} : job'[b] = job[b]
    BY <1>2
  <2> QED
    BY <2>1, <2>4, <2>5, <2>6, <2>7, CopiesTurn
<1> QED
  BY <1>4, <1>5, <1>6, <1>7, <1>8, <1>9 DEF Inner, Book

(* An add that fails, before or after the file is written, keeps the       *)
(* invariant.                                                              *)
LEMMA AddFailsKeeps ==
  ASSUME ManagerInv, Inner, NEW c \in Client, AddFails(c)
  PROVE  Inner'
<1>0. PICK d : d = job[c].doc
  BY SMT
<1>1. /\ Book /\ c \in Holder /\ At(c, "hold") /\ job[c].step = "add"
      /\ UNCHANGED <<faiss, meta, index, saved, want, recovered>>
      /\ Closes(c) /\ Step(c, "begin", {})
      /\ \/ StoreVectors(c) /\ cache' = IF Growing(meta.cur) THEN FreeCache(meta.cur) ELSE cache
         \/ UNCHANGED <<store, written, cache, repeated>>
  BY Clients DEF AddFails, AtStep, Inner
<1>2. d \in Doc /\ Writing(c, d) /\ job[c].op \in Writes
  <2>1. job[c].op \in Writes
    BY <1>1 DEF Book, JobsOK
  <2> QED
    BY <1>0, <1>1, <2>1 DEF Book, JobsOK, Writing
<1>3. Puts(meta.cur, d)
  <2>1. store \in [SegId -> Bag] /\ repeated \subseteq Doc
    BY <1>1 DEF Book, Typed
  <2>2. CASE StoreVectors(c)
    BY <1>0, <1>1, <1>2, <2>2, PutsVectors
  <2>3. CASE UNCHANGED <<store, written, cache, repeated>>
    BY <2>1, <2>3 DEF Puts
  <2> QED
    BY <1>1, <2>2, <2>3
<1>4. Grown
  BY <1>1, GrownByNone
<1>5. \/ cache' = cache /\ store' = store
      \/ cache' = [cache EXCEPT ![meta.cur] = NoCache]
  <2>1. Growing(meta.cur)
    BY <1>1 DEF Book, WellFormed, Growing
  <2> QED
    BY <1>1, <2>1 DEF FreeCache
<1>6. /\ job' \in [Holder -> Job] /\ \A q \in Holder \ {c} : job'[q] = job[q]
      /\ job'[c].op = job[c].op /\ job'[c].doc = d /\ job'[c].step = "begin" /\ job'[c].todo = {}
  <2>1. Typed /\ c \in Holder /\ Step(c, "begin", {})
    BY <1>1 DEF Book
  <2> QED
    BY <1>0, <2>1, StepIs, SMT
<1>7. /\ \A q \in Holder \ {c} : at'[q] = at[q]
      /\ (Alive' <=> Alive) /\ exists' = exists /\ cached' = cached
  BY <1>1, HolderMoves, Names DEF Closes, manager
<1>8. JobsOK'
  <2>1. job'[c].step \notin {"delete", "add"} /\ job'[c].step # "delete"
    BY <1>6, SMT
  <2> QED
    BY <1>0, <1>1, <1>6, <1>7, <2>1, ClientTurn DEF Book
<1>9. ASSUME d \notin repeated', WriteOK(c, d) PROVE WriteOK(c, d)'
  <2>1. Nowhere(d)' \/ Once(d)'
    <3>1. CASE StoreVectors(c)
      BY <1>0, <1>1, <1>2, <1>9, <3>1, PutsOnce
    <3>2. CASE store' = store
      BY <1>9, <3>2 DEF WriteOK, Nowhere, Once
    <3> QED
      BY <1>1, <3>1, <3>2
  <2>2. job'[c].step \notin {"add", "delete", "done"}
    BY <1>6, SMT
  <2> QED
    BY <2>1, <2>2 DEF WriteOK
<1>10. want' \subseteq Doc /\ cached # 0
  BY <1>1, Holds DEF Book, Typed
<1> QED
  BY <1>1, <1>2, <1>3, <1>4, <1>5, <1>6, <1>7, <1>8, <1>9, <1>10, AddStep

(* Adding a document keeps the invariant while the segments stay in place. *)
LEMMA AddVectorsKeeps ==
  ASSUME ManagerInv, Inner, NEW c \in Client, AddVectors(c), InPlace(meta')
  PROVE  Inner'
<1>0. PICK d, n : d = job[c].doc /\ n = meta.cur
  BY SMT
<1> USE <1>0
<1>1. /\ Book /\ c \in Holder /\ At(c, "hold") /\ job[c].step = "add" /\ StoreVectors(c)
      /\ UNCHANGED <<managerVars, index, saved, recovered>> /\ Step(c, "done", {}) /\ Save(n)
      /\ meta' = CheckNewSeg([meta EXCEPT !.segs[meta.cur].count = CountOf(n)])
      /\ Len(meta'.segs) <= MaxSeg
      /\ want' = IF job[c].op = "delete" THEN want \ {d} ELSE want \cup {d}
  BY Clients DEF AddVectors, AtStep, Inner
<1> USE <1>1
<1>2. d \in Doc /\ Writing(c, d) /\ job[c].op \in Writes
  <2>1. job[c].op \in Writes
    BY SMT DEF Book, JobsOK
  <2> QED
    BY <2>1 DEF Book, JobsOK, Writing
<1> USE <1>2
<1>3. n \in DOMAIN meta.segs /\ Growing(n) /\ Id(n) = n /\ n \in SegId
  <2>1. n \in DOMAIN meta.segs /\ Growing(n)
    BY DEF Book, WellFormed, Growing
  <2> QED
    BY <2>1, IdIs
<1> USE <1>3
<1>4. Puts(meta.cur, d)
  BY PutsVectors
<1> USE <1>4
<1>5. faiss' = faiss /\ cache' = [cache EXCEPT ![meta.cur] = NoCache]
  BY DEF Save, FreeCache
<1>6. Grown
  <2>1. store'[n] \in Bag
    BY DEF Puts
  <2>2. CountOf(n) = Count(store'[n]) /\ CountOf(n) \in Nat
    BY <2>1, CountType DEF CountOf
  <2>3. ASSUME exists, ~(CountOf(n) < Threshold) PROVE n \in written'
    <3>1. 0 < Threshold
      BY IvfPqAssumption, SMT
    <3>2. store'[n] # Empty
      BY <2>2, <2>3, <3>1, CountEmpty
    <3> QED
      BY <2>3, <3>2, FilesMore DEF Inner
  <2> QED
    BY <2>2, <2>3, NewSegGrows
<1>7. /\ job' \in [Holder -> Job] /\ \A q \in Holder \ {c} : job'[q] = job[q]
      /\ job'[c].op = job[c].op /\ job'[c].doc = d /\ job'[c].step = "done" /\ job'[c].todo = {}
  BY StepIs, SMT DEF Book
<1>8. UNCHANGED <<at, exists, cached>> /\ (Alive' <=> Alive) /\ At(c, "hold")'
  BY Unmoved
<1>9. JobsOK'
  <2>1. job'[c].step \notin {"delete", "add"} /\ job'[c].step # "delete"
    BY <1>7, SMT
  <2> QED
    BY <1>7, <1>8, <2>1, ClientTurn DEF Book
<1>10. ASSUME d \notin repeated', WriteOK(c, d) PROVE WriteOK(c, d)'
  <2>1. IF job[c].op = "delete" THEN Nowhere(d)' ELSE Once(d)'
    BY <1>10, PutsOnce
  <2>2. Settled(d)'
    BY <2>1 DEF Settled
  <2>3. job'[c].step \notin {"add", "delete"}
    BY <1>7, SMT
  <2> QED
    BY <2>1, <2>2, <2>3 DEF WriteOK
<1>11. /\ want' \subseteq Doc /\ cached # 0
       /\ \A e \in Doc \ {d} : e \in want' <=> e \in want
  BY Holds DEF Book, Typed
<1> QED
  BY <1>5, <1>6, <1>7, <1>8, <1>9, <1>10, <1>11, AddStep

-----------------------------------------------------------------------------
(* Crashes and loads *)

(* The process starts again with the stored metadata.                      *)
LEMMA CrashKeeps ==
  ASSUME Inner, Crash
  PROVE  Inner'
<1>1. /\ Book /\ Files /\ Vectors /\ (~Hashed => Copies)
      /\ UNCHANGED <<store, written, faiss, cache, index, saved, want, repeated, recovered>>
      /\ meta' = saved /\ cached' = 0
      /\ job' = [p \in Holder |-> IF job[p].op \in Writes
                                  THEN [job[p] EXCEPT !.step = "begin", !.todo = {}] ELSE NoJob]
  BY DEF Inner, Crash, Restart, Alive, disk, history
<1>2. ASSUME NEW p \in Holder
      PROVE  /\ job'[p] \in Job /\ job'[p].step = "begin" /\ job'[p].todo = {}
             /\ job'[p].op \in Writes <=> job[p].op \in Writes
             /\ job'[p].op \in Writes => job'[p].op = job[p].op /\ job'[p].doc = job[p].doc
             /\ job'[p].op \notin Writes => job'[p].op = "none"
  <2>1. job[p] \in Job
    BY <1>1 DEF Book, Typed
  <2>2. CASE job[p].op \in Writes
    <3>1. job'[p] = [job[p] EXCEPT !.step = "begin", !.todo = {}]
      BY <1>1, <2>2
    <3>2. /\ job'[p] \in Job /\ job'[p].step = "begin" /\ job'[p].todo = {}
          /\ job'[p].op = job[p].op /\ job'[p].doc = job[p].doc
      BY <2>1, <3>1 DEF Job
    <3> QED
      BY <2>2, <3>2
  <2>3. CASE job[p].op \notin Writes
    <3>1. job'[p] = NoJob
      BY <1>1, <2>3
    <3> QED
      BY <2>3, <3>1, NoJobIs
  <2> QED
    BY <2>2, <2>3
<1>3. \A c \in Client, d \in Doc : Writing(c, d)' <=> Writing(c, d)
  BY <1>2, Clients DEF Writing
<1>4. job' \in [Holder -> Job]
  BY <1>1, <1>2
<1>5. Typed' /\ WellFormed(meta)' /\ WellFormed(saved)' /\ Behind'
  <2>1. Typed'
    BY <1>1, <1>4 DEF Book, Typed
  <2>2. WellFormed(meta)' /\ WellFormed(saved)'
    BY <1>1 DEF Book, WellFormed, InPlace
  <2>3. Behind'
    <3>1. \A n \in DOMAIN saved.segs : saved.segs[n].status = "sealed" => saved.segs[n].status # "growing"
      BY SMT
    <3> QED
      BY <1>1, <3>1 DEF Behind, Growing
  <2> QED
    BY <2>1, <2>2, <2>3
<1>6. JobsOK' /\ SealOK' /\ TodoOK'
  <2>1. \A p \in Holder : job'[p].step \notin {"delete", "add", "seal", "save"} /\ job'[p].step # "delete"
    BY <1>2, SMT
  <2>2. job'[Sealer].op \in {"none", "seal"}
    <3>1. job[Sealer].op \notin Writes
      BY <1>1 DEF Book, JobsOK, Writes
    <3> QED
      BY <1>2, <3>1, Clients
  <2>3. \A p \in Holder : job'[p].op \in Writes => job'[p].doc \in Doc
    BY <1>1, <1>2 DEF Book, JobsOK
  <2>4. \A b, c \in Client, d \in Doc : Writing(b, d)' /\ Writing(c, d)' => b = c
    BY <1>1, <1>3 DEF Book, JobsOK
  <2>5. JobsOK'
    BY <1>2, <2>1, <2>2, <2>3, <2>4, Clients DEF JobsOK
  <2> QED
    BY <1>2, <2>1, <2>5, SealIdle, Clients DEF TodoOK
<1>7. Files'
  BY <1>1 DEF Files, Filled
<1>8. Vectors'
  <2>1. ASSUME NEW n \in DOMAIN meta'.segs, ~Growing(n)' PROVE Has(faiss[n], n)'
    <3>1. n \in DOMAIN meta.segs /\ ~Growing(n)
      <4>1. n \in DOMAIN saved.segs /\ saved \in Metadata
        BY <1>1, <2>1 DEF Book, Typed
      <4>2. saved.segs[n].status \in {"growing", "sealed"}
        <5>1. saved.segs[n] \in Segment
          BY <4>1, SegPlaces
        <5> QED
          BY <5>1, SMT DEF Segment
      <4> QED
        BY <1>1, <2>1, <4>1, <4>2 DEF Book, Behind, Growing
    <3>2. \A d \in Doc : HalfDeleted(n, d) => HalfDeleted(n, d)'
      BY <1>2, <1>3, Clients DEF HalfDeleted, Writing
    <3> QED
      BY <1>1, <3>1, <3>2 DEF Vectors, Has
  <2> QED
    BY <1>1, <2>1 DEF Vectors
<1>9. ASSUME ~Hashed PROVE Copies'
  <2>1. \A d : (Nowhere(d)' <=> Nowhere(d)) /\ (Once(d)' <=> Once(d)) /\ (Settled(d)' <=> Settled(d))
    BY <1>1 DEF Nowhere, Once, Settled
  <2>2. \A d \in Doc : Busy(d)' <=> Busy(d)
    BY <1>3 DEF Busy, Writing
  <2>3. ASSUME NEW d \in Doc, NEW c \in Client, WriteOK(c, d) PROVE WriteOK(c, d)'
    <3>1. job'[c].step \notin {"add", "delete", "done"}
      BY <1>2, Clients, SMT
    <3> QED
      BY <2>1, <2>3, <3>1 DEF WriteOK
  <2> QED
    BY <1>1, <1>3, <1>9, <2>1, <2>2, <2>3 DEF Copies
<1> QED
  BY <1>5, <1>6, <1>7, <1>8, <1>9 DEF Inner, Book

(* How many segments checkStoredSegments finds.                            *)
LEMMA ListedCount ==
  ASSUME written \subseteq SegId
  PROVE  /\ Cardinality(Listed) \in Nat /\ Cardinality(Listed) <= MaxSeg
         /\ Hashed => Cardinality(Listed) = 0
<1>1. MaxSeg \in Nat /\ MaxSeg >= 1
  BY IvfPqAssumption, SMT
<1>2. IsFiniteSet(SegId) /\ Cardinality(SegId) = MaxSeg
  BY <1>1, FS_Interval, SMT DEF SegId
<1>3. Listed \subseteq SegId
  BY DEF Listed
<1>4. IsFiniteSet(Listed) /\ Cardinality(Listed) <= Cardinality(SegId)
  BY <1>2, <1>3, FS_Subset
<1>5. Cardinality(Listed) \in Nat
  BY <1>4, FS_CardinalityType
<1> QED
  BY <1>2, <1>4, <1>5, FS_EmptySet DEF Listed

(* When the path is not hashed the listing finds every written file.       *)
LEMMA ListedFirst ==
  ASSUME ~Hashed, NEW w \in 0 .. MaxSeg, written = 1 .. w
  PROVE  Cardinality(Listed) = w
<1>1. w \in Nat
  BY IvfPqAssumption, SMT
<1>2. Cardinality(1 .. w) = w
  BY <1>1, FS_Interval, SMT
<1> QED
  BY <1>2 DEF Listed

(* Segments are appended to segments.                                      *)
Joined(q, s, f, x) ==
  /\ q \in Seq(Segment) /\ DOMAIN q = 1 .. Len(s) + x
  /\ \A k \in 1 .. Len(s) : q[k] = s[k]
  /\ \A k \in 1 .. x : q[Len(s) + k] = f[k]

(* What the concatenation of two sequences of segments holds.              *)
LEMMA Appended ==
  ASSUME NEW s \in Seq(Segment), NEW x \in Nat, NEW f \in [1 .. x -> Segment]
  PROVE  Joined(s \o f, s, f, x) /\ (x = 0 => f = <<>>)
<1> HIDE DEF Segment
<1>1. f \in Seq(Segment) /\ Len(f) = x
  BY SMT
<1> USE <1>1
<1>2. s \o f \in Seq(Segment) /\ DOMAIN (s \o f) = 1 .. Len(s) + x
  BY SMT
<1>3. \A k \in 1 .. Len(s) : (s \o f)[k] = s[k]
  BY SMT
<1>4. \A k \in 1 .. x : (s \o f)[Len(s) + k] = f[k]
  BY SMT
<1>5. x = 0 => f = <<>>
  BY SMT
<1> QED
  BY <1>2, <1>3, <1>4, <1>5 DEF Joined

(* The segments checkStoredSegments records.                               *)
LEMMA UnrecordedIs ==
  ASSUME Book
  PROVE  \/ /\ Unrecorded = <<>>
            /\ Cardinality(Listed) = Len(meta.segs) \/ Cardinality(Listed) <= meta.cur
         \/ /\ Unrecorded # <<>> /\ Cardinality(Listed) # Len(meta.segs)
            /\ \E x \in Nat \ {0} :
                 /\ Unrecorded \in [1 .. x -> Segment] /\ Cardinality(Listed) = meta.cur + x
                 /\ \A k \in 1 .. x : Unrecorded[k].id = meta.cur + k /\ Unrecorded[k].status = "growing"
<1>0. PICK L, f : /\ L = Cardinality(Listed)
                  /\ f = [n \in 1 .. L - meta.cur |-> NewSegment(meta.cur + n, Count(store[meta.cur + n]))]
  OBVIOUS
<1> USE <1>0
<1>1. meta \in Metadata /\ store \in [SegId -> Bag] /\ written \subseteq SegId
  BY DEF Book, Typed
<1> USE <1>1
<1>2. L \in Nat /\ L <= MaxSeg /\ meta.cur \in Nat /\ MaxSeg \in Nat
  BY ListedCount, SegPlaces, IvfPqAssumption
<1>3. CASE L = Len(meta.segs)
  BY <1>3 DEF Unrecorded
<1>4. CASE L # Len(meta.segs)
  <2>1. Unrecorded = f
    BY <1>4 DEF Unrecorded
  <2>2. CASE L <= meta.cur
    <3>1. 1 .. L - meta.cur = 1 .. 0 /\ \A n \in 1 .. 0 : FALSE
      BY <1>2, <2>2, SMT
    <3>2. f \in [1 .. 0 -> Segment]
      BY <3>1
    <3>3. meta.segs \in Seq(Segment) /\ 0 \in Nat
      BY SMT DEF Metadata
    <3>4. f = <<>>
      BY <3>2, <3>3, Appended
    <3> QED
      BY <2>1, <2>2, <3>4
  <2>3. CASE ~(L <= meta.cur)
    <3>1. PICK x : x = L - meta.cur
      BY SMT
    <3> USE <3>1
    <3>2. x \in Nat \ {0} /\ L = meta.cur + x /\ \A n \in 1 .. x : meta.cur + n \in SegId
      BY <1>2, <2>3, SMT DEF SegId
    <3>3. ASSUME NEW n \in 1 .. x
          PROVE  f[n] \in Segment /\ f[n].id = meta.cur + n /\ f[n].status = "growing"
      <4>1. f[n] = NewSegment(meta.cur + n, Count(store[meta.cur + n]))
        OBVIOUS
      <4>2. meta.cur + n \in SegId /\ store[meta.cur + n] \in Bag
        BY <3>2
      <4>3. Count(store[meta.cur + n]) \in Nat
        BY <4>2, CountType
      <4> QED
        BY <4>1, <4>2, <4>3, SMT DEF NewSegment, Segment
    <3>4. f \in [1 .. x -> Segment]
      BY <3>3
    <3>5. f # <<>>
      <4>1. 1 \in DOMAIN f /\ DOMAIN <<>> = 1 .. 0 /\ 1 \notin 1 .. 0
        <5>1. 1 \in 1 .. x
          BY <3>2, SMT
        <5>2. DOMAIN <<>> = 1 .. 0 /\ 1 \notin 1 .. 0
          BY SMT
        <5> QED
          BY <3>4, <5>1, <5>2
      <4> QED
        BY <4>1
    <3> QED
      BY <1>4, <2>1, <3>2, <3>3, <3>4, <3>5
  <2> QED
    BY <2>2, <2>3
<1> QED
  BY <1>3, <1>4

HasSegs(m, i, s) == m \in Metadata /\ m.cur = i /\ m.segs = s

(* Replacing the segments of the metadata changes nothing else.            *)
LEMMA SetSegs ==
  ASSUME NEW m \in Metadata, NEW q \in Seq(Segment)
  PROVE  HasSegs([m EXCEPT !.segs = q], m.cur, q)
<1>1. m = [cur |-> m.cur, segs |-> m.segs] /\ m.cur \in SegId
  BY SMT DEF Metadata
<1>2. [m EXCEPT !.segs = q] = [cur |-> m.cur, segs |-> q]
  BY <1>1, SMT
<1>3. [cur |-> m.cur, segs |-> q] \in Metadata
  BY <1>1 DEF Metadata
<1> QED
  BY <1>2, <1>3, SMT DEF HasSegs

(* What the load makes of the metadata.                                    *)
LEMMA LoadedMeta ==
  ASSUME Book, meta' = [meta EXCEPT !.segs = @ \o Unrecorded], InPlace(meta')
  PROVE  \/ /\ Unrecorded = <<>> /\ meta' = meta
            /\ Cardinality(Listed) = Len(meta.segs) \/ Cardinality(Listed) <= meta.cur
         \/ /\ Unrecorded # <<>> /\ Cardinality(Listed) # Len(meta.segs)
            /\ Cardinality(Listed) > meta.cur
            /\ meta' \in Metadata /\ meta'.cur = meta.cur /\ DOMAIN meta'.segs = 1 .. Cardinality(Listed)
            /\ DOMAIN meta.segs \subseteq DOMAIN meta'.segs
            /\ \A k \in DOMAIN meta.segs : meta'.segs[k] = meta.segs[k]
            /\ \A k \in DOMAIN meta'.segs \ DOMAIN meta.segs : meta'.segs[k].status = "growing"
<1>1. meta \in Metadata /\ meta.segs \in Seq(Segment) /\ meta.cur \in DOMAIN meta.segs
  <2>1. meta \in Metadata /\ meta.cur \in DOMAIN meta.segs
    BY DEF Book, Typed, WellFormed
  <2> QED
    BY <2>1, SMT DEF Metadata
<1> USE <1>1
<1>2. DOMAIN meta.segs = 1 .. Len(meta.segs) /\ Len(meta.segs) \in Nat /\ meta.cur \in Nat
  BY SegPlaces
<1> USE <1>2
<1>3. CASE Unrecorded = <<>>
  <2>1. meta.segs \o Unrecorded = meta.segs
    <3> HIDE DEF Segment
    <3> QED
      BY <1>3, SMT
  <2>2. HasSegs(meta', meta.cur, meta.segs)
    BY <2>1, SetSegs
  <2>3. meta' = meta
    BY <2>2, SMT DEF HasSegs, Metadata
  <2> QED
    BY <1>3, <2>3, UnrecordedIs
<1>4. ASSUME NEW x \in Nat \ {0}, Unrecorded # <<>>, Cardinality(Listed) # Len(meta.segs),
             Unrecorded \in [1 .. x -> Segment], Cardinality(Listed) = meta.cur + x,
             \A k \in 1 .. x : Unrecorded[k].id = meta.cur + k /\ Unrecorded[k].status = "growing"
      PROVE  /\ Cardinality(Listed) > meta.cur
             /\ meta' \in Metadata /\ meta'.cur = meta.cur /\ DOMAIN meta'.segs = 1 .. Cardinality(Listed)
             /\ DOMAIN meta.segs \subseteq DOMAIN meta'.segs
             /\ \A k \in DOMAIN meta.segs : meta'.segs[k] = meta.segs[k]
             /\ \A k \in DOMAIN meta'.segs \ DOMAIN meta.segs : meta'.segs[k].status = "growing"
  <2> USE <1>4
  <2>0. PICK l, s, u : l = Len(meta.segs) /\ s = meta.segs \o Unrecorded /\ u = Unrecorded
    OBVIOUS
  <2> USE <2>0
  <2>1. l \in Nat /\ x \in Nat /\ 1 \in 1 .. x /\ 1 \in Nat
    BY SMT
  <2> USE <2>1
  <2>2. /\ s \in Seq(Segment) /\ DOMAIN s = 1 .. l + x
        /\ \A k \in 1 .. l : s[k] = meta.segs[k]
        /\ \A k \in 1 .. x : s[l + k] = u[k]
    <3>1. Joined(s, meta.segs, u, x)
      BY Appended
    <3> QED
      BY <3>1 DEF Joined
  <2>3. HasSegs(meta', meta.cur, s)
    BY <2>2, SetSegs
  <2>4. meta' \in Metadata /\ meta'.cur = meta.cur /\ meta'.segs = s
    BY <2>3 DEF HasSegs
  <2>5. meta.cur = l
    <3>1. l + 1 \in 1 .. l + x
      BY SMT
    <3>2. s[l + 1].id = l + 1
      BY <2>2, <2>4, <3>1 DEF InPlace
    <3>3. s[l + 1].id = meta.cur + 1
      BY <2>2
    <3>4. l + 1 = meta.cur + 1
      BY <3>2, <3>3
    <3> QED
      BY <3>4, SMT
  <2>6. ASSUME NEW k \in (1 .. l + x) \ (1 .. l) PROVE s[k].status = "growing"
    <3>1. PICK j \in 1 .. x : k = l + j
      <4>1. k - l \in 1 .. x /\ k = l + (k - l)
        BY <2>6, SMT
      <4> QED
        BY <4>1
    <3> QED
      BY <2>2, <3>1
  <2>7. 1 .. l \subseteq 1 .. l + x /\ l + x > l
    BY SMT
  <2> QED
    BY <2>2, <2>4, <2>5, <2>6, <2>7
<1> QED
  BY <1>3, <1>4, UnrecordedIs

(* The index is loaded.                                                    *)
LEMMA LoadKeeps ==
  ASSUME ManagerInv, Inner, NEW p \in Holder, Load(p), InPlace(meta')
  PROVE  Inner'
<1>0. PICK L : L = Cardinality(Listed)
  BY SMT
<1>1. /\ Book /\ Publishes(p) /\ At(p, "load")
      /\ meta' = [meta EXCEPT !.segs = @ \o Unrecorded] /\ recovered' = (recovered \/ Unrecorded # <<>>)
      /\ saved' = IF L # Len(meta.segs) THEN meta' ELSE saved
      /\ cache' = [n \in SegId |-> NoCache]
      /\ index' = [n \in SegId |-> IF n <= Len(meta'.segs) THEN faiss[meta'.segs[n].id] ELSE Empty]
      /\ UNCHANGED <<store, written, faiss, job, want, repeated>>
  BY <1>0 DEF Inner, Load, Publishes, disk
<1> USE <1>1
<1>2. /\ meta \in Metadata /\ meta.cur \in DOMAIN meta.segs /\ Growing(meta.cur)
      /\ DOMAIN meta.segs = 1 .. Len(meta.segs) /\ Len(meta.segs) \in Nat /\ meta.cur \in Nat
      /\ L \in Nat /\ L <= MaxSeg /\ (Hashed => L = 0)
  <2>1. meta \in Metadata /\ meta.cur \in DOMAIN meta.segs /\ Growing(meta.cur) /\ written \subseteq SegId
    BY DEF Book, Typed, WellFormed, Growing
  <2> QED
    BY <1>0, <2>1, SegPlaces, ListedCount
<1>3. /\ meta' \in Metadata /\ meta'.cur = meta.cur /\ DOMAIN meta.segs \subseteq DOMAIN meta'.segs
      /\ DOMAIN meta'.segs \subseteq SegId /\ Len(meta'.segs) \in Nat
      /\ DOMAIN meta'.segs = 1 .. Len(meta'.segs)
      /\ \A k \in DOMAIN meta.segs : meta'.segs[k].status = meta.segs[k].status
      /\ \A k \in DOMAIN meta'.segs \ DOMAIN meta.segs : meta'.segs[k].status = "growing"
      /\ \/ meta' = meta /\ recovered' = recovered /\ (saved' = meta \/ saved' = saved)
            /\ (L = Len(meta.segs) \/ L <= meta.cur)
         \/ recovered' /\ saved' = meta' /\ DOMAIN meta'.segs = 1 .. L /\ L > meta.cur
  <2>1. CASE /\ Unrecorded = <<>> /\ meta' = meta
             /\ Cardinality(Listed) = Len(meta.segs) \/ Cardinality(Listed) <= meta.cur
    <3>1. recovered' = recovered
      BY <2>1 DEF Book, Typed
    <3> QED
      BY <1>0, <1>2, <2>1, <3>1 DEF Book, WellFormed
  <2>2. CASE /\ Unrecorded # <<>> /\ Cardinality(Listed) # Len(meta.segs)
             /\ Cardinality(Listed) > meta.cur
             /\ meta' \in Metadata /\ meta'.cur = meta.cur /\ DOMAIN meta'.segs = 1 .. Cardinality(Listed)
             /\ DOMAIN meta.segs \subseteq DOMAIN meta'.segs
             /\ \A k \in DOMAIN meta.segs : meta'.segs[k] = meta.segs[k]
             /\ \A k \in DOMAIN meta'.segs \ DOMAIN meta.segs : meta'.segs[k].status = "growing"
    <3>1. 1 .. L \subseteq SegId
      BY <1>2, IvfPqAssumption, SMT DEF SegId
    <3> QED
      BY <1>0, <2>2, <3>1, SegPlaces
  <2> QED
    BY <2>1, <2>2, LoadedMeta
<1>4. exists' = exists /\ (Alive' <=> Alive) /\ \A q \in Holder : At(q, "hold") => At(q, "hold")'
  <2>1. ~At(p, "hold")
    <3>1. "load" # "hold"
      BY SMT
    <3> QED
      BY <3>1 DEF At
  <2> QED
    BY <2>1, HolderMoves, OthersHold
<1>5. index' \in [SegId -> Bag] /\ \A k \in DOMAIN meta'.segs : index'[k] = faiss[k]
  <2>1. faiss \in [SegId -> Bag] /\ Empty \in Bag
    BY CountType, SMT DEF Book, Typed, Empty, Bag
  <2>2. \A k \in SegId : k <= Len(meta'.segs) <=> k \in DOMAIN meta'.segs
    BY <1>3, IvfPqAssumption, SMT DEF SegId
  <2>3. \A k \in DOMAIN meta'.segs : meta'.segs[k].id = k /\ k \in SegId
    BY <1>3 DEF InPlace
  <2> QED
    BY <2>1, <2>2, <2>3
<1>6. Typed'
  <2>1. cache' \in [SegId -> Bag \cup {NoCache}]
    OBVIOUS
  <2>2. saved' \in Metadata /\ recovered' \in BOOLEAN
    BY <1>3 DEF Book, Typed
  <2> QED
    BY <1>3, <1>5, <2>1, <2>2 DEF Book, Typed
<1>7. WellFormed(meta)' /\ WellFormed(saved)' /\ Behind'
  <2>1. WellFormed(meta)'
    BY <1>2, <1>3 DEF Book, WellFormed, Growing
  <2>2. WellFormed(saved)'
    BY <1>3, <2>1 DEF Book, WellFormed, InPlace
  <2>3. Behind'
    <3>1. \A n \in DOMAIN meta'.segs : meta'.segs[n].status = "sealed" => meta'.segs[n].status # "growing"
      BY SMT
    <3> QED
      BY <1>3, <3>1 DEF Book, Behind, Growing
  <2> QED
    BY <2>1, <2>2, <2>3
<1>8. JobsOK' /\ SealOK' /\ TodoOK'
  <2>1. JobsOK'
    BY <1>4, JobsStay DEF Book
  <2>2. job'[Sealer].step \notin {"seal", "save"}
    <3>1. job[Sealer].step = "begin"
      BY NobodyHolds, Clients DEF Book, JobsOK
    <3> QED
      BY <3>1, SMT
  <2>3. SealOK'
    BY <2>2, SealIdle
  <2>4. TodoOK'
    BY <1>3, TodoStays DEF Book
  <2> QED
    BY <2>1, <2>3, <2>4
<1>9. exists' => Files'
  <2> SUFFICES ASSUME Files PROVE Files'
    BY <1>4 DEF Inner
  <2>1. PICK w \in 0 .. MaxSeg : written = 1 .. w
    BY DEF Files
  <2> USE <2>1
  <2>2. L > meta.cur => ~Hashed
    BY <1>2, SMT
  <2>3. ~Hashed => L = w
    BY <1>0, ListedFirst
  <2> USE <2>3
  <2>4. Filled(meta)' /\ Filled(saved)'
    BY <1>3, <2>2 DEF Files, Filled
  <2>5. ASSUME ~Hashed PROVE written \subseteq DOMAIN meta'.segs
    <3>1. CASE DOMAIN meta'.segs = 1 .. L
      BY <2>5, <3>1
    <3>2. CASE meta' = meta /\ (L = Len(meta.segs) \/ L <= meta.cur)
      <4>1. 1 .. L \subseteq 1 .. Len(meta.segs)
        BY <1>2, <3>2, SMT
      <4> QED
        BY <1>2, <2>5, <3>2, <4>1
    <3> QED
      BY <1>3, <3>1, <3>2
  <2> QED
    BY <2>4, <2>5 DEF Files
<1>10. ASSUME Alive' PROVE Vectors'
  <2>1. Vectors
    BY <1>4, <1>10 DEF Inner
  <2>2. \A k, d : HalfDeleted(k, d)' <=> HalfDeleted(k, d)
    BY DEF HalfDeleted, Writing
  <2>3. ASSUME NEW k \in DOMAIN meta'.segs, ~Growing(k)' PROVE Has(faiss[k], k)' /\ Has(index[k], k)'
    <3>1. k \in DOMAIN meta.segs /\ ~Growing(k)
      BY <1>3, <2>3 DEF Growing
    <3> QED
      BY <1>5, <2>1, <2>2, <3>1 DEF Vectors, Has
  <2>4. \A k \in SegId : cache'[k] = NoCache
    OBVIOUS
  <2> QED
    BY <2>3, <2>4 DEF Vectors
<1>11. ASSUME Alive', ~Hashed PROVE Copies'
  BY <1>4, <1>11, CopiesStay DEF Inner
<1> QED
  BY <1>6, <1>7, <1>8, <1>9, <1>10, <1>11 DEF Inner, Book

-----------------------------------------------------------------------------
(* The invariant *)

(* The initial state satisfies the invariant.                              *)
LEMMA InitHolds ==
  ASSUME Init
  PROVE  IInv
<1>1. ManagerInv
  BY FreshManager, SMT DEF Init, ManagerInit, Fresh
<1>2. /\ store = [i \in SegId |-> Empty] /\ written = {} /\ faiss = [i \in SegId |-> Empty]
      /\ meta = [cur |-> 1, segs |-> <<NewSegment(1, 0)>>] /\ saved = meta
      /\ cache = [i \in SegId |-> NoCache] /\ index = [i \in SegId |-> Empty]
      /\ job = [p \in Holder |-> NoJob] /\ want = {} /\ repeated = {} /\ recovered = FALSE
      /\ shared = FALSE /\ cached = 0
  BY DEF Init, ManagerInit
<1>3. 1 \in SegId /\ 0 \in 0 .. MaxSeg /\ 1 .. 0 = {} /\ Empty \in Bag /\ \A d \in Doc : Empty[d] = 0
  BY IvfPqAssumption, SMT DEF SegId, Empty, Bag
<1>4. /\ meta \in Metadata /\ meta.cur = 1 /\ Len(meta.segs) = 1 /\ DOMAIN meta.segs = {1}
      /\ meta.segs[1].id = 1 /\ meta.segs[1].status = "growing"
  <2>1. NewSegment(1, 0) \in Segment /\ NewSegment(1, 0).id = 1 /\ NewSegment(1, 0).status = "growing"
    BY <1>3, SMT DEF NewSegment, Segment
  <2>2. PICK e, q : e = NewSegment(1, 0) /\ q = <<e>> /\ meta = [cur |-> 1, segs |-> q]
    BY <1>2
  <2>3. e \in Segment /\ e.id = 1 /\ e.status = "growing"
    BY <2>1, <2>2
  <2>4. q \in Seq(Segment) /\ Len(q) = 1 /\ DOMAIN q = {1} /\ q[1] = e
    <3> HIDE DEF Segment
    <3>1. e \in Segment /\ q = <<e>>
      BY <2>2, <2>3
    <3> QED
      BY <3>1, SMT
  <2>5. meta.cur = 1 /\ meta.segs = q /\ meta \in Metadata
    BY <1>3, <2>2, <2>4 DEF Metadata
  <2> QED
    BY <2>3, <2>4, <2>5
<1> USE <1>4
<1>5. \A p \in Holder : job[p] = NoJob
  BY <1>2
<1>6. Typed
  <2>1. store \in [SegId -> Bag] /\ faiss \in [SegId -> Bag] /\ index \in [SegId -> Bag]
    BY <1>2, <1>3
  <2>2. cache \in [SegId -> Bag \cup {NoCache}] /\ job \in [Holder -> Job]
    BY <1>2, NoJobIs
  <2> QED
    BY <1>2, <2>1, <2>2 DEF Typed
<1>7. WellFormed(meta) /\ WellFormed(saved) /\ Behind
  <2>1. "sealed" # "growing"
    BY SMT
  <2> QED
    BY <1>2, <1>3, <2>1 DEF WellFormed, InPlace, Behind, Growing
<1>8. JobsOK /\ TodoOK /\ SealOK
  <2>1. NoJob.step \notin {"delete", "add", "seal", "save"} /\ NoJob.step # "delete" /\ NoJob.step = "begin"
    BY NoJobIs, SMT
  <2> QED
    BY <1>5, <2>1, NoJobIs, Clients DEF JobsOK, TodoOK, SealOK, Writing
<1>9. Files
  BY <1>2, <1>3 DEF Files, Filled
<1>10. Vectors /\ Copies
  <2>1. Vectors
    BY <1>2 DEF Vectors, Growing
  <2>2. \A d \in Doc : Settled(d)
    BY <1>2, <1>3 DEF Settled, Nowhere
  <2> QED
    BY <1>5, <2>1, <2>2, Clients, NoJobIs DEF Copies, Writing
<1> QED
  BY <1>1, <1>2, <1>6, <1>7, <1>8, <1>9, <1>10 DEF IInv, Book

(* Every step of a client keeps the invariant.                             *)
LEMMA ClientKeeps ==
  ASSUME ManagerInv, Inner, ~shared', NEW c \in Client,
         \/ \E op \in Writes, d \in Doc : BeginWrite(c, op, d)
         \/ BeginSearch(c) \/ Retry(c) \/ WriteStep(c) \/ AddFails(c)
         \/ \E n \in SegId : DeleteFails(c, n)
  PROVE  Inner'
<1>1. AddVectors(c) => InPlace(meta')
  BY DEF AddVectors
<1> QED
  BY <1>1, BeginWriteKeeps, BeginSearchKeeps, RetryStep, FindDeletesKeeps, AddVectorsKeeps,
     AddNotRefused, FinishKeeps, SearchSegmentsKeeps, DeleteSegmentKeeps, AddFailsKeeps, DeleteFailsKeeps
     DEF WriteStep

(* Every step keeps it, unless two segments share their files afterwards.  *)
LEMMA NextKeeps ==
  ASSUME ManagerInv, Inner, [Next]_vars, ~shared'
  PROVE  Inner'
<1>1. CASE UNCHANGED vars
  <2>1. /\ UNCHANGED <<disk, segments, saved, want, repeated, recovered, job>>
        /\ UNCHANGED <<at, exists, cached>>
    BY <1>1 DEF vars, history, managerVars, manager
  <2>2. (\A q \in Holder : At(q, "hold") => At(q, "hold")') /\ (Alive' => Alive)
    BY <2>1 DEF At, Alive, Deleting
  <2> QED
    BY <2>1, <2>2, StillStep
<1>2. CASE \E c \in Client :
             \/ \E op \in Writes, d \in Doc : BeginWrite(c, op, d)
             \/ BeginSearch(c) \/ Retry(c) \/ WriteStep(c) \/ AddFails(c)
             \/ \E n \in SegId : DeleteFails(c, n)
  BY <1>2, ClientKeeps
<1>3. CASE \E p \in Holder : GetStep(p)
  <2>1. \A p \in Holder : Load(p) => InPlace(meta')
    BY DEF Load
  <2> QED
    BY <1>3, <2>1, GetKeeps, LoadKeeps, LoadFailsKeeps DEF GetStep
<1>4. CASE RequestSeal \/ CheckSeals \/ TakeTask \/ SealStep \/ SealFails
  BY <1>4, TasksKeep, TakeTaskKeeps, PickSegmentsKeeps, SealSegmentKeeps, SaveMetaKeeps,
     SealerDoneKeeps, SealFailsKeeps DEF SealStep
<1>5. CASE MetaStored \/ Collect \/ DeleteIndex \/ DeleteGoesOn \/ DeleteFiles \/ Crash
  BY <1>5, MetaStoredKeeps, CollectKeeps, DeleteIndexKeeps, DeleteGoesOnKeeps, DeleteFilesKeeps, CrashKeeps
<1> QED
  BY <1>1, <1>2, <1>3, <1>4, <1>5 DEF Next

(* Only a new segment, or a load, makes two segments share their files.    *)
LEMMA SharedStays ==
  ASSUME [Next]_vars
  PROVE  \/ UNCHANGED <<shared, recovered>>
         \/ \E c \in Client : AddVectors(c)
         \/ \E p \in Holder : Load(p)
<1>1. CASE UNCHANGED vars
  BY <1>1 DEF vars, history
<1>2. CASE \E c \in Client :
             \/ \E op \in Writes, d \in Doc : BeginWrite(c, op, d)
             \/ BeginSearch(c) \/ Retry(c) \/ WriteStep(c) \/ AddFails(c)
             \/ \E n \in SegId : DeleteFails(c, n)
  <2> SUFFICES ASSUME NEW c \in Client,
                      \/ \E op \in Writes, d \in Doc : BeginWrite(c, op, d)
                      \/ BeginSearch(c) \/ Retry(c) \/ WriteStep(c) \/ AddFails(c)
                      \/ \E n \in SegId : DeleteFails(c, n)
               PROVE  UNCHANGED <<shared, recovered>> \/ AddVectors(c)
    BY <1>2
  <2>1. CASE (\E op \in Writes, d \in Doc : BeginWrite(c, op, d)) \/ BeginSearch(c) \/ Retry(c)
    BY <2>1 DEF BeginWrite, BeginSearch, Retry, history
  <2>2. CASE AddFails(c) \/ \E n \in SegId : DeleteFails(c, n)
    BY <2>2 DEF AddFails, DeleteFails, history
  <2>3. CASE WriteStep(c)
    BY <2>3 DEF WriteStep, FindDeletes, AddRefused, Finish, SearchSegments, DeleteSegment, history
  <2> QED
    BY <2>1, <2>2, <2>3
<1>3. CASE \E p \in Holder : GetStep(p)
  BY <1>3 DEF GetStep, Get, LoadFailsFor, history
<1>4. CASE RequestSeal \/ CheckSeals \/ TakeTask \/ SealStep \/ SealFails
  BY <1>4 DEF RequestSeal, CheckSeals, TakeTask, SealStep, PickSegments, SealSegment, SaveMeta,
     SealerDone, SealFails, history
<1>5. CASE MetaStored \/ Collect \/ DeleteIndex \/ DeleteGoesOn \/ DeleteFiles \/ Crash
  BY <1>5 DEF MetaStored, Collect, DeleteIndex, DeleteGoesOn, DeleteFiles, Crash, history
<1> QED
  BY <1>1, <1>2, <1>3, <1>4, <1>5 DEF Next

(* Without a recovery none do.                                             *)
LEMMA SharedLater ==
  ASSUME IInv, [Next]_vars
  PROVE  (shared' => recovered') /\ (~shared' => ~shared)
<1>1. shared => recovered
  BY DEF IInv
<1> USE <1>1
<1>2. CASE UNCHANGED <<shared, recovered>>
  BY <1>2
<1>3. ASSUME NEW c \in Client, AddVectors(c) PROVE (shared' => recovered') /\ (~shared' => ~shared)
  <2> USE <1>3
  <2>1. shared' = (shared \/ ~InPlace(meta')) /\ recovered' = recovered
    BY DEF AddVectors
  <2>2. ASSUME ~shared, ~recovered PROVE InPlace(meta')
    <3>1. /\ Book /\ meta.cur \in DOMAIN meta.segs /\ Growing(meta.cur)
          /\ job[c].step = "add" /\ StoreVectors(c)
      BY <2>2 DEF IInv, Book, WellFormed, Growing, AddVectors, AtStep
    <3> USE <3>1
    <3>2. job[c].op \in Writes
      BY SMT DEF Book, JobsOK
    <3>3. job[c].doc \in Doc /\ Id(meta.cur) = meta.cur /\ meta.cur \in SegId
      BY <3>2, Clients, IdIs DEF Book, JobsOK
    <3>4. store'[meta.cur] \in Bag
      BY <3>3, PutsVectors DEF Puts
    <3>5. CountOf(meta.cur) \in Nat
      BY <3>3, <3>4, CountType DEF CountOf
    <3> QED
      BY <2>2, <3>5, NewSegInPlace DEF AddVectors
  <2> QED
    BY <2>1, <2>2
<1>4. ASSUME NEW p \in Holder, Load(p) PROVE (shared' => recovered') /\ (~shared' => ~shared)
  <2>1. /\ shared' = (shared \/ ~InPlace(meta')) /\ recovered' = (recovered \/ Unrecorded # <<>>)
        /\ meta' = [meta EXCEPT !.segs = @ \o Unrecorded]
    BY <1>4 DEF Load
  <2>2. ASSUME ~shared, Unrecorded = <<>> PROVE InPlace(meta')
    <3>1. meta \in Metadata /\ InPlace(meta)
      BY <2>2 DEF IInv, Book, Typed, WellFormed
    <3> USE <3>1
    <3>2. meta.segs \in Seq(Segment)
      BY SMT DEF Metadata
    <3>3. meta.segs \o Unrecorded = meta.segs
      <4> HIDE DEF Segment
      <4> QED
        BY <2>2, <3>2, SMT
    <3>4. HasSegs(meta', meta.cur, meta.segs)
      BY <2>1, <3>2, <3>3, SetSegs
    <3> QED
      BY <3>4 DEF HasSegs, InPlace
  <2> QED
    BY <2>1, <2>2
<1> QED
  BY <1>2, <1>3, <1>4, SharedStays

(* The inductive invariant: the metadata, in memory and stored, is in      *)
(* order and the stored one is not ahead; the segments with files are the  *)
(* first ones; sealed segments miss no vector that no write still has to   *)
(* delete; and every document has the copies its last write left.          *)
THEOREM IndexInvariant == Spec => []IInv
<1>1. Init => IInv
  BY InitHolds
<1>2. IInv /\ [Next]_vars => IInv'
  <2> SUFFICES ASSUME IInv, [Next]_vars PROVE IInv'
    OBVIOUS
  <2>1. ManagerInv /\ ManagerInv'
    <3>1. ManagerInv
      BY DEF IInv
    <3> QED
      BY <3>1, StepRefines, StepKeepsManagerInv
  <2>2. (shared' => recovered') /\ (~shared' => ~shared)
    BY SharedLater
  <2>3. ASSUME ~shared' PROVE Inner'
    <3>1. Inner
      BY <2>2, <2>3 DEF IInv, Inner
    <3> QED
      BY <2>1, <2>3, <3>1, NextKeeps
  <2> QED
    BY <2>1, <2>2, <2>3 DEF IInv, Inner
<1> QED
  BY <1>1, <1>2, PTL DEF Spec

(* The current segment is the last one and growing, and segments are in    *)
(* their places, until checkStoredSegments has recorded a segment.         *)
THEOREM CurrentSegmentIsLast == Spec => []CurrentIsLast
<1>1. IInv => CurrentIsLast
  BY DEF IInv, Book, WellFormed, CurrentIsLast, Growing
<1> QED
  BY <1>1, IndexInvariant, PTL

(* A search sees what is stored of the documents nobody writes: no cache   *)
(* of a growing segment is stale, and no sealed segment misses a vector.   *)
THEOREM SearchesSeeStored == Spec => []SearchShowsStored
<1>1. IInv => SearchShowsStored
  <2> SUFFICES ASSUME IInv, cached # 0, exists, ~Deleting, ~shared,
                      NEW n \in DOMAIN meta.segs, NEW d \in Doc, ~Busy(d)
               PROVE  IF Growing(n) THEN cache[n] = NoCache \/ cache[n][d] = store[Id(n)][d]
                      ELSE index[n][d] >= store[Id(n)][d]
    BY DEF SearchShowsStored
  <2>1. Book /\ Vectors
    BY DEF IInv, Alive
  <2>2. Id(n) = n /\ n \in SegId
    BY <2>1, IdIs
  <2>3. CASE Growing(n)
    BY <2>1, <2>2, <2>3 DEF Vectors, Filling
  <2>4. CASE ~Growing(n)
    <3>1. ~HalfDeleted(n, d)
      BY DEF HalfDeleted, Busy, Writing
    <3> QED
      BY <2>1, <2>2, <2>4, <3>1 DEF Vectors, Has
  <2> QED
    BY <2>3, <2>4
<1> QED
  BY <1>1, IndexInvariant, PTL

(* Every segment with files is in the metadata of an open index, unless    *)
(* the storage paths are hashed and checkStoredSegments finds nothing.     *)
THEOREM AllSegmentsRecorded ==
  ASSUME ~Hashed
  PROVE  Spec => []AllRecorded
<1>1. IInv => AllRecorded
  <2> SUFFICES ASSUME IInv, cached # 0, exists, ~shared, NEW i \in written
               PROVE  i \in {s.id : s \in Range(meta.segs)}
    BY DEF AllRecorded
  <2>1. i \in DOMAIN meta.segs /\ InPlace(meta)
    BY DEF IInv, Files, Book, WellFormed
  <2>2. meta.segs[i] \in Range(meta.segs) /\ meta.segs[i].id = i
    BY <2>1 DEF Range, InPlace
  <2> QED
    BY <2>2
<1> QED
  BY <1>1, IndexInvariant, PTL

(* No load of the index fails for a missing segment while the storage      *)
(* paths are not hashed and no two recorded segments share their files.    *)
THEOREM LoadsFindSegments ==
  ASSUME ~Hashed
  PROVE  Spec => []LoadsAgain
<1>1. IInv => LoadsAgain
  <2> SUFFICES ASSUME IInv, exists, ~shared, NEW s \in Range(meta.segs), s.id \notin Listed, s.id # meta.cur
               PROVE  FALSE
    BY DEF LoadsAgain, Missing
  <2>1. Filled(meta) /\ InPlace(meta) /\ Listed = written
    BY DEF IInv, Files, Book, WellFormed, Listed
  <2>2. PICK n \in DOMAIN meta.segs : s = meta.segs[n]
    BY DEF Range
  <2>3. s.id = n
    BY <2>1, <2>2 DEF InPlace
  <2> QED
    BY <2>1, <2>2, <2>3 DEF Filled
<1> QED
  BY <1>1, IndexInvariant, PTL

(* The copies of a document over all segments.                             *)
LEMMA CountCopies ==
  ASSUME NEW d, Nowhere(d) \/ Once(d)
  PROVE  /\ Nowhere(d) => Count([i \in SegId |-> store[i][d]]) = 0
         /\ Once(d) => Count([i \in SegId |-> store[i][d]]) = 1
<1> DEFINE b == [i \in SegId |-> store[i][d]]
<1>0. DOMAIN b = SegId /\ \A i \in SegId : b[i] = store[i][d]
  OBVIOUS
<1> HIDE DEF b
<1>1. 1 .. 0 = {} /\ 1 .. 1 = {1}
  BY SMT
<1>2. ASSUME Nowhere(d) PROVE Count(b) = 0
  <2>1. \A i \in SegId : {i} \X (1 .. b[i]) = {}
    BY <1>0, <1>1, <1>2 DEF Nowhere
  <2>2. UNION {{i} \X (1 .. b[i]) : i \in DOMAIN b} = {}
    BY <1>0, <2>1
  <2> QED
    BY <2>2, FS_EmptySet DEF Count
<1>3. ASSUME Once(d) PROVE Count(b) = 1
  <2>1. PICK j \in SegId : b[j] = 1 /\ \A i \in SegId \ {j} : b[i] = 0
    BY <1>0, <1>3 DEF Once
  <2>2. PICK t : {j} \X {1} = {t}
    <3>1. {j} \X {1} = {<<j, 1>>}
      BY SMT
    <3> QED
      BY <3>1
  <2> DEFINE C == [i \in SegId |-> {i} \X (1 .. b[i])]
  <2>3. C[j] = {t} /\ \A i \in SegId \ {j} : C[i] = {}
    BY <1>1, <2>1, <2>2
  <2>4. {{i} \X (1 .. b[i]) : i \in DOMAIN b} = {C[i] : i \in SegId}
    BY <1>0
  <2> HIDE DEF C
  <2>5. UNION {C[i] : i \in SegId} = {t}
    <3>1. t \in UNION {C[i] : i \in SegId}
      BY <2>3
    <3>2. ASSUME NEW y \in UNION {C[i] : i \in SegId} PROVE y = t
      <4>1. PICK i \in SegId : y \in C[i]
        BY <3>2
      <4>2. i = j
        BY <2>3, <4>1
      <4> QED
        BY <2>3, <4>1, <4>2
    <3> QED
      BY <3>1, <3>2
  <2> QED
    BY <2>4, <2>5, FS_Singleton DEF Count
<1> QED
  BY <1>2, <1>3 DEF b

(* A document nobody writes is stored once if it was put last, and nowhere *)
(* if it was deleted, whatever failed in between; only a repeated insert   *)
(* may leave a second copy.                                                *)
THEOREM StoredOnce ==
  ASSUME ~Hashed
  PROVE  Spec => []OneCopy
<1>1. IInv => OneCopy
  <2> SUFFICES ASSUME IInv, exists, ~Deleting, ~shared, NEW d \in Doc \ repeated, ~Busy(d)
               PROVE  Count([i \in SegId |-> store[i][d]]) = (IF d \in want THEN 1 ELSE 0)
    BY DEF OneCopy
  <2>1. Settled(d)
    BY DEF IInv, Alive, Copies
  <2> QED
    BY <2>1, CountCopies DEF Settled
<1> QED
  BY <1>1, IndexInvariant, PTL
=============================================================================
