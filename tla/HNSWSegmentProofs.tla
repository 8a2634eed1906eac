-------------------------- MODULE HNSWSegmentProofs --------------------------
(***************************************************************************)
(* For any documents, clients and thresholds, and any number of crashes    *)
(* and failing calls, the searches of HNSWSegment show exactly what was    *)
(* written last.  The argument is by document: while a document has rows,  *)
(* the last of them decides in memory and, later, in storage; when it has  *)
(* none, the documents and the index agree on it.                          *)
(***************************************************************************)
EXTENDS HNSWSegment, TLAPS

-----------------------------------------------------------------------------
(* The types, what they say of the numbers and lists, and a batch *)

(* What is read from rows is an ID.                                        *)
LEMMA NewestType ==
  ASSUME NEW R \in SUBSET Row, NEW d \in Doc, NEW v \in ID, MaxLog \in Nat
  PROVE  NewestID(R, d) \in ID /\ Applied(R, d, v) \in ID
<1>1. CASE Newest(R, d) = {}
  BY <1>1 DEF NewestID, Applied, ID
<1>2. CASE Newest(R, d) # {}
  <2> DEFINE r == CHOOSE q \in Newest(R, d) : TRUE
  <2>1. r \in Newest(R, d)
    BY <1>2
  <2>2. r \in Row
    BY <2>1 DEF Newest
  <2>3. r.id \in ID
    BY <2>2 DEF Row, ID
  <2>4. Vector(r) \in ID
    BY <2>3 DEF Vector, ID
  <2> QED
    BY <1>2, <2>3, <2>4 DEF NewestID, Applied
<1> QED
  BY <1>1, <1>2

(* What the types say of the numbers.                                      *)
LEMMA Numbers ==
  ASSUME TypeOK
  PROVE  /\ lastID \in Nat /\ latest \in Nat /\ builder.upto \in Nat /\ rows \in SUBSET Row
         /\ \A d \in Doc : last[d].id \in Nat /\ docTS[d] \in Nat
<1>1. lastID \in Nat /\ latest \in Nat /\ rows \in SUBSET Row
  BY DEF TypeOK, ID
<1>2. builder.upto \in Nat
  BY DEF TypeOK, ID
<1>3. \A d \in Doc : last[d].id \in Nat
  BY DEF TypeOK, ID
<1>4. \A d \in Doc : docTS[d] \in Nat
  BY DEF TypeOK, ID
<1> QED
  BY <1>1, <1>2, <1>3, <1>4

(* The IDs of a list of a batch come after the ones before it.             *)
LEMMA Numbered ==
  ASSUME NEW S \in SUBSET Doc, NEW n \in Nat, NEW f \in Numbering(S, n)
  PROVE  /\ DOMAIN f = S /\ Cardinality(S) \in Nat
         /\ \A d \in S : f[d] \in Nat /\ f[d] > n /\ f[d] <= n + Cardinality(S)
BY HNSWAssumption DEF Numbering

\* What a call and the builder can be.
Calls == [pc : {"idle", "count", "save", "check", "set", "send"}, delta : Int]
Builds == [pc : {"idle", "get", "loop", "read", "apply", "save", "clean", "swap", "done"},
           upto : ID, read : SUBSET Doc, keys : SUBSET Doc]

(* Nobody at work is a state of a call and of the builder.                 *)
LEMMA NothingType ==
  0 \in ID /\ NoCall \in Calls /\ NoBuild \in Builds /\ MaxFaults \in Nat /\ MaxLog \in Nat
BY HNSWAssumption DEF ID, NoCall, NoBuild, Calls, Builds

(* The index starts with the types.                                        *)
LEMMA InitType == Init => TypeOK
<1> SUFFICES ASSUME Init PROVE TypeOK
  OBVIOUS
<1>1. last \in [Doc -> [id : ID, del : BOOLEAN]] /\ docs \in [Doc -> ID] /\ faults \in 0 .. MaxFaults
  BY HNSWAssumption DEF Init, ID
<1>2. cl \in [Client -> [pc : {"idle", "count", "save", "check", "set", "send"}, delta : Int]]
  BY DEF Init, NoCall
<1>3. builder \in [pc : {"idle", "get", "loop", "read", "apply", "save", "clean", "swap", "done"},
                   upto : ID, read : SUBSET Doc, keys : SUBSET Doc]
  BY HNSWAssumption DEF Init, NoBuild, ID
<1>4. /\ rows \subseteq Row /\ lastID \in ID /\ hnswID \in ID /\ file \subseteq Doc /\ saved \in Int
      /\ latest \in ID /\ hnsw \in ID /\ index \subseteq Doc /\ count \in Int
      /\ cache \in [Doc -> ID] /\ docTS \in [Doc -> ID]
  BY HNSWAssumption DEF Init, ID
<1>5. loaded \in BOOLEAN /\ queued \in BOOLEAN
  BY ZenonT(30) DEF Init
<1> QED
  BY <1>1, <1>2, <1>3, <1>4, <1>5 DEF TypeOK

\* What a batch with the numberings f and g writes.
Wrote(dels, adds, f, g) ==
    /\ rows' = rows \cup DelRows(f) \cup AddRows(g)
    /\ cache' = [d \in Doc |-> IF d \in adds THEN g[d] ELSE IF d \in dels THEN 0 ELSE cache[d]]
    /\ docTS' = [d \in Doc |-> IF d \in adds THEN g[d] ELSE IF d \in dels THEN f[d] ELSE docTS[d]]
    /\ last' = [d \in Doc |-> IF d \in adds THEN [id |-> g[d], del |-> FALSE]
                              ELSE IF d \in dels THEN [id |-> f[d], del |-> TRUE] ELSE last[d]]

(* The rows of a batch have the type of rows.                              *)
LEMMA WroteType ==
  ASSUME TypeOK, NEW dels \in SUBSET Doc, NEW adds \in SUBSET Doc, NEW f, NEW g,
         DOMAIN f = dels, \A d \in dels : f[d] \in 1 .. MaxLog,
         DOMAIN g = adds, \A d \in adds : g[d] \in 1 .. MaxLog,
         Wrote(dels, adds, f, g)
  PROVE  /\ rows' \subseteq Row /\ cache' \in [Doc -> ID] /\ docTS' \in [Doc -> ID]
         /\ last' \in [Doc -> [id : ID, del : BOOLEAN]]
<1>1. rows' \subseteq Row
  <2>1. \A d \in dels : [id |-> f[d], doc |-> d, del |-> TRUE] \in Row
    BY DEF Row
  <2>2. \A d \in adds : [id |-> g[d], doc |-> d, del |-> FALSE] \in Row
    BY DEF Row
  <2>3. DelRows(f) \subseteq Row /\ AddRows(g) \subseteq Row
    BY <2>1, <2>2 DEF DelRows, AddRows
  <2>4. rows \subseteq Row
    BY DEF TypeOK
  <2> QED
    BY <2>3, <2>4 DEF Wrote
<1>2. 0 \in ID /\ 1 .. MaxLog \subseteq ID
  BY NothingType DEF ID
<1>3. cache' \in [Doc -> ID] /\ docTS' \in [Doc -> ID]
  <2>1. cache \in [Doc -> ID] /\ docTS \in [Doc -> ID]
    BY Zenon DEF TypeOK
  <2> QED
    BY <1>2, <2>1, Zenon DEF Wrote
<1>4. last' \in [Doc -> [id : ID, del : BOOLEAN]]
  <2>1. \A d \in adds : [id |-> g[d], del |-> FALSE] \in [id : ID, del : BOOLEAN]
    BY <1>2
  <2>2. \A d \in dels : [id |-> f[d], del |-> TRUE] \in [id : ID, del : BOOLEAN]
    BY <1>2
  <2>3. last \in [Doc -> [id : ID, del : BOOLEAN]]
    BY DEF TypeOK
  <2> QED
    BY <2>1, <2>2, <2>3, Zenon DEF Wrote
<1> QED
  BY <1>1, <1>3, <1>4

(* A batch keeps the types.                                                *)
LEMMA BatchWritesType ==
  ASSUME TypeOK, NEW c \in Client, NEW dels \in SUBSET Doc, NEW adds \in SUBSET Doc,
         BatchWrites(c, dels, adds)
  PROVE  TypeOK'
<1>1. PICK f \in Numbering(dels, latest), g \in Numbering(adds, latest + Cardinality(dels)) :
         Wrote(dels, adds, f, g)
  BY Zenon DEF BatchWrites, Wrote
<1>2. /\ Cardinality(dels) \in Nat /\ Cardinality(adds) \in Nat /\ latest \in Nat /\ MaxLog \in Nat
      /\ latest + (Cardinality(dels) + Cardinality(adds)) <= MaxLog
  BY HNSWAssumption, Numbers, NothingType, Zenon DEF BatchWrites
<1>3. /\ DOMAIN f = dels /\ \A d \in dels : f[d] \in 1 .. MaxLog
      /\ DOMAIN g = adds /\ \A d \in adds : g[d] \in 1 .. MaxLog
  <2>1. /\ DOMAIN f = dels /\ \A d \in dels : f[d] \in Nat /\ f[d] > latest /\ f[d] <= latest + Cardinality(dels)
        /\ DOMAIN g = adds
        /\ \A d \in adds : /\ g[d] \in Nat /\ g[d] > latest + Cardinality(dels)
                            /\ g[d] <= latest + Cardinality(dels) + Cardinality(adds)
    BY <1>2, Numbered
  <2> QED
    BY <1>2, <2>1
<1>4. /\ rows' \subseteq Row /\ cache' \in [Doc -> ID] /\ docTS' \in [Doc -> ID]
      /\ last' \in [Doc -> [id : ID, del : BOOLEAN]]
  BY <1>1, <1>3, WroteType, Zenon
<1>5. Delta(dels, adds) \in Int
  <2>1. /\ Cardinality({d \in adds : ~Present(d)}) \in Nat
        /\ Cardinality({d \in dels \ adds : Present(d)}) \in Nat
    BY HNSWAssumption, Zenon
  <2> QED
    BY <2>1 DEF Delta
<1>6. cl' \in [Client -> Calls]
  BY <1>5, ZenonT(60) DEF BatchWrites, TypeOK, Calls
<1>7. latest' \in ID /\ lastID' \in ID
  BY <1>2 DEF BatchWrites, ID
<1>8. UNCHANGED <<hnswID, docs, file, saved, loaded, hnsw, index, count, queued, builder, faults>>
  BY Zenon DEF BatchWrites
<1> QED
  BY <1>4, <1>6, <1>7, <1>8, ZenonT(60) DEF TypeOK, Calls

(* The other steps of a batch keep the types.                              *)
LEMMA BatchStepType ==
  ASSUME TypeOK, NEW c \in Client, BatchStep(c)
  PROVE  TypeOK'
<1>1. cl \in [Client -> Calls] /\ cl[c] \in Calls /\ count \in Int /\ saved \in Int /\ faults \in 0 .. MaxFaults
  BY Zenon DEF TypeOK, Calls
<1>2. count' \in Int /\ saved' \in Int
  BY <1>1 DEF BatchStep, BatchCounts, BatchSaves, BatchFails, BatchChecks, BatchQueues, store, seg, Calls
<1>3. cl' \in [Client -> Calls]
  BY <1>1, NothingType DEF BatchStep, BatchCounts, BatchSaves, BatchFails, BatchChecks, BatchQueues, Calls
<1>4. faults' \in 0 .. MaxFaults
  BY <1>1, NothingType DEF BatchStep, BatchCounts, BatchSaves, BatchFails, BatchChecks, BatchQueues
<1>5. queued' \in BOOLEAN
  BY Zenon DEF BatchStep, BatchCounts, BatchSaves, BatchFails, BatchChecks, BatchQueues, TypeOK
<1>6. UNCHANGED <<rows, lastID, hnswID, docs, file, loaded, latest, hnsw, cache, docTS, index,
                  builder, last>>
  BY Zenon DEF BatchStep, BatchCounts, BatchSaves, BatchFails, BatchChecks, BatchQueues, store, seg
<1> QED
  BY <1>2, <1>3, <1>4, <1>5, <1>6, Zenon DEF TypeOK, Calls

(* The steps of the builder that only move it keep the types.              *)
LEMMA BuilderMovesType ==
  ASSUME TypeOK, BuildGets \/ BuildLoops \/ BuildReads \/ BuildFails \/ BuildDone
  PROVE  TypeOK'
<1>1. builder \in Builds /\ latest \in ID /\ faults \in 0 .. MaxFaults
  BY DEF TypeOK, Builds
<1>2. builder' \in Builds
  BY <1>1, NothingType, ZenonT(60) DEF BuildGets, BuildLoops, BuildReads, BuildFails, BuildDone, NoBuild, Builds
<1>3. faults' \in 0 .. MaxFaults
  BY <1>1, NothingType DEF BuildGets, BuildLoops, BuildReads, BuildFails, BuildDone
<1>4. queued' \in BOOLEAN
  BY Zenon DEF BuildGets, BuildLoops, BuildReads, BuildFails, BuildDone, TypeOK
<1>5. UNCHANGED <<store, seg, cl, last>>
  BY DEF BuildGets, BuildLoops, BuildReads, BuildFails, BuildDone
<1> QED
  BY <1>2, <1>3, <1>4, <1>5, Zenon DEF TypeOK, store, seg, Builds

(* The steps of a rebuild keep the types.                                  *)
LEMMA RebuildType ==
  ASSUME TypeOK, BuildApplies \/ BuildSaves \/ BuildCleans \/ BuildSwaps
  PROVE  TypeOK'
<1>0. /\ builder \in Builds /\ rows \subseteq Row /\ docs \in [Doc -> ID]
      /\ cache \in [Doc -> ID] /\ docTS \in [Doc -> ID]
  BY DEF TypeOK, Builds
<1>1. CASE BuildApplies
  <2>1. UpTo(builder.upto) \in SUBSET Row
    BY <1>0, Zenon DEF UpTo
  <2>2. \A d \in Doc : Applied(UpTo(builder.upto), d, docs[d]) \in ID
    BY <1>0, <2>1, NothingType, NewestType, Zenon
  <2>3. docs' \in [Doc -> ID]
    BY <1>1, <2>2 DEF BuildApplies
  <2>4. builder' \in Builds
    BY <1>0, <1>1, Zenon DEF BuildApplies, Builds
  <2> QED
    BY <1>1, <2>3, <2>4, Zenon DEF BuildApplies, TypeOK, seg, Builds
<1>2. CASE BuildSaves
  <2>1. builder' \in Builds /\ file' \subseteq Doc
    BY <1>0, <1>2, Zenon DEF BuildSaves, Builds
  <2> QED
    BY <1>2, <2>1, Zenon DEF BuildSaves, TypeOK, seg, Builds
<1>3. CASE BuildCleans
  <2>1. {r.doc : r \in UpTo(builder.upto)} \in SUBSET Doc
    BY <1>0 DEF UpTo, Row
  <2>2. builder' \in Builds
    BY <1>0, <1>3, <2>1, Zenon DEF BuildCleans, Builds
  <2>3. hnswID' \in ID /\ rows' \subseteq Row
    BY <1>0, <1>3 DEF BuildCleans, Builds
  <2> QED
    BY <1>3, <2>2, <2>3, Zenon DEF BuildCleans, TypeOK, seg, Builds
<1>4. CASE BuildSwaps
  <2>1. builder' \in Builds
    BY <1>4, NothingType, Zenon DEF BuildSwaps, NoBuild, Builds
  <2>2. cache' \in [Doc -> ID] /\ docTS' \in [Doc -> ID]
    BY <1>0, <1>4, NothingType, Zenon DEF BuildSwaps
  <2>3. hnsw' \in ID /\ index' \subseteq Doc
    BY <1>0, <1>4, Zenon DEF BuildSwaps, Builds
  <2> QED
    BY <1>4, <2>1, <2>2, <2>3, Zenon DEF BuildSwaps, TypeOK, store, Builds
<1> QED
  BY <1>1, <1>2, <1>3, <1>4

(* Losing the memory keeps the types.                                      *)
LEMMA ForgetType ==
  ASSUME TypeOK, Free \/ Crash
  PROVE  TypeOK'
<1>0. cl \in [Client -> Calls] /\ builder \in Builds /\ faults \in 0 .. MaxFaults
  BY Zenon DEF TypeOK, Calls, Builds
<1>1. cl' \in [Client -> Calls] /\ builder' \in Builds
  BY <1>0, NothingType, Zenon DEF Free, Crash
<1>2. faults' \in 0 .. MaxFaults
  BY <1>0, NothingType DEF Free, Crash
<1>3. queued' \in BOOLEAN
  BY Zenon DEF Free, Crash, TypeOK
<1>4. Forget /\ UNCHANGED <<store, last>>
  BY DEF Free, Crash
<1>5. /\ latest' \in ID /\ hnsw' \in ID /\ index' \subseteq Doc /\ count' \in Int
      /\ cache' \in [Doc -> ID] /\ docTS' \in [Doc -> ID]
  BY <1>4, NothingType DEF Forget
<1>6. loaded' \in BOOLEAN
  BY <1>4, Zenon DEF Forget
<1> QED
  BY <1>1, <1>2, <1>3, <1>4, <1>5, <1>6, Zenon DEF TypeOK, store, Calls, Builds

(* Every step keeps the types.                                             *)
LEMMA TypeStep == TypeOK /\ [Next]_vars => TypeOK'
<1> SUFFICES ASSUME TypeOK, [Next]_vars PROVE TypeOK'
  BY Zenon
<1>1. CASE UNCHANGED vars
  BY <1>1, Zenon DEF TypeOK, vars, store, seg
<1>2. CASE Load
  <2>1. \A d \in Doc : NewestID(rows, d) \in ID /\ Applied(rows, d, 0) \in ID
    BY NothingType, Numbers, NewestType, Zenon
  <2>2. cache' \in [Doc -> ID] /\ docTS' \in [Doc -> ID]
    BY <1>2, <2>1 DEF Load
  <2> QED
    BY <1>2, <2>2, Zenon DEF TypeOK, Load, store
<1>3. ASSUME NEW c \in Client, BuildReceives(c) PROVE TypeOK'
  BY <1>3, ZenonT(60) DEF BuildReceives, TypeOK, store, seg
<1> QED
  BY <1>1, <1>2, <1>3, BatchWritesType, BatchStepType, BuilderMovesType, RebuildType, ForgetType, Zenon
     DEF Next, Build

(* Every state of the index, its builder and its clients is well typed.    *)
THEOREM TypeCorrect == Spec => []TypeOK
BY InitType, TypeStep, PTL DEF Spec

(* The parts of the invariant.                                             *)
LEMMA Parts ==
  ASSUME IInv
  PROVE  /\ TypeOK /\ BuilderInv /\ (loaded => latest = lastID)
         /\ \A d \in Doc : StoreInv(d) /\ (loaded => MemoryInv(d))
BY DEF IInv

(* A document whose newest row is in rows, and in memory, is in order.     *)
LEMMA NewRow ==
  ASSUME NEW d \in Doc, NEW n \in Nat, rows \in SUBSET Row, lastID \in Nat, last[d].id \in Nat,
         StoreInv(d), n > lastID, n <= lastID',
         last'[d].id = n, docTS'[d] = n, cache'[d] = Written(d)', LastRow(d)' \in rows',
         \A r \in rows' : r.doc = d => \/ r \in rows \/ r = LastRow(d)'
                                       \/ r.id \in Nat /\ r.id < n
  PROVE  StoreInv(d)' /\ MemoryInv(d)'
<1>1. LastRow(d)'.doc = d /\ LastRow(d)'.id = n
  BY DEF LastRow
<1>2. \A r \in rows : r.doc = d => r.id \in Nat /\ r.id < n
  BY DEF StoreInv, Row
<1>3. HasRow(d)'
  BY <1>1 DEF HasRow
<1>4. \A r \in rows' : r.doc = d => r.id <= n /\ (r.id = n => r = LastRow(d)')
  BY <1>1, <1>2
<1>5. StoreInv(d)'
  BY <1>3, <1>4 DEF StoreInv
<1>6. MemoryInv(d)'
  BY <1>3 DEF MemoryInv
<1> QED
  BY <1>5, <1>6

(* A document that no new row is about stays in order.                     *)
LEMMA OldRow ==
  ASSUME NEW d \in Doc, StoreInv(d), MemoryInv(d), last'[d].id <= lastID',
         last'[d] = last[d], docTS'[d] = docTS[d], cache'[d] = cache[d],
         UNCHANGED <<docs, file, index, builder>>,
         \A r : r.doc = d => (r \in rows' <=> r \in rows)
  PROVE  StoreInv(d)' /\ MemoryInv(d)'
<1>1. LastRow(d)' = LastRow(d) /\ Written(d)' = Written(d) /\ LastRow(d).doc = d
  BY Zenon DEF LastRow, Written
<1>2. (HasRow(d)' <=> HasRow(d)) /\ (LastRow(d)' \in rows' <=> LastRow(d) \in rows)
  BY <1>1, Zenon DEF HasRow
<1>3. Swapping(d)' <=> Swapping(d)
  BY Zenon DEF Swapping
<1>4. StoreInv(d)'
  BY <1>1, <1>2, ZenonT(60) DEF StoreInv
<1>5. MemoryInv(d)'
  BY <1>1, <1>2, <1>3, Zenon DEF MemoryInv
<1> QED
  BY <1>4, <1>5, Zenon

(* The builder's promises are about rows older than those of a batch.      *)
LEMMA BatchAndBuilder ==
  ASSUME BuilderInv, loaded, UNCHANGED <<docs, file, builder, loaded>>,
         builder.upto \in Nat, lastID \in Nat, lastID' \in Nat, lastID <= lastID',
         \A d \in Doc : last'[d] = last[d] \/ (last'[d].id \in Nat /\ last'[d].id > lastID),
         \A r \in rows' : r \in rows \/ (r.id \in Nat /\ r.id > lastID), rows \subseteq rows'
  PROVE  BuilderInv'
<1>1. builder.upto <= lastID
  BY Zenon DEF BuilderInv
<1>2. UpTo(builder.upto)' = UpTo(builder.upto)
  BY <1>1 DEF UpTo
<1>3. \A d \in Doc : last'[d].id <= builder.upto => last'[d] = last[d]
  BY <1>1
<1>4. \A d \in Doc : last'[d] = last[d] => Written(d)' = Written(d)
  BY Zenon DEF Written
<1> QED
  BY <1>1, <1>2, <1>3, <1>4 DEF BuilderInv

(* What a last write says of its document.                                 *)
LEMMA RowOf ==
  ASSUME NEW d, NEW n, NEW b \in BOOLEAN, last'[d] = [id |-> n, del |-> b]
  PROVE  /\ LastRow(d)' = [id |-> n, doc |-> d, del |-> b] /\ last'[d].id = n
         /\ Written(d)' = IF b THEN 0 ELSE n
<1>1. last'[d].id = n /\ last'[d].del = b
  OBVIOUS
<1>2. LastRow(d)' = [id |-> n, doc |-> d, del |-> b]
  BY <1>1, Zenon DEF LastRow
<1>3. Written(d)' = IF b THEN 0 ELSE n
  BY <1>1, Zenon DEF Written, Vector
<1> QED
  BY <1>1, <1>2, <1>3, Zenon

(* A batch gives every document it names a row newer than all others, in   *)
(* storage and in memory.                                                  *)
LEMMA BatchWritesStep ==
  ASSUME IInv, TypeOK', NEW c \in Client, NEW dels \in SUBSET Doc, NEW adds \in SUBSET Doc,
         BatchWrites(c, dels, adds)
  PROVE  IInv'
<1>1. PICK f \in Numbering(dels, latest), g \in Numbering(adds, latest + Cardinality(dels)) :
         Wrote(dels, adds, f, g)
  BY Zenon DEF BatchWrites, Wrote
<1>2. /\ TypeOK /\ BuilderInv /\ rows \in SUBSET Row /\ lastID \in Nat /\ builder.upto \in Nat
      /\ \A d \in Doc : StoreInv(d) /\ last[d].id \in Nat
  BY Parts, Numbers, ZenonT(60)
<1>3. /\ loaded /\ latest = lastID /\ lastID' = lastID + Cardinality(dels) + Cardinality(adds)
      /\ latest' = lastID' /\ loaded' = loaded /\ UNCHANGED <<docs, file, index, builder>>
  BY Parts, HNSWAssumption, <1>2 DEF BatchWrites
<1>4. /\ Cardinality(dels) \in Nat /\ Cardinality(adds) \in Nat
      /\ DOMAIN f = dels /\ \A d \in dels : f[d] \in Nat /\ f[d] > lastID /\ f[d] <= lastID + Cardinality(dels)
      /\ DOMAIN g = adds /\ \A d \in adds : g[d] \in Nat /\ g[d] > lastID + Cardinality(dels) /\ g[d] <= lastID'
  BY <1>2, <1>3, HNSWAssumption, Numbered
<1>5. /\ \A r \in DelRows(f) : r.doc \in dels /\ r = [id |-> f[r.doc], doc |-> r.doc, del |-> TRUE]
      /\ \A r \in AddRows(g) : r.doc \in adds /\ r = [id |-> g[r.doc], doc |-> r.doc, del |-> FALSE]
  BY <1>4 DEF DelRows, AddRows
<1>6. ASSUME NEW d \in Doc PROVE StoreInv(d)' /\ MemoryInv(d)'
  <2>1. CASE d \in adds
    <3>1. last'[d] = [id |-> g[d], del |-> FALSE] /\ docTS'[d] = g[d] /\ cache'[d] = g[d]
      BY <1>1, <2>1, Zenon DEF Wrote
    <3>2. LastRow(d)' = [id |-> g[d], doc |-> d, del |-> FALSE] /\ last'[d].id = g[d] /\ Written(d)' = g[d]
      BY <3>1, RowOf, Zenon
    <3>3. LastRow(d)' \in rows'
      BY <1>1, <1>4, <2>1, <3>2, Zenon DEF Wrote, AddRows
    <3>4. \A r \in rows' : r.doc = d => r \in rows \/ r = LastRow(d)' \/ (r.id \in Nat /\ r.id < g[d])
      <4>1. \A r \in DelRows(f) : r.doc = d => r.id \in Nat /\ r.id < g[d]
        BY <1>2, <1>4, <1>5, <2>1
      <4> QED
        BY <1>1, <1>5, <3>2, <4>1, ZenonT(60) DEF Wrote
    <3>5. g[d] \in Nat /\ g[d] > lastID /\ g[d] <= lastID'
      BY <1>2, <1>4, <2>1
    <3>6. last'[d].id = g[d] /\ docTS'[d] = g[d] /\ cache'[d] = Written(d)'
      BY <3>1, <3>2, Zenon
    <3>7. rows \in SUBSET Row /\ lastID \in Nat /\ last[d].id \in Nat /\ StoreInv(d)
      BY <1>2, Zenon
    <3> QED
      BY <3>3, <3>4, <3>5, <3>6, <3>7, NewRow, Zenon
  <2>2. CASE d \in dels \ adds
    <3>1. last'[d] = [id |-> f[d], del |-> TRUE] /\ docTS'[d] = f[d] /\ cache'[d] = 0
      BY <1>1, <2>2, Zenon DEF Wrote
    <3>2. LastRow(d)' = [id |-> f[d], doc |-> d, del |-> TRUE] /\ last'[d].id = f[d] /\ Written(d)' = 0
      BY <3>1, RowOf, Zenon
    <3>3. LastRow(d)' \in rows'
      BY <1>1, <1>4, <2>2, <3>2, Zenon DEF Wrote, DelRows
    <3>4. \A r \in rows' : r.doc = d => r \in rows \/ r = LastRow(d)' \/ (r.id \in Nat /\ r.id < f[d])
      BY <1>1, <1>5, <2>2, <3>2, ZenonT(60) DEF Wrote
    <3>5. f[d] \in Nat /\ f[d] > lastID /\ f[d] <= lastID'
      BY <1>2, <1>3, <1>4, <2>2
    <3>6. last'[d].id = f[d] /\ docTS'[d] = f[d] /\ cache'[d] = Written(d)'
      BY <3>1, <3>2, Zenon
    <3>7. rows \in SUBSET Row /\ lastID \in Nat /\ last[d].id \in Nat /\ StoreInv(d)
      BY <1>2, Zenon
    <3> QED
      BY <3>3, <3>4, <3>5, <3>6, <3>7, NewRow, ZenonT(60)
  <2>3. CASE d \notin dels \cup adds
    <3>1. last'[d] = last[d] /\ docTS'[d] = docTS[d] /\ cache'[d] = cache[d]
      BY <1>1, <2>3, Zenon DEF Wrote
    <3>2. \A r : r.doc = d => (r \in rows' <=> r \in rows)
      BY <1>1, <1>5, <2>3, ZenonT(60) DEF Wrote
    <3>3. last'[d].id <= lastID'
      <4>1. last[d].id <= lastID
        BY <1>2 DEF StoreInv
      <4> QED
        BY <1>2, <1>3, <1>4, <3>1, <4>1
    <3>4. StoreInv(d) /\ MemoryInv(d)
      BY <1>3, Parts, Zenon
    <3> QED
      BY <1>3, <3>1, <3>2, <3>3, <3>4, OldRow, Zenon
  <2> QED
    BY <2>1, <2>2, <2>3, Zenon
<1>7. BuilderInv'
  <2>1. \A d \in Doc : last'[d] = last[d] \/ (last'[d].id \in Nat /\ last'[d].id > lastID)
    <3> SUFFICES ASSUME NEW d \in Doc, last'[d] # last[d]
                 PROVE  last'[d].id \in Nat /\ last'[d].id > lastID
      BY Zenon
    <3>1. CASE d \in adds
      <4>1. last'[d].id = g[d]
        BY <1>1, <3>1, RowOf, Zenon DEF Wrote
      <4>2. g[d] \in Nat /\ g[d] > lastID
        BY <1>2, <1>4, <3>1
      <4> QED
        BY <4>1, <4>2, Zenon
    <3>2. CASE d \in dels \ adds
      BY <1>1, <1>4, <3>2, RowOf, Zenon DEF Wrote
    <3> QED
      BY <1>1, <3>1, <3>2, Zenon DEF Wrote
  <2>2. rows \subseteq rows' /\ \A r \in rows' : r \in rows \/ (r.id \in Nat /\ r.id > lastID)
    BY <1>1, <1>2, <1>4, <1>5 DEF Wrote
  <2>3. lastID' \in Nat /\ lastID <= lastID'
    BY <1>2, <1>3, <1>4
  <2> QED
    BY <1>2, <1>3, <2>1, <2>2, <2>3, BatchAndBuilder, ZenonT(60)
<1> QED
  BY <1>3, <1>6, <1>7 DEF IInv

-----------------------------------------------------------------------------
(* The other steps *)

(* A row that is newer than the other rows of its document is the one      *)
(* loadLogs and applyLogs take.                                            *)
LEMMA TheNewest ==
  ASSUME NEW R \in SUBSET Row, NEW d \in Doc, NEW r \in R, r.doc = d, NEW v,
         \A q \in R : q.doc = d => q.id <= r.id /\ (q.id = r.id => q = r)
  PROVE  NewestID(R, d) = r.id /\ Applied(R, d, v) = Vector(r)
<1>1. \A q \in R : q.id \in Nat
  BY DEF Row
<1>2. Newest(R, d) = {r}
  BY <1>1 DEF Newest
<1>3. (CHOOSE q \in {r} : TRUE) = r
  OBVIOUS
<1> QED
  BY <1>2, <1>3 DEF NewestID, Applied

(* Without rows there is nothing to apply.                                 *)
LEMMA NoNewest ==
  ASSUME NEW R, NEW d, NEW v, \A r \in R : r.doc # d
  PROVE  NewestID(R, d) = 0 /\ Applied(R, d, v) = v
BY Zenon DEF Newest, NewestID, Applied

(* The index starts empty and in order.                                    *)
LEMMA InitInv == Init => IInv
<1> SUFFICES ASSUME Init PROVE IInv
  OBVIOUS
<1>1. TypeOK
  BY InitType, ZenonT(60)
<1>2. BuilderInv
  BY DEF Init, BuilderInv, NoBuild, NoCall, Apart
<1>3. \A d \in Doc : StoreInv(d)
  BY DEF Init, StoreInv, HasRow, Written, Vector
<1> QED
  BY <1>1, <1>2, <1>3 DEF IInv, Init

\* The builder is where it was, or outside the steps of a rebuild.
BuilderRests ==
    \/ builder' = builder
    \/ /\ builder.pc # "swap" /\ builder'.pc \in {"idle", "get", "loop", "read", "apply", "done"}
       /\ builder'.upto <= lastID

\* Who uses the index still has it loaded.
StillLoaded == builder'.pc \notin Apart \/ (\E c \in Client : cl'[c].pc # "idle") => loaded

(* Steps that change neither the rows, the documents nor the memory, and   *)
(* of the builder only where it is, away from the steps of a rebuild.      *)
LEMMA Quiet ==
  ASSUME IInv, TypeOK',
         UNCHANGED <<rows, lastID, docs, file, loaded, latest, cache, docTS, index, last>>,
         BuilderRests, StillLoaded
  PROVE  IInv'
<1>1. BuilderInv'
  <2>1. CASE builder' = builder
    BY <2>1, Parts, Zenon DEF BuilderInv, StillLoaded, UpTo, Written
  <2>2. CASE builder' # builder
    BY <2>2, Zenon DEF BuilderInv, BuilderRests, StillLoaded
  <2> QED
    BY <2>1, <2>2, Zenon
<1>2. ASSUME NEW d \in Doc PROVE StoreInv(d)'
  BY Parts, ZenonT(60) DEF StoreInv, HasRow, LastRow, Written
<1>3. ASSUME NEW d \in Doc, loaded PROVE MemoryInv(d)'
  <2>1. MemoryInv(d) /\ (Swapping(d) => Swapping(d)')
    BY <1>3, Parts, Zenon DEF Swapping, BuilderRests
  <2> QED
    BY <2>1, Zenon DEF MemoryInv, HasRow, Written
<1>4. loaded => latest = lastID
  BY Parts, Zenon
<1> QED
  BY <1>1, <1>2, <1>3, <1>4 DEF IInv

(* Steps that lose the memory leave the storage in order.                  *)
LEMMA Forgets ==
  ASSUME IInv, TypeOK', Free \/ Crash
  PROVE  IInv'
<1>1. Forget /\ UNCHANGED <<store, last>> /\ \A c \in Client : cl'[c].pc = "idle"
  BY DEF Free, Crash, NoCall
<1>2. builder'.pc \in Apart /\ builder'.upto <= lastID
  <2>1. lastID \in Nat /\ builder.upto <= lastID
    BY Parts, Numbers, Zenon DEF BuilderInv
  <2>2. CASE Free
    BY <2>1, <2>2, ZenonT(60) DEF Free
  <2>3. CASE Crash
    BY <2>1, <2>3 DEF Crash, NoBuild, Apart
  <2> QED
    BY <2>2, <2>3, Zenon
<1>3. BuilderInv'
  BY <1>1, <1>2, ZenonT(60) DEF BuilderInv, store, Apart
<1>4. ASSUME NEW d \in Doc PROVE StoreInv(d)'
  <2>1. StoreInv(d)
    BY Parts, Zenon
  <2>2. LastRow(d)' = LastRow(d) /\ (HasRow(d)' <=> HasRow(d)) /\ Written(d)' = Written(d)
    BY <1>1, Zenon DEF LastRow, HasRow, Written, store
  <2> QED
    BY <1>1, <2>1, <2>2, Zenon DEF StoreInv, store
<1> QED
  BY <1>1, <1>3, <1>4, Zenon DEF IInv, Forget

(* load brings the memory in line with the storage.                        *)
LEMMA LoadStep ==
  ASSUME IInv, TypeOK', Load
  PROVE  IInv'
<1>1. BuilderInv'
  BY Parts, ZenonT(60) DEF BuilderInv, Load, store, UpTo, Written
<1>2. ASSUME NEW d \in Doc PROVE StoreInv(d)'
  BY Parts DEF StoreInv, HasRow, LastRow, Written, store, Load
<1>3. ASSUME NEW d \in Doc PROVE MemoryInv(d)'
  <2>1. /\ docTS'[d] = NewestID(rows, d) /\ cache'[d] = Applied(rows, d, 0)
        /\ UNCHANGED <<rows, docs, last, file, builder>> /\ index' = file
    BY DEF Load, store
  <2>2. rows \in SUBSET Row /\ StoreInv(d)
    BY Parts, Numbers, Zenon
  <2>3. CASE HasRow(d)
    <3>1. LastRow(d) \in rows /\ LastRow(d).doc = d /\ LastRow(d).id = last[d].id
      BY <2>2, <2>3, Zenon DEF StoreInv, LastRow
    <3>2. \A q \in rows : q.doc = d => q.id <= LastRow(d).id /\ (q.id = LastRow(d).id => q = LastRow(d))
      BY <2>2, <3>1, Zenon DEF StoreInv
    <3>3. NewestID(rows, d) = last[d].id /\ Applied(rows, d, 0) = Vector(LastRow(d))
      BY <2>2, <3>1, <3>2, TheNewest
    <3>4. Vector(LastRow(d)) = Written(d)
      BY Zenon DEF Vector, LastRow, Written
    <3>5. last[d].id # 0
      BY <2>2, <3>1 DEF Row
    <3> QED
      BY <2>1, <2>3, <3>3, <3>4, <3>5, Zenon DEF MemoryInv, HasRow, Written
  <2>4. CASE ~HasRow(d)
    <3>1. NewestID(rows, d) = 0 /\ Applied(rows, d, 0) = 0
      BY <2>4, NoNewest, ZenonT(60) DEF HasRow
    <3> QED
      BY <2>1, <2>2, <2>4, <3>1, Zenon DEF MemoryInv, StoreInv, HasRow
  <2> QED
    BY <2>3, <2>4, Zenon
<1> QED
  BY <1>1, <1>2, <1>3, Zenon DEF IInv, Load, store

(* Applying the rows leaves the documents of the last writes it covers.    *)
LEMMA BuildAppliesStep ==
  ASSUME IInv, TypeOK', BuildApplies
  PROVE  IInv'
<1>1. /\ builder.pc = "apply" /\ builder'.pc = "save" /\ builder'.upto = builder.upto
      /\ docs' = [d \in Doc |-> Applied(UpTo(builder.upto), d, docs[d])]
      /\ UNCHANGED <<rows, lastID, file, loaded, latest, cache, docTS, index, last, cl>>
  <2>1. TypeOK
    BY Parts, Zenon
  <2> QED
    BY <2>1 DEF BuildApplies, seg, TypeOK
<1>2. rows \in SUBSET Row /\ UpTo(builder.upto) \in SUBSET Row /\ builder.upto \in Nat /\ loaded
  <2>1. rows \in SUBSET Row /\ builder.upto \in Nat /\ BuilderInv
    BY Parts, Numbers, Zenon
  <2> QED
    BY <1>1, <2>1, Zenon DEF UpTo, BuilderInv, Apart
<1>3. ASSUME NEW d \in Doc PROVE /\ ~HasRow(d) => docs'[d] = docs[d]
                                 /\ last[d].id <= builder.upto => docs'[d] = Written(d)
  <2>1. StoreInv(d) /\ docs'[d] = Applied(UpTo(builder.upto), d, docs[d])
    BY <1>1, Parts, ZenonT(60)
  <2>2. ASSUME ~HasRow(d) PROVE docs'[d] = docs[d] /\ docs[d] = Written(d)
    <3>1. \A r \in UpTo(builder.upto) : r.doc # d
      BY <2>2 DEF HasRow, UpTo
    <3>2. Applied(UpTo(builder.upto), d, docs[d]) = docs[d]
      BY <3>1, NoNewest, Zenon
    <3> QED
      BY <2>1, <2>2, <3>2 DEF StoreInv
  <2>3. ASSUME HasRow(d), last[d].id <= builder.upto PROVE docs'[d] = Written(d)
    <3>1. LastRow(d) \in UpTo(builder.upto) /\ LastRow(d).doc = d
      BY <2>1, <2>3, Zenon DEF StoreInv, LastRow, UpTo
    <3>2. \A q \in UpTo(builder.upto) :
             q.doc = d => q.id <= LastRow(d).id /\ (q.id = LastRow(d).id => q = LastRow(d))
      BY <2>1, ZenonT(60) DEF StoreInv, LastRow, UpTo
    <3>3. Applied(UpTo(builder.upto), d, docs[d]) = Vector(LastRow(d))
      BY <1>2, <3>1, <3>2, TheNewest
    <3>4. Vector(LastRow(d)) = Written(d)
      BY DEF Vector, LastRow, Written
    <3> QED
      BY <2>1, <3>3, <3>4, Zenon
  <2> QED
    BY <2>2, <2>3, Zenon
<1>4. BuilderInv'
  <2>1. builder.upto <= lastID
    BY Parts, ZenonT(60) DEF BuilderInv
  <2>2. \A d \in Doc : Written(d)' = Written(d)
    BY <1>1, Zenon DEF Written
  <2> QED
    BY <1>1, <1>2, <1>3, <2>1, <2>2, Zenon DEF BuilderInv
<1>5. ASSUME NEW d \in Doc PROVE StoreInv(d)' /\ MemoryInv(d)'
  <2>1. StoreInv(d) /\ MemoryInv(d)
    BY <1>2, Parts, ZenonT(60)
  <2>2. /\ LastRow(d)' = LastRow(d) /\ (HasRow(d)' <=> HasRow(d)) /\ Written(d)' = Written(d)
        /\ ~Swapping(d)
    BY <1>1 DEF LastRow, HasRow, Written, Swapping
  <2>3. StoreInv(d)'
    BY <1>1, <1>3, <2>1, <2>2, Zenon DEF StoreInv
  <2>4. MemoryInv(d)'
    BY <1>1, <1>3, <2>1, <2>2, ZenonT(60) DEF MemoryInv
  <2> QED
    BY <2>3, <2>4
<1> QED
  BY <1>1, <1>4, <1>5, Zenon DEF IInv

(* The file gets the keys of the documents.                                *)
LEMMA BuildSavesStep ==
  ASSUME IInv, TypeOK', BuildSaves
  PROVE  IInv'
<1>1. /\ builder.pc = "save" /\ builder'.pc = "clean" /\ builder'.upto = builder.upto
      /\ builder'.keys = {d \in Doc : docs[d] # 0} /\ file' = {d \in Doc : docs[d] # 0}
      /\ UNCHANGED <<rows, lastID, docs, loaded, latest, cache, docTS, index, last, cl>>
  <2>1. TypeOK
    BY Parts
  <2> QED
    BY <2>1, ZenonT(30) DEF BuildSaves, seg, TypeOK
<1>2. BuilderInv'
  <2>1. BuilderInv /\ \A d \in Doc : Written(d)' = Written(d)
    BY <1>1, Parts, ZenonT(60) DEF Written
  <2> QED
    BY <1>1, <2>1, Zenon DEF BuilderInv, Apart
<1>3. ASSUME NEW d \in Doc
      PROVE  LastRow(d)' = LastRow(d) /\ (HasRow(d)' <=> HasRow(d)) /\ Written(d)' = Written(d) /\ ~Swapping(d)
  BY <1>1, Zenon DEF LastRow, HasRow, Written, Swapping
<1>4. ASSUME NEW d \in Doc PROVE StoreInv(d)' /\ (loaded => MemoryInv(d)')
  <2>1. StoreInv(d) /\ (loaded => MemoryInv(d))
    BY Parts, Zenon
  <2>2. StoreInv(d)'
    BY <1>1, <1>3, <2>1, ZenonT(60) DEF StoreInv
  <2>3. loaded => MemoryInv(d)'
    BY <1>1, <1>3, <2>1, Zenon DEF MemoryInv
  <2> QED
    BY <2>2, <2>3
<1>5. loaded => latest = lastID
  BY Parts, ZenonT(60)
<1> QED
  BY <1>1, <1>2, <1>4, <1>5, Zenon DEF IInv

(* The rows that go have been applied and indexed, and what the memory     *)
(* keeps of them is what the builder is about to swap.                     *)
LEMMA BuildCleansStep ==
  ASSUME IInv, TypeOK', BuildCleans
  PROVE  IInv'
<1>1. /\ builder.pc = "clean" /\ builder'.pc = "swap"
      /\ builder'.upto = builder.upto /\ builder'.keys = builder.keys
      /\ builder'.read = {r.doc : r \in UpTo(builder.upto)}
      /\ rows' = rows \ UpTo(builder.upto)
      /\ UNCHANGED <<lastID, docs, file, loaded, latest, cache, docTS, index, last, cl>>
  <2>1. TypeOK
    BY Parts
  <2> QED
    BY <2>1, ZenonT(30) DEF BuildCleans, seg, TypeOK
<1>2. builder.upto \in Nat /\ rows \in SUBSET Row /\ loaded /\ latest = lastID /\ BuilderInv
  <2>1. builder.upto \in Nat /\ rows \in SUBSET Row /\ BuilderInv
    BY Parts, Numbers, Zenon
  <2>2. loaded
    BY <1>1, <2>1, Zenon DEF BuilderInv, Apart
  <2> QED
    BY <2>1, <2>2, Parts, Zenon
<1>3. BuilderInv'
  <2>1. UpTo(builder.upto)' = {}
    BY <1>1, Zenon DEF UpTo
  <2> QED
    BY <1>1, <1>2, <2>1, Zenon DEF BuilderInv, Apart
<1>4. ASSUME NEW d \in Doc PROVE StoreInv(d)' /\ MemoryInv(d)'
  <2>1. StoreInv(d) /\ MemoryInv(d) /\ last[d].id \in Nat
    BY <1>2, Parts, Numbers, Zenon
  <2>2. \A r \in rows : r.doc = d => r.id \in Nat
    BY <1>2 DEF Row
  <2>3. LastRow(d)' = LastRow(d) /\ LastRow(d).id = last[d].id /\ LastRow(d).doc = d /\ Written(d)' = Written(d)
    BY <1>1, ZenonT(60) DEF LastRow, Written
  <2>4. CASE last[d].id <= builder.upto
    <3>1. ~HasRow(d)'
      BY <1>1, <1>2, <2>1, <2>2, <2>4 DEF HasRow, StoreInv, UpTo
    <3>2. docs[d] = Written(d) /\ (d \in file <=> docs[d] # 0)
      BY <1>1, <1>2, <2>4, Zenon DEF BuilderInv
    <3>3. HasRow(d) => Swapping(d)'
      BY <1>1, <2>1, <2>3, <2>4, ZenonT(60) DEF StoreInv, UpTo, Swapping
    <3>4. StoreInv(d)'
      BY <1>1, <2>1, <2>3, <3>1, <3>2, Zenon DEF StoreInv, HasRow
    <3>5. MemoryInv(d)'
      BY <1>1, <2>1, <2>3, <3>1, <3>3, Zenon DEF MemoryInv, Swapping
    <3> QED
      BY <3>4, <3>5
  <2>5. CASE ~(last[d].id <= builder.upto)
    <3>1. LastRow(d) \in rows' <=> LastRow(d) \in rows
      BY <1>1, <2>3, <2>5, Zenon DEF UpTo
    <3>2. HasRow(d)' <=> HasRow(d)
      BY <1>1, <2>1, <2>3, <3>1, Zenon DEF HasRow, StoreInv
    <3>3. StoreInv(d)'
      BY <1>1, <2>1, <2>3, <3>1, <3>2, Zenon DEF StoreInv
    <3>4. MemoryInv(d)'
      BY <1>1, <2>1, <2>3, <3>2, ZenonT(60) DEF MemoryInv, Swapping
    <3> QED
      BY <3>3, <3>4
  <2> QED
    BY <2>4, <2>5, Zenon
<1> QED
  BY <1>1, <1>2, <1>3, <1>4, Zenon DEF IInv

(* A document that leaves the memory has no rows; the others have newer    *)
(* rows.                                                                   *)
LEMMA BuildSwapsStep ==
  ASSUME IInv, TypeOK', BuildSwaps
  PROVE  IInv'
<1> DEFINE Old(d) == d \in builder.read /\ docTS[d] <= builder.upto
<1>1. /\ builder.pc = "swap" /\ builder'.pc = "loop" /\ builder'.upto = 0 /\ index' = builder.keys
      /\ cache' = [d \in Doc |-> IF Old(d) THEN 0 ELSE cache[d]]
      /\ docTS' = [d \in Doc |-> IF Old(d) THEN 0 ELSE docTS[d]]
      /\ UNCHANGED <<rows, lastID, docs, file, loaded, latest, last, cl>>
  BY DEF BuildSwaps, store, NoBuild
<1>2. /\ builder.upto \in Nat /\ rows \in SUBSET Row /\ lastID \in Nat /\ BuilderInv
      /\ loaded /\ latest = lastID
  <2>1. builder.upto \in Nat /\ rows \in SUBSET Row /\ lastID \in Nat /\ BuilderInv
    BY Parts, Numbers, Zenon
  <2>2. loaded
    BY <1>1, <2>1, ZenonT(60) DEF BuilderInv, Apart
  <2> QED
    BY <2>1, <2>2, Parts, Zenon
<1>3. BuilderInv'
  <2>1. builder'.pc \notin {"save", "clean"} /\ builder'.pc \notin {"clean", "swap"} /\ builder'.pc # "swap"
    BY <1>1
  <2>2. builder'.upto <= lastID'
    BY <1>1, <1>2
  <2> QED
    BY <1>1, <1>2, <2>1, <2>2, Zenon DEF BuilderInv
<1>4. ASSUME NEW d \in Doc PROVE StoreInv(d)'
  <2>1. StoreInv(d)
    BY Parts, Zenon
  <2>2. LastRow(d)' = LastRow(d) /\ (HasRow(d)' <=> HasRow(d)) /\ Written(d)' = Written(d)
    BY <1>1, Zenon DEF LastRow, HasRow, Written
  <2> QED
    BY <1>1, <2>1, <2>2 DEF StoreInv
<1>5. ASSUME NEW d \in Doc PROVE MemoryInv(d)'
  <2>1. StoreInv(d) /\ MemoryInv(d) /\ last[d].id \in Nat /\ docTS[d] \in Nat
    BY <1>2, Parts, Numbers, Zenon
  <2>2. d \in builder.keys <=> docs[d] # 0
    BY <1>1, <1>2, ZenonT(60) DEF BuilderInv
  <2>3. HasRow(d) => last[d].id > builder.upto
    <3>1. HasRow(d) => LastRow(d) \notin UpTo(builder.upto) /\ LastRow(d) \in rows
      BY <1>1, <1>2, <2>1, Zenon DEF BuilderInv, StoreInv
    <3> QED
      BY <1>2, <2>1, <3>1 DEF UpTo, LastRow
  <2>4. (HasRow(d)' <=> HasRow(d)) /\ Written(d)' = Written(d) /\ last'[d] = last[d]
    BY <1>1, Zenon DEF HasRow, Written
  <2>5. CASE Old(d)
    <3>1. docTS'[d] = 0 /\ cache'[d] = 0
      BY <1>1, <2>5, ZenonT(60)
    <3>2. ~HasRow(d)
      BY <2>1, <2>3, <2>5, <1>2 DEF MemoryInv
    <3> QED
      BY <1>1, <2>2, <2>4, <3>1, <3>2, Zenon DEF MemoryInv
  <2>6. CASE ~Old(d)
    <3>1. docTS'[d] = docTS[d] /\ cache'[d] = cache[d]
      BY <1>1, <2>6, Zenon
    <3>2. docTS[d] # 0 => HasRow(d)
      BY <1>2, <2>1, <2>6, Zenon DEF MemoryInv, Swapping
    <3> QED
      BY <1>1, <2>1, <2>2, <2>4, <3>1, <3>2, Zenon DEF MemoryInv
  <2> QED
    BY <2>5, <2>6, Zenon
<1> QED
  BY <1>1, <1>2, <1>3, <1>4, <1>5, Zenon DEF IInv

(* The builder between two rebuilds changes nothing but itself.            *)
LEMMA BuilderMovesStep ==
  ASSUME IInv, TypeOK', BuildGets \/ BuildLoops \/ BuildReads \/ BuildFails \/ BuildDone
  PROVE  IInv'
<1>1. UNCHANGED <<rows, lastID, docs, file, loaded, latest, cache, docTS, index, last>> /\ cl' = cl
  BY DEF BuildGets, BuildLoops, BuildReads, BuildFails, BuildDone, store, seg
<1>2. builder.pc # "swap"
  BY Zenon DEF BuildGets, BuildLoops, BuildReads, BuildFails, BuildDone
<1>3. lastID \in Nat /\ BuilderInv /\ builder.upto <= lastID
  BY Parts, Numbers, ZenonT(60) DEF BuilderInv
<1>4. builder \in Builds
  BY Parts, Zenon DEF TypeOK, Builds
<1>5. /\ builder'.pc \in {"idle", "get", "loop", "read", "apply", "done"} /\ builder'.upto <= lastID
      /\ builder'.pc \notin Apart => loaded
  <2>1. CASE BuildGets
    BY <1>3, <1>4, <2>1 DEF BuildGets, Builds
  <2>2. CASE BuildLoops
    BY <1>3, <1>4, <2>2 DEF BuildLoops, BuilderInv, Apart, Builds
  <2>3. CASE BuildReads
    <3>1. loaded
      BY <1>3, <2>3, Zenon DEF BuildReads, BuilderInv, Apart
    <3>2. latest = lastID
      BY <3>1, Parts, Zenon
    <3> QED
      BY <1>3, <1>4, <2>3, <3>1, <3>2 DEF BuildReads, Builds
  <2>4. CASE BuildFails \/ BuildDone
    BY <1>3, <2>4 DEF BuildFails, BuildDone, NoBuild, Apart
  <2> QED
    BY <2>1, <2>2, <2>3, <2>4
<1>6. BuilderRests
  BY <1>2, <1>5, Zenon DEF BuilderRests
<1>7. StillLoaded
  BY <1>1, <1>3, <1>5, Zenon DEF StillLoaded, BuilderInv
<1> QED
  BY <1>1, <1>6, <1>7, Quiet, Zenon

(* Every step keeps the inductive invariant.                               *)
LEMMA StepInv == IInv /\ [Next]_vars => IInv'
<1> SUFFICES ASSUME IInv, [Next]_vars PROVE IInv'
  OBVIOUS
<1>0. TypeOK' /\ TypeOK /\ BuilderInv
  BY TypeStep, Parts
<1>1. CASE UNCHANGED vars
  <2>1. UNCHANGED <<rows, lastID, docs, file, loaded, latest, cache, docTS, index, last>>
    BY <1>1 DEF vars, store, seg
  <2>2. builder' = builder /\ cl' = cl
    BY <1>1, ZenonT(60) DEF vars
  <2>3. StillLoaded
    BY <1>0, <2>2 DEF BuilderInv, StillLoaded
  <2>4. BuilderRests
    BY <2>2, Zenon DEF BuilderRests
  <2> QED
    BY <1>0, <2>1, <2>3, <2>4, Quiet, ZenonT(60)
<1>2. ASSUME NEW c \in Client, BatchStep(c) PROVE IInv'
  <2>1. UNCHANGED <<rows, lastID, docs, file, loaded, latest, cache, docTS, index, last>> /\ builder' = builder
    BY <1>2 DEF BatchStep, BatchCounts, BatchSaves, BatchFails, BatchChecks, BatchQueues, store, seg
  <2>2. cl[c].pc # "idle"
    BY <1>2, Zenon DEF BatchStep, BatchCounts, BatchSaves, BatchFails, BatchChecks, BatchQueues
  <2>3. loaded
    BY <1>0, <2>2, Zenon DEF BuilderInv
  <2>4. BuilderRests
    BY <2>1 DEF BuilderRests
  <2>5. StillLoaded
    BY <2>3, Zenon DEF StillLoaded
  <2> QED
    BY <1>0, <2>1, <2>4, <2>5, Quiet, ZenonT(60)
<1>3. ASSUME NEW c \in Client, BuildReceives(c) PROVE IInv'
  <2>1. UNCHANGED <<rows, lastID, docs, file, loaded, latest, cache, docTS, index, last>>
    BY <1>3, Zenon DEF BuildReceives, store, seg
  <2>2. builder.pc # "swap" /\ builder'.pc = "get" /\ builder'.upto <= lastID
    BY <1>0, <1>3 DEF BuildReceives, BuilderInv, TypeOK
  <2>3. loaded
    BY <1>0, <1>3, Zenon DEF BuilderInv, BuildReceives
  <2>4. BuilderRests /\ StillLoaded
    BY <2>2, <2>3 DEF BuilderRests, StillLoaded
  <2> QED
    BY <1>0, <2>1, <2>4, Quiet, Zenon
<1> QED
  BY <1>0, <1>1, <1>2, <1>3, LoadStep, BatchWritesStep, BuilderMovesStep, BuildAppliesStep,
     BuildSavesStep, BuildCleansStep, BuildSwapsStep, Forgets, ZenonT(60) DEF Next, Build

(* The invariant says that both searches show the last writes.             *)
LEMMA InvSearches == IInv => SearchByIDsIsExact /\ SearchIsComplete
<1> SUFFICES ASSUME IInv, loaded PROVE SearchByIDs = Live /\ Search = Live
  BY ZenonT(60) DEF SearchByIDsIsExact, SearchIsComplete
<1>1. ASSUME NEW d \in Doc
      PROVE  /\ docTS[d] # 0 => cache[d] = Written(d)
             /\ docTS[d] = 0 => cache[d] = 0 /\ docs[d] = Written(d) /\ (d \in index <=> docs[d] # 0)
  <2>1. StoreInv(d) /\ MemoryInv(d)
    BY Parts, Zenon
  <2>2. ~HasRow(d) => docs[d] = Written(d)
    BY <2>1, Zenon DEF StoreInv
  <2> QED
    BY <2>1, <2>2 DEF MemoryInv
<1>2. index \subseteq Doc
  BY Parts, Zenon DEF TypeOK
<1>3. SearchByIDs = Live
  BY <1>1, ZenonT(60) DEF SearchByIDs, InCache, Live
<1>4. Search = Live
  BY <1>1, <1>2 DEF Search, InCache, Live
<1> QED
  BY <1>3, <1>4

(* IInv holds in every reachable state of the index, its builder and its   *)
(* clients.                                                                *)
THEOREM Invariant == Spec => []IInv
<1>1. IInv /\ [Next]_vars => IInv'
  BY StepInv
<1> QED
  BY <1>1, InitInv, PTL DEF Spec

(* SearchByIDs shows exactly the vectors written last, before, during and  *)
(* after any rebuild and any crash (hnsw_segment.go, SearchByIDs).         *)
THEOREM ByIDsExact == Spec => []SearchByIDsIsExact
BY Invariant, InvSearches, PTL

(* Search misses no document and shows no stale one (hnsw_segment.go,      *)
(* Search over an HNSW index that finds all its keys).                     *)
THEOREM SearchComplete == Spec => []SearchIsComplete
BY Invariant, InvSearches, PTL
=============================================================================
