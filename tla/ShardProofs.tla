----------------------------- MODULE ShardProofs -----------------------------
(***************************************************************************)
(* Proofs about what a shard opens and closes.  First ShardWriter: the     *)
(* reference count counts the users, and when every CloseWriter has its    *)
(* GetWriter the lazy closer only closes a writer that nobody uses.  Then  *)
(* WalList: when indexes are closed quietly, the handshake between Close   *)
(* and the ticker goroutine protects the log, for any number of requests   *)
(* and loads.                                                              *)
(***************************************************************************)
EXTENDS ShardWriter, WalList, FiniteSetTheorems, TLAPS

(* Counted is a finite set, so its cardinality is a number, zero only when *)
(* it is empty.                                                            *)
LEMMA CountedFinite ==
    /\ IsFiniteSet(Counted)
    /\ Cardinality(Counted) \in Nat
    /\ Cardinality(Counted) = 0 <=> Counted = {}
<1>1. IsFiniteSet(Counted)
  BY WriterAssumption, FS_Subset, Zenon DEF Counted
<1> QED
  BY <1>1, FS_CardinalityType, FS_EmptySet, Zenon

(* A user that starts to be counted (AddRef, or a failed GetWriter whose   *)
(* CloseWriter runs all the same) adds one.                                *)
LEMMA CountGrows ==
    ASSUME NEW c \in User, user \in [User -> UserState], NEW s,
           user[c].pc \notin {"hold", "stamp", "drop"},
           s.pc \in {"hold", "stamp", "drop"},
           user' = [user EXCEPT ![c] = s]
    PROVE  Cardinality(Counted') = Cardinality(Counted) + 1
<1>1. Counted' = Counted \cup {c} /\ c \notin Counted
  BY DEF Counted
<1> QED
  BY <1>1, CountedFinite, FS_AddElement, Zenon

(* A user that finishes CloseWriter takes one away.                        *)
LEMMA CountShrinks ==
    ASSUME NEW c \in User, user \in [User -> UserState],
           user[c].pc \in {"hold", "stamp", "drop"},
           user' = [user EXCEPT ![c] = Free]
    PROVE  Cardinality(Counted') = Cardinality(Counted) - 1
<1>1. Counted' = Counted \ {c} /\ c \in Counted
  BY DEF Counted, Free
<1> QED
  BY <1>1, CountedFinite, FS_RemoveElement, Zenon

(* At the start nobody is counted.                                         *)
LEMMA InitInv == Init => IInv
<1> SUFFICES ASSUME Init PROVE IInv
  OBVIOUS
<1>0. Free \in UserState /\ Free \in LazyState /\ 0 \in 0 .. MaxWriter /\ 0 \in 0 .. MaxUnpaired
        /\ 0 \in 0 .. MaxClose
  BY WriterAssumption DEF UserState, LazyState, Free, Nil
<1>1. TypeOK
  <2>1. expired \in BOOLEAN
    BY DEF Init
  <2> QED
    BY <1>0, <2>1 DEF Init, TypeOK, Nil
<1>2. Counted = {}
  BY Zenon DEF Init, Counted, Free
<1> QED
  BY <1>1, <1>2, FS_EmptySet DEF IInv, Init

(* Each step keeps the types.                                              *)
LEMMA NextType == TypeOK /\ [Next]_vars => TypeOK'
<1> SUFFICES ASSUME TypeOK, [Next]_vars PROVE TypeOK'
  OBVIOUS
<1> DEFINE Rest ==
      /\ writer \in 0 .. MaxWriter /\ made \in 0 .. MaxWriter
      /\ opened \subseteq 1 .. MaxWriter
      /\ refs \in Int
      /\ user \in [User -> UserState]
      /\ lazy \in LazyState /\ closing \in {0, 1} /\ closes \in 0 .. MaxClose
      /\ unpaired \in 0 .. MaxUnpaired
<1>b. expired' \in BOOLEAN
  BY ZenonT(60) DEF TypeOK, Next, UserStep, vars, GetWriter, OpenWriter, GetWriterFails,
         GetWriterFailsInWrite, Reread, AddRef, Done, StampCloseTime, DropRef,
         RollbackInserts, FiveMinutesPass, LazyReads, LazyClears, LazyCloses,
         CloseShard, CloseShardForgets
<1>r. Rest
  BY DEF TypeOK
<1> SUFFICES Rest'
  BY <1>b, Zenon DEF TypeOK
<1> USE <1>r, WriterAssumption DEF Nil
<1>1. ASSUME NEW c \in User, UserStep(c) PROVE Rest'
  <2>0. user[c] \in UserState /\ Free \in UserState /\ Free \in LazyState
    BY DEF UserState, LazyState, Free
  <2>1. ASSUME NEW pc \in {"idle", "add", "open", "reread", "hold", "stamp", "drop"},
               Goto(c, pc)
        PROVE  user' \in [User -> UserState]
    BY <2>0, <2>1, Zenon DEF Goto, UserState
  <2>2. ASSUME NEW pc \in {"idle", "add", "open", "reread", "hold", "stamp", "drop"},
               user' = [user EXCEPT ![c] = [pc |-> pc, w |-> writer]]
        PROVE  user' \in [User -> UserState]
    BY <2>2, Zenon DEF UserState
  <2>3. CASE GetWriter(c)
    BY <2>3, <2>2, Zenon DEF GetWriter
  <2>4. CASE OpenWriter(c)
    <3>1. user' \in [User -> UserState]
      BY <2>4, <2>1, Zenon DEF OpenWriter
    <3>2. writer' \in 0 .. MaxWriter /\ made' \in 0 .. MaxWriter /\ opened' \subseteq 1 .. MaxWriter
      <4>1. CASE writer # Nil
        BY <4>1, <2>4, Zenon DEF OpenWriter
      <4>2. CASE writer = Nil
        <5>1. made < MaxWriter /\ writer' = made + 1 /\ made' = made + 1
                /\ opened' = opened \cup {made + 1}
          BY <4>2, <2>4, Zenon DEF OpenWriter
        <5>2. made + 1 \in 1 .. MaxWriter
          BY <5>1
        <5> QED
          BY <5>1, <5>2
      <4> QED
        BY <4>1, <4>2, Zenon
    <3> QED
      BY <3>1, <3>2, <2>4, Zenon DEF OpenWriter
  <2>5. CASE GetWriterFails(c)
    BY <2>5, <2>0, Zenon DEF GetWriterFails
  <2>6. CASE GetWriterFailsInWrite(c)
    BY <2>6, <2>1 DEF GetWriterFailsInWrite
  <2>7. CASE Reread(c)
    BY <2>7, <2>2, Zenon DEF Reread
  <2>8. CASE AddRef(c)
    BY <2>8, <2>1 DEF AddRef
  <2>9. CASE Done(c)
    BY <2>9, <2>1 DEF Done
  <2>10. CASE StampCloseTime(c)
    BY <2>10, <2>1, Zenon DEF StampCloseTime
  <2>11. CASE DropRef(c)
    BY <2>11, <2>0 DEF DropRef
  <2> QED
    BY <1>1, <2>3, <2>4, <2>5, <2>6, <2>7, <2>8, <2>9, <2>10, <2>11, ZenonT(60) DEF UserStep
<1>2. CASE RollbackInserts
  BY <1>2 DEF RollbackInserts
<1>3. CASE FiveMinutesPass
  BY <1>3, Zenon DEF FiveMinutesPass
<1>4. CASE LazyReads
  BY <1>4 DEF LazyReads, LazyState
<1>5. CASE LazyClears
  BY <1>5 DEF LazyClears, LazyState
<1>6. CASE LazyCloses
  <2>1. Free \in LazyState
    BY DEF LazyState, Free
  <2>2. opened' \subseteq opened
    BY <1>6, Zenon DEF LazyCloses
  <2> QED
    BY <1>6, <2>1, <2>2, Zenon DEF LazyCloses
<1>7. CASE CloseShard
  BY <1>7 DEF CloseShard
<1>8. CASE CloseShardForgets
  BY <1>8 DEF CloseShardForgets
<1>9. CASE UNCHANGED vars
  BY <1>9 DEF vars
<1> QED
  BY <1>1, <1>2, <1>3, <1>4, <1>5, <1>6, <1>7, <1>8, <1>9, ZenonT(60) DEF Next

(* Each step keeps the count: only AddRef, DropRef and the two unpaired    *)
(* CloseWriters change one of its three parts, and each changes two.       *)
LEMMA NextInv == IInv /\ [Next]_vars => IInv'
<1> SUFFICES ASSUME IInv, [Next]_vars PROVE IInv'
  OBVIOUS
<1>0. TypeOK /\ TypeOK'
  BY NextType, Zenon DEF IInv
<1>n. /\ Cardinality(Counted) \in Nat /\ refs \in Int /\ unpaired \in Nat
      /\ refs = Cardinality(Counted) - unpaired
  BY <1>0, CountedFinite, WriterAssumption DEF IInv, TypeOK
<1> SUFFICES refs' = Cardinality(Counted') - unpaired'
  BY <1>0 DEF IInv
<1>s. ASSUME Counted' = Counted, refs' = refs, unpaired' = unpaired
      PROVE  refs' = Cardinality(Counted') - unpaired'
  BY <1>s, <1>n
<1>1. ASSUME NEW c \in User, UserStep(c) PROVE refs' = Cardinality(Counted') - unpaired'
  <2>0. user \in [User -> UserState] /\ user[c] \in UserState
    BY <1>0 DEF TypeOK
  <2>g. ASSUME NEW pc, Goto(c, pc) PROVE user' = [user EXCEPT ![c] = [user[c] EXCEPT !.pc = pc]]
                                           /\ [user[c] EXCEPT !.pc = pc].pc = pc
    BY <2>g, <2>0, Zenon DEF Goto, UserState
  <2>3. CASE GetWriter(c)
    <3>1. Counted' = Counted
      <4> DEFINE s == [pc |-> IF writer = Nil THEN "open" ELSE "add", w |-> writer]
      <4>1. user[c].pc \notin {"hold", "stamp", "drop"} /\ s.pc \notin {"hold", "stamp", "drop"}
        BY <2>3 DEF GetWriter, At
      <4>2. user' = [user EXCEPT ![c] = s]
        BY <2>3, Zenon DEF GetWriter
      <4> QED
        BY <4>1, <4>2, <2>0, Zenon DEF Counted
    <3> QED
      BY <3>1, <2>3, <1>s, Zenon DEF GetWriter
  <2>4. CASE OpenWriter(c)
    <3>1. Counted' = Counted
      BY <2>4, <2>0, ZenonT(60) DEF OpenWriter, Goto, At, Counted, UserState
    <3> QED
      BY <3>1, <2>4, <1>s, Zenon DEF OpenWriter
  <2>5. CASE GetWriterFails(c)
    <3>1. Counted' = Counted
      BY <2>5, <2>0, Zenon DEF GetWriterFails, CannotOpen, At, Counted, Free
    <3> QED
      BY <3>1, <2>5, <1>s, Zenon DEF GetWriterFails
  <2>6. CASE GetWriterFailsInWrite(c)
    <3>1. user[c].pc \notin {"hold", "stamp", "drop"} /\ Goto(c, "stamp")
      BY <2>6 DEF GetWriterFailsInWrite, CannotOpen, At
    <3>2. Cardinality(Counted') = Cardinality(Counted) + 1
      BY <3>1, <2>g, <2>0, CountGrows, ZenonT(60)
    <3>3. refs' = refs /\ unpaired' = unpaired + 1
      BY <2>6 DEF GetWriterFailsInWrite
    <3> QED
      BY <3>2, <3>3, <1>n
  <2>7. CASE Reread(c)
    <3>1. Counted' = Counted
      BY <2>7, <2>0, Zenon DEF Reread, At, Counted
    <3> QED
      BY <3>1, <2>7, <1>s, Zenon DEF Reread
  <2>8. CASE AddRef(c)
    <3>1. user[c].pc \notin {"hold", "stamp", "drop"} /\ Goto(c, "hold")
      BY <2>8, Zenon DEF AddRef, At
    <3>2. Cardinality(Counted') = Cardinality(Counted) + 1
      BY <3>1, <2>g, <2>0, CountGrows, ZenonT(60)
    <3>3. refs' = refs + 1 /\ unpaired' = unpaired
      BY <2>8 DEF AddRef
    <3> QED
      BY <3>2, <3>3, <1>n
  <2>9. CASE Done(c)
    <3>1. Counted' = Counted
      BY <2>9, <2>0 DEF Done, Goto, At, Counted, UserState
    <3> QED
      BY <3>1, <2>9, <1>s DEF Done
  <2>10. CASE StampCloseTime(c)
    <3>1. Counted' = Counted
      BY <2>10, <2>0 DEF StampCloseTime, Goto, At, Counted, UserState
    <3> QED
      BY <3>1, <2>10, <1>s DEF StampCloseTime
  <2>11. CASE DropRef(c)
    <3>1. user[c].pc \in {"hold", "stamp", "drop"} /\ user' = [user EXCEPT ![c] = Free]
      BY <2>11 DEF DropRef, At
    <3>2. Cardinality(Counted') = Cardinality(Counted) - 1
      BY <3>1, <2>0, CountShrinks, Zenon
    <3>3. refs' = refs - 1 /\ unpaired' = unpaired
      BY <2>11 DEF DropRef
    <3> QED
      BY <3>2, <3>3, <1>n
  <2> QED
    BY <1>1, <2>3, <2>4, <2>5, <2>6, <2>7, <2>8, <2>9, <2>10, <2>11, ZenonT(60) DEF UserStep
<1>2. CASE RollbackInserts
  <2>1. Counted' = Counted /\ refs' = refs - 1 /\ unpaired' = unpaired + 1
    BY <1>2, Zenon DEF RollbackInserts, Counted
  <2> QED
    BY <2>1, <1>n
<1>3. CASE FiveMinutesPass \/ LazyReads \/ LazyClears \/ LazyCloses \/ CloseShard
             \/ CloseShardForgets \/ UNCHANGED vars
  <2>1. user' = user /\ refs' = refs /\ unpaired' = unpaired
    BY <1>3, Zenon DEF FiveMinutesPass, LazyReads, LazyClears, LazyCloses, CloseShard,
                CloseShardForgets, vars
  <2> QED
    BY <2>1, <1>s, Zenon DEF Counted
<1> QED
  BY <1>1, <1>2, <1>3, Zenon DEF Next

(* GetWriter and CloseWriter keep the count: in every reachable state it   *)
(* is the number of users less the unpaired CloseWriters.                  *)
THEOREM WriterCounted == Spec => []IInv
BY InitInv, NextInv, PTL DEF Spec

(* As long as every CloseWriter had its GetWriter, the lazy closer's zero  *)
(* count means what it takes it to mean: it only closes a writer that no   *)
(* counted user works with.                                                *)
THEOREM LazyCloserIsRight == Spec => LazyClosesUnused
<1>1. ASSUME IInv, [Next]_vars, lazy.pc = "idle", lazy'.pc = "clear"
      PROVE  unpaired > 0 \/ \A c \in User : ~At(c, "hold")
  <2> SUFFICES ASSUME unpaired = 0 PROVE \A c \in User : ~At(c, "hold")
    BY <1>1, WriterAssumption DEF IInv, TypeOK
  <2>1. refs = 0
    <3>1. ASSUME NEW c \in User, UserStep(c) PROVE lazy' = lazy
      BY <3>1, Zenon DEF UserStep, GetWriter, OpenWriter, GetWriterFails, GetWriterFailsInWrite,
                  Reread, AddRef, Done, StampCloseTime, DropRef
    <3>2. ~(lazy' = lazy)
      BY <1>1
    <3>3. CASE LazyClears \/ LazyCloses
      BY <3>3, <1>1, Zenon DEF LazyClears, LazyCloses
    <3>4. CASE RollbackInserts \/ FiveMinutesPass \/ CloseShard \/ CloseShardForgets
                 \/ UNCHANGED vars
      BY <3>4, <3>2 DEF RollbackInserts, FiveMinutesPass, CloseShard, CloseShardForgets, vars
    <3>5. CASE LazyReads
      BY <3>5 DEF LazyReads
    <3> QED
      BY <1>1, <3>1, <3>2, <3>3, <3>4, <3>5, ZenonT(60) DEF Next
  <2>3. Counted = {}
    BY <1>1, <2>1, CountedFinite DEF IInv
  <2> QED
    BY <2>3, Zenon DEF Counted, At
<1>2. IInv /\ [Next]_vars
        => [lazy.pc = "idle" /\ lazy'.pc = "clear"
              => unpaired > 0 \/ \A c \in User : ~At(c, "hold")]_vars
  BY <1>1
<1> QED
  BY <1>2, WriterCounted, PTL DEF Spec, LazyClosesUnused

(* What makes NoWriterForgotten inductive: between the lazy closer's look  *)
(* at the writer and its write of nil, nobody replaces the writer.         *)
Watched ==
    closes = 0 => /\ closing = 0 /\ NoWriterForgotten
                  /\ lazy.pc = "clear" => lazy.w = writer /\ writer # Nil

LEMMA WatchedStep == TypeOK /\ Watched /\ [Next]_vars => Watched'
<1> SUFFICES ASSUME TypeOK, Watched, [Next]_vars, closes' = 0 PROVE Watched'
  BY DEF Watched
<1>0. /\ closes \in Nat /\ lazy.pc \in {"idle", "clear", "close"} /\ Nil \notin opened
      /\ lazy \in LazyState
  BY WriterAssumption DEF TypeOK, LazyState, Nil
<1>1. CASE CloseShard
  BY <1>0, <1>1 DEF CloseShard
<1>2. ASSUME ~CloseShard
      PROVE  closes = 0 /\ closing = 0 /\ NoWriterForgotten /\ (lazy.pc = "clear" => lazy.w = writer /\ writer # Nil)
  <2>1. closes' = closes
    BY <1>2, Zenon DEF Next, UserStep, GetWriter, OpenWriter, GetWriterFails, GetWriterFailsInWrite, Reread, AddRef,
                Done, StampCloseTime, DropRef, RollbackInserts, FiveMinutesPass, LazyReads, LazyClears,
                LazyCloses, CloseShardForgets, vars
  <2> QED
    BY <2>1, ZenonT(60) DEF Watched
<1>3. CASE UNCHANGED <<writer, opened, lazy, closing, closes>>
  BY <1>3, Zenon DEF Watched, NoWriterForgotten
<1>4. ASSUME NEW c \in User, OpenWriter(c), ~CloseShard PROVE Watched'
  BY <1>0, <1>2, <1>4, ZenonT(60) DEF OpenWriter, Watched, NoWriterForgotten
<1>5. ASSUME LazyReads, ~CloseShard PROVE Watched'
  BY <1>0, <1>2, <1>5, Zenon DEF LazyReads, Watched, NoWriterForgotten
<1>6. ASSUME LazyClears, ~CloseShard PROVE Watched'
  BY <1>0, <1>2, <1>6, Zenon DEF LazyClears, Watched, NoWriterForgotten, LazyState
<1>7. ASSUME LazyCloses, ~CloseShard PROVE Watched'
  BY <1>0, <1>2, <1>7, Zenon DEF LazyCloses, Watched, NoWriterForgotten, Free
<1>8. ASSUME CloseShardForgets, ~CloseShard PROVE Watched'
  BY <1>2, <1>8 DEF CloseShardForgets
<1>9. ASSUME NEW c \in User, UserStep(c), ~OpenWriter(c)
      PROVE  UNCHANGED <<writer, opened, lazy, closing, closes>>
  BY <1>9, Zenon DEF UserStep, GetWriter, GetWriterFails, GetWriterFailsInWrite, Reread, AddRef, Done,
              StampCloseTime, DropRef
<1>10. CASE RollbackInserts \/ FiveMinutesPass \/ UNCHANGED vars
  BY <1>3, <1>10 DEF RollbackInserts, FiveMinutesPass, vars
<1> QED
  BY <1>1, <1>3, <1>4, <1>5, <1>6, <1>7, <1>8, <1>9, <1>10, ZenonT(60) DEF Next

(* openWriter and the lazy closer lose no open bluge writer: until the     *)
(* index is closed, it is the shard's writer or the one that the lazy      *)
(* closer is about to close.                                               *)
THEOREM WritersAreFound == Spec => []NoWriterForgotten
<1>1. Init => Watched
  BY DEF Init, Watched, NoWriterForgotten, Free
<1>2. TypeOK /\ Watched => NoWriterForgotten
  BY DEF Watched, NoWriterForgotten
<1>3. IInv => TypeOK
  BY DEF IInv
<1> QED
  BY <1>1, <1>2, <1>3, WriterCounted, WatchedStep, PTL DEF Spec

-----------------------------------------------------------------------------
(* The handshake of WalList *)

\* The initial state satisfies the invariant.
LEMMA HandshakeInit == ListInit => HandshakeInv
BY WalListAssumption DEF ListInit, HandshakeInv, ListTypeOK, ListInv, ReqInv, ShardInv,
     Shard, ReqState, CloseState, TickState

\* A request that goes on stays in its incarnation, and the others where they are.
LEMMA GotoStep ==
    ASSUME ListTypeOK, NEW r \in Request, NEW pc \in ReqState, CallerGoes(r, pc)
    PROVE  /\ caller' \in [Request -> [pc : ReqState, at : Shard \cup {None}]]
           /\ caller'[r].pc = pc /\ caller'[r].at = caller[r].at
           /\ \A q \in Request : q # r => caller'[q] = caller[q]
BY DEF ListTypeOK, CallerGoes

\* Where a request inside an incarnation is, and what it may rely on.
LEMMA InsideStep ==
    ASSUME HandshakeInv, NEW r \in Request, caller[r].pc # "idle"
    PROVE  /\ caller[r].at \in Shard /\ caller[r].at <= loads /\ closer[caller[r].at] = "no"
           /\ loads \in Nat /\ None \notin Shard /\ Shard \subseteq Nat
BY WalListAssumption DEF HandshakeInv, ListTypeOK, ReqInv, Shard

\* OpenWAL's first look at the flag.
LEMMA OpenCheckKeepsInv ==
    ASSUME HandshakeInv, NEW r \in Request, OpenCheck(r) PROVE HandshakeInv'
<1>1. ListTypeOK /\ ListInv /\ ReqInv(r) /\ (\A q \in Request : ReqInv(q)) /\ \A i \in Shard : ShardInv(i)
  BY DEF HandshakeInv
<1>2. caller[r].pc # "idle"
  BY DEF OpenCheck, CallerAt
<1>3. /\ caller[r].at \in Shard /\ caller[r].at <= loads /\ closer[caller[r].at] = "no"
      /\ loads \in Nat /\ None \notin Shard /\ Shard \subseteq Nat
  BY <1>2, InsideStep
<1>4. \E pc \in {"use", "lock"} :
        /\ caller' \in [Request -> [pc : ReqState, at : Shard \cup {None}]]
        /\ caller'[r].pc = pc /\ caller'[r].at = caller[r].at
        /\ \A q \in Request : q # r => caller'[q] = caller[q]
  BY <1>1, GotoStep DEF OpenCheck, ReqState
<1>5. ListTypeOK'
  BY <1>1, <1>3, <1>4 DEF ListTypeOK, OpenCheck, shards
<1>6. ListInv'
  BY <1>1, <1>3 DEF ListTypeOK, ListInv, ShardInv, ReqInv, OpenCheck, shards, CallerAt
<1>7. ASSUME NEW q \in Request PROVE ReqInv(q)'
  <2>1. caller'[r].pc = "use" => caller[r].at \in flag
    BY <1>1 DEF OpenCheck, CallerGoes, ListTypeOK
  <2>2. caller[r].at \in flag => caller[r].at \in wal
    BY <1>1, <1>3, Zenon DEF ShardInv
  <2>3. UNCHANGED <<loads, shards, closer>>
    BY Zenon DEF OpenCheck
  <2>4. CASE q = r
    BY <1>1, <1>2, <1>3, <1>4, <2>1, <2>2, <2>3, <2>4, Zenon DEF ReqInv, shards
  <2>5. CASE q # r
    BY <1>1, <1>4, <2>3, <2>5, Zenon DEF ReqInv, shards
  <2>6. QED
    BY <2>4, <2>5
<1>8. ASSUME NEW i \in Shard PROVE ShardInv(i)'
  BY <1>1, <1>3 DEF ShardInv, ReqInv, OpenCheck, shards, CallerAt
<1>9. QED
  BY <1>5, <1>6, <1>7, <1>8 DEF HandshakeInv

\* OpenWAL under the lock.
LEMMA OpenLockKeepsInv ==
    ASSUME HandshakeInv, NEW r \in Request, OpenLock(r) PROVE HandshakeInv'
<1>1. ListTypeOK /\ ListInv /\ ReqInv(r) /\ (\A q \in Request : ReqInv(q)) /\ \A i \in Shard : ShardInv(i)
  BY DEF HandshakeInv
<1>2. caller[r].pc # "idle"
  BY Zenon DEF OpenLock, CallerAt
<1>3. /\ caller[r].at \in Shard /\ caller[r].at <= loads /\ closer[caller[r].at] = "no"
      /\ loads \in Nat /\ None \notin Shard /\ Shard \subseteq Nat
  BY <1>2, InsideStep
<1>4. \E pc \in {"use", "flag"} :
        /\ caller' \in [Request -> [pc : ReqState, at : Shard \cup {None}]]
        /\ caller'[r].pc = pc /\ caller'[r].at = caller[r].at
        /\ \A q \in Request : q # r => caller'[q] = caller[q]
  BY <1>1, GotoStep DEF OpenLock, ReqState
<1>5. ListTypeOK'
  BY <1>1, <1>3, <1>4, Zenon DEF ListTypeOK, OpenLock, shards
<1>6. ListInv'
  BY <1>1, <1>3, Zenon DEF ListTypeOK, ListInv, ShardInv, ReqInv, OpenLock, shards, CallerAt
<1>7. ASSUME NEW q \in Request PROVE ReqInv(q)'
  BY <1>1, <1>2, <1>3, <1>4 DEF ReqInv, OpenLock, shards, CallerAt
<1>8. ASSUME NEW i \in Shard PROVE ShardInv(i)'
  BY <1>1, <1>3 DEF ShardInv, ReqInv, OpenLock, shards, CallerAt
<1>9. QED
  BY <1>5, <1>6, <1>7, <1>8 DEF HandshakeInv

\* OpenWAL sets the flag once the WAL is open.
LEMMA OpenFlagKeepsInv ==
    ASSUME HandshakeInv, NEW r \in Request, OpenFlag(r) PROVE HandshakeInv'
<1>1. ListTypeOK /\ ListInv /\ ReqInv(r) /\ (\A q \in Request : ReqInv(q)) /\ \A i \in Shard : ShardInv(i)
  BY DEF HandshakeInv
<1>2. caller[r].pc # "idle"
  BY Zenon DEF OpenFlag, CallerAt
<1>3. /\ caller[r].at \in Shard /\ caller[r].at <= loads /\ closer[caller[r].at] = "no"
      /\ loads \in Nat /\ None \notin Shard /\ Shard \subseteq Nat
  BY <1>2, InsideStep
<1>4. \E pc \in {"chan"} :
        /\ caller' \in [Request -> [pc : ReqState, at : Shard \cup {None}]]
        /\ caller'[r].pc = pc /\ caller'[r].at = caller[r].at
        /\ \A q \in Request : q # r => caller'[q] = caller[q]
  BY <1>1, GotoStep DEF OpenFlag, ReqState
<1>5. ListTypeOK'
  BY <1>1, <1>3, <1>4, Zenon DEF ListTypeOK, OpenFlag, shards
<1>6. ListInv'
  BY <1>1, <1>3, Zenon DEF ListTypeOK, ListInv, ShardInv, ReqInv, OpenFlag, shards, CallerAt
<1>7. ASSUME NEW q \in Request PROVE ReqInv(q)'
  BY <1>1, <1>2, <1>3, <1>4, ZenonT(60) DEF ReqInv, OpenFlag, shards, CallerAt
<1>8. ASSUME NEW i \in Shard PROVE ShardInv(i)'
  BY <1>1, <1>3 DEF ShardInv, ReqInv, OpenFlag, shards, CallerAt
<1>9. QED
  BY <1>5, <1>6, <1>7, <1>8 DEF HandshakeInv

\* OpenWAL makes the channel.
LEMMA OpenChanKeepsInv ==
    ASSUME HandshakeInv, NEW r \in Request, OpenChan(r) PROVE HandshakeInv'
<1>1. ListTypeOK /\ ListInv /\ ReqInv(r) /\ (\A q \in Request : ReqInv(q)) /\ \A i \in Shard : ShardInv(i)
  BY DEF HandshakeInv
<1>2. caller[r].pc # "idle"
  BY Zenon DEF OpenChan, CallerAt
<1>3. /\ caller[r].at \in Shard /\ caller[r].at <= loads /\ closer[caller[r].at] = "no"
      /\ loads \in Nat /\ None \notin Shard /\ Shard \subseteq Nat
  BY <1>2, InsideStep
<1>4. \E pc \in {"add"} :
        /\ caller' \in [Request -> [pc : ReqState, at : Shard \cup {None}]]
        /\ caller'[r].pc = pc /\ caller'[r].at = caller[r].at
        /\ \A q \in Request : q # r => caller'[q] = caller[q]
  BY <1>1, GotoStep DEF OpenChan, ReqState
<1>5. ListTypeOK'
  BY <1>1, <1>3, <1>4, Zenon DEF ListTypeOK, OpenChan, shards
<1>6. ListInv'
  BY <1>1, <1>3, Zenon DEF ListTypeOK, ListInv, ShardInv, ReqInv, OpenChan, shards, CallerAt
<1>7. ASSUME NEW q \in Request PROVE ReqInv(q)'
  BY <1>1, <1>2, <1>3, <1>4, ZenonT(60) DEF ReqInv, OpenChan, shards, CallerAt
<1>8. ASSUME NEW i \in Shard PROVE ShardInv(i)'
  BY <1>1, <1>3 DEF ShardInv, ReqInv, OpenChan, shards, CallerAt
<1>9. QED
  BY <1>5, <1>6, <1>7, <1>8 DEF HandshakeInv

\* OpenWAL lists the shard.
LEMMA OpenAddKeepsInv ==
    ASSUME HandshakeInv, NEW r \in Request, OpenAdd(r) PROVE HandshakeInv'
<1>1. ListTypeOK /\ ListInv /\ ReqInv(r) /\ (\A q \in Request : ReqInv(q)) /\ \A i \in Shard : ShardInv(i)
  BY DEF HandshakeInv
<1>2. caller[r].pc # "idle"
  BY Zenon DEF OpenAdd, CallerAt
<1>3. /\ caller[r].at \in Shard /\ caller[r].at <= loads /\ closer[caller[r].at] = "no"
      /\ loads \in Nat /\ None \notin Shard /\ Shard \subseteq Nat
  BY <1>2, InsideStep
<1>4. \E pc \in {"use"} :
        /\ caller' \in [Request -> [pc : ReqState, at : Shard \cup {None}]]
        /\ caller'[r].pc = pc /\ caller'[r].at = caller[r].at
        /\ \A q \in Request : q # r => caller'[q] = caller[q]
  BY <1>1, GotoStep DEF OpenAdd, ReqState
<1>5. ListTypeOK'
  BY <1>1, <1>3, <1>4, Zenon DEF ListTypeOK, OpenAdd, shards
<1>6. ListInv'
  BY <1>1, <1>3 DEF ListTypeOK, ListInv, ShardInv, ReqInv, OpenAdd, shards, CallerAt
<1>7. ASSUME NEW q \in Request PROVE ReqInv(q)'
  BY <1>1, <1>2, <1>3, <1>4 DEF ReqInv, OpenAdd, shards, CallerAt
<1>8. ASSUME NEW i \in Shard PROVE ShardInv(i)'
  BY <1>1, <1>3 DEF ShardInv, ReqInv, OpenAdd, shards, CallerAt
<1>9. QED
  BY <1>5, <1>6, <1>7, <1>8 DEF HandshakeInv

\* OpenWAL fails in Rollback.
LEMMA OpenFailsKeepsInv ==
    ASSUME HandshakeInv, NEW r \in Request, OpenFails(r) PROVE HandshakeInv'
<1>1. ListTypeOK /\ ListInv /\ ReqInv(r) /\ (\A q \in Request : ReqInv(q)) /\ \A i \in Shard : ShardInv(i)
  BY DEF HandshakeInv
<1>2. caller[r].pc # "idle"
  BY Zenon DEF OpenFails, CallerAt
<1>3. /\ caller[r].at \in Shard /\ caller[r].at <= loads /\ closer[caller[r].at] = "no"
      /\ loads \in Nat /\ None \notin Shard /\ Shard \subseteq Nat
  BY <1>2, InsideStep
<1>4. \E pc \in {"idle"} :
        /\ caller' \in [Request -> [pc : ReqState, at : Shard \cup {None}]]
        /\ caller'[r].pc = pc /\ caller'[r].at = caller[r].at
        /\ \A q \in Request : q # r => caller'[q] = caller[q]
  BY <1>1, GotoStep DEF OpenFails, ReqState
<1>5. ListTypeOK'
  BY <1>1, <1>3, <1>4, Zenon DEF ListTypeOK, OpenFails, shards
<1>6. ListInv'
  BY <1>1, <1>3 DEF ListTypeOK, ListInv, ShardInv, ReqInv, OpenFails, shards, CallerAt
<1>7. ASSUME NEW q \in Request PROVE ReqInv(q)'
  BY <1>1, <1>2, <1>3, <1>4, Zenon DEF ReqInv, OpenFails, shards, CallerAt
<1>8. ASSUME NEW i \in Shard PROVE ShardInv(i)'
  BY <1>1, <1>3 DEF ShardInv, ReqInv, OpenFails, shards, CallerAt
<1>9. QED
  BY <1>5, <1>6, <1>7, <1>8 DEF HandshakeInv

\* The request returns.
LEMMA RequestReturnsKeepsInv ==
    ASSUME HandshakeInv, NEW r \in Request, RequestReturns(r) PROVE HandshakeInv'
<1>1. ListTypeOK /\ ListInv /\ ReqInv(r) /\ (\A q \in Request : ReqInv(q)) /\ \A i \in Shard : ShardInv(i)
  BY DEF HandshakeInv
<1>2. caller[r].pc # "idle"
  BY Zenon DEF RequestReturns, CallerAt
<1>3. /\ caller[r].at \in Shard /\ caller[r].at <= loads /\ closer[caller[r].at] = "no"
      /\ loads \in Nat /\ None \notin Shard /\ Shard \subseteq Nat
  BY <1>2, InsideStep
<1>4. \E pc \in {"idle"} :
        /\ caller' \in [Request -> [pc : ReqState, at : Shard \cup {None}]]
        /\ caller'[r].pc = pc /\ caller'[r].at = caller[r].at
        /\ \A q \in Request : q # r => caller'[q] = caller[q]
  BY <1>1, GotoStep, Zenon DEF RequestReturns, ReqState
<1>5. ListTypeOK'
  BY <1>1, <1>3, <1>4, Zenon DEF ListTypeOK, RequestReturns, shards
<1>6. ListInv'
  BY <1>1, <1>3 DEF ListTypeOK, ListInv, ShardInv, ReqInv, RequestReturns, shards, CallerAt
<1>7. ASSUME NEW q \in Request PROVE ReqInv(q)'
  BY <1>1, <1>2, <1>3, <1>4, Zenon DEF ReqInv, RequestReturns, shards, CallerAt
<1>8. ASSUME NEW i \in Shard PROVE ShardInv(i)'
  BY <1>1, <1>3 DEF ShardInv, ReqInv, RequestReturns, shards, CallerAt
<1>9. QED
  BY <1>5, <1>6, <1>7, <1>8 DEF HandshakeInv

\* OpenWAL returns to GetWriter.
LEMMA GetWriterReturnsKeepsInv ==
    ASSUME HandshakeInv, NEW r \in Request, GetWriterReturns(r) PROVE HandshakeInv'
<1>1. ListTypeOK /\ ListInv /\ ReqInv(r) /\ (\A q \in Request : ReqInv(q)) /\ \A i \in Shard : ShardInv(i)
  BY DEF HandshakeInv
<1>2. caller[r].pc # "idle"
  BY Zenon DEF GetWriterReturns, CallerAt
<1>3. /\ caller[r].at \in Shard /\ caller[r].at <= loads /\ closer[caller[r].at] = "no"
      /\ loads \in Nat /\ None \notin Shard /\ Shard \subseteq Nat
  BY <1>2, InsideStep
<1>4. \E pc \in {"store"} :
        /\ caller' \in [Request -> [pc : ReqState, at : Shard \cup {None}]]
        /\ caller'[r].pc = pc /\ caller'[r].at = caller[r].at
        /\ \A q \in Request : q # r => caller'[q] = caller[q]
  BY <1>1, GotoStep DEF GetWriterReturns, ReqState
<1>5. ListTypeOK'
  BY <1>1, <1>3, <1>4 DEF ListTypeOK, GetWriterReturns, shards
<1>6. ListInv'
  BY <1>1, <1>3, Zenon DEF ListTypeOK, ListInv, ShardInv, ReqInv, GetWriterReturns, shards, CallerAt
<1>7. ASSUME NEW q \in Request PROVE ReqInv(q)'
  BY <1>1, <1>2, <1>3, <1>4, ZenonT(60) DEF ReqInv, GetWriterReturns, shards, CallerAt
<1>8. ASSUME NEW i \in Shard PROVE ShardInv(i)'
  BY <1>1, <1>3 DEF ShardInv, ReqInv, GetWriterReturns, shards, CallerAt
<1>9. QED
  BY <1>5, <1>6, <1>7, <1>8 DEF HandshakeInv

\* GetWriter sets the flag of an open WAL.
LEMMA GetWriterStoreKeepsInv ==
    ASSUME HandshakeInv, NEW r \in Request, GetWriterStore(r) PROVE HandshakeInv'
<1>1. ListTypeOK /\ ListInv /\ ReqInv(r) /\ (\A q \in Request : ReqInv(q)) /\ \A i \in Shard : ShardInv(i)
  BY DEF HandshakeInv
<1>2. caller[r].pc # "idle"
  BY Zenon DEF GetWriterStore, CallerAt
<1>3. /\ caller[r].at \in Shard /\ caller[r].at <= loads /\ closer[caller[r].at] = "no"
      /\ loads \in Nat /\ None \notin Shard /\ Shard \subseteq Nat
  BY <1>2, InsideStep
<1>4. \E pc \in {"idle"} :
        /\ caller' \in [Request -> [pc : ReqState, at : Shard \cup {None}]]
        /\ caller'[r].pc = pc /\ caller'[r].at = caller[r].at
        /\ \A q \in Request : q # r => caller'[q] = caller[q]
  BY <1>1, GotoStep DEF GetWriterStore, ReqState
<1>5. ListTypeOK'
  BY <1>1, <1>3, <1>4, Zenon DEF ListTypeOK, GetWriterStore, shards
<1>6. ListInv'
  BY <1>1, <1>3 DEF ListTypeOK, ListInv, ShardInv, ReqInv, GetWriterStore, shards, CallerAt
<1>7. ASSUME NEW q \in Request PROVE ReqInv(q)'
  BY <1>1, <1>2, <1>3, <1>4, Zenon DEF ReqInv, GetWriterStore, shards, CallerAt
<1>8. ASSUME NEW i \in Shard PROVE ShardInv(i)'
  BY <1>1, <1>3 DEF ShardInv, ReqInv, GetWriterStore, shards, CallerAt
<1>9. QED
  BY <1>5, <1>6, <1>7, <1>8 DEF HandshakeInv

\* Every step keeps the invariant when indexes are closed quietly.
LEMMA HandshakeStep == ASSUME Quiet PROVE HandshakeInv /\ [ListNext]_listVars => HandshakeInv'
<1> SUFFICES ASSUME HandshakeInv, [ListNext]_listVars PROVE HandshakeInv'
  OBVIOUS
<1>1. /\ ListTypeOK /\ ListInv /\ (\A r \in Request : ReqInv(r)) /\ (\A i \in Shard : ShardInv(i))
      /\ loads \in Nat /\ None \notin Shard /\ Shard \subseteq Nat
  BY WalListAssumption DEF HandshakeInv, ListTypeOK, Shard
<1>2. CASE Load
  <2>1. /\ cur' = loads + 1 /\ loads' = loads + 1 /\ loads + 1 \in Shard
        /\ \A i \in Shard : i <= loads => closer[i] = "done"
        /\ UNCHANGED <<shards, list, caller, closer, tick>>
    BY <1>1, <1>2, WalListAssumption DEF Load, Shard, ListTypeOK
  <2>2. ListTypeOK'
    BY <1>1, <1>2, <2>1, WalListAssumption DEF ListTypeOK, Load, shards
  <2>3. ListInv'
    BY <1>1, <2>1 DEF ListTypeOK, ListInv, shards
  <2>4. ASSUME NEW r \in Request PROVE ReqInv(r)'
    BY <1>1, <2>1, ZenonT(60) DEF ListTypeOK, ReqInv, shards
  <2>5. ASSUME NEW i \in Shard PROVE ShardInv(i)'
    BY <1>1, <2>1 DEF ShardInv, shards
  <2>6. QED
    BY <2>2, <2>3, <2>4, <2>5 DEF HandshakeInv
<1>3. ASSUME NEW r \in Request, RequestBegins(r) PROVE HandshakeInv'
  <2>1. /\ cur \in Shard /\ cur <= loads /\ closer[cur] = "no"
        /\ UNCHANGED <<cur, loads, shards, list, closer, tick>>
    BY <1>1, <1>3 DEF RequestBegins, ListTypeOK, ListInv
  <2>2. /\ caller' \in [Request -> [pc : ReqState, at : Shard \cup {None}]]
        /\ caller'[r].pc = "check" /\ caller'[r].at = cur
        /\ \A q \in Request : q # r => caller'[q] = caller[q]
    BY <1>1, <1>3, <2>1 DEF RequestBegins, ListTypeOK, ReqState
  <2>3. ListTypeOK' /\ ListInv'
    BY <1>1, <2>1, <2>2, ZenonT(60) DEF ListTypeOK, ListInv, shards
  <2>4. ASSUME NEW q \in Request PROVE ReqInv(q)'
    BY <1>1, <2>1, <2>2 DEF ReqInv, shards
  <2>5. ASSUME NEW i \in Shard PROVE ShardInv(i)'
    BY <1>1, <2>1 DEF ShardInv, shards
  <2>6. QED
    BY <2>3, <2>4, <2>5 DEF HandshakeInv
<1>4. ASSUME NEW r \in Request, RequestStep(r) PROVE HandshakeInv'
  BY <1>4, OpenCheckKeepsInv, OpenLockKeepsInv, OpenFlagKeepsInv, OpenChanKeepsInv, OpenAddKeepsInv,
     OpenFailsKeepsInv, RequestReturnsKeepsInv, GetWriterReturnsKeepsInv, GetWriterStoreKeepsInv
     DEF RequestStep
<1>5. ASSUME NEW i \in Shard, CloseBegins(i) PROVE HandshakeInv'
  <2>1. /\ closer[i] = "no" /\ closer' = [closer EXCEPT ![i] = "begin"] /\ cur = i
        /\ cur' \in {i, None} /\ UNCHANGED <<loads, shards, list, caller, tick>>
        /\ \A r \in Request : caller[r].pc # "idle" => caller[r].at # i
    BY <1>5 DEF CloseBegins, Used
  <2>2. ListTypeOK'
    BY <1>1, <2>1 DEF ListTypeOK, shards, CloseState
  <2>3. ListInv'
    BY <1>1, <2>1, Zenon DEF ListTypeOK, ListInv, shards
  <2>4. ASSUME NEW r \in Request PROVE ReqInv(r)'
    BY <1>1, <2>1 DEF ListTypeOK, ReqInv, shards
  <2>5. ASSUME NEW j \in Shard PROVE ShardInv(j)'
    BY <1>1, <2>1 DEF ListTypeOK, ShardInv, shards
  <2>6. QED
    BY <2>2, <2>3, <2>4, <2>5 DEF HandshakeInv
<1>6. ASSUME NEW i \in Shard, CloseChecks(i) PROVE HandshakeInv'
  <2>1. /\ closer[i] = "begin" /\ UNCHANGED <<cur, loads, shards, list, caller, tick>>
        /\ closer' = [closer EXCEPT ![i] =
                        IF i \notin flag THEN "wal" ELSE IF i \in chan THEN "sending" ELSE "stuck"]
    BY <1>6 DEF CloseChecks
  <2>2. ListTypeOK'
    BY <1>1, <2>1, Zenon DEF ListTypeOK, shards, CloseState
  <2>3. ListInv'
    BY <1>1, <2>1, Zenon DEF ListTypeOK, ListInv, shards
  <2>4. ASSUME NEW r \in Request PROVE ReqInv(r)'
    BY <1>1, <2>1, ZenonT(60) DEF ListTypeOK, ReqInv, shards
  <2>5. ASSUME NEW j \in Shard PROVE ShardInv(j)'
    BY <1>1, <2>1, Zenon DEF ListTypeOK, ShardInv, shards
  <2>6. QED
    BY <2>2, <2>3, <2>4, <2>5 DEF HandshakeInv
<1>7. ASSUME NEW i \in Shard, CloseFlag(i) \/ CloseWal(i) PROVE HandshakeInv'
  <2>1. /\ closer[i] \in {"flag", "wal"} /\ closer' = [closer EXCEPT ![i] = IF closer[i] = "flag" THEN "wal" ELSE "done"]
        /\ flag' = IF closer[i] = "flag" THEN flag \ {i} ELSE flag
        /\ wal' = IF closer[i] = "flag" THEN wal ELSE wal \ {i}
        /\ cur' \in {cur, None}
        /\ UNCHANGED <<loads, chan, list, caller, tick>>
    BY <1>7, Zenon DEF CloseFlag, CloseWal
  <2>2. ListTypeOK'
    BY <1>1, <2>1, Zenon DEF ListTypeOK, CloseState
  <2>3. ListInv'
    BY <1>1, <2>1, ZenonT(60) DEF ListTypeOK, ListInv
  <2>4. ASSUME NEW r \in Request PROVE ReqInv(r)'
    BY <1>1, <2>1 DEF ListTypeOK, ReqInv
  <2>5. ASSUME NEW j \in Shard PROVE ShardInv(j)'
    BY <1>1, <2>1 DEF ListTypeOK, ShardInv
  <2>6. QED
    BY <2>2, <2>3, <2>4, <2>5 DEF HandshakeInv
<1>8. CASE Tick
  <2>1. UNCHANGED <<cur, loads, shards, caller>>
    BY <1>8, Zenon DEF Tick, TickLists, TickReceives, TickConsumes, TickConsumed, TickNewShard,
       TickStoresShard, TickUpdates, TickRemoves
  <2>2. ListTypeOK'
    BY <1>1, <1>8 DEF ListTypeOK, shards, TickState, CloseState, ListInv,
       Tick, TickLists, TickReceives, TickConsumes, TickConsumed, TickNewShard,
       TickStoresShard, TickUpdates, TickRemoves
  <2>3. ListInv'
    BY <1>1, <1>8 DEF ListTypeOK, shards, ListInv,
       Tick, TickLists, TickReceives, TickConsumes, TickConsumed, TickNewShard,
       TickStoresShard, TickUpdates, TickRemoves
  <2>4. ASSUME NEW r \in Request PROVE ReqInv(r)'
    BY <1>1, <1>8, <2>1 DEF ListTypeOK, ReqInv, ListInv, shards,
       Tick, TickLists, TickReceives, TickConsumes, TickConsumed, TickNewShard,
       TickStoresShard, TickUpdates, TickRemoves
  <2>5. ASSUME NEW j \in Shard PROVE ShardInv(j)'
    BY <1>1, <1>8, <2>1, ZenonT(60) DEF ListTypeOK, ShardInv, ListInv, shards,
       Tick, TickLists, TickReceives, TickConsumes, TickConsumed, TickNewShard,
       TickStoresShard, TickUpdates, TickRemoves
  <2>6. QED
    BY <2>2, <2>3, <2>4, <2>5 DEF HandshakeInv
<1>9. CASE UNCHANGED listVars
  BY <1>9 DEF listVars, shards, HandshakeInv, ListTypeOK, ListInv, ReqInv, ShardInv
<1>10. QED
  BY <1>2, <1>3, <1>4, <1>5, <1>6, <1>7, <1>8, <1>9 DEF ListNext, CloseStep

(* The invariant of the handshake between OpenWAL, Close and ConsumeWAL    *)
(* holds if Close meets no request and the index is loaded again only      *)
(* after Close.                                                            *)
THEOREM HandshakeInvariant == ASSUME Quiet PROVE ListSpec => []HandshakeInv
<1>1. HandshakeInv /\ [ListNext]_listVars => HandshakeInv'
  BY HandshakeStep
<1>2. QED
  BY <1>1, HandshakeInit, PTL DEF ListSpec

(* s.open never says open of a closed WAL.                                 *)
THEOREM FlagIsRight == ASSUME Quiet PROVE ListSpec => []FlagMeansOpen
<1>1. HandshakeInv => FlagMeansOpen
  BY Zenon DEF HandshakeInv, ListTypeOK, ShardInv, FlagMeansOpen
<1>2. QED
  BY <1>1, HandshakeInvariant, PTL

(* No request that OpenWAL let through finds its WAL closed.               *)
THEOREM RequestsFindWal == ASSUME Quiet PROVE ListSpec => []RequestHasWal
<1>1. HandshakeInv => RequestHasWal
  BY Zenon DEF HandshakeInv, ReqInv, RequestHasWal, CallerAt
<1>2. QED
  BY <1>1, HandshakeInvariant, PTL

(* ConsumeWAL never runs on a WAL that Close has closed.                   *)
THEOREM ConsumerFindsWal == ASSUME Quiet PROVE ListSpec => []ConsumedWalIsOpen
<1>1. HandshakeInv => ConsumedWalIsOpen
  <2> SUFFICES ASSUME HandshakeInv PROVE ConsumedWalIsOpen
    OBVIOUS
  <2>1. FlagMeansOpen
    BY DEF HandshakeInv, ListTypeOK, ShardInv, FlagMeansOpen
  <2>2. QED
    BY <2>1 DEF HandshakeInv, ListTypeOK, ListInv, ConsumedWalIsOpen, FlagMeansOpen
<1>2. QED
  BY <1>1, HandshakeInvariant, PTL
=============================================================================
