------------------------- MODULE IndexManagerProofs -------------------------
(***************************************************************************)
(* The index cache of a node, for any number of clients and any bounds:    *)
(* it agrees with the metadata store of a single node until that fails,    *)
(* it never keeps a closed index without a failing call, and no update     *)
(* whose Store returned is lost while the node has one object of each      *)
(* creation.                                                               *)
(*                                                                         *)
(* Sound holds whatever fails or moves; the three other parts of IInv      *)
(* build on it.  The lemmas ClientSound, CoherentFrame, OpenFrame and      *)
(* KeptFrame say what a step of a client has to show for each part; one    *)
(* lemma for each action shows it.                                         *)
(***************************************************************************)
EXTENDS IndexManager, TLAPS

\* The metadata of an index is never None.
LEMMA ContentIsNotNone == \A m \in Content : m # None
<1>1. Content \subseteq [gen : Nat, upd : SUBSET Nat]
  BY ManagerAssumption DEF Content
<1>2. QED
  BY <1>1, ManagerAssumption

\* A call that keeps what it has marshalled.
LEMMA CallSnap ==
    ASSUME NEW k \in Call, NEW m \in Content
    PROVE  /\ [k EXCEPT !.pc = "set", !.snap = m] \in Call
           /\ [k EXCEPT !.pc = "set", !.snap = m].pc = "set"
           /\ [k EXCEPT !.pc = "set", !.snap = m].snap = m
           /\ [k EXCEPT !.pc = "set", !.snap = m].op = k.op
           /\ [k EXCEPT !.pc = "set", !.snap = m].obj = k.obj
           /\ [k EXCEPT !.pc = "set", !.snap = m].upd = k.upd
  BY Zenon DEF Call

\* A handler without a call in progress, holding an object that was made.
LEMMA HoldingType ==
    ASSUME NEW o \in Obj \cup {None}
    PROVE  /\ Holding(o) \in Call /\ Holding(o).pc = "idle" /\ Holding(o).op = "none"
           /\ Holding(o).obj = o /\ Holding(o).snap = None
<1>1. 0 \in 0 .. MaxUpd
  BY ManagerAssumption
<1> QED
  BY <1>1, Zenon DEF Holding, Call

\* The call of c becomes k, the other calls stay.
Turns(c, k) ==
    /\ k \in Call /\ cl' \in [Client -> Call] /\ cl'[c] = k
    /\ \A d \in Client : d # c => cl'[d] = cl[d]

(* Setting one call turns that call only.                                  *)
LEMMA OneCall ==
    ASSUME cl \in [Client -> Call], NEW c \in Client, NEW k \in Call,
           cl' = [cl EXCEPT ![c] = k]
    PROVE  Turns(c, k)
  BY Zenon DEF Turns

\* The types of what a step reads and writes.
LEMMA Typed ==
    ASSUME Sound
    PROVE  /\ meta \in Content \cup {None} /\ objs \in Seq(Content) /\ Len(objs) <= MaxObj
           /\ closed \subseteq Obj /\ cache \in Obj \cup {None}
           /\ cl \in [Client -> Call] /\ upds \in 0 .. MaxUpd
           /\ acked \subseteq (0 .. MaxObj) \X (1 .. MaxUpd)
           /\ ready \in Client \cup {None}
           /\ moves \in 0 .. MaxFaults /\ fails \in 0 .. MaxFaults
  BY Zenon DEF Sound, TypeOK

\* What the invariant says of a call between taking and giving back ready,
\* and of the others at that time.
LEMMA AtWork ==
    ASSUME Sound, NEW c \in Client, cl[c].pc \in Owning
    PROVE  /\ CallOK(c) /\ Fits(cl[c]) /\ cl[c] \in Call /\ ready = c /\ c # None
           /\ \A d \in Client : d # c => cl[d].pc \notin Owning
<1>1. (\A d \in Client : CallOK(d)) /\ cl \in [Client -> Call]
  BY Typed, Zenon DEF Sound
<1>2. ready = c
  BY <1>1, Zenon DEF CallOK
<1>3. c # None
  BY ManagerAssumption, Zenon
<1>4. \A d \in Client : d # c => cl[d].pc \notin Owning
  BY <1>1, <1>2, Zenon DEF CallOK
<1> QED
  BY <1>1, <1>2, <1>3, <1>4, Zenon DEF CallOK

\* A call that has not taken ready.
LEMMA OffWork ==
    ASSUME Sound, NEW c \in Client, cl[c].pc \notin Owning
    PROVE  CallOK(c) /\ Fits(cl[c]) /\ cl[c] \in Call /\ ready # c
  BY Typed, Zenon DEF Sound, CallOK

\* An object in hand is one that was made.
LEMMA InHand ==
    ASSUME Sound, NEW o \in Obj \cup {None}, o # None, Made(o)
    PROVE  o \in 1 .. Len(objs) /\ o \in DOMAIN objs /\ objs[o] \in Content
<1>1. objs \in Seq(Content) /\ Len(objs) \in Nat
  BY Typed
<1>2. o \in Nat /\ o >= 1 /\ o <= Len(objs)
  BY ManagerAssumption DEF Made, Obj
<1> QED
  BY <1>1, <1>2

(* The object a call holds has been made.                                  *)
LEMMA ObjectOf ==
    ASSUME Sound, NEW c \in Client, cl[c].obj # None
    PROVE  /\ cl[c].obj \in Obj /\ cl[c].obj \in 1 .. Len(objs) /\ cl[c].obj \in DOMAIN objs
           /\ objs[cl[c].obj] \in Content
<1>1. cl[c].obj \in Obj \cup {None} /\ Made(cl[c].obj)
  <2>1. CallOK(c) /\ cl[c] \in Call
    BY Typed, Zenon DEF Sound
  <2> QED
    BY <2>1, Zenon DEF CallOK, Call
<1> QED
  BY <1>1, InHand, Zenon

\* Moving a call to another place changes nothing else of it.
LEMMA Goes ==
    ASSUME Sound, NEW c \in Client,
           NEW pc \in {"idle", "enter", "read", "set", "publish", "marshal", "look", "close",
                       "remove", "drop", "fail"},
           Goto(c, pc)
    PROVE  \E k \in Call : /\ Turns(c, k) /\ k.pc = pc /\ k.op = cl[c].op
                           /\ k.obj = cl[c].obj /\ k.snap = cl[c].snap /\ k.upd = cl[c].upd
<1> DEFINE k == [cl[c] EXCEPT !.pc = pc]
<1>1. cl \in [Client -> Call] /\ cl[c] \in Call
  BY Typed, Zenon
<1>2. /\ k \in Call /\ k.pc = pc /\ k.op = cl[c].op
      /\ k.obj = cl[c].obj /\ k.snap = cl[c].snap /\ k.upd = cl[c].upd
  BY <1>1, Zenon DEF Call
<1>3. cl' = [cl EXCEPT ![c] = k]
  BY <1>1, Zenon DEF Goto
<1> HIDE DEF k
<1>4. Turns(c, k)
  BY <1>1, <1>2, <1>3, OneCall, Zenon
<1> QED
  BY <1>2, <1>4, Zenon

\* Returning with an object in hand.
LEMMA Returns ==
    ASSUME Sound, NEW c \in Client, NEW o \in Obj \cup {None},
           cl' = [cl EXCEPT ![c] = Holding(o)]
    PROVE  /\ Holding(o) \in Call /\ Turns(c, Holding(o)) /\ Holding(o).pc = "idle"
           /\ Holding(o).op = "none" /\ Holding(o).obj = o /\ Holding(o).snap = None
  BY HoldingType, OneCall, Typed, Zenon

-----------------------------------------------------------------------------
(* Objects                                                                 *)

\* The objects of a state are there in the next one, with all their updates.
Grown ==
    /\ objs' \in Seq(Content) /\ Len(objs') <= MaxObj /\ Len(objs) <= Len(objs')
    /\ \A o \in 1 .. Len(objs) :
         objs'[o].gen = objs[o].gen /\ objs[o].upd \subseteq objs'[o].upd

\* A step that leaves the objects alone.
LEMMA SameGrown == ASSUME objs' = objs, objs \in Seq(Content), Len(objs) <= MaxObj PROVE Grown
<1>1. Len(objs) \in Nat
  OBVIOUS
<1>2. QED
  BY <1>1 DEF Grown

\* Making an object keeps the others; the new one is the last.
LEMMA AppendGrows ==
    ASSUME objs \in Seq(Content), NEW m \in Content, objs' = Append(objs, m), Len(objs) < MaxObj
    PROVE  /\ Grown /\ Len(objs') = Len(objs) + 1 /\ objs'[Len(objs) + 1] = m
           /\ Len(objs) + 1 \in Obj /\ Len(objs) + 1 \in 0 .. MaxObj
           /\ \A o \in 1 .. Len(objs) : objs'[o] = objs[o]
<1>1. /\ objs' \in Seq(Content) /\ Len(objs') = Len(objs) + 1 /\ objs'[Len(objs) + 1] = m
      /\ \A o \in 1 .. Len(objs) : objs'[o] = objs[o]
  OBVIOUS
<1>2. Len(objs) \in Nat
  OBVIOUS
<1>3. Len(objs) + 1 \in Obj /\ Len(objs) + 1 \in 0 .. MaxObj /\ Len(objs') <= MaxObj /\ Len(objs) <= Len(objs')
  BY <1>1, <1>2, ManagerAssumption DEF Obj
<1>4. Grown
  BY <1>1, <1>3, Zenon DEF Grown
<1>5. QED
  BY <1>1, <1>3, <1>4, Zenon

\* An update in memory keeps the objects and adds to one of them.
LEMMA UpdateGrows ==
    ASSUME objs \in Seq(Content), Len(objs) <= MaxObj, NEW o \in 1 .. Len(objs), NEW u \in 1 .. MaxUpd,
           objs' = [objs EXCEPT ![o].upd = @ \cup {u}]
    PROVE  /\ Grown /\ Len(objs') = Len(objs)
           /\ \A p \in 1 .. Len(objs) : p # o => objs'[p] = objs[p]
           /\ objs'[o].gen = objs[o].gen /\ objs'[o].upd = objs[o].upd \cup {u}
<1>1. objs[o] \in Content
  OBVIOUS
<1>2. [objs[o] EXCEPT !.upd = @ \cup {u}] \in Content
  BY <1>1, Zenon DEF Content
<1>3. objs' = [objs EXCEPT ![o] = [objs[o] EXCEPT !.upd = @ \cup {u}]]
  OBVIOUS
<1>4. objs' \in Seq(Content) /\ Len(objs') = Len(objs) /\ Len(objs) \in Nat
  BY <1>2, <1>3
<1>5. \A p \in 1 .. Len(objs) : p # o => objs'[p] = objs[p]
  BY <1>3
<1>6. objs'[o].gen = objs[o].gen /\ objs'[o].upd = objs[o].upd \cup {u}
  BY <1>1, <1>3 DEF Content
<1>7. Len(objs') <= MaxObj /\ Len(objs) <= Len(objs')
  BY <1>4
<1>8. \A p \in 1 .. Len(objs) : objs'[p].gen = objs[p].gen /\ objs[p].upd \subseteq objs'[p].upd
  BY <1>5, <1>6, Zenon
<1>9. QED
  BY <1>4, <1>5, <1>6, <1>7, <1>8, Zenon DEF Grown

\* What was made still is.
LEMMA MadeStable ==
    ASSUME Sound, Grown
    PROVE  /\ \A o \in Obj \cup {None} : Made(o) => (o # None => o <= Len(objs'))
           /\ \A m \in Content \cup {None} : MadeGen(m) => (m # None => m.gen <= Len(objs'))
           /\ \A n \in 0 .. MaxObj : n <= Len(objs) => n <= Len(objs')
           /\ Len(objs) \in Nat /\ Len(objs') \in Nat
<1>1. Len(objs) \in Nat /\ Len(objs') \in Nat /\ Len(objs) <= Len(objs')
  BY Typed DEF Grown
<1>2. \A n \in Nat : n <= Len(objs) => n <= Len(objs')
  BY <1>1
<1>3. Obj \subseteq Nat /\ 0 .. MaxObj \subseteq Nat
  BY ManagerAssumption DEF Obj
<1>4. \A m \in Content : m.gen \in Nat
  BY <1>3, Zenon DEF Content
<1> QED
  BY <1>1, <1>2, <1>3, <1>4, Zenon DEF Made, MadeGen

\* What described an object still describes it.
LEMMA DescribesStable ==
    ASSUME Grown
    PROVE  /\ \A d \in Client : cl'[d] = cl[d] /\ cl[d].obj \in 1 .. Len(objs) =>
                (Describes(cl[d].snap, cl[d].obj) => Describes(cl[d].snap, cl[d].obj)')
           /\ \A d \in Client : cl'[d] = cl[d] /\ cl[d].obj \in 1 .. Len(objs) /\ meta' = meta =>
                (Describes(meta, cl[d].obj) => Describes(meta, cl[d].obj)')
           /\ cache' = cache /\ cache \in 1 .. Len(objs) /\ meta' = meta =>
                (Describes(meta, cache) => Describes(meta, cache)')
<1>1. \A m : \A o \in 1 .. Len(objs) : Describes(m, o) =>
        m # None /\ objs'[o].gen = m.gen /\ m.upd \subseteq objs'[o].upd
  BY Zenon DEF Describes, Grown
<1>2. ASSUME NEW d \in Client, cl'[d] = cl[d], cl[d].obj \in 1 .. Len(objs), Describes(cl[d].snap, cl[d].obj)
      PROVE  Describes(cl[d].snap, cl[d].obj)'
  <2>1. /\ cl[d].snap # None /\ objs'[cl[d].obj].gen = cl[d].snap.gen
        /\ cl[d].snap.upd \subseteq objs'[cl[d].obj].upd
    BY <1>1, <1>2, Zenon
  <2>2. cl'[d].snap = cl[d].snap /\ cl'[d].obj = cl[d].obj
    BY <1>2, Zenon
  <2> QED
    BY <2>1, <2>2, Zenon DEF Describes
<1>3. ASSUME NEW d \in Client, cl'[d] = cl[d], cl[d].obj \in 1 .. Len(objs), meta' = meta, Describes(meta, cl[d].obj)
      PROVE  Describes(meta, cl[d].obj)'
  BY <1>1, <1>3, Zenon DEF Describes
<1>4. ASSUME cache' = cache, cache \in 1 .. Len(objs), meta' = meta, Describes(meta, cache)
      PROVE  Describes(meta, cache)'
  BY <1>1, <1>4, Zenon DEF Describes
<1> QED
  BY <1>2, <1>3, <1>4, Zenon

\* Objects of distinct creations were so before.
LEMMA DistinctBefore ==
    ASSUME Sound, Grown, Distinct'
    PROVE  Distinct
<1>1. DOMAIN objs = 1 .. Len(objs) /\ DOMAIN objs' = 1 .. Len(objs')
  BY Typed DEF Grown
<1>2. 1 .. Len(objs) \subseteq 1 .. Len(objs')
  BY MadeStable DEF Grown
<1> QED
  BY <1>1, <1>2, Zenon DEF Distinct, Grown

-----------------------------------------------------------------------------
(* What a step of a client has to show                                     *)

\* The numbers are in order after a step that leaves the objects alone,
LEMMA SameNumbers ==
    ASSUME Sound, objs' = objs, cache' = cache \/ Made(cache)', meta' = meta \/ MadeGen(meta)',
           closed' = closed \/ \A o \in closed' : o <= Len(objs'),
           acked' = acked \/ \A a \in acked' : a[1] <= Len(objs')
    PROVE  Numbered'
  BY Zenon DEF Sound, Numbered, Made, MadeGen

\* and after one that only makes or changes an object.
LEMMA MoreNumbers ==
    ASSUME Sound, Grown, UNCHANGED <<cache, meta, closed, acked>>,
           \A o \in 1 .. Len(objs') : objs'[o].gen <= Len(objs')
    PROVE  Numbered'
<1>1. DOMAIN objs' = 1 .. Len(objs')
  BY DEF Grown
<1>2. Made(cache)' /\ MadeGen(meta)'
  BY MadeStable, Typed, Zenon DEF Sound, Numbered, Made, MadeGen
<1>3. \A o \in closed' : o <= Len(objs')
  <2> SUFFICES ASSUME NEW o \in closed PROVE o <= Len(objs')
    BY Zenon
  <2>1. o \in Obj /\ Made(o) /\ o # None
    BY Typed, ManagerAssumption DEF Sound, Numbered, Made, Obj
  <2> QED
    BY <2>1, MadeStable, Zenon
<1>4. \A a \in acked' : a[1] <= Len(objs')
  <2> SUFFICES ASSUME NEW a \in acked PROVE a[1] <= Len(objs')
    BY Zenon
  <2>1. a[1] \in 0 .. MaxObj
    BY Typed
  <2>2. a[1] <= Len(objs)
    BY Zenon DEF Sound, Numbered
  <2> QED
    BY <2>1, <2>2, MadeStable, Zenon
<1> QED
  BY <1>1, <1>2, <1>3, <1>4, Zenon DEF Numbered

\* The call of another client is as it was.
LEMMA OtherCallOK ==
    ASSUME Sound, Grown, NEW c \in Client, NEW k, Turns(c, k), NEW d \in Client, d # c,
           ready' = ready \/ (ready = None /\ ready' = c) \/ (ready = c /\ ready' = None),
           cache' = cache \/ ready = c
    PROVE  CallOK(d)'
<1>1. CallOK(d) /\ cl'[d] = cl[d] /\ cl[d] \in Call /\ d # None
  BY Typed, ManagerAssumption, Zenon DEF Sound, Turns
<1>2. cl[d].obj \in Obj \cup {None} /\ cl[d].snap \in Content \cup {None}
  BY <1>1, Zenon DEF Call
<1>3. Made(cl[d].obj)' /\ MadeGen(cl[d].snap)'
  BY <1>1, <1>2, MadeStable, Zenon DEF CallOK, Made, MadeGen
<1>4. ready' = d <=> ready = d
  BY <1>1, Zenon
<1>5. Fits(cl[d])'
  BY <1>1, Zenon DEF CallOK, Fits
<1>6. cl[d].pc \in Owning => cache' = cache
  BY <1>1, Zenon DEF CallOK
<1> QED
  BY <1>1, <1>3, <1>4, <1>5, <1>6, Zenon DEF CallOK, Lookup

\* Sound, after a step in which the call of c becomes k.
LEMMA ClientSound ==
    ASSUME Sound, Grown, Numbered', UNCHANGED cluster, fails' \in 0 .. MaxFaults,
           NEW c \in Client, NEW k, Turns(c, k),
           ready' = ready \/ (ready = None /\ ready' = c) \/ (ready = c /\ ready' = None),
           cache' = cache \/ ready = c,
           meta' \in Content \cup {None}, closed' \subseteq Obj, cache' \in Obj \cup {None},
           upds' \in 0 .. MaxUpd, acked' \subseteq (0 .. MaxObj) \X (1 .. MaxUpd),
           Fits(k), k.obj # None => k.obj <= Len(objs'), k.snap # None => k.snap.gen <= Len(objs'),
           k.pc \in Owning <=> ready' = c,
           k.pc \in Owning /\ k.op \in {"get", "getOrCreate"} => cache' = None
    PROVE  Sound'
<1>1. TypeOK'
  <2>1. ready' \in Client \cup {None}
    BY Typed, Zenon
  <2>2. UNCHANGED <<assigned, owner, event, watch, moves>>
    BY Zenon DEF cluster
  <2>3. objs' \in Seq(Content) /\ Len(objs') <= MaxObj /\ cl' \in [Client -> Call]
    BY Zenon DEF Grown, Turns
  <2>4. TypeOK
    BY Zenon DEF Sound
  <2> QED
    BY <2>1, <2>2, <2>3, <2>4, Zenon DEF TypeOK
<1>2. CallOK(c)'
  BY Zenon DEF Turns, CallOK, Made, MadeGen, Lookup, Fits
<1>3. \A d \in Client : CallOK(d)'
  BY <1>2, OtherCallOK, Zenon
<1>4. ClusterOK'
  <2>1. ClusterOK /\ UNCHANGED <<owner, event, watch, moves>> /\ watch \in Watch
    BY Zenon DEF Sound, TypeOK, cluster
  <2>2. watch.obj \in Obj \cup {None}
    BY <2>1, Zenon DEF Watch
  <2>3. Made(watch.obj) => Made(watch.obj)'
    BY <2>1, <2>2, MadeStable, Zenon DEF Made
  <2> QED
    BY <2>1, <2>3, Zenon DEF ClusterOK
<1> QED
  BY <1>1, <1>3, <1>4, Zenon DEF Sound

\* Coherent, after such a step.
LEMMA CoherentFrame ==
    ASSUME Sound, Coherent, Grown, NEW c \in Client, NEW k, Turns(c, k),
           meta' = meta \/ cl[c].pc \in Owning,
           k.pc = "set" => Describes(k.snap, k.obj)',
           k.pc = "publish" => Describes(meta, k.obj)',
           cache' # None /\ k.pc \notin {"publish", "drop"} =>
               \/ cache' = cache /\ meta' = meta /\ cl[c].pc \notin {"publish", "drop"}
               \/ Describes(meta, cache)'
    PROVE  Coherent'
<1>1. ASSUME NEW d \in Client, d # c
      PROVE  /\ cl'[d].pc = "set" => Describes(cl[d].snap, cl[d].obj)'
             /\ cl'[d].pc = "publish" => Describes(meta, cl[d].obj)'
  <2>1. cl'[d] = cl[d]
    BY <1>1, Zenon DEF Turns
  <2>2. cl[d].pc \in {"set", "publish"} =>
          cl[d].pc \in Owning /\ cl[c].pc \notin Owning /\ cl[d].obj \in 1 .. Len(objs)
    <3> SUFFICES ASSUME cl[d].pc \in {"set", "publish"}
                 PROVE  cl[d].pc \in Owning /\ cl[c].pc \notin Owning /\ cl[d].obj \in 1 .. Len(objs)
      BY Zenon
    <3>1. cl[d].pc \in Owning
      BY Zenon DEF Owning
    <3>2. cl[d].obj # None
      BY <3>1, AtWork, Zenon DEF Fits
    <3> QED
      BY <1>1, <3>1, <3>2, AtWork, ObjectOf, Zenon
  <2>3. cl[d].pc = "set" => Describes(cl[d].snap, cl[d].obj)'
    BY <2>1, <2>2, DescribesStable, Zenon DEF Coherent
  <2>4. cl[d].pc = "publish" => Describes(meta, cl[d].obj)'
    BY <2>1, <2>2, DescribesStable, Zenon DEF Coherent
  <2> QED
    BY <2>1, <2>3, <2>4, Zenon
<1>2. ASSUME cache' # None, \A d \in Client : cl'[d].pc \notin {"publish", "drop"}
      PROVE  Describes(meta, cache)'
  <2>1. k.pc \notin {"publish", "drop"}
    BY <1>2, Zenon DEF Turns
  <2>2. CASE cache' = cache /\ meta' = meta /\ cl[c].pc \notin {"publish", "drop"}
    <3>1. \A d \in Client : cl[d].pc \notin {"publish", "drop"}
      BY <1>2, <2>2, Zenon DEF Turns
    <3>2. Describes(meta, cache)
      BY <1>2, <2>2, <3>1, Zenon DEF Coherent
    <3>3. cache \in 1 .. Len(objs)
      BY <1>2, <2>2, InHand, Typed, Zenon DEF Sound, Numbered
    <3> QED
      BY <2>2, <3>2, <3>3, DescribesStable, Zenon
  <2> QED
    BY <1>2, <2>1, <2>2, Zenon
<1>3. /\ cl'[c].pc = "set" => Describes(cl[c].snap, cl[c].obj)'
      /\ cl'[c].pc = "publish" => Describes(meta, cl[c].obj)'
  BY Zenon DEF Turns
<1> QED
  BY <1>1, <1>2, <1>3, Zenon DEF Coherent

\* Open, after such a step.
LEMMA OpenFrame ==
    ASSUME Sound, Open, NEW c \in Client, NEW k, Turns(c, k), watch' = watch,
           closed' = closed \/ cl[c].pc \in Owning,
           cache' # None /\ cache' \in closed' =>
               \/ k.pc \in {"remove", "drop"}
               \/ cache' = cache /\ closed' = closed /\ cl[c].pc \notin {"remove", "drop"},
           cache' \in {cache, None} \/ (watch.pc = "close" => watch.obj # cache'),
           k.op \in {"get", "getOrCreate"} /\ k.pc \in {"set", "publish"} =>
               k.obj \notin closed' /\ (watch.pc = "close" => watch.obj # k.obj)
    PROVE  Open'
<1>1. ASSUME NEW d \in Client, d # c, Lookup(d)', cl'[d].pc \in {"set", "publish"}
      PROVE  cl'[d].obj \notin closed' /\ (watch'.pc = "close" => watch'.obj # cl'[d].obj)
  <2>1. cl'[d] = cl[d] /\ Lookup(d)
    BY <1>1, Zenon DEF Turns, Lookup
  <2>2. cl[d].pc \in Owning
    BY <1>1, <2>1, Zenon DEF Owning
  <2>3. closed' = closed
    BY <1>1, <2>2, AtWork, Zenon
  <2> QED
    BY <1>1, <2>1, <2>3, Zenon DEF Open
<1>2. ASSUME Lookup(c)', cl'[c].pc \in {"set", "publish"}
      PROVE  cl'[c].obj \notin closed' /\ (watch'.pc = "close" => watch'.obj # cl'[c].obj)
  BY <1>2, Zenon DEF Turns, Lookup
<1>3. ASSUME cache' # None, cache' \in closed'
      PROVE  \E d \in Client : cl'[d].pc \in {"remove", "drop"}
  <2>1. CASE k.pc \in {"remove", "drop"}
    BY <2>1, Zenon DEF Turns
  <2>2. CASE cache' = cache /\ closed' = closed /\ cl[c].pc \notin {"remove", "drop"}
    <3>1. PICK d \in Client : cl[d].pc \in {"remove", "drop"}
      BY <1>3, <2>2, Zenon DEF Open
    <3> QED
      BY <2>2, <3>1, Zenon DEF Turns
  <2> QED
    BY <1>3, <2>1, <2>2, Zenon
<1>4. watch'.pc = "close" => watch'.obj # cache'
  <2>1. Open => (watch.pc = "close" => watch.obj # cache)
    BY Zenon DEF Open
  <2>2. watch.pc = "close" => watch.obj # None
    BY Zenon DEF Sound, ClusterOK
  <2> QED
    BY <2>1, <2>2, Zenon
<1> QED
  BY <1>1, <1>2, <1>3, <1>4, Zenon DEF Open

\* Kept, after such a step.
LEMMA KeptFrame ==
    ASSUME Sound, Kept, Grown, NEW c \in Client, NEW k, Turns(c, k),
           meta' = meta \/ cl[c].pc \in Owning, acked' = acked \/ cl[c].pc \in Owning,
           meta' # None => HasAcked(meta)',
           \A o \in 1 .. Len(objs') : HasAcked(objs[o])',
           k.pc = "set" => HasAcked(k.snap)',
           k.pc \in {"set", "publish"} /\ k.op \notin {"get", "getOrCreate"} =>
               /\ Describes(k.snap, k.obj)'
               /\ k.pc = "publish" => meta' = k.snap
               /\ k.op = "update" => k.upd \in k.snap.upd,
           k.pc \in {"enter", "marshal"} /\ k.op = "update" => k.upd \in objs'[k.obj].upd
    PROVE  Kept'
<1>1. DOMAIN objs' = 1 .. Len(objs')
  BY DEF Grown
<1>2. ASSUME NEW d \in Client, d # c
      PROVE  /\ cl'[d].pc = "set" => HasAcked(cl[d].snap)'
             /\ cl'[d].pc \in {"set", "publish"} /\ ~Lookup(d)' =>
                  /\ Describes(cl[d].snap, cl[d].obj)'
                  /\ cl'[d].pc = "publish" => meta' = cl'[d].snap
                  /\ cl'[d].op = "update" => cl'[d].upd \in cl'[d].snap.upd
             /\ cl'[d].pc \in {"enter", "marshal"} /\ cl'[d].op = "update" =>
                  cl'[d].upd \in objs'[cl'[d].obj].upd
  <2>1. cl'[d] = cl[d] /\ (Lookup(d)' <=> Lookup(d)) /\ Fits(cl[d])
    BY <1>2, Zenon DEF Turns, Lookup, Sound, CallOK
  <2>2. cl[d].pc \in {"set", "publish"} => meta' = meta /\ acked' = acked
    <3> SUFFICES ASSUME cl[d].pc \in {"set", "publish"} PROVE cl[c].pc \notin Owning
      BY Zenon
    <3>1. cl[d].pc \in Owning
      BY Zenon DEF Owning
    <3> QED
      BY <1>2, <3>1, AtWork, Zenon
  <2>3. cl[d].pc = "set" => HasAcked(cl[d].snap)'
    BY <2>1, <2>2, Zenon DEF Kept, HasAcked
  <2>4. ASSUME cl[d].pc \in {"set", "publish"}, ~Lookup(d)
        PROVE  /\ Describes(cl[d].snap, cl[d].obj)'
               /\ cl[d].pc = "publish" => meta' = cl[d].snap
               /\ cl[d].op = "update" => cl[d].upd \in cl[d].snap.upd
    <3>1. /\ Describes(cl[d].snap, cl[d].obj)
          /\ cl[d].pc = "publish" => meta = cl[d].snap
          /\ cl[d].op = "update" => cl[d].upd \in cl[d].snap.upd
      BY <2>4, Zenon DEF Kept
    <3>2. cl[d].obj \in 1 .. Len(objs)
      BY <2>1, <2>4, ObjectOf, Zenon DEF Fits
    <3> QED
      BY <2>1, <2>2, <2>4, <3>1, <3>2, DescribesStable, Zenon
  <2>5. ASSUME cl[d].pc \in {"enter", "marshal"}, cl[d].op = "update"
        PROVE  cl[d].upd \in objs'[cl[d].obj].upd
    <3>1. cl[d].upd \in objs[cl[d].obj].upd
      BY <2>5, Zenon DEF Kept
    <3>2. cl[d].obj \in 1 .. Len(objs)
      BY <2>1, <2>5, ObjectOf, Zenon DEF Fits
    <3> QED
      BY <3>1, <3>2, Zenon DEF Grown
  <2> QED
    BY <2>1, <2>3, <2>4, <2>5, Zenon
<1>3. /\ cl'[c].pc = "set" => HasAcked(cl[c].snap)'
      /\ cl'[c].pc \in {"set", "publish"} /\ ~Lookup(c)' =>
           /\ Describes(cl[c].snap, cl[c].obj)'
           /\ cl'[c].pc = "publish" => meta' = cl'[c].snap
           /\ cl'[c].op = "update" => cl'[c].upd \in cl'[c].snap.upd
      /\ cl'[c].pc \in {"enter", "marshal"} /\ cl'[c].op = "update" =>
           cl'[c].upd \in objs'[cl'[c].obj].upd
  BY Zenon DEF Turns, Lookup
<1> QED
  BY <1>1, <1>2, <1>3, Zenon DEF Kept

-----------------------------------------------------------------------------
(* The actions of a client                                                 *)

\* What a step without a failing call or a change of the assignment keeps.
Preserves ==
    /\ Sound' /\ Grown
    /\ Coherent => Coherent'
    /\ Open => Open'
    /\ Distinct /\ Kept => Kept'

\* What is stored and the objects have the stored updates, if a step leaves them alone.
LEMMA SameAcked ==
    ASSUME Sound, Kept, UNCHANGED <<objs, acked>>
    PROVE  /\ \A o \in 1 .. Len(objs') : HasAcked(objs[o])'
           /\ meta' = meta /\ meta' # None => HasAcked(meta)'
<1>1. DOMAIN objs = 1 .. Len(objs)
  BY Typed
<1> QED
  BY <1>1, Zenon DEF Kept, HasAcked

\* So do they with one object more.
LEMMA AppendAcked ==
    ASSUME Sound, Kept, acked' = acked, NEW m \in Content, HasAcked(m),
           objs' = Append(objs, m), Len(objs) < MaxObj
    PROVE  \A o \in 1 .. Len(objs') : HasAcked(objs[o])'
<1>1. /\ Len(objs') = Len(objs) + 1 /\ objs'[Len(objs) + 1] = m
      /\ \A o \in 1 .. Len(objs) : objs'[o] = objs[o]
  BY AppendGrows, Typed, Zenon
<1>2. DOMAIN objs = 1 .. Len(objs) /\ Len(objs) \in Nat
  BY Typed
<1>3. \A o \in 1 .. Len(objs') : o \in 1 .. Len(objs) \/ o = Len(objs) + 1
  BY <1>1, <1>2
<1> SUFFICES ASSUME NEW o \in 1 .. Len(objs') PROVE HasAcked(objs[o])'
  BY Zenon
<1>4. CASE o \in 1 .. Len(objs)
  BY <1>1, <1>2, <1>4, Zenon DEF Kept, HasAcked
<1>5. CASE o = Len(objs) + 1
  BY <1>1, <1>5, Zenon DEF HasAcked
<1> QED
  BY <1>3, <1>4, <1>5, Zenon

\* A new creation has no stored updates yet.
LEMMA NewContent ==
    ASSUME Sound, Len(objs) < MaxObj, NEW n, n = Len(objs) + 1
    PROVE  /\ [gen |-> n, upd |-> {}] \in Content
           /\ HasAcked([gen |-> n, upd |-> {}])
<1>1. Len(objs) \in Nat /\ n \in 0 .. MaxObj
  BY Typed, ManagerAssumption
<1>2. [gen |-> n, upd |-> {}] \in Content
  BY <1>1, Zenon DEF Content
<1>3. \A a \in acked : a[1] \in 0 .. MaxObj /\ a[1] <= Len(objs)
  BY Typed DEF Sound, Numbered
<1>4. \A a \in acked : a[1] # n
  BY <1>1, <1>3
<1>5. [gen |-> n, upd |-> {}].gen = n
  BY Zenon
<1> QED
  BY <1>2, <1>4, <1>5, Zenon DEF HasAcked

\* The generations are in order with one object more.
LEMMA AppendNumbers ==
    ASSUME Sound, NEW m \in Content, objs' = Append(objs, m), Len(objs) < MaxObj,
           m.gen <= Len(objs) + 1, UNCHANGED <<cache, meta, closed, acked>>
    PROVE  Numbered'
<1>1. /\ Grown /\ Len(objs') = Len(objs) + 1 /\ objs'[Len(objs) + 1] = m
      /\ \A o \in 1 .. Len(objs) : objs'[o] = objs[o]
  BY AppendGrows, Typed, Zenon
<1>2. DOMAIN objs = 1 .. Len(objs) /\ Len(objs) \in Nat /\ \A o \in 1 .. Len(objs) : objs[o] \in Content
  BY Typed
<1>3. \A o \in 1 .. Len(objs') : o \in 1 .. Len(objs) \/ o = Len(objs) + 1
  BY <1>1, <1>2
<1>4. \A o \in 1 .. Len(objs) : objs[o].gen \in 0 .. MaxObj /\ objs[o].gen <= Len(objs)
  BY <1>2, Zenon DEF Sound, Numbered, Content
<1>5. \A o \in 1 .. Len(objs) : objs'[o].gen <= Len(objs')
  BY <1>1, <1>4, MadeStable, Zenon
<1>6. \A o \in 1 .. Len(objs') : objs'[o].gen <= Len(objs')
  BY <1>1, <1>3, <1>5, Zenon
<1> QED
  BY <1>1, <1>6, MoreNumbers, Zenon

\* A step that changes only ready and the call of c.
LEMMA QuietStep ==
    ASSUME Sound, NEW c \in Client, NEW k, Turns(c, k),
           UNCHANGED <<meta, objs, closed, cache, upds, acked, env>>,
           ready' = ready \/ (ready = None /\ ready' = c) \/ (ready = c /\ ready' = None),
           cl[c].pc \notin {"publish", "remove", "drop"}, k.pc \notin {"set", "publish"},
           Fits(k), Made(k.obj), MadeGen(k.snap), k.pc \in Owning <=> ready' = c,
           k.pc \in Owning /\ k.op \in {"get", "getOrCreate"} => cache = None,
           Kept /\ k.pc \in {"enter", "marshal"} /\ k.op = "update" => k.upd \in objs[k.obj].upd
    PROVE  Preserves
<1>1. Grown
  BY SameGrown, Typed, Zenon
<1>2. Numbered'
  BY SameNumbers, Zenon
<1>3. UNCHANGED cluster /\ watch' = watch /\ fails' \in 0 .. MaxFaults
  BY Typed, Zenon DEF env, cluster
<1>4. Sound'
  <2>1. (k.obj # None => k.obj <= Len(objs')) /\ (k.snap # None => k.snap.gen <= Len(objs'))
    BY Zenon DEF Made, MadeGen
  <2> QED
    BY <1>1, <1>2, <1>3, <2>1, ClientSound, Typed, Zenon
<1>5. Coherent => Coherent'
  BY <1>1, CoherentFrame, Zenon
<1>6. Open => Open'
  BY <1>3, OpenFrame, Zenon
<1>7. Kept => Kept'
  BY <1>1, KeptFrame, SameAcked, Zenon
<1> QED
  BY <1>1, <1>4, <1>5, <1>6, <1>7, Zenon DEF Preserves

\* Get, GetOrCreate and Delete begin.
LEMMA BeginTurns ==
    ASSUME Sound, NEW c \in Client, NEW op \in Ops, NEW o \in Obj \cup {None}, NEW u \in 0 .. MaxUpd,
           Begin(c, op, o, u)
    PROVE  \E k \in Call : /\ Turns(c, k) /\ k.pc = "enter" /\ k.op = op /\ k.obj = o /\ k.upd = u
                           /\ k.snap = None
<1> DEFINE k == [pc |-> "enter", op |-> op, obj |-> o, upd |-> u, snap |-> None]
<1>1. k \in Call /\ k.pc = "enter" /\ k.op = op /\ k.obj = o /\ k.upd = u /\ k.snap = None
  BY Zenon DEF Call
<1>2. cl' = [cl EXCEPT ![c] = k]
  BY Zenon DEF Begin
<1> HIDE DEF k
<1>3. Turns(c, k)
  BY <1>1, <1>2, OneCall, Typed, Zenon
<1> QED
  BY <1>1, <1>3, Zenon

(* A call that begins with the name of an index keeps the invariant.       *)
LEMMA BeginByNameStep ==
    ASSUME Sound, NEW c \in Client, NEW op \in Ops, BeginByName(c, op) PROVE Preserves
<1>1. 0 \in 0 .. MaxUpd
  BY ManagerAssumption
<1>2. PICK k \in Call : /\ Turns(c, k) /\ k.pc = "enter" /\ k.op = op /\ k.obj = None /\ k.upd = 0
                        /\ k.snap = None
  <2>1. Begin(c, op, None, 0) /\ None \in Obj \cup {None}
    BY Zenon DEF BeginByName
  <2> QED
    BY <1>1, <2>1, BeginTurns
<1>3. cl[c].pc = "idle" /\ op \in {"get", "getOrCreate", "delete"} /\ ready # c
  BY OffWork, Zenon DEF BeginByName, At, Owning
<1>4. UNCHANGED <<meta, objs, closed, cache, ready, upds, acked, env>>
  BY Zenon DEF BeginByName, mgr, history
<1>5. Fits(k) /\ Made(k.obj) /\ MadeGen(k.snap)
  BY <1>2, <1>3, Zenon DEF Fits, Made, MadeGen
<1>6. k.pc \notin Owning /\ k.op # "update"
  BY <1>2, <1>3, Zenon DEF Owning
<1> QED
  BY <1>2, <1>3, <1>4, <1>5, <1>6, QuietStep, Zenon

\* Create makes an object.
LEMMA BeginCreateStep == ASSUME Sound, NEW c \in Client, BeginCreate(c) PROVE Preserves
<1> DEFINE n == Len(objs) + 1
           m == [gen |-> n, upd |-> {}]
<1>1. /\ cl[c].pc = "idle" /\ Begin(c, "create", n, 0) /\ "create" \in Ops
      /\ objs' = Append(objs, m) /\ Len(objs) < MaxObj
      /\ UNCHANGED <<meta, closed, cache, ready, upds, acked, env>>
  BY Zenon DEF BeginCreate, At, history
<1>2. m \in Content /\ HasAcked(m) /\ m.gen = n
  BY <1>1, NewContent, Zenon
<1> HIDE DEF m
<1>3. /\ Grown /\ Len(objs') = n /\ n \in Obj
  BY <1>1, <1>2, AppendGrows, Typed, Zenon
<1>4. 0 \in 0 .. MaxUpd /\ n # None /\ n <= Len(objs') /\ m.gen <= n
  BY <1>2, <1>3, ManagerAssumption DEF Obj
<1>5. Numbered'
  BY <1>1, <1>2, <1>4, AppendNumbers, Zenon
<1>6. PICK k \in Call : /\ Turns(c, k) /\ k.pc = "enter" /\ k.op = "create" /\ k.obj = n /\ k.upd = 0
                        /\ k.snap = None
  BY <1>1, <1>3, <1>4, BeginTurns
<1>7. ready # c /\ k.pc \notin Owning /\ cl[c].pc \notin Owning
  BY <1>1, <1>6, OffWork, Zenon DEF Owning
<1>8. Fits(k)
  BY <1>4, <1>6, Zenon DEF Fits
<1>9. UNCHANGED cluster /\ watch' = watch /\ fails' \in 0 .. MaxFaults
  BY <1>1, Typed, Zenon DEF env, cluster
<1> HIDE DEF n
<1>10. Sound'
  BY <1>1, <1>3, <1>4, <1>5, <1>6, <1>7, <1>8, <1>9, ClientSound, Typed, Zenon
<1>11. Coherent => Coherent'
  BY <1>1, <1>3, <1>6, CoherentFrame, Zenon
<1>12. Open => Open'
  BY <1>1, <1>6, <1>9, OpenFrame, Zenon
<1>13. ASSUME Kept PROVE Kept'
  <2>1. \A o \in 1 .. Len(objs') : HasAcked(objs[o])'
    BY <1>1, <1>2, <1>13, AppendAcked, Zenon
  <2>2. meta' # None => HasAcked(meta)'
    BY <1>1, <1>13, Zenon DEF Kept, HasAcked
  <2> QED
    BY <1>1, <1>3, <1>6, <1>13, <2>1, <2>2, KeptFrame, Zenon
<1> QED
  BY <1>3, <1>10, <1>11, <1>12, <1>13, Zenon DEF Preserves

\* A handler updates the object it holds.
LEMMA BeginUpdateStep == ASSUME Sound, NEW c \in Client, BeginUpdate(c) PROVE Preserves
<1> DEFINE o == cl[c].obj
           u == upds + 1
<1>1. /\ cl[c].pc = "idle" /\ Begin(c, "update", o, u) /\ "update" \in Ops
      /\ objs' = [objs EXCEPT ![o].upd = @ \cup {u}] /\ upds' = u /\ upds < MaxUpd /\ o # None
      /\ UNCHANGED <<meta, closed, cache, ready, acked, env>>
  BY Zenon DEF BeginUpdate, At
<1>2. u \in 1 .. MaxUpd /\ u \in 0 .. MaxUpd /\ u # 0
  BY <1>1, Typed, ManagerAssumption
<1>3. o \in Obj /\ o \in 1 .. Len(objs)
  BY <1>1, ObjectOf, Zenon
<1> HIDE DEF o, u
<1>4. /\ Grown /\ Len(objs') = Len(objs)
      /\ \A p \in 1 .. Len(objs) : p # o => objs'[p] = objs[p]
      /\ objs'[o].gen = objs[o].gen /\ objs'[o].upd = objs[o].upd \cup {u}
  BY <1>1, <1>2, <1>3, UpdateGrows, Typed, Zenon
<1>5. DOMAIN objs = 1 .. Len(objs)
  BY Typed
<1>6. \A p \in 1 .. Len(objs') : objs'[p].gen = objs[p].gen /\ objs'[p].gen <= Len(objs')
  BY <1>4, <1>5, Zenon DEF Sound, Numbered
<1>7. Numbered'
  BY <1>1, <1>4, <1>6, MoreNumbers, Zenon
<1>8. PICK k \in Call : /\ Turns(c, k) /\ k.pc = "enter" /\ k.op = "update" /\ k.obj = o /\ k.upd = u
                        /\ k.snap = None
  BY <1>1, <1>2, <1>3, BeginTurns
<1>9. ready # c /\ k.pc \notin Owning /\ cl[c].pc \notin Owning
  BY <1>1, <1>8, OffWork, Zenon DEF Owning
<1>10. Fits(k) /\ k.obj <= Len(objs')
  <2>1. o <= Len(objs')
    BY <1>3, <1>4
  <2> QED
    BY <1>1, <1>2, <1>8, <2>1, Zenon DEF Fits
<1>11. UNCHANGED cluster /\ watch' = watch /\ fails' \in 0 .. MaxFaults
  BY <1>1, Typed, Zenon DEF env, cluster
<1>12. Sound'
  <2>1. /\ meta' \in Content \cup {None} /\ closed' \subseteq Obj /\ cache' \in Obj \cup {None}
        /\ upds' \in 0 .. MaxUpd /\ acked' \subseteq (0 .. MaxObj) \X (1 .. MaxUpd)
    BY <1>1, <1>2, Typed, Zenon
  <2> QED
    BY <1>1, <1>4, <1>7, <1>8, <1>9, <1>10, <1>11, <2>1, ClientSound, Zenon
<1>13. Coherent => Coherent'
  BY <1>1, <1>4, <1>8, CoherentFrame, Zenon
<1>14. Open => Open'
  BY <1>1, <1>8, <1>11, OpenFrame, Zenon
<1>15. ASSUME Kept PROVE Kept'
  <2>1. \A p \in 1 .. Len(objs) : objs[p].upd \subseteq objs'[p].upd
    BY <1>4, Zenon
  <2>2. \A p \in 1 .. Len(objs') : HasAcked(objs[p])'
    <3> SUFFICES ASSUME NEW p \in 1 .. Len(objs'), NEW a \in acked, a[1] = objs'[p].gen
                 PROVE  a[2] \in objs'[p].upd
      BY <1>1, Zenon DEF HasAcked
    <3>1. p \in DOMAIN objs /\ a[1] = objs[p].gen
      BY <1>4, <1>5, <1>6, Zenon
    <3>2. a[2] \in objs[p].upd
      BY <1>15, <3>1, Zenon DEF Kept, HasAcked
    <3> QED
      BY <1>5, <2>1, <3>1, <3>2, Zenon
  <2>3. meta' # None => HasAcked(meta)'
    BY <1>1, <1>15, Zenon DEF Kept, HasAcked
  <2>4. k.upd \in objs'[k.obj].upd
    BY <1>4, <1>8, Zenon
  <2> QED
    BY <1>1, <1>4, <1>8, <1>15, <2>2, <2>3, <2>4, KeptFrame, Zenon
<1> QED
  BY <1>4, <1>12, <1>13, <1>14, <1>15, Zenon DEF Preserves

\* Get and GetOrCreate with the index cached.
LEMMA HitStep == ASSUME Sound, NEW c \in Client, Hit(c) PROVE Preserves
<1>1. cl[c].pc = "enter" /\ UNCHANGED <<meta, objs, closed, cache, ready, upds, acked, env>>
  BY Zenon DEF Hit, At, mgr, history
<1>2. PICK k \in Call : Turns(c, k) /\ k.pc = "idle" /\ k.op = "none" /\ k.obj = cache /\ k.snap = None
  <2>1. cl' = [cl EXCEPT ![c] = Holding(cache)] /\ cache \in Obj \cup {None}
    BY Typed, Zenon DEF Hit
  <2>2. /\ Holding(cache) \in Call /\ Turns(c, Holding(cache)) /\ Holding(cache).pc = "idle"
        /\ Holding(cache).op = "none" /\ Holding(cache).obj = cache /\ Holding(cache).snap = None
    BY <2>1, Returns, Zenon
  <2> QED
    BY <2>2, Zenon
<1>3. ready # c /\ k.pc \notin Owning
  BY <1>1, <1>2, OffWork, Zenon DEF Owning
<1>4. Fits(k) /\ Made(k.obj) /\ MadeGen(k.snap)
  BY <1>2, Zenon DEF Fits, Made, MadeGen, Sound, Numbered
<1> QED
  BY <1>1, <1>2, <1>3, <1>4, QuietStep, Zenon

\* Taking ready.
LEMMA EnterStep == ASSUME Sound, NEW c \in Client, Enter(c) PROVE Preserves
<1> DEFINE pc == IF Lookup(c) THEN "read" ELSE IF cl[c].op = "delete" THEN "look" ELSE "marshal"
<1>1. /\ cl[c].pc = "enter" /\ ready = None /\ ready' = c /\ Goto(c, pc)
      /\ (cl[c].op \in {"get", "getOrCreate"} => cache = None)
      /\ UNCHANGED <<meta, objs, closed, cache, upds, acked, env>>
  BY Zenon DEF Enter, At, Lookup, history
<1>2. pc \in {"read", "look", "marshal"}
  BY Zenon
<1>3. PICK k \in Call : /\ Turns(c, k) /\ k.pc = pc /\ k.op = cl[c].op
                        /\ k.obj = cl[c].obj /\ k.snap = cl[c].snap /\ k.upd = cl[c].upd
  BY <1>1, <1>2, Goes
<1>4. CallOK(c) /\ Fits(cl[c]) /\ cl[c] \in Call
  BY <1>1, OffWork, Zenon DEF Owning
<1>5. cl[c].op \in {"get", "getOrCreate", "create", "update", "delete"}
  BY <1>1, <1>4, ManagerAssumption, Zenon DEF Fits, Call
<1>6. Fits(k)
  BY <1>1, <1>3, <1>4, <1>5, Zenon DEF Fits, Lookup
<1>7. Made(k.obj) /\ MadeGen(k.snap) /\ k.pc \in Owning
  BY <1>2, <1>3, <1>4, Zenon DEF CallOK, Made, MadeGen, Owning
<1>8. Kept /\ k.op = "update" => k.upd \in objs[k.obj].upd
  BY <1>1, <1>3, Zenon DEF Kept
<1>9. k.pc \notin {"set", "publish"}
  BY <1>2, <1>3, Zenon
<1> HIDE DEF pc
<1> QED
  BY <1>1, <1>3, <1>6, <1>7, <1>8, <1>9, QuietStep, Zenon

\* Giving ready back with an error.
LEMMA FailStep == ASSUME Sound, NEW c \in Client, Fail(c) PROVE Preserves
<1>1. cl[c].pc = "fail" /\ ready' = None /\ UNCHANGED <<meta, objs, closed, cache, upds, acked, env>>
  BY Zenon DEF Fail, At, history
<1>2. PICK k \in Call : Turns(c, k) /\ k.pc = "idle" /\ k.op = "none" /\ k.obj = None /\ k.snap = None
  <2>1. cl' = [cl EXCEPT ![c] = Holding(None)] /\ None \in Obj \cup {None}
    BY Zenon DEF Fail
  <2>2. /\ Holding(None) \in Call /\ Turns(c, Holding(None)) /\ Holding(None).pc = "idle"
        /\ Holding(None).op = "none" /\ Holding(None).obj = None /\ Holding(None).snap = None
    BY <2>1, Returns, Zenon
  <2> QED
    BY <2>2, Zenon
<1>3. ready = c /\ c # None /\ k.pc \notin Owning
  BY <1>1, <1>2, AtWork, Zenon DEF Owning
<1>4. Fits(k) /\ Made(k.obj) /\ MadeGen(k.snap)
  BY <1>2, Zenon DEF Fits, Made, MadeGen
<1> QED
  BY <1>1, <1>2, <1>3, <1>4, QuietStep, Zenon

\* A Get that finds no metadata.
LEMMA NotFoundStep == ASSUME Sound, NEW c \in Client, ReadNotFound(c) PROVE Preserves
<1>1. cl[c].pc = "read" /\ UNCHANGED <<meta, objs, closed, cache, ready, upds, acked, env>>
  BY Zenon DEF ReadNotFound, At, mgr, history
<1>2. PICK k \in Call : /\ Turns(c, k) /\ k.pc = "fail" /\ k.op = cl[c].op
                        /\ k.obj = cl[c].obj /\ k.snap = cl[c].snap /\ k.upd = cl[c].upd
  BY Goes, Zenon DEF ReadNotFound
<1>3. CallOK(c) /\ ready = c /\ cl[c].pc \in Owning /\ k.pc \in Owning
  BY <1>1, <1>2, AtWork, Zenon DEF Owning
<1>4. Fits(k)
  BY <1>1, <1>2, <1>3, Zenon DEF Fits, CallOK
<1>5. Made(k.obj) /\ MadeGen(k.snap) /\ (k.op \in {"get", "getOrCreate"} => cache = None)
  BY <1>2, <1>3, Zenon DEF CallOK, Made, MadeGen, Lookup
<1> QED
  BY <1>1, <1>2, <1>3, <1>4, <1>5, QuietStep, Zenon

\* Delete finds what to delete.
LEMMA LooksStep == ASSUME Sound, NEW c \in Client, DeleteLooks(c) PROVE Preserves
<1> DEFINE pc == IF cache # None THEN "close" ELSE IF meta = None THEN "drop" ELSE "remove"
           k == [cl[c] EXCEPT !.obj = cache, !.pc = pc]
<1>1. cl[c].pc = "look" /\ UNCHANGED <<meta, objs, closed, cache, ready, upds, acked, env>>
  BY Zenon DEF DeleteLooks, At, mgr, history
<1>2. CallOK(c) /\ Fits(cl[c]) /\ cl[c] \in Call /\ ready = c
  BY <1>1, AtWork, Zenon DEF Owning
<1>3. pc \in {"close", "drop", "remove"} /\ (pc = "close" => cache # None) /\ cache \in Obj \cup {None}
  BY Typed, Zenon
<1> HIDE DEF pc
<1>4. k \in Call /\ k.pc = pc /\ k.op = cl[c].op /\ k.obj = cache /\ k.snap = cl[c].snap
  BY <1>2, <1>3, Zenon DEF Call
<1>5. Turns(c, k)
  <2>1. cl' = [cl EXCEPT ![c] = k]
    BY Typed, Zenon DEF DeleteLooks, pc
  <2> QED
    BY <1>4, <2>1, OneCall, Typed, Zenon
<1> HIDE DEF k
<1>6. Fits(k)
  BY <1>1, <1>2, <1>3, <1>4, Zenon DEF Fits
<1>7. Made(k.obj) /\ MadeGen(k.snap) /\ k.op = "delete"
  BY <1>1, <1>2, <1>4, Zenon DEF Made, MadeGen, Sound, Numbered, CallOK, Fits
<1>8. k.pc \in Owning /\ k.pc \notin {"set", "publish", "enter", "marshal"}
  BY <1>3, <1>4, Zenon DEF Owning
<1> QED
  BY <1>1, <1>2, <1>5, <1>6, <1>7, <1>8, QuietStep, Zenon

\* Store marshals its object.
LEMMA MarshalStep == ASSUME Sound, NEW c \in Client, Marshal(c) PROVE Preserves
<1> DEFINE m == objs[cl[c].obj]
           new == [cl[c] EXCEPT !.pc = "set", !.snap = m]
<1>1. cl[c].pc = "marshal" /\ UNCHANGED <<meta, objs, closed, cache, ready, upds, acked, env>>
  BY Zenon DEF Marshal, At, mgr, history
<1>2. CallOK(c) /\ Fits(cl[c]) /\ cl[c] \in Call /\ ready = c /\ cl[c].pc \in Owning
  BY <1>1, AtWork, Zenon DEF Owning
<1>3. cl[c].obj # None /\ cl[c].op \in {"create", "update"}
  BY <1>1, <1>2, Zenon DEF Fits
<1>4. cl[c].obj \in DOMAIN objs /\ m \in Content /\ m # None /\ m.gen <= Len(objs)
  BY <1>3, ObjectOf, ContentIsNotNone, Zenon DEF Sound, Numbered
<1> HIDE DEF m
<1>5. /\ new \in Call /\ new.pc = "set" /\ new.snap = m /\ new.op = cl[c].op
      /\ new.obj = cl[c].obj /\ new.upd = cl[c].upd
  BY <1>2, <1>4, CallSnap, Zenon
<1>6. PICK k \in Call : /\ Turns(c, k) /\ k.pc = "set" /\ k.snap = m /\ k.op = cl[c].op
                        /\ k.obj = cl[c].obj /\ k.upd = cl[c].upd
  <2>1. cl' = [cl EXCEPT ![c] = new]
    BY Typed, Zenon DEF Marshal, m
  <2> HIDE DEF new
  <2>2. Turns(c, new)
    BY <1>5, <2>1, OneCall, Typed, Zenon
  <2> QED
    BY <1>5, <2>2, Zenon
<1> HIDE DEF new
<1>7. Grown /\ Numbered'
  BY <1>1, SameGrown, SameNumbers, Typed, Zenon
<1>8. UNCHANGED cluster /\ watch' = watch /\ fails' \in 0 .. MaxFaults
  BY <1>1, Typed, Zenon DEF env, cluster
<1>9. /\ Fits(k) /\ (k.obj # None => k.obj <= Len(objs')) /\ (k.snap # None => k.snap.gen <= Len(objs'))
      /\ k.pc \in Owning /\ k.op \notin {"get", "getOrCreate"}
  <2>1. Fits(k)
    BY <1>1, <1>2, <1>3, <1>4, <1>6, Zenon DEF Fits
  <2>2. k.pc \in Owning /\ k.op \notin {"get", "getOrCreate"}
    BY <1>3, <1>6, Zenon DEF Owning
  <2> QED
    BY <1>1, <1>2, <1>4, <1>6, <2>1, <2>2, Zenon DEF CallOK, Made
<1>10. Sound'
  BY <1>1, <1>2, <1>6, <1>7, <1>8, <1>9, ClientSound, Typed, Zenon
<1>11. Describes(k.snap, k.obj)'
  BY <1>1, <1>4, <1>6, Zenon DEF Describes, m
<1>12. Coherent => Coherent'
  BY <1>1, <1>6, <1>7, <1>11, CoherentFrame, Zenon
<1>13. Open => Open'
  BY <1>1, <1>6, <1>8, <1>9, OpenFrame, Zenon
<1>14. ASSUME Kept PROVE Kept'
  <2>1. HasAcked(k.snap)'
    BY <1>1, <1>4, <1>6, <1>14, Zenon DEF Kept, HasAcked, m
  <2>2. k.op = "update" => k.upd \in k.snap.upd
    BY <1>1, <1>6, <1>14, Zenon DEF Kept, m
  <2>3. (\A o \in 1 .. Len(objs') : HasAcked(objs[o])') /\ (meta' # None => HasAcked(meta)')
    BY <1>1, <1>14, SameAcked, Zenon
  <2> QED
    BY <1>1, <1>6, <1>7, <1>11, <1>14, <2>1, <2>2, <2>3, KeptFrame, Zenon
<1> QED
  BY <1>7, <1>10, <1>12, <1>13, <1>14, Zenon DEF Preserves

\* The metadata is set.
LEMMA SetStep == ASSUME Sound, NEW c \in Client, Set(c) PROVE Preserves
<1>1. cl[c].pc = "set" /\ meta' = cl[c].snap /\ UNCHANGED <<objs, closed, cache, ready, upds, acked, env>>
  BY Zenon DEF Set, At
<1>2. PICK k \in Call : /\ Turns(c, k) /\ k.pc = "publish" /\ k.op = cl[c].op
                        /\ k.obj = cl[c].obj /\ k.snap = cl[c].snap /\ k.upd = cl[c].upd
  BY Goes, Zenon DEF Set
<1>3. CallOK(c) /\ Fits(cl[c]) /\ cl[c] \in Call /\ ready = c /\ cl[c].pc \in Owning /\ k.pc \in Owning
  BY <1>1, <1>2, AtWork, Zenon DEF Owning
<1>4. Fits(k)
  BY <1>1, <1>2, <1>3, Zenon DEF Fits
<1>5. /\ (k.obj # None => k.obj <= Len(objs')) /\ (k.snap # None => k.snap.gen <= Len(objs'))
      /\ (k.op \in {"get", "getOrCreate"} => cache = None)
  BY <1>1, <1>2, <1>3, Zenon DEF CallOK, Made, MadeGen, Lookup
<1>6. Grown /\ Numbered' /\ meta' \in Content \cup {None}
  <2>1. MadeGen(meta)'
    BY <1>1, <1>2, <1>5, Zenon DEF MadeGen
  <2>2. meta' \in Content \cup {None}
    BY <1>1, <1>3, Zenon DEF Call
  <2> QED
    BY <1>1, <2>1, <2>2, SameGrown, SameNumbers, Typed, Zenon
<1>7. UNCHANGED cluster /\ watch' = watch /\ fails' \in 0 .. MaxFaults
  BY <1>1, Typed, Zenon DEF env, cluster
<1>8. Sound'
  BY <1>1, <1>2, <1>3, <1>4, <1>5, <1>6, <1>7, ClientSound, Typed, Zenon
<1>9. ASSUME Coherent PROVE Coherent'
  <2>1. Describes(cl[c].snap, cl[c].obj)
    BY <1>1, <1>9, Zenon DEF Coherent
  <2>2. Describes(meta, k.obj)'
    BY <1>1, <1>2, <2>1, Zenon DEF Describes
  <2> QED
    BY <1>2, <1>3, <1>6, <1>9, <2>2, CoherentFrame, Zenon
<1>10. ASSUME Open PROVE Open'
  <2>1. k.op \in {"get", "getOrCreate"} =>
          k.obj \notin closed /\ (watch.pc = "close" => watch.obj # k.obj)
    BY <1>1, <1>2, <1>10, Zenon DEF Open, Lookup
  <2> QED
    BY <1>1, <1>2, <1>7, <1>10, <2>1, OpenFrame, Zenon
<1>11. ASSUME Kept PROVE Kept'
  <2>1. HasAcked(meta)'
    BY <1>1, <1>11, Zenon DEF Kept, HasAcked
  <2>2. \A o \in 1 .. Len(objs') : HasAcked(objs[o])'
    BY <1>1, <1>11, SameAcked, Zenon
  <2>3. k.op \notin {"get", "getOrCreate"} =>
          /\ Describes(cl[c].snap, cl[c].obj)
          /\ cl[c].op = "update" => cl[c].upd \in cl[c].snap.upd
    BY <1>1, <1>2, <1>11, Zenon DEF Kept, Lookup
  <2>4. k.op \notin {"get", "getOrCreate"} =>
          /\ Describes(k.snap, k.obj)' /\ meta' = k.snap
          /\ k.op = "update" => k.upd \in k.snap.upd
    BY <1>1, <1>2, <2>3, Zenon DEF Describes
  <2> QED
    BY <1>1, <1>2, <1>3, <1>6, <1>11, <2>1, <2>2, <2>4, KeptFrame, Zenon
<1> QED
  BY <1>6, <1>8, <1>9, <1>10, <1>11, Zenon DEF Preserves

\* A new object is neither closed nor dropped.
LEMMA NewIsOpen ==
    ASSUME Sound, NEW n, n = Len(objs) + 1
    PROVE  n \notin closed /\ (watch.pc = "close" => watch.obj # n)
<1>1. Len(objs) \in Nat
  BY Typed
<1>2. \A o \in closed : o <= Len(objs)
  BY Zenon DEF Sound, Numbered
<1>3. watch.pc = "close" => watch.obj <= Len(objs)
  BY Zenon DEF Sound, ClusterOK, Made
<1>4. ~(n <= Len(objs))
  BY <1>1
<1> QED
  BY <1>2, <1>3, <1>4, Zenon

\* getIndex makes an object of the metadata.
LEMMA FoundStep == ASSUME Sound, NEW c \in Client, ReadFound(c) PROVE Preserves
<1> DEFINE n == Len(objs) + 1
           new == [cl[c] EXCEPT !.pc = "publish", !.obj = n]
<1>1. /\ cl[c].pc = "read" /\ meta # None /\ objs' = Append(objs, meta) /\ Len(objs) < MaxObj
      /\ UNCHANGED <<meta, closed, cache, ready, upds, acked, env>>
  BY Zenon DEF ReadFound, At, history
<1>2. CallOK(c) /\ Fits(cl[c]) /\ cl[c] \in Call /\ ready = c /\ cl[c].pc \in Owning
  BY <1>1, AtWork, Zenon DEF Owning
<1>3. meta \in Content /\ meta.gen <= Len(objs)
  BY <1>1, Typed, Zenon DEF Sound, Numbered, MadeGen
<1>4. cl[c].op \in {"get", "getOrCreate"} /\ cache = None
  BY <1>1, <1>2, Zenon DEF Fits, CallOK, Lookup
<1>5. Grown /\ Len(objs') = n /\ objs'[n] = meta /\ n \in Obj
  BY <1>1, <1>3, AppendGrows, Typed, Zenon
<1>6. n # None /\ n <= Len(objs') /\ meta.gen <= n
  <2>1. meta.gen \in 0 .. MaxObj
    BY <1>3, Zenon DEF Content
  <2> QED
    BY <1>3, <1>5, <2>1, ManagerAssumption DEF Obj
<1>7. Numbered'
  BY <1>1, <1>3, <1>6, AppendNumbers, Zenon
<1>8. n \notin closed /\ (watch.pc = "close" => watch.obj # n)
  BY NewIsOpen, Zenon
<1> HIDE DEF n
<1>9. new \in Call /\ new.pc = "publish" /\ new.op = cl[c].op /\ new.obj = n /\ new.snap = cl[c].snap
  BY <1>2, <1>5, Zenon DEF Call
<1>10. PICK k \in Call : /\ Turns(c, k) /\ k.pc = "publish" /\ k.op = cl[c].op /\ k.obj = n
                         /\ k.snap = cl[c].snap
  <2>1. cl' = [cl EXCEPT ![c] = new]
    BY Typed, Zenon DEF ReadFound, n
  <2> HIDE DEF new
  <2>2. Turns(c, new)
    BY <1>9, <2>1, OneCall, Typed, Zenon
  <2> QED
    BY <1>9, <2>2, Zenon
<1> HIDE DEF new
<1>11. Fits(k) /\ k.pc \in Owning
  BY <1>4, <1>6, <1>10, Zenon DEF Fits, Owning
<1>12. k.snap # None => k.snap.gen <= Len(objs')
  <2>1. MadeGen(cl[c].snap) /\ cl[c].snap \in Content \cup {None}
    BY <1>2, Zenon DEF CallOK, Call
  <2> QED
    BY <1>5, <1>10, <2>1, MadeStable, Zenon
<1>13. UNCHANGED cluster /\ watch' = watch /\ fails' \in 0 .. MaxFaults
  BY <1>1, Typed, Zenon DEF env, cluster
<1>14. Sound'
  BY <1>1, <1>2, <1>4, <1>5, <1>6, <1>7, <1>10, <1>11, <1>12, <1>13, ClientSound, Typed, Zenon
<1>15. Describes(meta, k.obj)'
  BY <1>1, <1>5, <1>10, Zenon DEF Describes
<1>16. Coherent => Coherent'
  BY <1>1, <1>5, <1>10, <1>15, CoherentFrame, Zenon
<1>17. Open => Open'
  BY <1>1, <1>8, <1>10, <1>13, OpenFrame, Zenon
<1>18. ASSUME Kept PROVE Kept'
  <2>1. HasAcked(meta) /\ HasAcked(meta)'
    BY <1>1, <1>18, Zenon DEF Kept, HasAcked
  <2>2. \A o \in 1 .. Len(objs') : HasAcked(objs[o])'
    BY <1>1, <1>3, <1>18, <2>1, AppendAcked, Zenon
  <2> QED
    BY <1>1, <1>4, <1>5, <1>10, <1>18, <2>1, <2>2, KeptFrame, Zenon
<1> QED
  BY <1>5, <1>14, <1>16, <1>17, <1>18, Zenon DEF Preserves

\* getOrCreateIndex makes a new index.
LEMMA CreatesStep == ASSUME Sound, NEW c \in Client, ReadCreates(c) PROVE Preserves
<1> DEFINE n == Len(objs) + 1
           m == [gen |-> n, upd |-> {}]
           new == [cl[c] EXCEPT !.pc = "set", !.obj = n, !.snap = m]
<1>1. /\ cl[c].pc = "read" /\ cl[c].op = "getOrCreate" /\ objs' = Append(objs, m) /\ Len(objs) < MaxObj
      /\ UNCHANGED <<meta, closed, cache, ready, upds, acked, env>>
  BY Zenon DEF ReadCreates, At, history
<1>2. CallOK(c) /\ Fits(cl[c]) /\ cl[c] \in Call /\ ready = c /\ cl[c].pc \in Owning
  BY <1>1, AtWork, Zenon DEF Owning
<1>3. cache = None
  BY <1>1, <1>2, Zenon DEF CallOK, Lookup
<1>4. m \in Content /\ HasAcked(m) /\ m.gen = n /\ m # None
  BY <1>1, NewContent, ContentIsNotNone, Zenon
<1>5. cl' = [cl EXCEPT ![c] = new]
  BY Typed, Zenon DEF ReadCreates
<1> HIDE DEF m
<1>6. Grown /\ Len(objs') = n /\ objs'[n] = m /\ n \in Obj
  BY <1>1, <1>4, AppendGrows, Typed, Zenon
<1>7. n # None /\ n <= Len(objs') /\ m.gen <= n
  BY <1>4, <1>6, ManagerAssumption DEF Obj
<1>8. Numbered'
  BY <1>1, <1>4, <1>7, AppendNumbers, Zenon
<1>9. n \notin closed /\ (watch.pc = "close" => watch.obj # n)
  BY NewIsOpen, Zenon
<1> HIDE DEF n
<1>10. new \in Call /\ new.pc = "set" /\ new.op = cl[c].op /\ new.obj = n /\ new.snap = m
  BY <1>2, <1>4, <1>6, Zenon DEF Call
<1> HIDE DEF new
<1>11. PICK k \in Call : Turns(c, k) /\ k.pc = "set" /\ k.op = cl[c].op /\ k.obj = n /\ k.snap = m
  <2>1. Turns(c, new)
    BY <1>5, <1>10, OneCall, Typed, Zenon
  <2> QED
    BY <1>10, <2>1, Zenon
<1>12. Fits(k) /\ k.pc \in Owning
  BY <1>1, <1>4, <1>7, <1>11, Zenon DEF Fits, Owning
<1>13. UNCHANGED cluster /\ watch' = watch /\ fails' \in 0 .. MaxFaults
  BY <1>1, Typed, Zenon DEF env, cluster
<1>14. Sound'
  BY <1>1, <1>2, <1>3, <1>4, <1>6, <1>7, <1>8, <1>11, <1>12, <1>13, ClientSound, Typed, Zenon
<1>15. Describes(k.snap, k.obj)'
  BY <1>4, <1>6, <1>11, Zenon DEF Describes
<1>16. Coherent => Coherent'
  BY <1>1, <1>3, <1>6, <1>11, <1>15, CoherentFrame, Zenon
<1>17. Open => Open'
  BY <1>1, <1>9, <1>11, <1>13, OpenFrame, Zenon
<1>18. ASSUME Kept PROVE Kept'
  <2>1. (meta' # None => HasAcked(meta)') /\ HasAcked(k.snap)'
    BY <1>1, <1>4, <1>11, <1>18, Zenon DEF Kept, HasAcked
  <2>2. \A o \in 1 .. Len(objs') : HasAcked(objs[o])'
    BY <1>1, <1>4, <1>18, AppendAcked, Zenon
  <2> QED
    BY <1>1, <1>6, <1>11, <1>18, <2>1, <2>2, KeptFrame, Zenon
<1> QED
  BY <1>6, <1>14, <1>16, <1>17, <1>18, Zenon DEF Preserves

\* The loaded index goes into the cache.
LEMMA LoadedStep == ASSUME Sound, NEW c \in Client, PublishLoaded(c) PROVE Preserves
<1>1. /\ cl[c].pc = "publish" /\ cl[c].op \in {"get", "getOrCreate"} /\ ready' = None /\ cache' = cl[c].obj
      /\ UNCHANGED <<meta, objs, closed, upds, acked, env>>
  BY Zenon DEF PublishLoaded, At, Lookup, history
<1>2. CallOK(c) /\ Fits(cl[c]) /\ cl[c] \in Call /\ ready = c /\ c # None /\ cl[c].pc \in Owning
  BY <1>1, AtWork, Zenon DEF Owning
<1>3. cl[c].obj # None /\ cl[c].obj \in Obj
  BY <1>1, <1>2, ObjectOf, Zenon DEF Fits
<1>4. PICK k \in Call : Turns(c, k) /\ k.pc = "idle" /\ k.op = "none" /\ k.obj = cl[c].obj /\ k.snap = None
  <2> DEFINE o == cl[c].obj
  <2>1. cl' = [cl EXCEPT ![c] = Holding(o)] /\ o \in Obj \cup {None}
    BY <1>3, Zenon DEF PublishLoaded
  <2> HIDE DEF o
  <2>2. /\ Holding(o) \in Call /\ Turns(c, Holding(o)) /\ Holding(o).pc = "idle"
        /\ Holding(o).op = "none" /\ Holding(o).obj = o /\ Holding(o).snap = None
    BY <2>1, Returns, Zenon
  <2> QED
    BY <2>2, Zenon DEF o
<1>5. Fits(k) /\ k.pc \notin Owning /\ (k.obj # None => k.obj <= Len(objs'))
  BY <1>1, <1>2, <1>4, Zenon DEF Fits, Owning, CallOK, Made
<1>6. Grown /\ Numbered'
  <2>1. Made(cache)'
    BY <1>1, <1>4, <1>5, Zenon DEF Made
  <2> QED
    BY <1>1, <2>1, SameGrown, SameNumbers, Typed, Zenon
<1>7. UNCHANGED cluster /\ watch' = watch /\ fails' \in 0 .. MaxFaults
  BY <1>1, Typed, Zenon DEF env, cluster
<1>8. Sound'
  <2>1. cache' \in Obj \cup {None}
    BY <1>1, <1>3, Zenon
  <2> QED
    BY <1>1, <1>2, <1>4, <1>5, <1>6, <1>7, <2>1, ClientSound, Typed, Zenon
<1>9. ASSUME Coherent PROVE Coherent'
  <2>1. Describes(meta, cl[c].obj)
    BY <1>1, <1>9, Zenon DEF Coherent
  <2>2. Describes(meta, cache)'
    BY <1>1, <2>1, Zenon DEF Describes
  <2> QED
    BY <1>1, <1>4, <1>6, <1>9, <2>2, CoherentFrame, Zenon
<1>10. ASSUME Open PROVE Open'
  <2>1. cl[c].obj \notin closed /\ (watch.pc = "close" => watch.obj # cl[c].obj)
    BY <1>1, <1>10, Zenon DEF Open, Lookup
  <2> QED
    BY <1>1, <1>4, <1>7, <1>10, <2>1, OpenFrame, Zenon
<1>11. ASSUME Kept PROVE Kept'
  BY <1>1, <1>4, <1>6, <1>11, SameAcked, KeptFrame, Zenon
<1> QED
  BY <1>6, <1>8, <1>9, <1>10, <1>11, Zenon DEF Preserves

\* The update of a Store that returns is in the metadata and the objects.
LEMMA StoredAcked ==
    ASSUME Sound, Kept, Distinct, NEW c \in Client, PublishStored(c)
    PROVE  /\ \A o \in 1 .. Len(objs') : HasAcked(objs[o])'
           /\ meta' # None => HasAcked(meta)'
<1>1. cl[c].pc = "publish" /\ ~Lookup(c) /\ UNCHANGED <<meta, objs>>
  BY Zenon DEF PublishStored, At
<1>2. CASE cl[c].op # "update"
  <2>1. acked' = acked
    BY <1>2, Zenon DEF PublishStored
  <2> QED
    BY <1>1, <2>1, SameAcked, Zenon
<1>3. CASE cl[c].op = "update"
  <2> DEFINE a == <<cl[c].snap.gen, cl[c].upd>>
  <2>1. acked' = acked \cup {a}
    BY <1>3, Zenon DEF PublishStored
  <2>2. a[1] = cl[c].snap.gen /\ a[2] = cl[c].upd
    OBVIOUS
  <2> HIDE DEF a
  <2>3. /\ Describes(cl[c].snap, cl[c].obj) /\ meta = cl[c].snap
        /\ cl[c].upd \in cl[c].snap.upd
    BY <1>1, <1>3, Zenon DEF Kept
  <2>4. cl[c].obj \in DOMAIN objs /\ DOMAIN objs = 1 .. Len(objs)
    <3>1. cl[c].pc \in Owning
      BY <1>1, Zenon DEF Owning
    <3>2. cl[c].obj # None
      BY <1>1, <3>1, AtWork, Zenon DEF Fits
    <3>3. DOMAIN objs = 1 .. Len(objs)
      BY Typed
    <3> QED
      BY <3>2, <3>3, ObjectOf, Zenon
  <2>5. ASSUME NEW o \in DOMAIN objs, a[1] = objs[o].gen PROVE a[2] \in objs[o].upd
    <3>1. o = cl[c].obj
      BY <2>2, <2>3, <2>4, <2>5, Zenon DEF Distinct, Describes
    <3> QED
      BY <2>2, <2>3, <3>1, Zenon DEF Describes
  <2>6. a[1] = meta.gen => a[2] \in meta.upd
    BY <2>2, <2>3, Zenon
  <2>7. ASSUME NEW o \in 1 .. Len(objs') PROVE HasAcked(objs[o])'
    <3>1. o \in DOMAIN objs
      BY <1>1, <2>4, <2>7, Zenon
    <3>2. HasAcked(objs[o])
      BY <3>1, Zenon DEF Kept
    <3> QED
      BY <1>1, <2>1, <2>5, <3>1, <3>2, Zenon DEF HasAcked
  <2>8. meta' # None => HasAcked(meta)'
    BY <1>1, <2>1, <2>6, Zenon DEF Kept, HasAcked
  <2> QED
    BY <2>7, <2>8, Zenon
<1> QED
  BY <1>2, <1>3, Zenon

\* The updates of Stores that returned are of generations that were made.
LEMMA StoredTyped ==
    ASSUME Sound, NEW c \in Client, PublishStored(c)
    PROVE  /\ acked' \subseteq (0 .. MaxObj) \X (1 .. MaxUpd)
           /\ \A a \in acked' : a[1] <= Len(objs)
<1>1. cl[c].pc = "publish" /\ cl[c].op \notin {"get", "getOrCreate"}
  BY Zenon DEF PublishStored, At, Lookup
<1>2. CallOK(c) /\ Fits(cl[c]) /\ cl[c] \in Call
  BY <1>1, AtWork, Zenon DEF Owning
<1>3. cl[c].snap \in Content /\ cl[c].snap.gen <= Len(objs) /\ cl[c].upd \in 0 .. MaxUpd
  BY <1>1, <1>2, Zenon DEF Fits, CallOK, MadeGen, Call
<1>4. cl[c].snap.gen \in 0 .. MaxObj
  BY <1>3, Zenon DEF Content
<1>5. /\ acked \subseteq (0 .. MaxObj) \X (1 .. MaxUpd)
      /\ \A a \in acked : a[1] <= Len(objs)
  BY Typed, Zenon DEF Sound, Numbered
<1>6. CASE cl[c].op # "update"
  <2>1. acked' = acked
    BY <1>6, Zenon DEF PublishStored
  <2> QED
    BY <1>5, <2>1, Zenon
<1>7. CASE cl[c].op = "update"
  <2> DEFINE a == <<cl[c].snap.gen, cl[c].upd>>
  <2>1. acked' = acked \cup {a}
    BY <1>7, Zenon DEF PublishStored
  <2>2. cl[c].upd # 0
    BY <1>1, <1>2, <1>7, Zenon DEF Fits
  <2>3. cl[c].upd \in 1 .. MaxUpd
    BY <1>3, <2>2, ManagerAssumption
  <2>4. a \in (0 .. MaxObj) \X (1 .. MaxUpd) /\ a[1] = cl[c].snap.gen
    BY <1>4, <2>3
  <2> HIDE DEF a
  <2> QED
    BY <1>3, <1>5, <2>1, <2>4, Zenon
<1> QED
  BY <1>6, <1>7, Zenon

\* After a Store, a cached object other than the stored one is gone.
LEMMA StoredStep == ASSUME Sound, NEW c \in Client, PublishStored(c) PROVE Preserves
<1>1. /\ cl[c].pc = "publish" /\ ready' = None
      /\ (cache' = None \/ (cache' = cache /\ cache = cl[c].obj))
      /\ UNCHANGED <<meta, objs, closed, upds, env>>
  <2>1. cache' = None \/ (cache' = cache /\ cache = cl[c].obj)
    <3>1. cache' = IF cache = cl[c].obj THEN cache ELSE None
      BY Zenon DEF PublishStored
    <3> QED
      BY <3>1
  <2> QED
    BY <2>1, Zenon DEF PublishStored, At
<1>2. CallOK(c) /\ Fits(cl[c]) /\ cl[c] \in Call /\ ready = c /\ c # None /\ cl[c].pc \in Owning
  BY <1>1, AtWork, Zenon DEF Owning
<1>3. cl[c].obj # None /\ cl[c].obj \in Obj
  BY <1>1, <1>2, ObjectOf, Zenon DEF Fits
<1>4. PICK k \in Call : Turns(c, k) /\ k.pc = "idle" /\ k.op = "none" /\ k.obj = cl[c].obj /\ k.snap = None
  <2> DEFINE o == cl[c].obj
  <2>1. cl' = [cl EXCEPT ![c] = Holding(o)] /\ o \in Obj \cup {None}
    BY <1>3, Zenon DEF PublishStored
  <2> HIDE DEF o
  <2>2. /\ Holding(o) \in Call /\ Turns(c, Holding(o)) /\ Holding(o).pc = "idle"
        /\ Holding(o).op = "none" /\ Holding(o).obj = o /\ Holding(o).snap = None
    BY <2>1, Returns, Zenon
  <2> QED
    BY <2>2, Zenon DEF o
<1>5. Fits(k) /\ k.pc \notin Owning /\ (k.obj # None => k.obj <= Len(objs'))
  BY <1>1, <1>2, <1>4, Zenon DEF Fits, Owning, CallOK, Made
<1>6. acked' \subseteq (0 .. MaxObj) \X (1 .. MaxUpd) /\ \A a \in acked' : a[1] <= Len(objs')
  BY <1>1, StoredTyped, Zenon
<1>7. Grown /\ Numbered'
  <2>1. cache' = cache \/ Made(cache)'
    BY <1>1, Zenon DEF Made
  <2> QED
    BY <1>1, <1>6, <2>1, SameGrown, SameNumbers, Typed, Zenon
<1>8. UNCHANGED cluster /\ watch' = watch /\ fails' \in 0 .. MaxFaults
  BY <1>1, Typed, Zenon DEF env, cluster
<1>9. Sound'
  <2>1. cache' \in Obj \cup {None}
    BY <1>1, Typed, Zenon
  <2> QED
    BY <1>1, <1>2, <1>4, <1>5, <1>6, <1>7, <1>8, <2>1, ClientSound, Typed, Zenon
<1>10. ASSUME Coherent PROVE Coherent'
  <2>1. Describes(meta, cl[c].obj)
    BY <1>1, <1>10, Zenon DEF Coherent
  <2>2. cache' # None => Describes(meta, cache)'
    BY <1>1, <2>1, Zenon DEF Describes
  <2> QED
    BY <1>1, <1>4, <1>7, <1>10, <2>2, CoherentFrame, Zenon
<1>11. ASSUME Open PROVE Open'
  BY <1>1, <1>4, <1>8, <1>11, OpenFrame, Zenon
<1>12. ASSUME Distinct, Kept PROVE Kept'
  BY <1>1, <1>2, <1>4, <1>7, <1>12, StoredAcked, KeptFrame, Zenon
<1> QED
  BY <1>7, <1>9, <1>10, <1>11, <1>12, Zenon DEF Preserves

\* Delete closes the cached index.
LEMMA ClosesStep == ASSUME Sound, NEW c \in Client, DeleteCloses(c) PROVE Preserves
<1>1. /\ cl[c].pc = "close" /\ closed' = closed \cup {cl[c].obj}
      /\ UNCHANGED <<meta, objs, cache, ready, upds, acked, env>>
  BY Zenon DEF DeleteCloses, At, history
<1>2. PICK k \in Call : /\ Turns(c, k) /\ k.pc = "remove" /\ k.op = cl[c].op
                        /\ k.obj = cl[c].obj /\ k.snap = cl[c].snap /\ k.upd = cl[c].upd
  BY Goes, Zenon DEF DeleteCloses
<1>3. CallOK(c) /\ Fits(cl[c]) /\ ready = c /\ cl[c].pc \in Owning /\ k.pc \in Owning
  BY <1>1, <1>2, AtWork, Zenon DEF Owning
<1>4. cl[c].op = "delete" /\ cl[c].obj # None /\ cl[c].obj \in Obj
  BY <1>1, <1>3, ObjectOf, Zenon DEF Fits
<1>5. /\ Fits(k) /\ (k.obj # None => k.obj <= Len(objs')) /\ (k.snap # None => k.snap.gen <= Len(objs'))
      /\ k.op \notin {"get", "getOrCreate"}
  BY <1>1, <1>2, <1>3, <1>4, Zenon DEF Fits, CallOK, Made, MadeGen
<1>6. Grown /\ Numbered' /\ closed' \subseteq Obj
  <2>1. \A o \in closed' : o <= Len(objs')
    BY <1>1, <1>2, <1>4, <1>5, Zenon DEF Sound, Numbered
  <2>2. closed' \subseteq Obj
    BY <1>1, <1>4, Typed, Zenon
  <2> QED
    BY <1>1, <2>1, <2>2, SameGrown, SameNumbers, Typed, Zenon
<1>7. UNCHANGED cluster /\ watch' = watch /\ fails' \in 0 .. MaxFaults
  BY <1>1, Typed, Zenon DEF env, cluster
<1>8. Sound'
  BY <1>1, <1>2, <1>3, <1>5, <1>6, <1>7, ClientSound, Typed, Zenon
<1>9. Coherent => Coherent'
  BY <1>1, <1>2, <1>6, CoherentFrame, Zenon
<1>10. Open => Open'
  BY <1>1, <1>2, <1>3, <1>7, OpenFrame, Zenon
<1>11. Kept => Kept'
  BY <1>1, <1>2, <1>6, SameAcked, KeptFrame, Zenon
<1> QED
  BY <1>6, <1>8, <1>9, <1>10, <1>11, Zenon DEF Preserves

\* Delete removes the metadata.
LEMMA RemovesStep == ASSUME Sound, NEW c \in Client, DeleteRemoves(c) PROVE Preserves
<1>1. /\ cl[c].pc = "remove" /\ meta' = None
      /\ UNCHANGED <<objs, closed, cache, ready, upds, acked, env>>
  BY Zenon DEF DeleteRemoves, At, history
<1>2. PICK k \in Call : /\ Turns(c, k) /\ k.pc = "drop" /\ k.op = cl[c].op
                        /\ k.obj = cl[c].obj /\ k.snap = cl[c].snap /\ k.upd = cl[c].upd
  BY Goes, Zenon DEF DeleteRemoves
<1>3. CallOK(c) /\ Fits(cl[c]) /\ ready = c /\ cl[c].pc \in Owning /\ k.pc \in Owning
  BY <1>1, <1>2, AtWork, Zenon DEF Owning
<1>4. /\ Fits(k) /\ (k.obj # None => k.obj <= Len(objs')) /\ (k.snap # None => k.snap.gen <= Len(objs'))
      /\ k.op \notin {"get", "getOrCreate"}
  BY <1>1, <1>2, <1>3, Zenon DEF Fits, CallOK, Made, MadeGen
<1>5. Grown /\ Numbered'
  <2>1. MadeGen(meta)'
    BY <1>1, Zenon DEF MadeGen
  <2> QED
    BY <1>1, <2>1, SameGrown, SameNumbers, Typed, Zenon
<1>6. UNCHANGED cluster /\ watch' = watch /\ fails' \in 0 .. MaxFaults
  BY <1>1, Typed, Zenon DEF env, cluster
<1>7. Sound'
  BY <1>1, <1>2, <1>3, <1>4, <1>5, <1>6, ClientSound, Typed, Zenon
<1>8. Coherent => Coherent'
  BY <1>1, <1>2, <1>3, <1>5, CoherentFrame, Zenon
<1>9. Open => Open'
  BY <1>1, <1>2, <1>6, OpenFrame, Zenon
<1>10. Kept => Kept'
  BY <1>1, <1>2, <1>3, <1>5, SameAcked, KeptFrame, Zenon
<1> QED
  BY <1>5, <1>7, <1>8, <1>9, <1>10, Zenon DEF Preserves

\* Delete drops the cached index.
LEMMA DropsStep == ASSUME Sound, NEW c \in Client, DeleteDrops(c) PROVE Preserves
<1>1. /\ cl[c].pc = "drop" /\ ready' = None /\ cache' = None
      /\ UNCHANGED <<meta, objs, closed, upds, acked, env>>
  BY Zenon DEF DeleteDrops, At, history
<1>2. PICK k \in Call : Turns(c, k) /\ k.pc = "idle" /\ k.op = "none" /\ k.obj = None /\ k.snap = None
  <2>1. cl' = [cl EXCEPT ![c] = Holding(None)] /\ None \in Obj \cup {None}
    BY Zenon DEF DeleteDrops
  <2>2. /\ Holding(None) \in Call /\ Turns(c, Holding(None)) /\ Holding(None).pc = "idle"
        /\ Holding(None).op = "none" /\ Holding(None).obj = None /\ Holding(None).snap = None
    BY <2>1, Returns, Zenon
  <2> QED
    BY <2>2, Zenon
<1>3. ready = c /\ c # None /\ cl[c].pc \in Owning /\ k.pc \notin Owning
  BY <1>1, <1>2, AtWork, Zenon DEF Owning
<1>4. Fits(k)
  BY <1>2, Zenon DEF Fits
<1>5. Grown /\ Numbered'
  <2>1. Made(cache)'
    BY <1>1, Zenon DEF Made
  <2> QED
    BY <1>1, <2>1, SameGrown, SameNumbers, Typed, Zenon
<1>6. UNCHANGED cluster /\ watch' = watch /\ fails' \in 0 .. MaxFaults
  BY <1>1, Typed, Zenon DEF env, cluster
<1>7. Sound'
  BY <1>1, <1>2, <1>3, <1>4, <1>5, <1>6, ClientSound, Typed, Zenon
<1>8. Coherent => Coherent'
  BY <1>1, <1>2, <1>5, CoherentFrame, Zenon
<1>9. Open => Open'
  BY <1>1, <1>2, <1>6, OpenFrame, Zenon
<1>10. Kept => Kept'
  BY <1>1, <1>2, <1>5, SameAcked, KeptFrame, Zenon
<1> QED
  BY <1>5, <1>7, <1>8, <1>9, <1>10, Zenon DEF Preserves

\* A call that fails keeps what does not depend on the absence of failures.
LEMMA ErrsStep ==
    ASSUME Sound, NEW c \in Client, Errs(c)
    PROVE  Sound' /\ fails' # 0 /\ moves' = moves /\ Grown /\ (Kept => Kept')
<1>1. /\ cl[c].pc \in {"read", "set", "look", "close", "remove"} /\ moves + fails < MaxFaults
      /\ fails' = fails + 1
      /\ UNCHANGED <<objs, closed, cache, ready, upds, acked, cluster>>
  BY Zenon DEF Errs
<1>2. PICK k \in Call : /\ Turns(c, k) /\ k.pc = "fail" /\ k.op = cl[c].op
                        /\ k.obj = cl[c].obj /\ k.snap = cl[c].snap /\ k.upd = cl[c].upd
  BY Goes, Zenon DEF Errs
<1>3. CallOK(c) /\ Fits(cl[c]) /\ cl[c] \in Call /\ ready = c /\ cl[c].pc \in Owning /\ k.pc \in Owning
  BY <1>1, <1>2, AtWork, Zenon DEF Owning
<1>4. Fits(k)
  BY <1>1, <1>2, <1>3, Zenon DEF Fits
<1>5. /\ (k.obj # None => k.obj <= Len(objs')) /\ (k.snap # None => k.snap.gen <= Len(objs'))
      /\ (k.op \in {"get", "getOrCreate"} => cache = None)
  BY <1>1, <1>2, <1>3, Zenon DEF CallOK, Made, MadeGen, Lookup
<1>6. meta' = meta \/ meta' = None \/ (cl[c].pc = "set" /\ meta' = cl[c].snap)
  BY Zenon DEF Errs, At
<1>7. Grown /\ Numbered' /\ meta' \in Content \cup {None}
  <2>1. meta' = meta \/ MadeGen(meta)'
    BY <1>2, <1>5, <1>6, Zenon DEF MadeGen
  <2>2. meta' \in Content \cup {None}
    BY <1>3, <1>6, Typed, Zenon DEF Call
  <2> QED
    BY <1>1, <2>1, <2>2, SameGrown, SameNumbers, Typed, Zenon
<1>8. fails' \in 0 .. MaxFaults /\ fails' # 0 /\ moves' = moves
  <2>1. moves' = moves
    BY <1>1, Zenon DEF cluster
  <2> QED
    BY <1>1, <2>1, Typed, ManagerAssumption
<1>9. Sound'
  BY <1>1, <1>2, <1>3, <1>4, <1>5, <1>7, <1>8, ClientSound, Typed, Zenon
<1>10. ASSUME Kept PROVE Kept'
  <2>1. \A o \in 1 .. Len(objs') : HasAcked(objs[o])'
    BY <1>1, <1>10, SameAcked, Zenon
  <2>2. meta' # None => HasAcked(meta)'
    BY <1>1, <1>6, <1>10, Zenon DEF Kept, HasAcked
  <2> QED
    BY <1>1, <1>2, <1>3, <1>7, <1>10, <2>1, <2>2, KeptFrame, Zenon
<1> QED
  BY <1>7, <1>8, <1>9, <1>10, Zenon

-----------------------------------------------------------------------------
(* The cluster                                                             *)

\* The calls are in order after a step that changes none of them.
LEMMA ClusterSound ==
    ASSUME Sound, UNCHANGED <<objs, ready, cl, fails>>, cache' \in {cache, None},
           meta' \in Content \cup {None}, closed' \subseteq Obj,
           upds' \in 0 .. MaxUpd, acked' \subseteq (0 .. MaxObj) \X (1 .. MaxUpd),
           assigned' \in BOOLEAN, owner' \in Node, event' \in BOOLEAN, watch' \in Watch,
           moves' \in 0 .. MaxFaults, Numbered', ClusterOK'
    PROVE  Sound'
<1>1. TypeOK'
  <2>1. cache' \in Obj \cup {None}
    BY Typed, Zenon
  <2>2. TypeOK
    BY Zenon DEF Sound
  <2> QED
    BY <2>1, <2>2, Zenon DEF TypeOK
<1>2. ASSUME NEW c \in Client PROVE CallOK(c)'
  <2>1. CallOK(c)
    BY <1>2, Zenon DEF Sound
  <2>2. Fits(cl[c])'
    BY <2>1, Zenon DEF CallOK, Fits
  <2> QED
    BY <2>1, <2>2, Zenon DEF CallOK, Made, MadeGen, Lookup
<1> QED
  BY <1>1, <1>2, Zenon DEF Sound

\* A change of the assignment.
LEMMA AssignsStep ==
    ASSUME Sound, (\E n \in Node : UpdateAssigns(n)) \/ LoseAssigns
    PROVE  Sound' /\ moves' # 0 /\ fails' = fails /\ (Open => Open')
<1>1. /\ UNCHANGED <<meta, objs, closed, cache, ready, cl, upds, acked, watch, fails>>
      /\ moves' = moves + 1 /\ moves + fails < MaxFaults
      /\ assigned' \in BOOLEAN /\ owner' \in Node /\ event' \in BOOLEAN
  <2>1. CASE \E n \in Node : UpdateAssigns(n)
    BY <2>1, Zenon DEF UpdateAssigns, mgr, history
  <2>2. CASE LoseAssigns
    BY <2>2, Zenon DEF LoseAssigns, mgr, history, Sound, TypeOK
  <2> QED
    BY <2>1, <2>2, Zenon
<1>2. moves' \in 0 .. MaxFaults /\ moves' # 0
  BY <1>1, Typed, ManagerAssumption
<1>3. Numbered'
  BY <1>1, SameNumbers, Zenon
<1>4. ClusterOK'
  BY <1>1, <1>2, Zenon DEF Sound, ClusterOK, Made
<1>5. watch' \in Watch
  BY <1>1, Zenon DEF Sound, TypeOK
<1>6. Sound'
  BY <1>1, <1>2, <1>3, <1>4, <1>5, ClusterSound, Typed, Zenon
<1>7. Open => Open'
  BY <1>1, Zenon DEF Open, Lookup
<1> QED
  BY <1>1, <1>2, <1>6, <1>7, Zenon

\* watchIndexUpdate receives.
LEMMA ReceivesStep ==
    ASSUME Sound, WatchReceives
    PROVE  Sound' /\ moves' # 0 /\ fails' = fails /\ (Open => Open')
<1>1. /\ UNCHANGED <<meta, objs, closed, cache, ready, cl, upds, acked, assigned, owner, moves, fails>>
      /\ event /\ event' = FALSE /\ watch.pc = "idle"
  BY Zenon DEF WatchReceives, mgr, history
<1>2. TypeOK /\ watch \in Watch /\ moves # 0
  BY <1>1, Zenon DEF Sound, ClusterOK, TypeOK
<1>3. watch' \in Watch /\ watch'.pc # "close"
  <2> DEFINE pc == IF owner = "other" /\ cache # None THEN "drop" ELSE "idle"
  <2>1. pc \in {"idle", "drop"} /\ watch' = [watch EXCEPT !.pc = pc]
    BY Zenon DEF WatchReceives
  <2> HIDE DEF pc
  <2>2. watch' \in Watch
    BY <1>2, <2>1, Zenon DEF Watch
  <2>3. watch'.pc = pc
    BY <1>2, <2>1, Zenon DEF Watch
  <2> QED
    BY <2>1, <2>2, <2>3, Zenon
<1>4. Numbered'
  BY <1>1, SameNumbers, Zenon
<1>5. ClusterOK'
  BY <1>1, <1>2, <1>3, Zenon DEF ClusterOK
<1>6. Sound'
  BY <1>1, <1>2, <1>3, <1>4, <1>5, ClusterSound, Typed, Zenon DEF TypeOK
<1>7. Open => Open'
  BY <1>1, <1>3, Zenon DEF Open, Lookup
<1> QED
  BY <1>1, <1>2, <1>6, <1>7, Zenon

\* watchIndexUpdate drops the cached index.
LEMMA WatchDropsStep ==
    ASSUME Sound, WatchDrops
    PROVE  Sound' /\ moves' # 0 /\ fails' = fails /\ (Open => Open')
<1>1. /\ UNCHANGED <<meta, objs, closed, ready, cl, upds, acked, assigned, owner, event, moves, fails>>
      /\ cache' = None /\ watch.pc = "drop"
  BY Zenon DEF WatchDrops, history
<1>2. TypeOK /\ moves # 0 /\ cache \in Obj \cup {None} /\ Made(cache)
  BY <1>1, Zenon DEF Sound, ClusterOK, TypeOK, Numbered
<1>3. watch' = IF cache # None THEN [pc |-> "close", obj |-> cache] ELSE [pc |-> "idle", obj |-> None]
  BY Zenon DEF WatchDrops
<1>4. /\ watch' \in Watch
      /\ watch'.pc = "close" => watch'.obj = cache /\ cache # None
  <2>1. CASE cache # None
    <3>1. watch' = [pc |-> "close", obj |-> cache]
      BY <1>3, <2>1, Zenon
    <3>2. watch' \in Watch
      BY <1>2, <3>1, Zenon DEF Watch
    <3>3. watch'.obj = cache
      BY <3>1
    <3> QED
      BY <2>1, <3>2, <3>3, Zenon
  <2>2. CASE cache = None
    <3>1. watch' = [pc |-> "idle", obj |-> None]
      BY <1>3, <2>2, Zenon
    <3>2. watch' \in Watch
      BY <3>1, Zenon DEF Watch
    <3>3. watch'.pc = "idle"
      BY <3>1
    <3> QED
      BY <3>2, <3>3, Zenon
  <2> QED
    BY <2>1, <2>2, Zenon
<1>5. Numbered'
  <2>1. Made(cache)'
    BY <1>1, Zenon DEF Made
  <2> QED
    BY <1>1, <2>1, SameNumbers, Zenon
<1>6. ClusterOK'
  BY <1>1, <1>2, <1>4, Zenon DEF ClusterOK, Made
<1>7. Sound'
  BY <1>1, <1>2, <1>4, <1>5, <1>6, ClusterSound, Typed, Zenon DEF TypeOK
<1>8. ASSUME Open PROVE Open'
  <2>1. ASSUME NEW c \in Client, Lookup(c), cl[c].pc \in {"set", "publish"}
        PROVE  cl[c].obj \notin closed /\ cache = None
    <3>1. cl[c].pc \in Owning
      BY <2>1, Zenon DEF Owning
    <3>2. CallOK(c)
      BY <3>1, AtWork, Zenon
    <3> QED
      BY <1>8, <2>1, <3>1, <3>2, Zenon DEF Open, CallOK
  <2> QED
    BY <1>1, <1>4, <2>1, Zenon DEF Open, Lookup
<1> QED
  BY <1>1, <1>2, <1>7, <1>8, Zenon

\* watchIndexUpdate closes the index it has dropped.
LEMMA WatchClosesStep ==
    ASSUME Sound, WatchCloses
    PROVE  Sound' /\ moves' # 0 /\ fails' = fails /\ (Open => Open')
<1>1. /\ UNCHANGED <<meta, objs, cache, ready, cl, upds, acked, assigned, owner, event, moves, fails>>
      /\ closed' = closed \cup {watch.obj} /\ watch.pc = "close" /\ watch' = [pc |-> "idle", obj |-> None]
  BY Zenon DEF WatchCloses, history
<1>2. TypeOK /\ moves # 0 /\ watch \in Watch /\ watch.obj # None /\ Made(watch.obj)
  BY <1>1, Zenon DEF Sound, ClusterOK, TypeOK
<1>3. watch.obj \in Obj
  BY <1>2, Zenon DEF Watch
<1>4. watch' \in Watch /\ watch'.pc = "idle"
  <2>1. watch'.pc = "idle"
    BY <1>1
  <2>2. watch' \in Watch
    BY <1>1, Zenon DEF Watch
  <2> QED
    BY <2>1, <2>2, Zenon
<1>5. closed' \subseteq Obj /\ \A o \in closed' : o <= Len(objs')
  BY <1>1, <1>2, <1>3, Typed, Zenon DEF Sound, Numbered, Made
<1>6. Numbered'
  BY <1>1, <1>5, SameNumbers, Zenon
<1>7. ClusterOK'
  BY <1>1, <1>2, <1>4, Zenon DEF ClusterOK
<1>8. Sound'
  BY <1>1, <1>2, <1>4, <1>5, <1>6, <1>7, ClusterSound, Typed, Zenon DEF TypeOK
<1>9. Open => Open'
  BY <1>1, <1>4, Zenon DEF Open, Lookup
<1> QED
  BY <1>1, <1>2, <1>8, <1>9, Zenon

\* The node that owns the index stores an update of it or deletes it.
LEMMA RemoteStep ==
    ASSUME Sound, RemoteUpdate \/ RemoteDelete
    PROVE  Sound' /\ moves' # 0 /\ fails' = fails /\ (Open => Open')
<1>1. /\ UNCHANGED <<objs, closed, cache, ready, cl, assigned, owner, event, watch, moves, fails>>
      /\ owner = "other" /\ meta # None
  BY Zenon DEF RemoteUpdate, RemoteDelete, env, cluster
<1>2. TypeOK /\ moves # 0 /\ ClusterOK /\ meta \in Content /\ meta.gen <= Len(objs)
  <2>1. owner # "us"
    BY <1>1
  <2> QED
    BY <1>1, <2>1, Zenon DEF Sound, ClusterOK, TypeOK, Numbered, MadeGen
<1>3. /\ meta' \in Content \cup {None} /\ MadeGen(meta)' /\ upds' \in 0 .. MaxUpd
      /\ acked' \subseteq (0 .. MaxObj) \X (1 .. MaxUpd) /\ \A a \in acked' : a[1] <= Len(objs')
  <2>1. CASE RemoteDelete
    <3>1. meta' = None /\ UNCHANGED <<upds, acked>>
      BY <2>1, Zenon DEF RemoteDelete, history
    <3> QED
      BY <1>1, <3>1, Typed, Zenon DEF MadeGen, Sound, Numbered
  <2>2. CASE RemoteUpdate
    <3> DEFINE u == upds + 1
               a == <<meta.gen, u>>
    <3>1. /\ upds < MaxUpd /\ upds' = u /\ meta' = [meta EXCEPT !.upd = @ \cup {u}]
          /\ acked' = acked \cup {a}
      BY <2>2, Zenon DEF RemoteUpdate
    <3>2. u \in 1 .. MaxUpd /\ u \in 0 .. MaxUpd
      BY <3>1, Typed, ManagerAssumption
    <3> HIDE DEF u
    <3>3. meta' \in Content
      BY <1>2, <3>1, <3>2, Zenon DEF Content
    <3>4. meta'.gen = meta.gen /\ meta.gen \in 0 .. MaxObj
      BY <1>2, <3>1, Zenon DEF Content
    <3>5. a \in (0 .. MaxObj) \X (1 .. MaxUpd) /\ a[1] = meta.gen
      BY <3>2, <3>4
    <3> HIDE DEF a
    <3> QED
      BY <1>1, <1>2, <3>1, <3>2, <3>3, <3>4, <3>5, Typed, Zenon DEF MadeGen, Sound, Numbered
  <2> QED
    BY <2>1, <2>2, Zenon
<1>4. Numbered'
  BY <1>1, <1>3, SameNumbers, Zenon
<1>5. ClusterOK'
  BY <1>1, <1>2, Zenon DEF ClusterOK, Made
<1>6. Sound'
  BY <1>1, <1>2, <1>3, <1>4, <1>5, ClusterSound, Typed, Zenon DEF TypeOK
<1>7. Open => Open'
  BY <1>1, Zenon DEF Open, Lookup
<1> QED
  BY <1>1, <1>2, <1>6, <1>7, Zenon

-----------------------------------------------------------------------------
(* The invariant                                                           *)

(* The initial state satisfies the invariant.                              *)
LEMMA InitInv == Init => IInv
<1> SUFFICES ASSUME Init PROVE IInv
  BY Zenon
<1>1. Holding(None) \in Call /\ Holding(None).pc = "idle" /\ Holding(None).obj = None /\ Holding(None).snap = None
  BY HoldingType, Zenon
<1>2. TypeOK
  <2>1. meta \in Content \cup {None}
    BY ManagerAssumption DEF Init, Content
  <2>2. objs \in Seq(Content) /\ Len(objs) <= MaxObj
    BY ManagerAssumption DEF Init
  <2>3. assigned \in BOOLEAN /\ owner \in Node /\ event \in BOOLEAN
    BY Zenon DEF Init, Node
  <2>4. watch \in Watch
    BY Zenon DEF Init, Watch
  <2>5. moves \in 0 .. MaxFaults /\ fails \in 0 .. MaxFaults /\ upds \in 0 .. MaxUpd
    BY ManagerAssumption DEF Init
  <2>6. cl \in [Client -> Call]
    BY <1>1, Zenon DEF Init
  <2> QED
    BY <2>1, <2>2, <2>3, <2>4, <2>5, <2>6, Zenon DEF Init, TypeOK
<1>3. Len(objs) = 0 /\ DOMAIN objs = {}
  BY DEF Init
<1>4. ASSUME NEW c \in Client PROVE CallOK(c) /\ cl[c].pc = "idle"
  <2>1. cl[c] = Holding(None)
    BY <1>4, Zenon DEF Init
  <2>2. c # None /\ ready = None
    BY ManagerAssumption, Zenon DEF Init
  <2> QED
    BY <1>1, <2>1, <2>2, Zenon DEF CallOK, Fits, Made, MadeGen, Owning
<1>5. MadeGen(meta)
  <2>1. ASSUME meta = [gen |-> 0, upd |-> {}] PROVE meta.gen <= Len(objs)
    BY <1>3, <2>1
  <2> QED
    BY <2>1, Zenon DEF Init, MadeGen
<1>6. Numbered
  BY <1>3, <1>5, Zenon DEF Init, Numbered, Made
<1>7. ClusterOK
  <2>1. watch.pc = "idle"
    BY DEF Init
  <2> QED
    BY <2>1, Zenon DEF Init, ClusterOK
<1>8. Coherent /\ Open /\ Kept
  <2>1. Coherent
    BY <1>4, Zenon DEF Init, Coherent
  <2>2. Open
    BY <1>4, <1>7, Zenon DEF Init, Open, ClusterOK
  <2>3. Kept
    BY <1>3, <1>4, Zenon DEF Init, Kept, HasAcked
  <2> QED
    BY <2>1, <2>2, <2>3, Zenon
<1> QED
  BY <1>2, <1>4, <1>6, <1>7, <1>8, Zenon DEF IInv, Sound

\* The steps that neither fail nor move leave both counts alone.
LEMMA ClientStepKeeps ==
    ASSUME Sound, NEW c \in Client, ClientStep(c), ~Errs(c)
    PROVE  Preserves /\ moves' = moves /\ fails' = fails
<1>1. Preserves
  BY HitStep, EnterStep, FailStep, FoundStep, NotFoundStep, CreatesStep, SetStep, LoadedStep,
     MarshalStep, StoredStep, LooksStep, ClosesStep, RemovesStep, DropsStep, ZenonT(60) DEF ClientStep
<1>2. UNCHANGED env
  BY ZenonT(60) DEF ClientStep, Hit, Enter, Fail, ReadFound, ReadNotFound, ReadCreates, Set,
     PublishLoaded, Marshal, PublishStored, DeleteLooks, DeleteCloses, DeleteRemoves, DeleteDrops
<1> QED
  BY <1>1, <1>2, Zenon DEF env, cluster

(* Every call that begins keeps the invariant, and counts neither a move   *)
(* nor a failure.                                                          *)
LEMMA BeginsKeep ==
    ASSUME Sound, NEW c \in Client, (\E op \in Ops : BeginByName(c, op)) \/ BeginCreate(c) \/ BeginUpdate(c)
    PROVE  Preserves /\ moves' = moves /\ fails' = fails
<1>1. Preserves
  BY BeginByNameStep, BeginCreateStep, BeginUpdateStep, Zenon
<1>2. UNCHANGED env
  BY Zenon DEF BeginByName, BeginCreate, BeginUpdate
<1> QED
  BY <1>1, <1>2, Zenon DEF env, cluster

(* A step that changes nothing keeps the invariant.                        *)
LEMMA StutterKeeps ==
    ASSUME Sound, UNCHANGED vars
    PROVE  Preserves /\ moves' = moves /\ fails' = fails
<1>1. UNCHANGED <<meta, objs, closed, cache, ready, cl, upds, acked, assigned, owner, event, watch, moves, fails>>
  BY Zenon DEF vars, mgr, history, env, cluster
<1>2. Grown /\ Numbered'
  BY <1>1, SameGrown, SameNumbers, Typed, Zenon
<1>3. ClusterOK'
  BY <1>1, Zenon DEF Sound, ClusterOK, Made
<1>4. Sound'
  BY <1>1, <1>2, <1>3, ClusterSound, Typed, Zenon DEF Sound, TypeOK
<1>5. Coherent => Coherent'
  BY <1>1, Zenon DEF Coherent, Describes
<1>6. Open => Open'
  BY <1>1, Zenon DEF Open, Lookup
<1>7. Kept => Kept'
  BY <1>1, Zenon DEF Kept, HasAcked, Lookup, Describes
<1> QED
  BY <1>1, <1>2, <1>4, <1>5, <1>6, <1>7, Zenon DEF Preserves

(* The lock, the numbering of objects and, as far as nothing failed or     *)
(* moved, the agreement of cache, objects and metadata: one invariant of   *)
(* all steps of the manager, of the watcher and of the other nodes.        *)
THEOREM ManagerInvariant == Spec => []IInv
<1>1. IInv /\ [Next]_vars => IInv'
  <2> SUFFICES ASSUME IInv, [Next]_vars PROVE IInv'
    BY Zenon
  <2>1. Sound
    BY Zenon DEF IInv
  <2>2. ASSUME Preserves, moves' = moves, fails' = fails PROVE IInv'
    <3>1. Distinct' => Distinct
      BY <2>1, <2>2, DistinctBefore, Zenon DEF Preserves
    <3> QED
      BY <2>2, <3>1, Zenon DEF IInv, Preserves
  <2>3. ASSUME NEW c \in Client, Errs(c) PROVE IInv'
    <3>1. Sound' /\ fails' # 0 /\ moves' = moves /\ Grown /\ (Kept => Kept')
      BY <2>1, <2>3, ErrsStep, Zenon
    <3>2. Distinct' => Distinct
      BY <2>1, <3>1, DistinctBefore, Zenon
    <3> QED
      BY <3>1, <3>2, Zenon DEF IInv
  <2>4. ASSUME Sound', moves' # 0, fails' = fails, Open => Open' PROVE IInv'
    BY <2>4, Zenon DEF IInv
  <2>5. ASSUME NEW c \in Client, ClientStep(c) PROVE IInv'
    BY <2>1, <2>2, <2>3, <2>5, ClientStepKeeps, Zenon
  <2>6. ASSUME NEW c \in Client, (\E op \in Ops : BeginByName(c, op)) \/ BeginCreate(c) \/ BeginUpdate(c)
        PROVE  IInv'
    BY <2>1, <2>2, <2>6, BeginsKeep, Zenon
  <2>7. CASE \/ \E n \in Node : UpdateAssigns(n)
             \/ LoseAssigns \/ RemoteUpdate \/ RemoteDelete
             \/ WatchReceives \/ WatchDrops \/ WatchCloses
    BY <2>1, <2>4, <2>7, AssignsStep, RemoteStep, ReceivesStep, WatchDropsStep, WatchClosesStep, Zenon
  <2>8. CASE UNCHANGED vars
    BY <2>1, <2>2, <2>8, StutterKeeps, Zenon
  <2> QED
    BY <2>5, <2>6, <2>7, <2>8, Zenon DEF Next
<1> QED
  BY <1>1, InitInv, PTL DEF Spec

\* While nobody owns ready, nobody is at work.
LEMMA NobodyAtWork == ASSUME Sound, ready = None PROVE \A c \in Client : cl[c].pc \notin Owning
  BY ManagerAssumption, Zenon DEF Sound, CallOK

(* On a single node, until its metadata store fails, and with any number   *)
(* of clients that get, create, update and delete the index at the same    *)
(* time, some with objects that are no longer cached: whenever no call     *)
(* owns ready, the cached index is the stored one with at least the stored *)
(* updates.                                                                *)
THEOREM CacheCoherent == Spec => []CacheMatchesMetadata
<1>1. IInv => CacheMatchesMetadata
  <2> SUFFICES ASSUME Sound, Coherent, ready = None, cache # None PROVE Describes(meta, cache)
    BY Zenon DEF IInv, CacheMatchesMetadata, Describes
  <2>1. \A c \in Client : cl[c].pc \notin {"publish", "drop"}
    BY NobodyAtWork, Zenon DEF Owning
  <2> QED
    BY <2>1, Zenon DEF Coherent
<1> QED
  BY <1>1, ManagerInvariant, PTL

(* While no call of the metadata store or the file system has failed, and  *)
(* however often the index moves to other nodes and back: whenever no call *)
(* owns ready, the cached index is not one that Delete or watchIndexUpdate *)
(* has closed.                                                             *)
THEOREM CacheOpen == Spec => []CachedIsOpen
<1>1. IInv => CachedIsOpen
  <2> SUFFICES ASSUME Sound, Open, ready = None, cache # None, cache \in closed PROVE FALSE
    BY Zenon DEF IInv, CachedIsOpen
  <2>1. \A c \in Client : cl[c].pc \notin {"remove", "drop"}
    BY NobodyAtWork, Zenon DEF Owning
  <2> QED
    BY <2>1, Zenon DEF Open
<1> QED
  BY <1>1, ManagerInvariant, PTL

(* While the index stays on this node and has one object of each creation, *)
(* an update whose Store has returned is in the stored metadata, whatever  *)
(* calls fail, at whatever step.                                           *)
THEOREM UpdatesKept == Spec => []StoredUpdateKept
<1>1. IInv => StoredUpdateKept
  BY Zenon DEF IInv, StoredUpdateKept, Distinct, Kept, HasAcked
<1> QED
  BY <1>1, ManagerInvariant, PTL
=============================================================================
