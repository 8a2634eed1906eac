-------------------------- MODULE FileCacheProofs --------------------------
(***************************************************************************)
(* For any paths, goroutines, versions and limits of the cache, and any    *)
(* failing calls and restarts: a load shows the last version that was      *)
(* saved.  The proof has three layers: what a step does to the calls, when *)
(* their CacheFiles and lists are left out; what such a change does to the *)
(* invariant; and the steps.                                               *)
(***************************************************************************)
EXTENDS FileCache, TLAPS

-----------------------------------------------------------------------------
(* What the steps do to the calls *)

(* The fields of a call.                                                   *)
LEMMA Fields ==
  ASSUME FilesTypeOK, NEW c \in Client
  PROVE  /\ cl[c] \in Call /\ cl[c].pc \in Pc /\ cl[c].p \in Path \cup {None}
         /\ cl[c].op \in {"none", "load", "loadFile", "persist", "saveFile", "remove"}
         /\ cl[c].h \in {"none", "current", "old"} /\ cl[c].v \in Content
         /\ cl[c].floor \in 0 .. MaxVer + 1 /\ cl[c].list \in SUBSET (Path \X {0, 1})
BY DEF FilesTypeOK, Call

(* No call.                                                                *)
LEMMA IdleType == Idle \in Call
BY FileCacheAssumption DEF Idle, Call, Pc, Content, Version

(* A call whose CacheFile has left the map is the same otherwise.          *)
LEMMA DetachedCalls ==
  ASSUME FilesTypeOK, NEW S, NEW d \in Client
  PROVE  /\ Detached(S) \in [Client -> Call]
         /\ Detached(S)[d].pc = cl[d].pc /\ Detached(S)[d].op = cl[d].op
         /\ Detached(S)[d].p = cl[d].p /\ Detached(S)[d].v = cl[d].v
         /\ Detached(S)[d].floor = cl[d].floor /\ Detached(S)[d].ok = cl[d].ok
<1>1. ASSUME NEW e \in Client
      PROVE  /\ [cl[e] EXCEPT !.h = "old"] \in Call
             /\ [cl[e] EXCEPT !.h = "old"].pc = cl[e].pc /\ [cl[e] EXCEPT !.h = "old"].op = cl[e].op
             /\ [cl[e] EXCEPT !.h = "old"].p = cl[e].p /\ [cl[e] EXCEPT !.h = "old"].v = cl[e].v
             /\ [cl[e] EXCEPT !.h = "old"].floor = cl[e].floor
             /\ [cl[e] EXCEPT !.h = "old"].ok = cl[e].ok
  BY <1>1, SMTT(30) DEF FilesTypeOK, Call
<1>2. Detached(S) \in [Client -> Call]
  BY <1>1 DEF Detached, FilesTypeOK
<1>3. Detached(S)[d] = cl[d] \/ Detached(S)[d] = [cl[d] EXCEPT !.h = "old"]
  BY DEF Detached
<1> QED
  BY <1>1, <1>2, <1>3, ZenonT(60)

\* The call of d is the same up to its CacheFile and its list.
Kept(d) ==
  /\ cl'[d].pc = cl[d].pc /\ cl'[d].op = cl[d].op /\ cl'[d].p = cl[d].p
  /\ cl'[d].v = cl[d].v /\ cl'[d].floor = cl[d].floor /\ cl'[d].ok = cl[d].ok
Others(c) == \A d \in Client \ {c} : Kept(d)

\* The call of c goes on at pc, with the content v.
Moves(c, pc, v) ==
  /\ cl'[c].pc = pc /\ cl'[c].op = cl[c].op /\ cl'[c].p = cl[c].p
  /\ cl'[c].v = v /\ cl'[c].floor = cl[c].floor /\ cl'[c].ok = cl[c].ok
  /\ Others(c)

\* The call of c has ended.
Ends(c) == cl'[c].op = "none" /\ cl'[c].p = None /\ cl'[c].pc \in {"idle", "dead"} /\ Others(c)

\* f is cl, perhaps with CacheFiles detached.
AsBefore(f) ==
  /\ f \in [Client -> Call]
  /\ \A d \in Client : /\ f[d].pc = cl[d].pc /\ f[d].op = cl[d].op /\ f[d].p = cl[d].p
                       /\ f[d].v = cl[d].v /\ f[d].floor = cl[d].floor /\ f[d].ok = cl[d].ok

(* The calls, and the calls after some CacheFiles have left the map.       *)
LEMMA Before ==
  ASSUME FilesTypeOK
  PROVE  AsBefore(cl) /\ \A S : AsBefore(Detached(S))
<1>1. cl \in [Client -> Call]
  BY DEF FilesTypeOK
<1>2. ASSUME NEW S
      PROVE  AsBefore(Detached(S))
  <2>1. Detached(S) \in [Client -> Call]
    BY DEF Detached, FilesTypeOK, Call
  <2> QED
    BY <2>1, DetachedCalls, ZenonT(60) DEF AsBefore
<1> QED
  BY <1>1, <1>2, Zenon DEF AsBefore

\* One call is replaced.
Sets(f, c, x) == cl' = [f EXCEPT ![c] = x]

(* Writing one call over the calls as they were replaces that call only.   *)
LEMMA Replaced ==
  ASSUME NEW f, AsBefore(f), NEW c \in Client, NEW x \in Call, Sets(f, c, x)
  PROVE  cl' \in [Client -> Call] /\ cl'[c] = x /\ Others(c)
<1>1. cl' \in [Client -> Call] /\ cl'[c] = x /\ \A d \in Client \ {c} : cl'[d] = f[d]
  BY DEF AsBefore, Sets
<1> QED
  BY <1>1 DEF AsBefore, Others, Kept

(* The call goes on at another place.                                      *)
LEMMA Goes ==
  ASSUME NEW f, AsBefore(f), NEW c \in Client, NEW pc \in Pc, cl' = [f EXCEPT ![c] = [@ EXCEPT !.pc = pc]]
  PROVE  cl' \in [Client -> Call] /\ Moves(c, pc, cl[c].v)
<1> DEFINE x == [f[c] EXCEPT !.pc = pc]
<1>1. f[c] \in Call
  BY DEF AsBefore
<1>2. /\ x \in Call /\ x.pc = pc /\ x.op = f[c].op /\ x.p = f[c].p /\ x.v = f[c].v
      /\ x.floor = f[c].floor /\ x.ok = f[c].ok
  BY <1>1, Zenon DEF Call
<1> HIDE DEF x
<1>3. Sets(f, c, x)
  BY Zenon DEF x, Sets
<1>4. cl' \in [Client -> Call] /\ cl'[c] = x /\ Others(c)
  BY <1>2, <1>3, Replaced, Zenon
<1> QED
  BY <1>2, <1>4 DEF AsBefore, Moves

(* The same with another CacheFile.                                        *)
LEMMA GoesWithFile ==
  ASSUME NEW f, AsBefore(f), NEW c \in Client, NEW pc \in Pc, NEW h \in {"none", "current", "old"},
         cl' = [f EXCEPT ![c] = [@ EXCEPT !.pc = pc, !.h = h]]
  PROVE  /\ cl' \in [Client -> Call] /\ Moves(c, pc, cl[c].v)
        
<1> DEFINE x == [f[c] EXCEPT !.pc = pc, !.h = h]
<1>1. f[c] \in Call
  BY DEF AsBefore
<1>2. /\ x \in Call /\ x.pc = pc /\ x.op = f[c].op /\ x.p = f[c].p /\ x.v = f[c].v
      /\ x.floor = f[c].floor /\ x.ok = f[c].ok
  BY <1>1, Zenon DEF Call
<1> HIDE DEF x
<1>3. Sets(f, c, x)
  BY Zenon DEF x, Sets
<1>4. cl' \in [Client -> Call] /\ cl'[c] = x /\ Others(c)
  BY <1>2, <1>3, Replaced, Zenon
<1> QED
  BY <1>2, <1>4 DEF AsBefore, Moves

(* The same with another content.                                          *)
LEMMA GoesWithContent ==
  ASSUME FilesTypeOK, NEW c \in Client, NEW pc \in Pc, NEW v \in Content,
         cl' = [cl EXCEPT ![c] = [@ EXCEPT !.pc = pc, !.v = v]]
  PROVE  cl' \in [Client -> Call] /\ Moves(c, pc, v)
<1> DEFINE x == [cl[c] EXCEPT !.pc = pc, !.v = v]
<1>1. cl[c] \in Call
  BY Fields
<1>2. /\ x \in Call /\ x.pc = pc /\ x.op = cl[c].op /\ x.p = cl[c].p /\ x.v = v
      /\ x.floor = cl[c].floor /\ x.ok = cl[c].ok
  BY <1>1, ZenonT(60) DEF Call
<1> HIDE DEF x
<1>3. Sets(cl, c, x)
  BY Zenon DEF x, Sets
<1>4. cl' \in [Client -> Call] /\ cl'[c] = x /\ Others(c)
  BY <1>2, <1>3, Replaced, Before, Zenon
<1> QED
  BY <1>2, <1>4 DEF Moves

(* The same with another list.                                             *)
LEMMA GoesWithList ==
  ASSUME NEW f, AsBefore(f), NEW c \in Client, NEW pc \in Pc, NEW l \in SUBSET (Path \X {0, 1}),
         cl' = [f EXCEPT ![c] = [@ EXCEPT !.pc = pc, !.list = l]]
  PROVE  cl' \in [Client -> Call] /\ Moves(c, pc, cl[c].v)
<1> DEFINE x == [f[c] EXCEPT !.pc = pc, !.list = l]
<1>1. f[c] \in Call
  BY DEF AsBefore
<1>2. /\ x \in Call /\ x.pc = pc /\ x.op = f[c].op /\ x.p = f[c].p /\ x.v = f[c].v
      /\ x.floor = f[c].floor /\ x.ok = f[c].ok
  BY <1>1, Zenon DEF Call
<1> HIDE DEF x
<1>3. Sets(f, c, x)
  BY Zenon DEF x, Sets
<1>4. cl' \in [Client -> Call] /\ cl'[c] = x /\ Others(c)
  BY <1>2, <1>3, Replaced, Zenon
<1> QED
  BY <1>2, <1>4, Zenon DEF AsBefore, Moves

(* The call ends.                                                          *)
LEMMA Returns ==
  ASSUME NEW f, AsBefore(f), NEW c \in Client, cl' = [f EXCEPT ![c] = Idle]
  PROVE  cl' \in [Client -> Call] /\ Ends(c)
<1>1. cl' \in [Client -> Call] /\ cl'[c] = Idle /\ Others(c)
  BY Replaced, IdleType, Zenon DEF Sets
<1> QED
  BY <1>1 DEF Ends, Idle

-----------------------------------------------------------------------------
(* What such steps do to the invariant *)

CallOK(d) == LoadCall(d) /\ PersistCall(d) /\ LoadFileCall(d) /\ SaveFileCall(d) /\ RemoveCall(d)
Core == Calls /\ Alone /\ Files

\* What the call of d relies on has not changed.
Undisturbed(d) ==
  /\ cl[d].op \in {"persist", "loadFile", "saveFile"} => floor'[cl[d].p] = floor[cl[d].p]
  /\ cl[d].op = "saveFile" => store'[cl[d].p] = store[cl[d].p] /\ tried'[cl[d].p] = tried[cl[d].p]
  /\ cl[d].op \in {"saveFile", "remove"} /\ cl[d].p \in VecPath => file'[cl[d].p] \in {0, file[cl[d].p]}

(* A call that stays where it is keeps its shape.                          *)
LEMMA KeptShape ==
  ASSUME NEW d \in Client, Kept(d), Shape(d)
  PROVE  Shape(d)'
BY ZenonT(60) DEF Kept, Shape

(* A call that stays where it is, and is not disturbed, stays right.       *)
LEMMA KeptCall ==
  ASSUME NEW d \in Client, Kept(d), Shape(d), CallOK(d), Undisturbed(d), torn \subseteq torn'
  PROVE  CallOK(d)'
<1>1. LoadCall(d)'
  BY DEF Kept, CallOK, LoadCall
<1>2. PersistCall(d)'
  BY Zenon DEF Kept, CallOK, PersistCall, Undisturbed
<1>3. LoadFileCall(d)'
  BY Zenon DEF Kept, CallOK, LoadFileCall, Undisturbed
<1>4. SaveFileCall(d)'
  BY Zenon DEF Kept, CallOK, SaveFileCall, Undisturbed, Shape
<1>5. RemoveCall(d)'
  BY Zenon DEF Kept, CallOK, RemoveCall, Undisturbed
<1> QED
  BY <1>1, <1>2, <1>3, <1>4, <1>5, Zenon DEF CallOK

\* The call of c goes on, or it has ended.
Continues(c) == cl'[c].op = cl[c].op /\ cl'[c].p = cl[c].p

(* A step of one call leaves the calls alone with their files.             *)
LEMMA StaysAlone ==
  ASSUME FilesTypeOK, \A d \in Client : Shape(d), Alone, NEW c \in Client, Others(c), Continues(c) \/ Ends(c)
  PROVE  Alone'
<1>1. ASSUME NEW d \in Client
      PROVE  (cl'[d].op = cl[d].op /\ cl'[d].p = cl[d].p) \/ (cl'[d].op = "none" /\ cl'[d].p = None)
  BY <1>1, Zenon DEF Others, Kept, Continues, Ends
<1>2. ASSUME NEW d \in Client
      PROVE  cl[d].p = None => cl[d].op = "none"
  <2>1. cl[d].op \in {"none", "load", "loadFile", "persist", "saveFile", "remove"}
    BY Fields, Zenon
  <2>2. cl[d].op # "none" => cl[d].p \in Path
    BY <2>1 DEF Shape, Path
  <2> QED
    BY <2>2, FileCacheAssumption, Zenon
<1> QED
  BY <1>1, <1>2 DEF Alone

(* A step of one call that keeps the files, and disturbs no other call,    *)
(* keeps the core of the invariant.                                        *)
LEMMA CoreStep ==
  ASSUME FilesTypeOK, Core, NEW c \in Client, Others(c), Continues(c) \/ Ends(c), torn \subseteq torn',
         \A d \in Client \ {c} : Undisturbed(d),
         Shape(c)', CallOK(c)', Files'
  PROVE  Core'
<1>1. \A d \in Client : Shape(d) /\ CallOK(d)
  BY Zenon DEF Core, Calls, CallOK
<1>2. Alone'
  BY <1>1, StaysAlone, Zenon DEF Core
<1>3. ASSUME NEW d \in Client \ {c}
      PROVE  Shape(d)' /\ CallOK(d)'
  BY <1>1, <1>3, KeptShape, KeptCall, Zenon DEF Others
<1>4. Calls'
  BY <1>3, Zenon DEF Calls, CallOK
<1> QED
  BY <1>2, <1>4, Zenon DEF Core

(* Nothing but the calls changes.                                          *)
LEMMA NothingDisturbed ==
  ASSUME UNCHANGED <<store, file, floor, tried, torn>>
  PROVE  /\ \A d \in Client : Undisturbed(d)
         /\ Files => Files'
<1>1. \A d \in Client : Undisturbed(d)
  BY DEF Undisturbed
<1>2. ASSUME NEW p
      PROVE  (BlugeFile(p) => BlugeFile(p)') /\ (VecFile(p) => VecFile(p)')
  <2>1. store' = store /\ file' = file /\ floor' = floor /\ tried' = tried /\ torn' = torn
    OBVIOUS
  <2>2. BlugeFile(p) => BlugeFile(p)'
    BY <2>1, Zenon DEF BlugeFile
  <2>3. VecFile(p) => VecFile(p)'
    BY <2>1, Zenon DEF VecFile
  <2> QED
    BY <2>2, <2>3
<1> QED
  BY <1>1, <1>2, Zenon DEF Files

(* Where the calls can be.                                                 *)
LEMMA PlacesOf ==
  /\ Places("none") = {"idle", "dead"}
  /\ Places("load") = {"get", "read", "room", "evict", "enter", "copy", "insert", "return", "open",
                       "using", "leave"}
  /\ Places("loadFile") = Places("load")
  /\ Places("persist") = {"room", "evict", "writer", "write", "upload", "unref", "drop", "rename", "publish"}
  /\ Places("saveFile") = {"upload", "room", "evict", "rename", "publish"}
  /\ Places("remove") = {"uncache", "delete"}
BY Zenon DEF Places, Loads

(* A call ends.                                                            *)
LEMMA EndedCall ==
  ASSUME NEW c \in Client, Ends(c)
  PROVE  Shape(c)' /\ CallOK(c)'
<1>1. Shape(c)'
  BY PlacesOf DEF Ends, Shape
<1> QED
  BY <1>1 DEF Ends, CallOK, LoadCall, PersistCall, LoadFileCall, SaveFileCall, RemoveCall

(* A call that ends and touches nothing keeps the core.                    *)
LEMMA QuietEnd ==
  ASSUME FilesTypeOK, Core, NEW c \in Client, Ends(c), UNCHANGED <<store, file, floor, tried, torn>>
  PROVE  Core'
<1>1. Files' /\ \A d \in Client \ {c} : Undisturbed(d)
  BY NothingDisturbed, Zenon DEF Core
<1>2. torn \subseteq torn' /\ Others(c)
  BY DEF Ends
<1> QED
  BY <1>1, <1>2, EndedCall, CoreStep, Zenon

\* A call goes on to a place of which the invariant says nothing new.
Quietly(c, pc) ==
  /\ pc \in Places(cl[c].op) \ {"using", "publish", "delete"} /\ cl[c].pc # "upload"
  /\ pc \in Carrying => cl[c].pc \in Carrying
  /\ pc \in {"room", "evict", "writer", "write", "upload"} =>
       cl[c].pc \in {"room", "evict", "writer", "write", "upload"}

(* A call that moves on quietly stays right.                               *)
LEMMA QuietCall ==
  ASSUME NEW c \in Client, NEW pc, Shape(c), CallOK(c), Moves(c, pc, cl[c].v), Quietly(c, pc),
         Undisturbed(c), torn \subseteq torn'
  PROVE  Shape(c)' /\ CallOK(c)'
<1>1. Shape(c)'
  BY Zenon DEF Moves, Quietly, Shape
<1>2. LoadCall(c)'
  BY Zenon DEF Moves, Quietly, CallOK, LoadCall
<1>3. PersistCall(c)'
  BY Zenon DEF Moves, Quietly, CallOK, PersistCall, Undisturbed
<1>4. LoadFileCall(c)'
  BY Zenon DEF Moves, Quietly, CallOK, LoadFileCall, Undisturbed
<1>5. SaveFileCall(c)'
  BY Zenon DEF Moves, Quietly, CallOK, SaveFileCall, Undisturbed
<1>6. RemoveCall(c)'
  BY DEF Moves, Quietly, RemoveCall
<1> QED
  BY <1>1, <1>2, <1>3, <1>4, <1>5, <1>6, Zenon DEF CallOK

(* A call that moves on quietly, and touches nothing, keeps the core.      *)
LEMMA QuietMove ==
  ASSUME FilesTypeOK, Core, NEW c \in Client, NEW pc, Moves(c, pc, cl[c].v), Quietly(c, pc),
         UNCHANGED <<store, file, floor, tried, torn>>
  PROVE  Core'
<1>1. Files' /\ \A d \in Client : Undisturbed(d)
  BY NothingDisturbed, Zenon DEF Core
<1>2. torn \subseteq torn' /\ Others(c) /\ Continues(c)
  BY DEF Moves, Continues
<1>3. Shape(c) /\ CallOK(c)
  BY Zenon DEF Core, Calls, CallOK
<1>4. Shape(c)' /\ CallOK(c)'
  BY <1>1, <1>2, <1>3, QuietCall, Zenon
<1> QED
  BY <1>1, <1>2, <1>4, CoreStep, Zenon

-----------------------------------------------------------------------------
(* The steps that leave the files and the object store alone *)

Outside == <<store, file, tried, floor, torn>>

(* What the invariant says of the calls and the files.                     *)
LEMMA Known ==
  ASSUME IInv
  PROVE  /\ FilesTypeOK /\ Core /\ Files
         /\ AsBefore(cl) /\ \A S : AsBefore(Detached(S))
BY Before, Zenon DEF IInv, Core

(* The types and the core make the invariant.                              *)
LEMMA Combined == FilesTypeOK' /\ Core' => IInv'
BY ZenonT(60) DEF IInv, Core

(* What a call is about, by where it is.                                   *)
LEMMA CallAt ==
  ASSUME IInv, NEW c \in Client
  PROVE  /\ cl[c].pc \notin {"idle", "dead"} => cl[c].p \in Path
         /\ cl[c].pc \in {"get", "read", "enter", "copy", "insert", "return", "open", "using", "leave"} =>
              cl[c].op \in Loads
         /\ cl[c].pc \in {"room", "evict"} => cl[c].op \in Loads \cup {"persist", "saveFile"}
         /\ cl[c].pc \in {"writer", "write", "unref", "drop"} => cl[c].op = "persist"
         /\ cl[c].pc \in {"upload", "rename", "publish"} => cl[c].op \in {"persist", "saveFile"}
         /\ cl[c].pc \in {"uncache", "delete"} => cl[c].op = "remove"
         /\ Shape(c) /\ CallOK(c)
<1>1. FilesTypeOK /\ Shape(c) /\ CallOK(c)
  BY Zenon DEF IInv, Calls, CallOK
<1>2. cl[c].op \in {"none", "load", "loadFile", "persist", "saveFile", "remove"} /\ cl[c].pc \in Places(cl[c].op)
  BY <1>1, Fields, ZenonT(60) DEF Shape
<1>3. cl[c].op # "none" => cl[c].p \in Path
  BY <1>1, <1>2, Zenon DEF Shape, Path
<1> QED
  BY <1>1, <1>2, <1>3, PlacesOf DEF Loads

(* A call that moves on quietly keeps the invariant.                       *)
LEMMA QuietStep ==
  ASSUME IInv, NEW c \in Client, NEW pc, cl' \in [Client -> Call], Moves(c, pc, cl[c].v), Quietly(c, pc),
         UNCHANGED Outside
  PROVE  IInv'
<1>1. FilesTypeOK' /\ Core'
  BY Known, QuietMove, Zenon DEF FilesTypeOK, Outside
<1> QED
  BY <1>1, Combined, ZenonT(60)

(* A call that ends and touches nothing keeps the invariant.               *)
LEMMA EndStep ==
  ASSUME IInv, NEW c \in Client, cl' \in [Client -> Call], Ends(c), UNCHANGED Outside
  PROVE  IInv'
<1>1. FilesTypeOK' /\ Core'
  BY Known, QuietEnd DEF FilesTypeOK, Outside
<1> QED
  BY <1>1, Combined, ZenonT(60)

(* The same for the forms in which the actions change cl.                  *)
LEMMA GoesStep ==
  ASSUME IInv, NEW f, AsBefore(f), NEW c \in Client, NEW pc \in Pc, Quietly(c, pc), UNCHANGED Outside,
         \/ cl' = [f EXCEPT ![c] = [@ EXCEPT !.pc = pc]]
         \/ \E h \in {"none", "current", "old"} : cl' = [f EXCEPT ![c] = [@ EXCEPT !.pc = pc, !.h = h]]
         \/ \E l \in SUBSET (Path \X {0, 1}) : cl' = [f EXCEPT ![c] = [@ EXCEPT !.pc = pc, !.list = l]]
  PROVE  IInv'
<1>1. cl' \in [Client -> Call] /\ Moves(c, pc, cl[c].v)
  BY Goes, GoesWithFile, GoesWithList, Zenon
<1> QED
  BY <1>1, QuietStep, Zenon

(* A call that returns keeps the invariant.                                *)
LEMMA ReturnStep ==
  ASSUME IInv, NEW f, AsBefore(f), NEW c \in Client, cl' = [f EXCEPT ![c] = Idle], UNCHANGED Outside
  PROVE  IInv'
<1>1. cl' \in [Client -> Call] /\ Ends(c)
  BY Returns, Zenon
<1> QED
  BY <1>1, EndStep, Zenon

(* The places from which a call moves on quietly, and where to.            *)
LEMMA QuietPlaces ==
  ASSUME IInv, NEW c \in Client
  PROVE  /\ cl[c].pc = "get" => Quietly(c, "read") /\ Quietly(c, "open")
         /\ cl[c].pc = "enter" => Quietly(c, "open") /\ Quietly(c, "copy")
         /\ cl[c].pc = "copy" => Quietly(c, "insert")
         /\ cl[c].pc = "insert" => Quietly(c, "return")
         /\ cl[c].pc = "return" => Quietly(c, "open")
         /\ cl[c].pc = "open" => Quietly(c, "leave")
         /\ cl[c].pc = "writer" => Quietly(c, "write")
         /\ cl[c].pc = "write" => Quietly(c, "upload")
         /\ cl[c].pc = "unref" => Quietly(c, "drop")
         /\ cl[c].pc = "drop" => Quietly(c, "rename")
<1>1. /\ cl[c].pc \in {"get", "enter", "copy", "insert", "return", "open"} => cl[c].op \in {"load", "loadFile"}
      /\ cl[c].pc \in {"writer", "write", "unref", "drop"} => cl[c].op = "persist"
  BY CallAt, ZenonT(60) DEF Loads
<1>2. ASSUME cl[c].op \in {"load", "loadFile"}
      PROVE  /\ cl[c].pc = "get" => Quietly(c, "read") /\ Quietly(c, "open")
             /\ cl[c].pc = "enter" => Quietly(c, "open") /\ Quietly(c, "copy")
             /\ cl[c].pc = "copy" => Quietly(c, "insert")
             /\ cl[c].pc = "insert" => Quietly(c, "return")
             /\ cl[c].pc = "return" => Quietly(c, "open")
             /\ cl[c].pc = "open" => Quietly(c, "leave")
  BY <1>2, PlacesOf, ZenonT(60) DEF Quietly, Carrying
<1>3. ASSUME cl[c].op = "persist"
      PROVE  /\ cl[c].pc = "writer" => Quietly(c, "write")
             /\ cl[c].pc = "write" => Quietly(c, "upload")
             /\ cl[c].pc = "unref" => Quietly(c, "drop")
             /\ cl[c].pc = "drop" => Quietly(c, "rename")
  BY <1>3, PlacesOf DEF Quietly, Carrying
<1> QED
  BY <1>1, <1>2, <1>3, Zenon

(* Where each operation goes on once there is room.                        *)
LEMMA AfterRoomIs ==
  /\ AfterRoom("load") = "enter" /\ AfterRoom("loadFile") = "enter"
  /\ AfterRoom("persist") = "writer" /\ AfterRoom("saveFile") = "rename"
BY Zenon DEF AfterRoom, Loads

(* A call that has made room, or makes more, moves on quietly.             *)
LEMMA RoomLeft ==
  ASSUME IInv, NEW c \in Client, cl[c].pc \in {"room", "evict"}
  PROVE  Quietly(c, AfterRoom(cl[c].op)) /\ Quietly(c, "evict") /\ AfterRoom(cl[c].op) \in {"enter", "writer", "rename"}
<1>1. cl[c].op \in {"load", "loadFile", "persist", "saveFile"}
  BY CallAt, Zenon DEF Loads
<1> QED
  BY <1>1, PlacesOf, AfterRoomIs, ZenonT(60) DEF Quietly, Carrying

(* ListFiles keeps the invariant.                                          *)
LEMMA ListFilesStep ==
  ASSUME IInv, NEW c \in Client, ListFiles(c)
  PROVE  IInv'
<1>1. cl[c].pc = "room" /\ UNCHANGED Outside /\ Listing \in SUBSET (Path \X {0, 1})
  BY Zenon DEF ListFiles, At, disk, history, Outside, Listing
<1>2. AfterRoom(cl[c].op) \in Pc /\ "evict" \in Pc
  BY <1>1, RoomLeft, Zenon DEF Pc
<1>3. \/ cl' = [cl EXCEPT ![c] = [@ EXCEPT !.pc = AfterRoom(cl[c].op)]]
      \/ cl' = [cl EXCEPT ![c] = [@ EXCEPT !.pc = "evict", !.list = Listing]]
  BY Zenon DEF ListFiles
<1> QED
  BY <1>1, <1>2, <1>3, RoomLeft, GoesStep, Known, ZenonT(60)

(* GetCacheFile keeps the invariant.                                       *)
LEMMA GetCacheFileStep ==
  ASSUME IInv, NEW c \in Client, GetCacheFile(c)
  PROVE  IInv'
<1>1. cl[c].pc = "get" /\ UNCHANGED Outside /\ "read" \in Pc /\ "open" \in Pc
  BY DEF GetCacheFile, At, disk, history, Outside, Pc
<1>2. \/ cl' = [cl EXCEPT ![c] = [@ EXCEPT !.pc = "read"]]
      \/ cl' = [cl EXCEPT ![c] = [@ EXCEPT !.pc = "open", !.h = "current"]]
      \/ cl' = [Detached({cl[c].p}) EXCEPT ![c] = [@ EXCEPT !.pc = "read"]]
  BY Zenon DEF GetCacheFile, Goto
<1> QED
  BY <1>1, <1>2, QuietPlaces, GoesStep, Known, ZenonT(60)

(* CacheFileHit keeps the invariant.                                       *)
LEMMA CacheFileHitStep ==
  ASSUME IInv, NEW c \in Client, CacheFileHit(c)
  PROVE  IInv'
<1>1. /\ cl[c].pc = "enter" /\ UNCHANGED Outside /\ "open" \in Pc
      /\ cl' = [cl EXCEPT ![c] = [@ EXCEPT !.pc = "open", !.h = "current"]]
  BY DEF CacheFileHit, At, disk, history, Outside, Pc
<1> QED
  BY <1>1, QuietPlaces, GoesStep, Known, ZenonT(60)

(* CacheFileTakes keeps the invariant.                                     *)
LEMMA CacheFileTakesStep ==
  ASSUME IInv, NEW c \in Client, CacheFileTakes(c)
  PROVE  IInv'
<1>1. /\ cl[c].pc = "enter" /\ UNCHANGED Outside /\ "copy" \in Pc
      /\ cl' = [cl EXCEPT ![c] = [@ EXCEPT !.pc = "copy"]]
  BY DEF CacheFileTakes, At, Goto, disk, history, Outside, Pc
<1> QED
  BY <1>1, QuietPlaces, GoesStep, Known, ZenonT(60)

(* InsertCacheFile keeps the invariant.                                    *)
LEMMA InsertCacheFileStep ==
  ASSUME IInv, NEW c \in Client, InsertCacheFile(c)
  PROVE  IInv'
<1>1. /\ cl[c].pc = "insert" /\ UNCHANGED Outside /\ "return" \in Pc
      /\ cl' = [Detached({cl[c].p}) EXCEPT ![c] = [@ EXCEPT !.pc = "return", !.h = "current"]]
  BY DEF InsertCacheFile, At, disk, history, Outside, Pc
<1> QED
  BY <1>1, QuietPlaces, GoesStep, Known, Zenon

(* ReturnCacheFile keeps the invariant.                                    *)
LEMMA ReturnCacheFileStep ==
  ASSUME IInv, NEW c \in Client, ReturnCacheFile(c)
  PROVE  IInv'
<1>1. cl[c].pc = "return" /\ UNCHANGED Outside /\ "open" \in Pc
  BY DEF ReturnCacheFile, At, disk, Outside, Pc
<1>2. \/ cl' = [cl EXCEPT ![c] = Idle]
      \/ cl' = [cl EXCEPT ![c] = [@ EXCEPT !.pc = "open", !.h = "current"]]
  BY Zenon DEF ReturnCacheFile, Return
<1> QED
  BY <1>1, <1>2, QuietPlaces, GoesStep, ReturnStep, Known, ZenonT(60)

(* OpenWriter keeps the invariant.                                         *)
LEMMA OpenWriterStep ==
  ASSUME IInv, NEW c \in Client, OpenWriter(c)
  PROVE  IInv'
<1>1. /\ cl[c].pc = "writer" /\ UNCHANGED Outside /\ "write" \in Pc
      /\ cl' = [cl EXCEPT ![c] = [@ EXCEPT !.pc = "write", !.h = "current"]]
  BY DEF OpenWriter, At, disk, history, Outside, Pc
<1> QED
  BY <1>1, QuietPlaces, GoesStep, Known, Zenon

(* WriteTo keeps the invariant.                                            *)
LEMMA WriteToStep ==
  ASSUME IInv, NEW c \in Client, WriteTo(c)
  PROVE  IInv'
<1>1. /\ cl[c].pc = "write" /\ UNCHANGED Outside /\ "upload" \in Pc
      /\ cl' = [cl EXCEPT ![c] = [@ EXCEPT !.pc = "upload"]]
  BY DEF WriteTo, At, Goto, disk, history, Outside, Pc
<1> QED
  BY <1>1, QuietPlaces, GoesStep, Known, Zenon

(* WriterUnref keeps the invariant.                                        *)
LEMMA WriterUnrefStep ==
  ASSUME IInv, NEW c \in Client, WriterUnref(c)
  PROVE  IInv'
<1>1. /\ cl[c].pc = "unref" /\ UNCHANGED Outside /\ "drop" \in Pc
      /\ cl' = [cl EXCEPT ![c] = [@ EXCEPT !.pc = "drop", !.h = "none"]]
  BY DEF WriterUnref, At, disk, history, Outside, Pc
<1> QED
  BY <1>1, QuietPlaces, GoesStep, Known, Zenon

(* WriterDrop keeps the invariant.                                         *)
LEMMA WriterDropStep ==
  ASSUME IInv, NEW c \in Client, WriterDrop(c)
  PROVE  IInv'
<1>1. /\ cl[c].pc = "drop" /\ UNCHANGED Outside /\ "rename" \in Pc
      /\ cl' = [Detached({cl[c].p}) EXCEPT ![c] = [@ EXCEPT !.pc = "rename"]]
  BY DEF WriterDrop, At, disk, history, Outside, Pc
<1> QED
  BY <1>1, QuietPlaces, GoesStep, Known, ZenonT(60)

(* Calls that return.                                                      *)
LEMMA Returning ==
  ASSUME IInv, NEW c \in Client,
         CloseFile(c) \/ OpenWriterFails(c) \/ CacheFileFails(c)
  PROVE  IInv'
<1>1. UNCHANGED Outside
  BY DEF CloseFile, OpenWriterFails, CacheFileFails, disk, history, Outside
<1>2. cl' = [cl EXCEPT ![c] = Idle]
  BY Zenon DEF CloseFile, OpenWriterFails, CacheFileFails, Return
<1> QED
  BY <1>1, <1>2, ReturnStep, Known, ZenonT(60)

(* CreateTempFails keeps the invariant.                                    *)
LEMMA CreateTempFailsStep ==
  ASSUME IInv, NEW c \in Client, CreateTempFails(c)
  PROVE  IInv'
<1> DEFINE x == [Idle EXCEPT !.pc = "dead"]
<1>1. UNCHANGED Outside /\ cl' = [cl EXCEPT ![c] = x]
  BY DEF CreateTempFails, disk, Outside
<1>2. x \in Call /\ x.op = "none" /\ x.p = None /\ x.pc = "dead"
  BY IdleType, ZenonT(60) DEF Idle, Call, Pc
<1> HIDE DEF x
<1>3. cl' \in [Client -> Call] /\ cl'[c] = x /\ Others(c)
  BY <1>1, <1>2, Replaced, Known, Zenon DEF Sets
<1>4. Ends(c)
  BY <1>2, <1>3 DEF Ends
<1> QED
  BY <1>1, <1>3, <1>4, EndStep, Zenon

(* A load has read the object or the file.                                 *)
LEMMA ReadsCore ==
  ASSUME IInv, NEW c \in Client, cl[c].op \in Loads, NEW pc, NEW v, Moves(c, pc, v), v # 0,
         (pc = "room" /\ v = store[cl[c].p]) \/ (pc = "using" /\ v = file[cl[c].p]),
         UNCHANGED Outside
  PROVE  Core'
<1>1. UNCHANGED <<store, file, floor, tried, torn>>
  BY ZenonT(60) DEF Outside
<1>2. FilesTypeOK /\ Core /\ Shape(c) /\ CallOK(c)
  BY Known, CallAt, Zenon
<1>3. Files' /\ \A d \in Client : Undisturbed(d)
  BY <1>1, <1>2, NothingDisturbed, Zenon DEF Core
<1>4. torn \subseteq torn' /\ Others(c) /\ Continues(c)
  BY <1>1 DEF Moves, Continues
<1>5. CASE cl[c].op = "load"
  <2>1. cl[c].p \in BlugePath
    BY <1>2, <1>5, ZenonT(60) DEF Shape
  <2>2. BlugeFile(cl[c].p)
    BY <1>2, <2>1, Zenon DEF Core, Files
  <2>3. cl'[c].op = "load" /\ cl'[c].pc = pc /\ cl'[c].p = cl[c].p /\ cl'[c].v = v /\ cl'[c].floor = cl[c].floor
    BY <1>5, ZenonT(60) DEF Moves
  <2>4. Shape(c)'
    BY <2>1, <2>3, PlacesOf, ZenonT(60) DEF Shape
  <2>5. LoadCall(c)'
    <3>1. cl[c].floor <= 1
      BY <1>2, <1>5, ZenonT(60) DEF CallOK, LoadCall
    <3>2. v = 1 \/ (pc = "using" /\ cl[c].p \in torn)
      BY <2>2, Zenon DEF BlugeFile
    <3>3. pc = "using" /\ cl[c].p \in torn => pc \notin Carrying
      BY ZenonT(60) DEF Carrying
    <3> QED
      BY <1>1, <2>3, <3>1, <3>2, <3>3, ZenonT(60) DEF LoadCall
  <2>6. PersistCall(c)' /\ LoadFileCall(c)' /\ SaveFileCall(c)' /\ RemoveCall(c)'
    BY <2>3 DEF PersistCall, LoadFileCall, SaveFileCall, RemoveCall
  <2> QED
    BY <1>2, <1>3, <1>4, <2>4, <2>5, <2>6, CoreStep, ZenonT(60) DEF CallOK
<1>6. CASE cl[c].op = "loadFile"
  <2>1. cl[c].p \in VecPath
    BY <1>2, <1>6, Zenon DEF Shape
  <2>2. VecFile(cl[c].p)
    BY <1>2, <2>1, Zenon DEF Core, Files
  <2>3. cl'[c].op = "loadFile" /\ cl'[c].pc = pc /\ cl'[c].p = cl[c].p /\ cl'[c].v = v /\ cl'[c].floor = cl[c].floor
    BY <1>6, Zenon DEF Moves
  <2>4. Shape(c)'
    BY <2>1, <2>3, PlacesOf, ZenonT(60) DEF Shape
  <2>5. LoadFileCall(c)'
    BY <1>1, <1>2, <1>6, <2>2, <2>3, Zenon DEF CallOK, LoadFileCall, VecFile
  <2>6. PersistCall(c)' /\ LoadCall(c)' /\ SaveFileCall(c)' /\ RemoveCall(c)'
    BY <2>3 DEF PersistCall, LoadCall, SaveFileCall, RemoveCall
  <2> QED
    BY <1>2, <1>3, <1>4, <2>4, <2>5, <2>6, CoreStep, ZenonT(60) DEF CallOK
<1> QED
  BY <1>5, <1>6, Zenon DEF Loads

(* A load that has read goes on.                                           *)
LEMMA ReadsStep ==
  ASSUME IInv, NEW c \in Client, cl[c].op \in Loads, NEW pc \in Pc, NEW v \in Content, v # 0,
         (pc = "room" /\ v = store[cl[c].p]) \/ (pc = "using" /\ v = file[cl[c].p]),
         cl' = [cl EXCEPT ![c] = [@ EXCEPT !.pc = pc, !.v = v]], UNCHANGED Outside
  PROVE  IInv'
<1>1. cl' \in [Client -> Call] /\ Moves(c, pc, v)
  BY GoesWithContent, Known, Zenon
<1>2. Core'
  BY <1>1, ReadsCore, Zenon
<1>3. FilesTypeOK'
  BY <1>1, Known DEF FilesTypeOK, Outside
<1> QED
  BY <1>2, <1>3, Combined

(* ReadObject keeps the invariant.                                         *)
LEMMA ReadObjectStep ==
  ASSUME IInv, NEW c \in Client, ReadObject(c)
  PROVE  IInv'
<1> DEFINE p == cl[c].p
<1>1. cl[c].pc = "read" /\ UNCHANGED Outside /\ "room" \in Pc
  BY Zenon DEF ReadObject, At, disk, history, Outside, Pc
<1>2. p \in Path /\ cl[c].op \in Loads
  BY <1>1, CallAt, ZenonT(60)
<1>3. store[p] \in Content
  BY <1>2, Known, Zenon DEF FilesTypeOK, Content
<1>4. \/ cl' = [cl EXCEPT ![c] = Idle]
      \/ store[p] # 0 /\ cl' = [cl EXCEPT ![c] = [@ EXCEPT !.pc = "room", !.v = store[p]]]
  BY Zenon DEF ReadObject, Return
<1> QED
  BY <1>1, <1>2, <1>3, <1>4, ReadsStep, ReturnStep, Known, Zenon

(* OpenFile keeps the invariant.                                           *)
LEMMA OpenFileStep ==
  ASSUME IInv, NEW c \in Client, OpenFile(c)
  PROVE  IInv'
<1> DEFINE p == cl[c].p
<1>1. cl[c].pc = "open" /\ UNCHANGED Outside /\ "using" \in Pc /\ "leave" \in Pc
  BY Zenon DEF OpenFile, At, disk, history, Outside, Pc
<1>2. p \in Path /\ cl[c].op \in Loads
  BY <1>1, CallAt, Zenon
<1>3. file[p] \in Content
  BY <1>2, Known, Zenon DEF FilesTypeOK
<1>4. \/ cl' = [cl EXCEPT ![c] = Idle]
      \/ file[p] # 0 /\ cl' = [cl EXCEPT ![c] = [@ EXCEPT !.pc = "using", !.v = file[p]]]
      \/ cl' = [cl EXCEPT ![c] = [@ EXCEPT !.pc = "leave"]]
  BY Zenon DEF OpenFile
<1>5. CASE cl' = [cl EXCEPT ![c] = Idle]
  BY <1>1, <1>5, ReturnStep, Known, Zenon
<1>6. CASE file[p] # 0 /\ cl' = [cl EXCEPT ![c] = [@ EXCEPT !.pc = "using", !.v = file[p]]]
  BY <1>1, <1>2, <1>3, <1>6, ReadsStep, Known, Zenon
<1>7. CASE cl' = [cl EXCEPT ![c] = [@ EXCEPT !.pc = "leave"]]
  BY <1>1, <1>7, QuietPlaces, GoesStep, Known, ZenonT(60)
<1> QED
  BY <1>4, <1>5, <1>6, <1>7, Zenon

-----------------------------------------------------------------------------
(* The steps that change a file or an object *)

(* Files are removed, and perhaps a bluge file is torn.                    *)
LEMMA FilesDropped ==
  ASSUME FilesTypeOK, Files, UNCHANGED <<store, floor, tried>>, \A q \in Path : file'[q] \in {0, file[q]},
         torn \subseteq torn', \A q \in VecPath : q \in torn' => q \in torn
  PROVE  Files' /\ \A d \in Client : Undisturbed(d)
<1>1. ASSUME NEW q \in BlugePath
      PROVE  BlugeFile(q)'
  <2>1. BlugeFile(q) /\ file'[q] \in {0, file[q]} /\ store' = store /\ floor' = floor
    BY <1>1, Zenon DEF Files, Path
  <2> QED
    BY <2>1 DEF BlugeFile
<1>2. ASSUME NEW q \in VecPath
      PROVE  VecFile(q)'
  <2>1. /\ VecFile(q) /\ file'[q] \in {0, file[q]} /\ store' = store /\ floor' = floor /\ tried' = tried
        /\ q \in torn' => q \in torn
    BY <1>2, Zenon DEF Files, Path
  <2> QED
    BY <2>1, Zenon DEF VecFile
<1>3. ASSUME NEW d \in Client
      PROVE  Undisturbed(d)
  BY <1>3, Zenon DEF Undisturbed, Path
<1> QED
  BY <1>1, <1>2, <1>3, ZenonT(60) DEF Files

(* EvictFiles keeps the invariant.                                         *)
LEMMA EvictFilesStep ==
  ASSUME IInv, NEW c \in Client, EvictFiles(c)
  PROVE  IInv'
<1> DEFINE pc == AfterRoom(cl[c].op)
<1>1. PICK S \in SUBSET Evictable(c) :
        /\ file' = [p \in Path |-> IF p \in S THEN 0 ELSE file[p]]
        /\ cl' = [Detached(S) EXCEPT ![c] = [@ EXCEPT !.pc = pc, !.list = {}]]
  BY Zenon DEF EvictFiles
<1>2. cl[c].pc = "evict" /\ UNCHANGED <<store, tried, floor, torn>>
  BY Zenon DEF EvictFiles, At
<1>3. Quietly(c, pc) /\ pc \in Pc
  BY <1>2, RoomLeft DEF Pc
<1> HIDE DEF pc
<1>4. cl' \in [Client -> Call] /\ Moves(c, pc, cl[c].v)
  <2>1. {} \in SUBSET (Path \X {0, 1})
    OBVIOUS
  <2> QED
    BY <1>1, <1>3, <2>1, GoesWithList, Known, Zenon
<1>5. (\A q \in Path : file'[q] \in {0, file[q]}) /\ file' \in [Path -> Content]
  BY <1>1, Known, FileCacheAssumption DEF FilesTypeOK, Content, Version
<1>6. FilesTypeOK'
  BY <1>2, <1>4, <1>5, Known, Zenon DEF FilesTypeOK
<1>7. Files' /\ \A d \in Client : Undisturbed(d)
  BY <1>2, <1>5, FilesDropped, Known, Zenon
<1>8. torn \subseteq torn' /\ Others(c) /\ Continues(c)
  BY <1>2, <1>4 DEF Moves, Continues
<1>9. Shape(c)' /\ CallOK(c)'
  BY <1>3, <1>4, <1>7, <1>8, QuietCall, CallAt, Zenon
<1>10. Core'
  BY <1>7, <1>8, <1>9, CoreStep, Known, Zenon
<1> QED
  BY <1>6, <1>10, Combined, Zenon

(* Who else has a call of the same path.                                   *)
LEMMA AloneAt ==
  ASSUME IInv, NEW c \in Client, NEW d \in Client \ {c}, cl[d].p = cl[c].p
  PROVE  /\ cl[c].op \in {"persist", "saveFile", "remove"} => cl[d].op = "load"
         /\ cl[c].p \in VecPath /\ cl[c].op \in Loads => cl[d].op \notin {"saveFile", "remove"}
<1>1. Alone /\ Shape(c)
  BY CallAt DEF IInv
<1>2. cl[c].op \in {"persist", "saveFile", "remove"} => cl[d].op = "load"
  BY <1>1, Zenon DEF Alone
<1>3. cl[d].op \in {"saveFile", "remove"} => cl[c].op = "load"
  BY <1>1, Zenon DEF Alone
<1>4. cl[c].op = "load" => cl[c].p \notin VecPath
  BY <1>1, FileCacheAssumption DEF Shape
<1> QED
  BY <1>2, <1>3, <1>4, Zenon

(* A file has got what a call carries to it.                               *)
LEMMA FileWritten ==
  ASSUME IInv, NEW c \in Client, cl[c].pc \in {"copy", "rename"}, file' = [file EXCEPT ![cl[c].p] = cl[c].v],
         UNCHANGED <<store, floor, tried, torn>>
  PROVE  Files' /\ file' \in [Path -> Content] /\ \A d \in Client \ {c} : Undisturbed(d)
<1> DEFINE p == cl[c].p
<1>1. FilesTypeOK /\ Files /\ p \in Path /\ cl[c].op \in Loads \cup {"persist", "saveFile"} /\ Shape(c) /\ CallOK(c)
  BY CallAt, Known, Zenon DEF Core
<1>2. file' \in [Path -> Content] /\ \A q \in Path : file'[q] = IF q = p THEN cl[c].v ELSE file[q]
  BY <1>1, Fields, Zenon DEF FilesTypeOK
<1>3. ASSUME NEW q \in BlugePath
      PROVE  BlugeFile(q)'
  <2>1. BlugeFile(q) /\ store' = store /\ floor' = floor /\ torn' = torn
    BY <1>1, <1>3, Zenon DEF Files
  <2>2. CASE q # p
    BY <1>2, <1>3, <2>1, <2>2, Zenon DEF BlugeFile, Path
  <2>3. CASE q = p
    <3>1. cl[c].op \in {"load", "persist"}
      BY <1>1, <1>3, <2>3, FileCacheAssumption, Zenon DEF Loads, Shape
    <3>2. cl[c].v = 1 \/ p \in torn
      <4>1. CASE cl[c].op = "load"
        BY <1>1, <4>1, PlacesOf, Zenon DEF CallOK, LoadCall, Shape, Carrying
      <4>2. CASE cl[c].op = "persist"
        BY <1>1, <4>2, Zenon DEF CallOK, PersistCall
      <4> QED
        BY <3>1, <4>1, <4>2, ZenonT(60)
    <3> QED
      BY <1>1, <1>2, <2>1, <2>3, <3>2, ZenonT(60) DEF BlugeFile
  <2> QED
    BY <2>2, <2>3, Zenon
<1>4. ASSUME NEW q \in VecPath
      PROVE  VecFile(q)'
  <2>1. VecFile(q) /\ store' = store /\ floor' = floor /\ torn' = torn /\ tried' = tried
    BY <1>1, <1>4, Zenon DEF Files
  <2>2. CASE q # p
    BY <1>2, <1>4, <2>1, <2>2, Zenon DEF VecFile, Path
  <2>3. CASE q = p
    <3>1. cl[c].op \in {"loadFile", "saveFile"}
      BY <1>1, <1>4, <2>3, FileCacheAssumption, Zenon DEF Loads, Shape
    <3>2. cl[c].v >= floor[p]
      <4>1. CASE cl[c].op = "loadFile"
        BY <1>1, <4>1, PlacesOf, ZenonT(60) DEF CallOK, LoadFileCall, Shape, Carrying
      <4>2. CASE cl[c].op = "saveFile"
        BY <1>1, <4>2, Zenon DEF CallOK, SaveFileCall
      <4> QED
        BY <3>1, <4>1, <4>2, ZenonT(60)
    <3> QED
      BY <1>1, <1>2, <2>1, <2>3, <3>2, ZenonT(60) DEF VecFile
  <2> QED
    BY <2>2, <2>3
<1>5. ASSUME NEW d \in Client \ {c}
      PROVE  Undisturbed(d)
  <2>1. cl[d].op \in {"saveFile", "remove"} /\ cl[d].p \in VecPath => cl[d].p # p
    BY <1>1, <1>5, AloneAt, Zenon DEF Loads
  <2> QED
    BY <1>2, <2>1, Zenon DEF Undisturbed, Path
<1> QED
  BY <1>2, <1>3, <1>4, <1>5, Zenon DEF Files

(* CopyAndRename keeps the invariant.                                      *)
LEMMA CopyAndRenameStep ==
  ASSUME IInv, NEW c \in Client, CopyAndRename(c)
  PROVE  IInv'
<1>1. /\ cl[c].pc = "copy" /\ file' = [file EXCEPT ![cl[c].p] = cl[c].v] /\ Goto(c, "insert")
      /\ UNCHANGED <<store, tried, floor, torn>>
  BY ZenonT(60) DEF CopyAndRename, At, history
<1>2. Quietly(c, "insert") /\ "insert" \in Pc /\ cl[c].op \in Loads
  BY <1>1, CallAt, PlacesOf, Zenon DEF Loads, Quietly, Carrying, Pc
<1>3. cl' \in [Client -> Call] /\ Moves(c, "insert", cl[c].v)
  BY <1>1, <1>2, Goes, Known, Zenon DEF Goto
<1>4. Files' /\ file' \in [Path -> Content] /\ \A d \in Client \ {c} : Undisturbed(d)
  BY <1>1, FileWritten, ZenonT(60)
<1>5. FilesTypeOK'
  BY <1>1, <1>3, <1>4, Known, Zenon DEF FilesTypeOK
<1>6. Core'
  <2>1. torn \subseteq torn' /\ Others(c) /\ Continues(c)
    BY <1>1, <1>3, ZenonT(60) DEF Moves, Continues
  <2>2. Undisturbed(c)
    BY <1>1, <1>2, Zenon DEF Undisturbed, Loads
  <2>3. Shape(c)' /\ CallOK(c)'
    BY <1>2, <1>3, <2>1, <2>2, QuietCall, CallAt, Zenon
  <2> QED
    BY <1>4, <2>1, <2>3, CoreStep, Known, Zenon
<1> QED
  BY <1>5, <1>6, Combined, ZenonT(60)

(* RenameFile keeps the invariant.                                         *)
LEMMA RenameFileStep ==
  ASSUME IInv, NEW c \in Client, RenameFile(c)
  PROVE  IInv'
<1> DEFINE p == cl[c].p
<1>1. /\ cl[c].pc = "rename" /\ file' = [file EXCEPT ![p] = cl[c].v] /\ Goto(c, "publish")
      /\ UNCHANGED <<store, tried, floor, torn>>
  BY ZenonT(60) DEF RenameFile, At, history
<1>2. "publish" \in Pc /\ p \in Path /\ cl[c].op \in {"persist", "saveFile"} /\ Shape(c) /\ CallOK(c)
  BY <1>1, CallAt DEF Pc
<1>3. cl' \in [Client -> Call] /\ Moves(c, "publish", cl[c].v)
  BY <1>1, <1>2, Goes, Known, Zenon DEF Goto
<1>4. Files' /\ file' \in [Path -> Content] /\ \A d \in Client \ {c} : Undisturbed(d)
  BY <1>1, FileWritten, ZenonT(60)
<1>5. FilesTypeOK'
  BY <1>1, <1>3, <1>4, Known, ZenonT(60) DEF FilesTypeOK
<1>6. Core'
  <2>1. torn \subseteq torn' /\ Others(c) /\ Continues(c)
    BY <1>1, <1>3, Zenon DEF Moves, Continues
  <2>2. file'[p] = cl[c].v
    BY <1>1, <1>2, Known, Zenon DEF FilesTypeOK
  <2>3. Shape(c)'
    BY <1>2, <1>3, PlacesOf, ZenonT(60) DEF Shape, Moves
  <2>4. PersistCall(c)'
    BY <1>1, <1>2, <1>3, Zenon DEF Moves, CallOK, PersistCall
  <2>5. SaveFileCall(c)'
    BY <1>1, <1>2, <1>3, <2>2, Zenon DEF Moves, CallOK, SaveFileCall
  <2>6. LoadCall(c)' /\ LoadFileCall(c)' /\ RemoveCall(c)'
    BY <1>2, <1>3, Zenon DEF Moves, LoadCall, LoadFileCall, RemoveCall
  <2> QED
    BY <1>4, <2>1, <2>3, <2>4, <2>5, <2>6, CoreStep, Known, ZenonT(60) DEF CallOK
<1> QED
  BY <1>5, <1>6, Combined, Zenon

(* An object is written, or that fails.                                    *)
LEMMA ObjectWritten ==
  ASSUME IInv, NEW c \in Client, cl[c].pc = "upload",
         store' \in {store, [store EXCEPT ![cl[c].p] = cl[c].v]}, UNCHANGED <<file, floor, tried, torn>>
  PROVE  Files' /\ store' \in [Path -> Version] /\ \A d \in Client \ {c} : Undisturbed(d)
<1> DEFINE p == cl[c].p
<1>1. FilesTypeOK /\ Files /\ p \in Path /\ cl[c].op \in {"persist", "saveFile"} /\ Shape(c) /\ CallOK(c)
  BY CallAt, Known, Zenon DEF Core
<1>2. /\ cl[c].op = "persist" => p \in BlugePath /\ cl[c].v = 1 /\ floor[p] = 0
      /\ cl[c].op = "saveFile" => p \in VecPath /\ cl[c].v = tried[p] /\ cl[c].v >= floor[p]
  BY <1>1, ZenonT(60) DEF Shape, CallOK, PersistCall, SaveFileCall
<1>3. cl[c].v \in Version
  BY <1>1, <1>2, FileCacheAssumption DEF FilesTypeOK, Version
<1>4. /\ store' \in [Path -> Version] /\ \A q \in Path \ {p} : store'[q] = store[q]
      /\ store'[p] \in {store[p], cl[c].v}
  BY <1>1, <1>3, ZenonT(60) DEF FilesTypeOK
<1>5. ASSUME NEW q \in BlugePath
      PROVE  BlugeFile(q)'
  <2>1. BlugeFile(q) /\ file' = file /\ floor' = floor /\ torn' = torn
    BY <1>1, <1>5, ZenonT(60) DEF Files
  <2>2. q = p => cl[c].v = 1 /\ floor[p] = 0
    BY <1>1, <1>2, <1>5, FileCacheAssumption, ZenonT(60)
  <2>3. q \in Path
    BY <1>5, ZenonT(60) DEF Path
  <2>4. CASE q = p
    BY <1>4, <2>1, <2>2, <2>4 DEF BlugeFile
  <2>5. CASE q # p
    BY <1>4, <2>1, <2>3, <2>5, ZenonT(60) DEF BlugeFile
  <2> QED
    BY <2>4, <2>5, Zenon
<1>6. ASSUME NEW q \in VecPath
      PROVE  VecFile(q)'
  <2>1. VecFile(q) /\ file' = file /\ floor' = floor /\ torn' = torn /\ tried' = tried
    BY <1>1, <1>6, ZenonT(60) DEF Files
  <2>2. q = p => cl[c].v >= floor[p]
    BY <1>1, <1>2, <1>6, FileCacheAssumption, ZenonT(60)
  <2>3. q \in Path
    BY <1>6, ZenonT(60) DEF Path
  <2>4. CASE q = p
    BY <1>4, <2>1, <2>2, <2>4, ZenonT(60) DEF VecFile
  <2>5. CASE q # p
    BY <1>4, <2>1, <2>3, <2>5, Zenon DEF VecFile
  <2> QED
    BY <2>4, <2>5, Zenon
<1>7. ASSUME NEW d \in Client \ {c}
      PROVE  Undisturbed(d)
  <2>1. cl[d].op = "saveFile" => cl[d].p # p
    BY <1>1, <1>7, AloneAt, ZenonT(60)
  <2>2. cl[d].op = "saveFile" => cl[d].p \in Path
    BY <1>7, CallAt, ZenonT(60) DEF Shape, Path
  <2> QED
    BY <1>4, <2>1, <2>2, ZenonT(60) DEF Undisturbed
<1> QED
  BY <1>4, <1>5, <1>6, <1>7, ZenonT(60) DEF Files

(* Upload keeps the invariant.                                             *)
LEMMA UploadStep ==
  ASSUME IInv, NEW c \in Client, Upload(c)
  PROVE  IInv'
<1> DEFINE p == cl[c].p
           pc == IF cl[c].op = "persist" THEN "unref" ELSE "room"
<1>1. /\ cl[c].pc = "upload" /\ store' = [store EXCEPT ![p] = cl[c].v] /\ Goto(c, pc)
      /\ UNCHANGED <<file, tried, floor, torn>>
  BY Zenon DEF Upload, At, history
<1>2. pc \in Pc /\ pc \in {"unref", "room"}
  BY ZenonT(60) DEF Pc
<1>3. p \in Path /\ cl[c].op \in {"persist", "saveFile"} /\ Shape(c) /\ CallOK(c)
  BY <1>1, CallAt, Zenon
<1>4. cl' \in [Client -> Call] /\ Moves(c, pc, cl[c].v)
  BY <1>1, <1>2, Goes, Known, ZenonT(60) DEF Goto
<1>5. Files' /\ store' \in [Path -> Version] /\ \A d \in Client \ {c} : Undisturbed(d)
  BY <1>1, ObjectWritten, Zenon
<1>6. FilesTypeOK'
  BY <1>1, <1>4, <1>5, Known, ZenonT(60) DEF FilesTypeOK
<1>7. Core'
  <2>1. torn \subseteq torn' /\ Others(c) /\ Continues(c)
    BY <1>1, <1>4, Zenon DEF Moves, Continues
  <2>2. store'[p] = cl[c].v
    BY <1>1, <1>3, Known, ZenonT(60) DEF FilesTypeOK
  <2>3. Shape(c)'
    <3>1. pc \in Places(cl[c].op)
      BY <1>3, PlacesOf, Zenon
    <3> HIDE DEF pc
    <3> QED
      BY <1>3, <1>4, <3>1, ZenonT(60) DEF Shape, Moves
  <2>4. PersistCall(c)'
    BY <1>1, <1>3, <1>4, Zenon DEF Moves, CallOK, PersistCall
  <2>5. SaveFileCall(c)'
    BY <1>1, <1>3, <1>4, <2>2, ZenonT(60) DEF Moves, CallOK, SaveFileCall
  <2>6. LoadCall(c)' /\ LoadFileCall(c)' /\ RemoveCall(c)'
    BY <1>3, <1>4, Zenon DEF Moves, LoadCall, LoadFileCall, RemoveCall
  <2> QED
    BY <1>5, <2>1, <2>3, <2>4, <2>5, <2>6, CoreStep, Known, Zenon DEF CallOK
<1> QED
  BY <1>6, <1>7, Combined

(* Persist has failed and goes on to close its file.                       *)
LEMMA FailedPersist ==
  ASSUME IInv, NEW c \in Client, cl[c].op = "persist", Others(c), Files', \A d \in Client \ {c} : Undisturbed(d),
         torn \subseteq torn', floor' = floor, cl'[c].op = "persist", cl'[c].p = cl[c].p, cl'[c].pc = "unref",
         cl'[c].v = 1 \/ (cl[c].p \in torn' /\ cl'[c].ok = FALSE)
  PROVE  Core'
<1>1. Shape(c) /\ CallOK(c)
  BY CallAt, Zenon
<1>2. Shape(c)'
  BY <1>1, PlacesOf, ZenonT(60) DEF Shape
<1>3. PersistCall(c)'
  BY <1>1, Zenon DEF CallOK, PersistCall
<1>4. LoadCall(c)' /\ LoadFileCall(c)' /\ SaveFileCall(c)' /\ RemoveCall(c)'
  BY Zenon DEF LoadCall, LoadFileCall, SaveFileCall, RemoveCall
<1>5. Continues(c)
  BY Zenon DEF Continues
<1> QED
  BY <1>2, <1>3, <1>4, <1>5, CoreStep, Known, ZenonT(60) DEF CallOK

(* UploadFails keeps the invariant.                                        *)
LEMMA UploadFailsStep ==
  ASSUME IInv, NEW c \in Client, UploadFails(c)
  PROVE  IInv'
<1>1. /\ cl[c].pc = "upload" /\ store' \in {store, [store EXCEPT ![cl[c].p] = cl[c].v]}
      /\ UNCHANGED <<file, tried, floor, torn>>
  BY Zenon DEF UploadFails, At
<1>2. Shape(c) /\ CallOK(c) /\ cl[c] \in Call
  BY CallAt, Fields, Known, ZenonT(60)
<1>3. Files' /\ store' \in [Path -> Version] /\ \A d \in Client \ {c} : Undisturbed(d)
  BY <1>1, ObjectWritten, ZenonT(60)
<1>4. CASE cl[c].op = "persist"
  <2> DEFINE x == [cl[c] EXCEPT !.pc = "unref", !.ok = FALSE]
  <2>1. cl' = [cl EXCEPT ![c] = x]
    BY <1>4, Zenon DEF UploadFails
  <2>2. x \in Call /\ x.pc = "unref" /\ x.op = cl[c].op /\ x.p = cl[c].p /\ x.v = cl[c].v
    BY <1>2, ZenonT(60) DEF Call, Pc
  <2> HIDE DEF x
  <2>3. cl' \in [Client -> Call] /\ cl'[c] = x /\ Others(c)
    BY <2>1, <2>2, Replaced, Known, Zenon DEF Sets
  <2>4. FilesTypeOK'
    BY <1>1, <1>3, <2>3, Known, Zenon DEF FilesTypeOK
  <2>5. cl[c].v = 1
    BY <1>1, <1>2, <1>4, Zenon DEF CallOK, PersistCall
  <2>6. cl'[c].op = "persist" /\ cl'[c].p = cl[c].p /\ cl'[c].pc = "unref" /\ cl'[c].v = 1
    BY <1>4, <2>2, <2>3, <2>5, ZenonT(60)
  <2>7. torn \subseteq torn' /\ floor' = floor
    BY <1>1
  <2>8. Core'
    BY <1>3, <1>4, <2>3, <2>6, <2>7, FailedPersist, ZenonT(60)
  <2> QED
    BY <2>4, <2>8, Combined
<1>5. CASE cl[c].op # "persist"
  <2>1. cl' \in [Client -> Call] /\ Ends(c)
    BY <1>5, Returns, Known, ZenonT(60) DEF UploadFails, Return
  <2>2. FilesTypeOK'
    BY <1>1, <1>3, <2>1, Known, ZenonT(60) DEF FilesTypeOK
  <2>3. torn \subseteq torn' /\ Others(c)
    BY <1>1, <2>1, Zenon DEF Ends
  <2>4. Core'
    BY <1>3, <2>1, <2>3, EndedCall, CoreStep, Known, ZenonT(60)
  <2> QED
    BY <2>2, <2>4, Combined
<1> QED
  BY <1>4, <1>5, Zenon

(* WriteToFails keeps the invariant.                                       *)
LEMMA WriteToFailsStep ==
  ASSUME IInv, NEW c \in Client, WriteToFails(c)
  PROVE  IInv'
<1> DEFINE p == cl[c].p
           x == [Detached({p})[c] EXCEPT !.pc = "unref", !.v = Torn, !.ok = FALSE]
<1>1. /\ cl[c].pc = "write" /\ file' = [file EXCEPT ![p] = 0] /\ torn' = torn \cup {p}
      /\ cl' = [Detached({p}) EXCEPT ![c] = x] /\ store' = store /\ tried' = tried /\ floor' = floor
  BY Zenon DEF WriteToFails, At
<1>2. cl[c].op = "persist" /\ p \in BlugePath /\ p \in Path
  BY <1>1, CallAt, ZenonT(60) DEF Shape, Path
<1>3. Detached({p})[c] \in Call /\ Detached({p})[c].op = cl[c].op /\ Detached({p})[c].p = p
  BY Known, ZenonT(60) DEF AsBefore
<1>4. x \in Call /\ x.pc = "unref" /\ x.op = "persist" /\ x.p = p /\ x.ok = FALSE
  BY <1>2, <1>3, ZenonT(60) DEF Call, Pc, Content
<1> HIDE DEF x
<1>5. cl' \in [Client -> Call] /\ cl'[c] = x /\ Others(c)
  BY <1>1, <1>4, Replaced, Known, Zenon DEF Sets
<1>6. /\ file' \in [Path -> Content] /\ torn' \subseteq Path
      /\ \A q \in Path : file'[q] \in {0, file[q]}
  BY <1>1, <1>2, Known, FileCacheAssumption DEF FilesTypeOK, Content, Version
<1>7. FilesTypeOK'
  BY <1>1, <1>5, <1>6, Known, ZenonT(60) DEF FilesTypeOK
<1>8. torn \subseteq torn' /\ p \in torn' /\ \A q \in VecPath : q \in torn' => q \in torn
  BY <1>1, <1>2, FileCacheAssumption, Zenon
<1>9. Files' /\ \A d \in Client : Undisturbed(d)
  BY <1>1, <1>6, <1>8, FilesDropped, Known, ZenonT(60)
<1>10. cl'[c].op = "persist" /\ cl'[c].p = p /\ cl'[c].pc = "unref" /\ cl'[c].ok = FALSE
  BY <1>4, <1>5, Zenon
<1>11. Core'
  BY <1>1, <1>2, <1>5, <1>8, <1>9, <1>10, FailedPersist, ZenonT(60)
<1> QED
  BY <1>7, <1>11, Combined

(* RemoveCached keeps the invariant.                                       *)
LEMMA RemoveCachedStep ==
  ASSUME IInv, NEW c \in Client, RemoveCached(c)
  PROVE  IInv'
<1> DEFINE p == cl[c].p
<1>1. /\ cl[c].pc = "uncache" /\ file' = [file EXCEPT ![p] = 0]
      /\ cl' = [Detached({p}) EXCEPT ![c] = [@ EXCEPT !.pc = "delete"]]
      /\ store' = store /\ tried' = tried /\ floor' = floor /\ torn' = torn
  BY Zenon DEF RemoveCached, At
<1>2. p \in Path /\ cl[c].op = "remove" /\ Shape(c) /\ "delete" \in Pc
  BY <1>1, CallAt, Zenon DEF Pc
<1>3. cl' \in [Client -> Call] /\ Moves(c, "delete", cl[c].v)
  BY <1>1, <1>2, Goes, Known, ZenonT(60)
<1>4. file' \in [Path -> Content] /\ file'[p] = 0 /\ \A q \in Path : file'[q] \in {0, file[q]}
  BY <1>1, <1>2, Known, FileCacheAssumption DEF FilesTypeOK, Content, Version
<1>5. FilesTypeOK'
  BY <1>1, <1>3, <1>4, Known, ZenonT(60) DEF FilesTypeOK
<1>6. torn \subseteq torn'
  BY <1>1, Zenon
<1>7. Files' /\ \A d \in Client : Undisturbed(d)
  BY <1>1, <1>4, <1>6, FilesDropped, Known, ZenonT(60)
<1>8. Others(c) /\ Continues(c) /\ cl'[c].op = "remove" /\ cl'[c].pc = "delete" /\ cl'[c].p = p
  BY <1>2, <1>3, ZenonT(60) DEF Moves, Continues
<1>9. Shape(c)'
  BY <1>2, <1>8, PlacesOf, Zenon DEF Shape
<1>10. CallOK(c)'
  BY <1>4, <1>8, ZenonT(60) DEF CallOK, LoadCall, PersistCall, LoadFileCall, SaveFileCall, RemoveCall
<1>11. Core'
  BY <1>6, <1>7, <1>8, <1>9, <1>10, CoreStep, Known, ZenonT(60)
<1> QED
  BY <1>5, <1>11, Combined

(* RemoveCachedFails keeps the invariant.                                  *)
LEMMA RemoveCachedFailsStep ==
  ASSUME IInv, NEW c \in Client, RemoveCachedFails(c)
  PROVE  IInv'
<1> DEFINE p == cl[c].p
<1>1. /\ file' = file \/ file' = [file EXCEPT ![p] = 0]
      /\ cl' = [Detached({p}) EXCEPT ![c] = Idle]
      /\ store' = store /\ tried' = tried /\ floor' = floor /\ torn' = torn
  BY DEF RemoveCachedFails
<1>2. cl' \in [Client -> Call] /\ Ends(c)
  BY <1>1, Returns, Known, ZenonT(60)
<1>3. file' \in [Path -> Content] /\ \A q \in Path : file'[q] \in {0, file[q]}
  BY <1>1, Known, FileCacheAssumption DEF FilesTypeOK, Content, Version
<1>4. FilesTypeOK'
  BY <1>1, <1>2, <1>3, Known, Zenon DEF FilesTypeOK
<1>5. torn \subseteq torn' /\ Others(c)
  BY <1>1, <1>2, Zenon DEF Ends
<1>6. Files' /\ \A d \in Client : Undisturbed(d)
  BY <1>1, <1>3, <1>5, FilesDropped, Known, ZenonT(60)
<1>7. Core'
  BY <1>2, <1>5, <1>6, EndedCall, CoreStep, Known, ZenonT(60)
<1> QED
  BY <1>4, <1>7, Combined

(* The object and the floor of one path change, and its only writer ends.  *)
LEMMA WriterEnds ==
  ASSUME IInv, NEW c \in Client, cl[c].op \in {"persist", "saveFile", "remove"}, Ends(c), Files',
         \A q \in Path \ {cl[c].p} : store'[q] = store[q] /\ floor'[q] = floor[q],
         UNCHANGED <<file, tried, torn>>
  PROVE  Core'
<1>1. ASSUME NEW d \in Client \ {c}
      PROVE  Undisturbed(d)
  <2>1. cl[d].op # "load" => cl[d].p # cl[c].p
    BY <1>1, AloneAt, Zenon
  <2>2. cl[d].op \in {"persist", "loadFile", "saveFile"} => cl[d].p \in Path
    BY <1>1, CallAt, ZenonT(60) DEF Shape, Path
  <2> QED
    BY <2>1, <2>2, Zenon DEF Undisturbed
<1>2. torn \subseteq torn' /\ Others(c)
  BY Zenon DEF Ends
<1> QED
  BY <1>1, <1>2, EndedCall, CoreStep, Known, ZenonT(60)

(* The object is removed, or that fails.                                   *)
LEMMA ObjectRemoved ==
  ASSUME IInv, NEW c \in Client, cl[c].pc = "delete",
         \/ store' = [store EXCEPT ![cl[c].p] = 0] /\ floor' = [floor EXCEPT ![cl[c].p] = tried[cl[c].p] + 1]
         \/ store' \in {store, [store EXCEPT ![cl[c].p] = 0]} /\ floor' = floor,
         UNCHANGED <<file, tried, torn>>
  PROVE  /\ Files' /\ store' \in [Path -> Version] /\ floor' \in [Path -> 0 .. MaxVer + 1]
         /\ \A q \in Path \ {cl[c].p} : store'[q] = store[q] /\ floor'[q] = floor[q]
<1> DEFINE p == cl[c].p
<1>1. FilesTypeOK /\ Files /\ p \in Path /\ cl[c].op = "remove" /\ CallOK(c)
  BY CallAt, Known, ZenonT(60) DEF Core
<1>2. /\ store' \in [Path -> Version] /\ floor' \in [Path -> 0 .. MaxVer + 1]
      /\ \A q \in Path \ {p} : store'[q] = store[q] /\ floor'[q] = floor[q]
      /\ (store'[p] = 0 /\ floor'[p] = tried[p] + 1) \/ (store'[p] \in {0, store[p]} /\ floor'[p] = floor[p])
  BY <1>1, FileCacheAssumption DEF FilesTypeOK, Version
<1>3. ASSUME NEW q \in BlugePath
      PROVE  BlugeFile(q)'
  <2>1. BlugeFile(q) /\ file' = file /\ torn' = torn /\ q \in Path
    BY <1>1, <1>3, Zenon DEF Files, Path
  <2>2. CASE q = p
    BY <1>2, <2>1, <2>2, ZenonT(60) DEF BlugeFile
  <2>3. CASE q # p
    BY <1>2, <2>1, <2>3, ZenonT(60) DEF BlugeFile
  <2> QED
    BY <2>2, <2>3, ZenonT(60)
<1>4. ASSUME NEW q \in VecPath
      PROVE  VecFile(q)'
  <2>1. VecFile(q) /\ file' = file /\ torn' = torn /\ tried' = tried /\ q \in Path /\ tried[q] \in Int
    <3>1. VecFile(q) /\ q \in Path /\ tried \in [Path -> Version]
      BY <1>1, <1>4, Zenon DEF Files, Path, FilesTypeOK
    <3>2. tried[q] \in Version
      BY <3>1, Zenon
    <3>3. \A n \in Version : n \in Int
      BY FileCacheAssumption DEF Version
    <3> QED
      BY <3>1, <3>2, <3>3, Zenon
  <2>2. CASE q = p
    <3>1. file[q] = 0
      BY <1>1, <1>4, <2>2, ZenonT(60) DEF CallOK, RemoveCall
    <3> QED
      BY <1>2, <2>1, <2>2, <3>1 DEF VecFile
  <2>3. CASE q # p
    BY <1>2, <2>1, <2>3, Zenon DEF VecFile
  <2> QED
    BY <2>2, <2>3, Zenon
<1> QED
  BY <1>2, <1>3, <1>4, ZenonT(60) DEF Files

(* RemoveObject keeps the invariant.                                       *)
LEMMA RemoveObjectStep ==
  ASSUME IInv, NEW c \in Client, RemoveObject(c) \/ RemoveObjectFails(c)
  PROVE  IInv'
<1>1. cl[c].pc = "delete" /\ cl' = [cl EXCEPT ![c] = Idle] /\ UNCHANGED <<file, tried, torn>>
  BY ZenonT(60) DEF RemoveObject, RemoveObjectFails, At, Return
<1>2. \/ store' = [store EXCEPT ![cl[c].p] = 0] /\ floor' = [floor EXCEPT ![cl[c].p] = tried[cl[c].p] + 1]
      \/ store' \in {store, [store EXCEPT ![cl[c].p] = 0]} /\ floor' = floor
  BY Zenon DEF RemoveObject, RemoveObjectFails
<1>3. /\ Files' /\ store' \in [Path -> Version] /\ floor' \in [Path -> 0 .. MaxVer + 1]
      /\ \A q \in Path \ {cl[c].p} : store'[q] = store[q] /\ floor'[q] = floor[q]
  BY <1>1, <1>2, ObjectRemoved, Zenon
<1>4. cl' \in [Client -> Call] /\ Ends(c)
  BY <1>1, Returns, Known, Zenon
<1>5. FilesTypeOK'
  BY <1>1, <1>3, <1>4, Known, ZenonT(60) DEF FilesTypeOK
<1>6. cl[c].op \in {"persist", "saveFile", "remove"}
  BY <1>1, CallAt, ZenonT(60)
<1>7. Core'
  BY <1>1, <1>3, <1>4, <1>6, WriterEnds, ZenonT(60)
<1> QED
  BY <1>5, <1>7, Combined, ZenonT(60)

(* The versions are ordered as their numbers are.                          *)
LEMMA VersionOrder == \A n \in 0 .. MaxVer : n <= n + 1 /\ n >= n
BY FileCacheAssumption

(* The version that a load must show is raised to the one that was saved.  *)
LEMMA FloorRaised ==
  ASSUME IInv, NEW c \in Client, cl[c].pc \in {"rename", "publish"},
         \/ floor' = floor
         \/ /\ floor' = [floor EXCEPT ![cl[c].p] = cl[c].v] /\ cl[c].ok
            /\ cl[c].op = "persist" \/ cl[c].pc = "publish",
         UNCHANGED <<store, file, tried, torn>>
  PROVE  /\ Files' /\ floor' \in [Path -> 0 .. MaxVer + 1]
         /\ \A q \in Path \ {cl[c].p} : store'[q] = store[q] /\ floor'[q] = floor[q]
<1> DEFINE p == cl[c].p
<1>1. FilesTypeOK /\ Files /\ p \in Path /\ cl[c].op \in {"persist", "saveFile"} /\ Shape(c) /\ CallOK(c)
  BY CallAt, Known, ZenonT(60) DEF Core
<1>2. CASE floor' = floor
  BY <1>1, <1>2, NothingDisturbed, Zenon DEF FilesTypeOK
<1>3. CASE /\ floor' = [floor EXCEPT ![p] = cl[c].v] /\ cl[c].ok
           /\ cl[c].op = "persist" \/ cl[c].pc = "publish"
  <2>1. /\ cl[c].op = "persist" => p \in BlugePath /\ cl[c].v = 1
        /\ cl[c].op = "saveFile" =>
             p \in VecPath /\ cl[c].v = tried[p] /\ store[p] = cl[c].v /\ file[p] \in {0, cl[c].v}
    BY <1>1, <1>3, ZenonT(60) DEF Shape, CallOK, PersistCall, SaveFileCall
  <2>2. cl[c].v \in 0 .. MaxVer
    <3>1. tried[p] \in 0 .. MaxVer
      BY <1>1, Zenon DEF FilesTypeOK, Version
    <3>2. 1 \in 0 .. MaxVer
      BY FileCacheAssumption
    <3> QED
      BY <1>1, <2>1, <3>1, <3>2, Zenon
  <2>3. /\ floor' \in [Path -> 0 .. MaxVer + 1] /\ floor'[p] = cl[c].v
        /\ \A q \in Path \ {p} : store'[q] = store[q] /\ floor'[q] = floor[q]
    <3>1. floor \in [Path -> 0 .. MaxVer + 1]
      BY <1>1, Zenon DEF FilesTypeOK
    <3>2. cl[c].v \in 0 .. MaxVer + 1
      BY <2>2, FileCacheAssumption
    <3> QED
      BY <1>1, <1>3, <3>1, <3>2, Zenon
  <2>4. ASSUME NEW q \in BlugePath
        PROVE  BlugeFile(q)'
    <3>1. BlugeFile(q) /\ store' = store /\ file' = file /\ torn' = torn /\ q \in Path
      BY <1>1, <2>4, Zenon DEF Files, Path
    <3>2. q = p => cl[c].v = 1
      BY <1>1, <2>1, <2>4, FileCacheAssumption, ZenonT(60)
    <3>3. CASE q = p
      BY <2>3, <3>1, <3>2, <3>3 DEF BlugeFile
    <3>4. CASE q # p
      BY <2>3, <3>1, <3>4, ZenonT(60) DEF BlugeFile
    <3> QED
      BY <3>3, <3>4, ZenonT(60)
  <2>5. ASSUME NEW q \in VecPath
        PROVE  VecFile(q)'
    <3>1. VecFile(q) /\ store' = store /\ file' = file /\ torn' = torn /\ tried' = tried /\ q \in Path
      BY <1>1, <2>5, Zenon DEF Files, Path
    <3>2. q = p => cl[c].v = tried[p] /\ store[p] = cl[c].v /\ file[p] \in {0, cl[c].v}
      BY <1>1, <2>1, <2>5, FileCacheAssumption, ZenonT(60)
    <3>3. CASE q = p
      <4>1. cl[c].v <= cl[c].v + 1 /\ cl[c].v >= cl[c].v
        BY <2>2, VersionOrder, Zenon
      <4> QED
        BY <2>3, <3>1, <3>2, <3>3, <4>1, Zenon DEF VecFile
    <3>4. CASE q # p
      BY <2>3, <3>1, <3>4, ZenonT(60) DEF VecFile
    <3> QED
      BY <3>3, <3>4, Zenon
  <2> QED
    BY <2>3, <2>4, <2>5, Zenon DEF Files
<1> QED
  BY <1>2, <1>3, Zenon

(* Publish keeps the invariant.                                            *)
LEMMA PublishStep ==
  ASSUME IInv, NEW c \in Client, PublishFile(c) \/ PublishFails(c)
  PROVE  IInv'
<1> DEFINE p == cl[c].p
<1>1. cl[c].pc \in {"rename", "publish"} /\ UNCHANGED <<store, file, tried, torn>>
  BY DEF PublishFile, PublishFails, At, disk
<1>2. cl' = [cl EXCEPT ![c] = Idle] \/ cl' = [Detached({p}) EXCEPT ![c] = Idle]
  BY Zenon DEF PublishFile, PublishFails, Return
<1>3. \/ floor' = floor
      \/ /\ floor' = [floor EXCEPT ![p] = cl[c].v] /\ cl[c].ok
         /\ cl[c].op = "persist" \/ cl[c].pc = "publish"
  BY Zenon DEF PublishFile, PublishFails, At
<1>4. /\ Files' /\ floor' \in [Path -> 0 .. MaxVer + 1]
      /\ \A q \in Path \ {p} : store'[q] = store[q] /\ floor'[q] = floor[q]
  BY <1>1, <1>3, FloorRaised, ZenonT(60)
<1>5. cl' \in [Client -> Call] /\ Ends(c)
  BY <1>2, Returns, Known, Zenon
<1>6. FilesTypeOK'
  BY <1>1, <1>4, <1>5, Known, ZenonT(60) DEF FilesTypeOK
<1>7. cl[c].op \in {"persist", "saveFile", "remove"}
  BY <1>1, CallAt, ZenonT(60)
<1>8. Core'
  BY <1>1, <1>4, <1>5, <1>7, WriterEnds, ZenonT(60)
<1> QED
  BY <1>6, <1>8, Combined, Zenon

-----------------------------------------------------------------------------
(* Beginnings *)

\* The call of c has begun.
Begun(c, op, p, pc, v) ==
  /\ cl'[c].op = op /\ cl'[c].p = p /\ cl'[c].pc = pc /\ cl'[c].v = v /\ cl'[c].floor = floor[p]
  /\ Others(c)

(* A call that begins is the only thing that changes.                      *)
LEMMA Begins ==
  ASSUME IInv, NEW c \in Client, NEW op \in {"load", "loadFile", "persist", "saveFile", "remove"}, NEW p \in Path,
         NEW pc \in Pc, NEW v \in Content, Begin(c, op, p, pc, v)
  PROVE  cl' \in [Client -> Call] /\ Begun(c, op, p, pc, v) /\ cl[c].pc = "idle"
<1> DEFINE x == [Idle EXCEPT !.pc = pc, !.op = op, !.p = p, !.v = v, !.floor = floor[p]]
<1>1. cl[c].pc = "idle" /\ cl' = [cl EXCEPT ![c] = x]
  BY Zenon DEF Begin, At
<1>2. floor[p] \in 0 .. MaxVer + 1
  BY Known DEF FilesTypeOK
<1>3. x \in Call /\ x.op = op /\ x.p = p /\ x.pc = pc /\ x.v = v /\ x.floor = floor[p]
  BY <1>2, IdleType, ZenonT(60) DEF Call
<1> HIDE DEF x
<1>5. cl' \in [Client -> Call] /\ cl'[c] = x /\ Others(c)
  BY <1>1, <1>3, Replaced, Known, Zenon DEF Sets
<1> QED
  BY <1>1, <1>3, <1>5, Zenon DEF Begun

(* A call may begin beside those that it or they can bear.                 *)
LEMMA BeginCore ==
  ASSUME IInv, NEW c \in Client, NEW op, NEW p \in Path, NEW pc, NEW v, Begun(c, op, p, pc, v), torn' = torn,
         op \in {"persist", "saveFile", "remove"} =>
           \A d \in Client \ {c} : cl[d].p = p => cl[d].op = "load",
         op # "load" =>
           \A d \in Client \ {c} : cl[d].p = p => cl[d].op \notin {"persist", "saveFile", "remove"},
         \A d \in Client \ {c} : Undisturbed(d), Shape(c)', CallOK(c)', Files'
  PROVE  Core'
<1>1. Alone /\ \A d \in Client : Shape(d) /\ CallOK(d)
  BY CallAt, Zenon DEF IInv
<1>2. ASSUME NEW d \in Client \ {c}
      PROVE  cl'[d].op = cl[d].op /\ cl'[d].p = cl[d].p
  BY <1>2, Zenon DEF Begun, Others, Kept
<1>3. cl'[c].op = op /\ cl'[c].p = p
  BY ZenonT(60) DEF Begun
<1>4. Alone'
  <2> SUFFICES ASSUME NEW a \in Client, NEW d \in Client, a # d, cl'[a].p = cl'[d].p,
                      cl'[a].op \in {"persist", "saveFile", "remove"}
               PROVE  cl'[d].op = "load"
    BY Zenon DEF Alone
  <2>1. CASE a = c
    <3>1. op \in {"persist", "saveFile", "remove"} /\ cl[d].p = p /\ cl'[d].op = cl[d].op
      BY <1>2, <1>3, <2>1, Zenon
    <3> QED
      BY <2>1, <3>1, Zenon
  <2>2. CASE d = c
    <3>1. cl[a].op \in {"persist", "saveFile", "remove"} /\ cl[a].p = p
      BY <1>2, <1>3, <2>2, Zenon
    <3>2. op = "load"
      BY <2>2, <3>1, Zenon
    <3> QED
      BY <1>3, <2>2, <3>2, Zenon
  <2>3. CASE a # c /\ d # c
    <3>1. cl[a].op \in {"persist", "saveFile", "remove"} /\ cl[a].p = cl[d].p /\ cl'[d].op = cl[d].op
      BY <1>2, <2>3, Zenon
    <3> QED
      BY <1>1, <3>1, Zenon DEF Alone
  <2> QED
    BY <2>1, <2>2, <2>3, Zenon
<1>5. torn \subseteq torn' /\ Others(c)
  BY DEF Begun
<1>6. ASSUME NEW d \in Client \ {c}
      PROVE  Shape(d)' /\ CallOK(d)'
  BY <1>1, <1>5, <1>6, KeptShape, KeptCall, ZenonT(60) DEF Others
<1>7. Calls'
  BY <1>6, ZenonT(60) DEF Calls, CallOK
<1> QED
  BY <1>4, <1>7, ZenonT(60) DEF Core

(* Whose calls a path has.                                                 *)
LEMMA OpsAt ==
  ASSUME IInv, NEW d \in Client
  PROVE  /\ cl[d].p \in BlugePath => cl[d].op \in {"load", "persist", "remove"}
         /\ cl[d].p \in VecPath => cl[d].op \in {"loadFile", "saveFile", "remove"}
<1>1. Shape(d)
  BY CallAt, Zenon
<1>2. cl[d].op \in {"none", "load", "loadFile", "persist", "saveFile", "remove"}
  BY Fields, Known, ZenonT(60)
<1> QED
  BY <1>1, <1>2, FileCacheAssumption, ZenonT(60) DEF Shape, Path

(* BeginLoad keeps the invariant.                                          *)
LEMMA BeginLoadStep ==
  ASSUME IInv, NEW c \in Client, NEW p \in Path, BeginLoad(c, p)
  PROVE  IInv'
<1> DEFINE op == IF p \in VecPath THEN "loadFile" ELSE "load"
<1>1. /\ store[p] # 0 /\ (p \in VecPath => ~Busy(p, {"saveFile", "remove"})) /\ Begin(c, op, p, "get", 0)
      /\ UNCHANGED <<store, file, tried, floor, torn>>
  BY Zenon DEF BeginLoad, disk, cache, history
<1>2. op \in {"load", "loadFile", "persist", "saveFile", "remove"} /\ "get" \in Pc /\ 0 \in Content
  BY FileCacheAssumption DEF Pc, Content, Version
<1>3. (op = "load" /\ p \in BlugePath) \/ (op = "loadFile" /\ p \in VecPath)
  BY DEF Path
<1> HIDE DEF op
<1>4. cl' \in [Client -> Call] /\ Begun(c, op, p, "get", 0) /\ cl[c].pc = "idle"
  BY <1>1, <1>2, Begins, Zenon
<1>5. FilesTypeOK'
  BY <1>1, <1>4, Known, Zenon DEF FilesTypeOK
<1>6. Core'
  <2>1. Files' /\ \A d \in Client : Undisturbed(d)
    BY <1>1, NothingDisturbed, Known, Zenon DEF Core
  <2>2. cl'[c].op = op /\ cl'[c].p = p /\ cl'[c].pc = "get" /\ cl'[c].floor = floor[p]
    BY <1>4, Zenon DEF Begun
  <2>3. Shape(c)'
    BY <1>3, <2>2, PlacesOf, ZenonT(60) DEF Shape
  <2>4. op = "load" => floor[p] <= 1
    BY <1>1, <1>3, Known, Zenon DEF Core, Files, BlugeFile
  <2>5. CallOK(c)'
    <3>1. cl'[c].op \notin {"persist", "saveFile", "remove"}
      BY <1>3, <2>2, ZenonT(60)
    <3>2. PersistCall(c)' /\ SaveFileCall(c)' /\ RemoveCall(c)'
      BY <3>1, Zenon DEF PersistCall, SaveFileCall, RemoveCall
    <3>3. LoadCall(c)'
      BY <2>2, <2>4, ZenonT(60) DEF LoadCall, Carrying
    <3>4. floor'[cl'[c].p] = cl'[c].floor /\ cl'[c].pc \notin Carrying \cup {"using"}
      BY <1>1, <2>2, Zenon DEF Carrying
    <3>5. LoadFileCall(c)'
      BY <3>4, Zenon DEF LoadFileCall, Carrying
    <3> QED
      BY <3>2, <3>3, <3>5, Zenon DEF CallOK
  <2>6. op # "load" => \A d \in Client \ {c} : cl[d].p = p => cl[d].op \notin {"persist", "saveFile", "remove"}
    BY <1>1, <1>3, OpsAt, ZenonT(60) DEF Busy
  <2>7. op \notin {"persist", "saveFile", "remove"} /\ torn' = torn
    BY <1>1, <1>3, ZenonT(60)
  <2> QED
    BY <1>4, <2>1, <2>3, <2>5, <2>6, <2>7, BeginCore, ZenonT(60)
<1> QED
  BY <1>5, <1>6, Combined, ZenonT(60)

(* BeginPersist keeps the invariant.                                       *)
LEMMA BeginPersistStep ==
  ASSUME IInv, NEW c \in Client, NEW p \in Path, BeginPersist(c, p)
  PROVE  IInv'
<1>1. /\ p \in BlugePath /\ floor[p] = 0 /\ ~Busy(p, {"persist", "remove"}) /\ Begin(c, "persist", p, "room", 1)
      /\ tried' = [tried EXCEPT ![p] = 1]
      /\ UNCHANGED <<store, file, floor, torn>>
  BY Zenon DEF BeginPersist, disk, cache
<1>2. "room" \in Pc /\ 1 \in Content /\ 1 \in Version
  BY FileCacheAssumption DEF Pc, Content, Version
<1>3. cl' \in [Client -> Call] /\ Begun(c, "persist", p, "room", 1) /\ cl[c].pc = "idle"
  BY <1>1, <1>2, Begins, ZenonT(60)
<1>4. FilesTypeOK'
  BY <1>1, <1>2, <1>3, Known, Zenon DEF FilesTypeOK
<1>5. Core'
  <2>1. Files
    BY Known, ZenonT(60) DEF Core
  <2>2. \A q \in VecPath : tried'[q] = tried[q]
    BY <1>1, Known, FileCacheAssumption, ZenonT(60) DEF FilesTypeOK, Path
  <2>3. ASSUME NEW q \in BlugePath
        PROVE  BlugeFile(q)'
    BY <1>1, <2>1, <2>3, ZenonT(60) DEF Files, BlugeFile
  <2>4. ASSUME NEW q \in VecPath
        PROVE  VecFile(q)'
    <3>1. VecFile(q) /\ tried'[q] = tried[q] /\ store' = store /\ file' = file /\ floor' = floor /\ torn' = torn
      BY <1>1, <2>1, <2>2, <2>4, ZenonT(60) DEF Files
    <3> QED
      BY <3>1, Zenon DEF VecFile
  <2>5. ASSUME NEW d \in Client \ {c}
        PROVE  Undisturbed(d)
    <3>1. cl[d].op = "saveFile" => cl[d].p \in VecPath
      BY <2>5, CallAt, Zenon DEF Shape
    <3> QED
      BY <1>1, <2>2, <3>1, ZenonT(60) DEF Undisturbed
  <2>6. cl'[c].op = "persist" /\ cl'[c].p = p /\ cl'[c].pc = "room" /\ cl'[c].v = 1
    BY <1>3, ZenonT(60) DEF Begun
  <2>7. Shape(c)'
    BY <1>1, <2>6, PlacesOf, ZenonT(60) DEF Shape
  <2>8. CallOK(c)'
    BY <1>1, <2>6, ZenonT(60) DEF CallOK, LoadCall, PersistCall, LoadFileCall, SaveFileCall, RemoveCall
  <2>9. \A d \in Client \ {c} : cl[d].p = p => cl[d].op = "load"
    BY <1>1, OpsAt, ZenonT(60) DEF Busy
  <2>10. Files' /\ torn' = torn
    BY <1>1, <2>3, <2>4, ZenonT(60) DEF Files
  <2>11. \A d \in Client \ {c} : cl[d].p = p => cl[d].op \notin {"persist", "saveFile", "remove"}
    BY <2>9, ZenonT(60)
  <2> QED
    BY <1>3, <2>5, <2>7, <2>8, <2>9, <2>10, <2>11, BeginCore, ZenonT(60)
<1> QED
  BY <1>4, <1>5, Combined, Zenon

(* BeginSave keeps the invariant.                                          *)
LEMMA BeginSaveStep ==
  ASSUME IInv, NEW c \in Client, NEW p \in Path, BeginSave(c, p)
  PROVE  IInv'
<1> DEFINE v == tried[p] + 1
<1>1. /\ p \in VecPath /\ tried[p] < MaxVer /\ ~Busy(p, {"loadFile", "saveFile", "remove"})
      /\ Begin(c, "saveFile", p, "upload", v) /\ tried' = [tried EXCEPT ![p] = v]
      /\ UNCHANGED <<store, file, floor, torn>>
  BY ZenonT(60) DEF BeginSave, disk, cache
<1>2. tried \in [Path -> Version] /\ v \in Version /\ v \in Content /\ "upload" \in Pc /\ tried[p] \in Int
  <2>1. tried \in [Path -> Version] /\ tried[p] \in Version
    BY Known, Zenon DEF FilesTypeOK
  <2>2. tried[p] \in Int /\ v \in Version
    BY <1>1, <2>1, FileCacheAssumption DEF Version
  <2> QED
    BY <2>1, <2>2, Zenon DEF Content, Pc
<1>3. Files /\ VecFile(p)
  BY <1>1, Known, ZenonT(60) DEF Core, Files
<1>4. v >= floor[p] /\ floor[p] <= v + 1
  <2>1. floor[p] \in 0 .. MaxVer + 1 /\ floor[p] <= tried[p] + 1
    BY <1>3, Known, Zenon DEF VecFile, FilesTypeOK
  <2> QED
    BY <1>2, <2>1, FileCacheAssumption
<1>5. v = tried[p] + 1
  BY Zenon
<1> HIDE DEF v
<1>6. cl' \in [Client -> Call] /\ Begun(c, "saveFile", p, "upload", v) /\ cl[c].pc = "idle"
  BY <1>1, <1>2, Begins, ZenonT(60)
<1>7. FilesTypeOK'
  BY <1>1, <1>2, <1>6, Known, ZenonT(60) DEF FilesTypeOK
<1>8. Core'
  <2>1. tried'[p] = v /\ \A q \in Path \ {p} : tried'[q] = tried[q]
    BY <1>1, <1>2, ZenonT(60)
  <2>2. ASSUME NEW q \in BlugePath
        PROVE  BlugeFile(q)'
    BY <1>1, <1>3, <2>2, ZenonT(60) DEF Files, BlugeFile
  <2>3. ASSUME NEW q \in VecPath
        PROVE  VecFile(q)'
    <3>1. VecFile(q) /\ store' = store /\ file' = file /\ floor' = floor /\ torn' = torn /\ q \in Path
      BY <1>1, <1>3, <2>3, ZenonT(60) DEF Files, Path
    <3>2. CASE q = p
      BY <1>4, <2>1, <3>1, <3>2, ZenonT(60) DEF VecFile
    <3>3. CASE q # p
      BY <2>1, <3>1, <3>3, ZenonT(60) DEF VecFile
    <3> QED
      BY <3>2, <3>3, ZenonT(60)
  <2>4. \A d \in Client \ {c} : cl[d].p # p
    BY <1>1, OpsAt, ZenonT(60) DEF Busy
  <2>5. ASSUME NEW d \in Client \ {c}
        PROVE  Undisturbed(d)
    <3>1. cl[d].op = "saveFile" => cl[d].p \in Path \ {p}
      BY <2>4, <2>5, CallAt, ZenonT(60) DEF Shape, Path
    <3> QED
      BY <1>1, <2>1, <3>1, ZenonT(60) DEF Undisturbed
  <2>6. cl'[c].op = "saveFile" /\ cl'[c].p = p /\ cl'[c].pc = "upload" /\ cl'[c].v = v
    BY <1>6, Zenon DEF Begun
  <2>7. Shape(c)'
    BY <1>1, <2>6, PlacesOf, ZenonT(60) DEF Shape
  <2>8. CallOK(c)'
    BY <1>1, <1>4, <2>1, <2>6, ZenonT(60) DEF CallOK, LoadCall, PersistCall, LoadFileCall, SaveFileCall, RemoveCall
  <2>9. Files' /\ torn' = torn
    BY <1>1, <2>2, <2>3, ZenonT(60) DEF Files
  <2> QED
    BY <1>6, <2>4, <2>5, <2>7, <2>8, <2>9, BeginCore, ZenonT(60)
<1> QED
  BY <1>7, <1>8, Combined

(* BeginRemove keeps the invariant.                                        *)
LEMMA BeginRemoveStep ==
  ASSUME IInv, NEW c \in Client, NEW p \in Path, BeginRemove(c, p)
  PROVE  IInv'
<1>1. /\ ~Busy(p, {"persist", "saveFile", "remove"}) /\ (p \in VecPath => ~Busy(p, Loads))
      /\ Begin(c, "remove", p, "uncache", 0)
      /\ UNCHANGED <<store, file, tried, floor, torn>>
  BY Zenon DEF BeginRemove, disk, cache, history
<1>2. "uncache" \in Pc /\ 0 \in Content
  BY FileCacheAssumption DEF Pc, Content, Version
<1>3. cl' \in [Client -> Call] /\ Begun(c, "remove", p, "uncache", 0) /\ cl[c].pc = "idle"
  BY <1>1, <1>2, Begins, Zenon
<1>4. FilesTypeOK'
  BY <1>1, <1>3, Known, Zenon DEF FilesTypeOK
<1>5. Core'
  <2>1. Files' /\ \A d \in Client : Undisturbed(d)
    BY <1>1, NothingDisturbed, Known, Zenon DEF Core
  <2>2. cl'[c].op = "remove" /\ cl'[c].p = p /\ cl'[c].pc = "uncache"
    BY <1>3, Zenon DEF Begun
  <2>3. Shape(c)'
    BY <2>2, PlacesOf, ZenonT(60) DEF Shape
  <2>4. CallOK(c)'
    BY <2>2, Zenon DEF CallOK, LoadCall, PersistCall, LoadFileCall, SaveFileCall, RemoveCall
  <2>5. ASSUME NEW d \in Client \ {c}, cl[d].p = p
        PROVE  cl[d].op = "load"
    BY <1>1, <2>5, OpsAt, ZenonT(60) DEF Busy, Loads, Path
  <2>6. torn' = torn /\ \A d \in Client \ {c} : cl[d].p = p => cl[d].op \notin {"persist", "saveFile", "remove"}
    BY <1>1, <2>5, ZenonT(60)
  <2> QED
    BY <1>3, <2>1, <2>3, <2>4, <2>5, <2>6, BeginCore, ZenonT(60)
<1> QED
  BY <1>4, <1>5, Combined

-----------------------------------------------------------------------------
(* The start and the restart *)

\* No call.
Quiescent == cl = [c \in Client |-> Idle]

(* With no call running the calls are right.                               *)
LEMMA QuiescentCalls ==
  Quiescent => Calls /\ Alone
<1> SUFFICES ASSUME Quiescent
             PROVE  Calls /\ Alone
  BY Zenon
<1>1. ASSUME NEW c \in Client
      PROVE  cl[c].pc = "idle" /\ cl[c].op = "none" /\ cl[c].p = None
  BY <1>1, ZenonT(60) DEF Quiescent, Idle
<1>2. ASSUME NEW c \in Client
      PROVE  Shape(c)
  BY <1>1, <1>2, PlacesOf, ZenonT(60) DEF Shape
<1>3. ASSUME NEW c \in Client
      PROVE  LoadCall(c) /\ PersistCall(c) /\ LoadFileCall(c) /\ SaveFileCall(c) /\ RemoveCall(c)
  BY <1>1, <1>3, ZenonT(60) DEF LoadCall, PersistCall, LoadFileCall, SaveFileCall, RemoveCall
<1>4. Calls
  BY <1>2, <1>3, ZenonT(60) DEF Calls
<1>5. Alone
  BY <1>1 DEF Alone
<1> QED
  BY <1>4, <1>5, ZenonT(60)

(* The same in the next state.                                             *)
LEMMA QuiescentAgain == Quiescent' => Calls' /\ Alone'
BY QuiescentCalls, PTL

(* The initial state satisfies the invariant.                              *)
LEMMA InitHolds == Init => IInv
<1> SUFFICES ASSUME Init
             PROVE  IInv
  BY ZenonT(60)
<1>1. FilesTypeOK
  BY IdleType, FileCacheAssumption DEF Init, FilesTypeOK, Version, Content
<1>2. Files
  <2>1. \A p \in BlugePath : BlugeFile(p)
    BY ZenonT(60) DEF Init, BlugeFile, Path
  <2>2. \A p \in VecPath : VecFile(p)
    BY DEF Init, VecFile, Path
  <2> QED
    BY <2>1, <2>2, ZenonT(60) DEF Files
<1>3. Quiescent
  BY Zenon DEF Init, Quiescent
<1> QED
  BY <1>1, <1>2, <1>3, QuiescentCalls, ZenonT(60) DEF IInv

(* Restart keeps the invariant.                                            *)
LEMMA RestartStep ==
  ASSUME IInv, Restart
  PROVE  IInv'
<1>1. cl' = [c \in Client |-> Idle] /\ UNCHANGED <<store, file, tried, floor, torn>>
  BY Zenon DEF Restart, disk
<1>2. FilesTypeOK'
  BY <1>1, IdleType, Known, ZenonT(60) DEF FilesTypeOK
<1>3. Files'
  BY <1>1, NothingDisturbed, Known, ZenonT(60) DEF Core
<1>4. Quiescent'
  BY <1>1, ZenonT(60) DEF Quiescent
<1> QED
  BY <1>2, <1>3, <1>4, QuiescentAgain, ZenonT(60) DEF IInv

-----------------------------------------------------------------------------
(* Theorems *)

(* A step that changes nothing keeps the invariant.                        *)
LEMMA StutterHolds ==
  ASSUME IInv, UNCHANGED vars
  PROVE  IInv'
<1>1. UNCHANGED <<cl, store, file, tried, floor, torn>>
  BY ZenonT(60) DEF vars, disk, cache, history
<1>2. FilesTypeOK'
  BY <1>1, ZenonT(60) DEF IInv, FilesTypeOK
<1>3. Calls'
  <2> SUFFICES ASSUME NEW c \in Client
               PROVE  (Shape(c) /\ LoadCall(c) /\ PersistCall(c) /\ LoadFileCall(c) /\ SaveFileCall(c) /\ RemoveCall(c))'
    BY Zenon DEF Calls
  <2>1. Shape(c) /\ CallOK(c)
    BY ZenonT(60) DEF IInv, Calls, CallOK
  <2>2. Kept(c) /\ Undisturbed(c)
    BY <1>1, ZenonT(60) DEF Kept, Undisturbed
  <2> QED
    BY <1>1, <2>1, <2>2, KeptShape, KeptCall, ZenonT(60) DEF CallOK
<1>4. Alone'
  BY <1>1, ZenonT(60) DEF IInv, Alone
<1>5. Files'
  BY <1>1, ZenonT(60) DEF IInv, Files, BlugeFile, VecFile
<1> QED
  BY <1>2, <1>3, <1>4, <1>5, ZenonT(60) DEF IInv

(* Every step keeps the invariant.                                         *)
LEMMA NextHolds ==
  ASSUME IInv, Next
  PROVE  IInv'
<1>1. ASSUME NEW c \in Client, NEW p \in Path,
             BeginLoad(c, p) \/ BeginPersist(c, p) \/ BeginSave(c, p) \/ BeginRemove(c, p)
      PROVE  IInv'
  BY <1>1, BeginLoadStep, BeginPersistStep, BeginSaveStep, BeginRemoveStep, ZenonT(60)
<1>2. ASSUME NEW c \in Client, Step(c)
      PROVE  IInv'
  BY <1>2, ListFilesStep, EvictFilesStep, GetCacheFileStep, ReadObjectStep, CacheFileHitStep, CacheFileTakesStep,
     CopyAndRenameStep, InsertCacheFileStep, ReturnCacheFileStep, OpenFileStep, OpenWriterStep,
     WriteToStep, UploadStep, WriterUnrefStep, WriterDropStep, RenameFileStep, PublishStep, Returning,
     RemoveCachedStep, RemoveObjectStep, ZenonT(60) DEF Step
<1>3. ASSUME NEW c \in Client, Fails(c)
      PROVE  IInv'
  BY <1>3, Returning, CreateTempFailsStep, WriteToFailsStep, UploadFailsStep,
     PublishStep, RemoveCachedFailsStep, RemoveObjectStep, ZenonT(60) DEF Fails
<1> QED
  BY <1>1, <1>2, <1>3, RestartStep, Zenon DEF Next

(* The invariant behind what a load shows: whoever changes a file is alone *)
(* with it or with readers of a bluge file, the cached file and the object *)
(* are gone or as new as the last save, and so is what a load carries.     *)
THEOREM CacheInvariant == Spec => []IInv
<1>1. IInv /\ [Next]_vars => IInv'
  BY NextHolds, StutterHolds, Zenon
<1> QED
  BY <1>1, InitHolds, PTL DEF Spec

(* A load of a file that was not torn shows the version of the last save   *)
(* that returned before the load began, or a newer one, for any number of  *)
(* goroutines, evictions, failing calls and restarts.                      *)
THEOREM LoadsAreCurrent == Spec => []LoadSeesLastSaved
<1>1. IInv => LoadSeesLastSaved
  <2> SUFFICES ASSUME IInv, NEW c \in Client, At(c, "using"), cl[c].p \notin torn
               PROVE  cl[c].v >= cl[c].floor
    BY Zenon DEF LoadSeesLastSaved
  <2>1. cl[c].pc = "using" /\ cl[c].op \in {"load", "loadFile"} /\ CallOK(c) /\ FilesTypeOK
    BY CallAt, Known, ZenonT(60) DEF At, Loads
  <2>2. cl[c].floor \in Int
    BY <2>1, Fields
  <2>3. CASE cl[c].op = "load"
    <3>1. cl[c].v = 1 /\ cl[c].floor <= 1
      BY <2>1, <2>3, ZenonT(60) DEF CallOK, LoadCall
    <3> QED
      BY <2>2, <3>1, Zenon
  <2>4. CASE cl[c].op = "loadFile"
    BY <2>1, <2>4, ZenonT(60) DEF CallOK, LoadFileCall
  <2> QED
    BY <2>1, <2>3, <2>4, ZenonT(60)
<1> QED
  BY <1>1, CacheInvariant, PTL
=============================================================================
