----------------------------- MODULE FileCache -----------------------------
(***************************************************************************)
(* Files of an object store cached on the local disk: the reference-       *)
(* counted LruCache (pkg/lru_cache/cache_manager.go) with its two users,   *)
(* the bluge directories (Load, Persist and Remove of S3Backend and        *)
(* OssBackend) and the storage of vector index files (LoadFile, SaveFile   *)
(* and Remove of s3Storage and OssStorage).                                *)
(*                                                                         *)
(* A file's content is abstracted to its version.  A bluge file is written *)
(* once and keeps its only version; a vector file is overwritten.  All     *)
(* files have size 1.  Access times are left out: an eviction takes the    *)
(* listed files in any order.  A CacheFile that has left the map caches no *)
(* longer matters to anyone, so that its refCount is left out too.         *)
(***************************************************************************)
EXTENDS Integers, FiniteSets

CONSTANTS
    Client,     \* goroutines
    BlugePath,  \* paths of bluge segments and snapshots
    VecPath,    \* paths of vector index files
    MaxSize,    \* maxSize of the cache, in files
    RefMod,     \* 2^64: refCount is a uint
    MaxVer,     \* bound: versions of a vector file
    MaxRef,     \* bound: references that errors may leave behind
    MaxFaults,  \* bound: failing calls and restarts
    None

Path == BlugePath \cup VecPath

ASSUME FileCacheAssumption ==
    /\ BlugePath \cap VecPath = {}
    /\ MaxSize \in Nat \ {0} /\ MaxVer \in Nat \ {0} /\ MaxFaults \in Nat /\ MaxRef \in Nat
    /\ RefMod \in Nat \ {0, 1}
    /\ None \notin Client /\ None \notin Path

VARIABLES
    store,   \* store[p]: the version in the object store, 0 for none
    file,    \* file[p]: the version in the file on disk, 0 for none
    tried,   \* tried[p]: versions that a client began to write
    floor,   \* floor[p]: the version that a load must show at least: the last one saved
    caches,  \* caches[p]: the refCount and the size of the path's CacheFile, or None
    ready,   \* ready[p]: who put readyMap[p] there, or None
    cl,      \* cl[c]: where the goroutine is, and its local variables
    torn,    \* paths with a Persist whose WriteTo failed
    swept,   \* paths whose file was removed before it had its CacheFile
    strays,  \* paths of which CacheFile returned another CacheFile than it made
    faults   \* failing calls and restarts so far

disk == <<store, file>>
cache == <<caches, ready>>
history == <<tried, floor, torn, swept, strays, faults>>
vars == <<disk, cache, cl, history>>

Torn == -1
Version == 0 .. MaxVer
Content == Version \cup {Torn}
Pc == {"idle", "dead", "get", "read", "room", "evict", "enter", "copy", "insert", "return", "open",
       "using", "leave", "writer", "write", "upload", "unref", "drop", "rename", "publish",
       "uncache", "delete"}
\* h: the goroutine holds no CacheFile, the one in caches, or an old one
Call ==
    [pc : Pc, op : {"none", "load", "loadFile", "persist", "saveFile", "remove"},
     p : Path \cup {None}, h : {"none", "current", "old"}, v : Content, floor : 0 .. MaxVer + 1,
     list : SUBSET (Path \X {0, 1}), ok : BOOLEAN]

Idle == [pc |-> "idle", op |-> "none", p |-> None, h |-> "none", v |-> 0, floor |-> 0, list |-> {}, ok |-> TRUE]
Loads == {"load", "loadFile"}

Init ==
    /\ store = [p \in Path |-> 0] /\ file = [p \in Path |-> 0]
    /\ tried = [p \in Path |-> 0] /\ floor = [p \in Path |-> 0]
    /\ caches = [p \in Path |-> None]
    /\ ready = [p \in Path |-> None]
    /\ cl = [c \in Client |-> Idle]
    /\ torn = {} /\ swept = {} /\ strays = {} /\ faults = 0

At(c, pc) == cl[c].pc = pc
Goto(c, pc) == cl' = [cl EXCEPT ![c] = [@ EXCEPT !.pc = pc]]
Return(c) == cl' = [cl EXCEPT ![c] = Idle]
Busy(p, ops) == \E c \in Client : cl[c].p = p /\ cl[c].op \in ops

\* The calls, after the CacheFiles of S have been replaced or deleted
Detached(S) ==
    [c \in Client |-> IF cl[c].p \in S /\ cl[c].h = "current" THEN [cl[c] EXCEPT !.h = "old"] ELSE cl[c]]
Put(p, r, size) == caches' = [caches EXCEPT ![p] = [ref |-> r, size |-> size]]
Delete(p) == caches' = [caches EXCEPT ![p] = None]
Refer(p) == caches' = [caches EXCEPT ![p].ref = (@ + 1) % RefMod]
\* CacheFile.Close of the goroutine's CacheFile
Unref(c) ==
    caches' = IF cl[c].h = "current" THEN [caches EXCEPT ![cl[c].p].ref = (@ - 1) % RefMod] ELSE caches

Begin(c, op, p, pc, v) ==
    /\ At(c, "idle")
    /\ cl' = [cl EXCEPT ![c] = [Idle EXCEPT !.pc = pc, !.op = op, !.p = p, !.v = v, !.floor = floor[p]]]

\* Faults: a call of the file system or of the object store fails.
Fault == faults < MaxFaults /\ faults' = faults + 1

\* Files removed by one goroutine between another's rename and its CacheFile.
Swept(S) == swept' = swept \cup {p \in S : \E c \in Client : cl[c].p = p /\ cl[c].pc \in {"insert", "publish"}}

-----------------------------------------------------------------------------
(* makeRoomForCacheFile, in CacheFile, UpdateCacheFile and OpenWriter *)

Listing == {x \in Path \X {0, 1} : caches[x[1]] # None /\ caches[x[1]].size = x[2]}
Total(list) == Cardinality({x \in list : x[2] = 1})

\* What follows: CacheFile, OpenWriter or the rename of UpdateCacheFile.
AfterRoom(op) == CASE op \in Loads -> "enter" [] op = "persist" -> "writer" [] op = "saveFile" -> "rename"

\* Under the read lock: below the limit there is nothing to do; otherwise
\* the files are listed.
ListFiles(c) ==
    /\ At(c, "room")
    /\ cl' = IF Total(Listing) < MaxSize
             THEN [cl EXCEPT ![c] = [@ EXCEPT !.pc = AfterRoom(cl[c].op)]]
             ELSE [cl EXCEPT ![c] = [@ EXCEPT !.pc = "evict", !.list = Listing]]
    /\ UNCHANGED <<disk, cache, history>>

\* Under the write lock: listed files are removed until 70% are left, except
\* the ones whose CacheFile of now is referred to.
EvictableUnchecked(c) == {x[1] : x \in cl[c].list}
Evictable(c) == {x[1] : x \in {y \in cl[c].list : caches[y[1]] = None \/ caches[y[1]].ref = 0}}
Enough(c, S) ==
    10 * (Total(cl[c].list) - Cardinality({p \in S : file[p] # 0 /\ <<p, 1>> \in cl[c].list})) <= 7 * MaxSize

EvictFiles(c) ==
    /\ At(c, "evict")
    /\ \E S \in SUBSET Evictable(c) :
         /\ \/ S = Evictable(c) /\ ~Enough(c, S)
            \/ Enough(c, S) /\ \E p \in S : ~Enough(c, S \ {p})
         /\ caches' = [p \in Path |-> IF p \in S THEN None ELSE caches[p]]
         /\ file' = [p \in Path |-> IF p \in S THEN 0 ELSE file[p]]
         /\ Swept(S)
         /\ cl' = [Detached(S) EXCEPT ![c] = [@ EXCEPT !.pc = AfterRoom(cl[c].op), !.list = {}]]
    /\ UNCHANGED <<store, ready, tried, floor, torn, strays, faults>>

-----------------------------------------------------------------------------
(* Load of the directories, LoadFile of the vector storage *)

\* A reader loads what it has found in the object store.
BeginLoad(c, p) ==
    /\ store[p] # 0 /\ (caches[p] # None => caches[p].ref < MaxRef)
    /\ p \in VecPath => ~Busy(p, {"saveFile", "remove"})
    /\ Begin(c, IF p \in VecPath THEN "loadFile" ELSE "load", p, "get", 0)
    /\ UNCHANGED <<disk, cache, history>>

\* GetCacheFile: a hit whose file is missing forgets the CacheFile.
GetCacheFile(c) ==
    LET p == cl[c].p IN
    /\ At(c, "get")
    /\ \/ caches[p] = None /\ Goto(c, "read") /\ UNCHANGED caches
       \/ /\ caches[p] # None /\ file[p] # 0
          /\ Refer(p)
          /\ cl' = [cl EXCEPT ![c] = [@ EXCEPT !.pc = "open", !.h = "current"]]
       \/ /\ caches[p] # None /\ file[p] = 0
          /\ Delete(p)
          /\ cl' = [Detached({p}) EXCEPT ![c] = [@ EXCEPT !.pc = "read"]]
    /\ UNCHANGED <<disk, ready, history>>

\* Client.Read of the object
ReadObject(c) ==
    /\ At(c, "read")
    /\ IF store[cl[c].p] = 0 THEN Return(c)
       ELSE cl' = [cl EXCEPT ![c] = [@ EXCEPT !.pc = "room", !.v = store[cl[c].p]]]
    /\ UNCHANGED <<disk, cache, history>>

\* CacheFile: someone has cached the file meanwhile,
CacheFileHitUncounted(c) ==
    /\ At(c, "enter") /\ caches[cl[c].p] # None
    /\ cl' = [cl EXCEPT ![c] = [@ EXCEPT !.pc = "open", !.h = "current"]]
    /\ UNCHANGED <<disk, cache, history>>

CacheFileHit(c) ==
    /\ At(c, "enter") /\ caches[cl[c].p] # None
    /\ Refer(cl[c].p)
    /\ cl' = [cl EXCEPT ![c] = [@ EXCEPT !.pc = "open", !.h = "current"]]
    /\ UNCHANGED <<disk, ready, history>>

\* or no one is about to, and the goroutine puts ready there,
CacheFileTakes(c) ==
    /\ At(c, "enter") /\ caches[cl[c].p] = None /\ ready[cl[c].p] = None
    /\ ready' = [ready EXCEPT ![cl[c].p] = c]
    /\ Goto(c, "copy")
    /\ UNCHANGED <<disk, caches, history>>

\* copies the object to a temporary file, renames it,
CopyAndRename(c) ==
    /\ At(c, "copy")
    /\ file' = [file EXCEPT ![cl[c].p] = cl[c].v]
    /\ Goto(c, "insert")
    /\ UNCHANGED <<store, cache, history>>

\* and makes its CacheFile.
InsertCacheFile(c) ==
    /\ At(c, "insert")
    /\ Put(cl[c].p, 1, 1)
    /\ ready' = [ready EXCEPT ![cl[c].p] = None]
    /\ cl' = [Detached({cl[c].p}) EXCEPT ![c] = [@ EXCEPT !.pc = "return", !.h = "current"]]
    /\ UNCHANGED <<disk, history>>

\* The result is read from the map again, without the lock: it may be another
\* CacheFile, to which no reference has been counted, or nil, whose use panics.
ReturnCacheFile(c) ==
    LET p == cl[c].p IN
    /\ At(c, "return")
    /\ strays' = IF cl[c].h = "current" THEN strays ELSE strays \cup {p}
    /\ IF caches[p] = None THEN Return(c)
       ELSE cl' = [cl EXCEPT ![c] = [@ EXCEPT !.pc = "open", !.h = "current"]]
    /\ UNCHANGED <<disk, cache, tried, floor, torn, swept, faults>>

\* LoadReadOnlyData opens the file and keeps it open until its closer is
\* called; ReadIndex of a vector index reads it.  An error of the former
\* leaves the reference.
OpenFile(c) ==
    /\ At(c, "open")
    /\ cl' = IF file[cl[c].p] # 0 THEN [cl EXCEPT ![c] = [@ EXCEPT !.pc = "using", !.v = file[cl[c].p]]]
             ELSE IF cl[c].op = "load" THEN [cl EXCEPT ![c] = Idle]
             ELSE [cl EXCEPT ![c] = [@ EXCEPT !.pc = "leave"]]
    /\ UNCHANGED <<disk, cache, history>>

CloseFile(c) ==
    /\ cl[c].pc \in {"using", "leave"}
    /\ Unref(c)
    /\ Return(c)
    /\ UNCHANGED <<disk, ready, history>>

\* Copying or renaming fails, or Sync or Close after the rename: cleanup.
CacheFileFails(c) ==
    /\ cl[c].pc \in {"copy", "insert"} /\ Fault
    /\ ready' = [ready EXCEPT ![cl[c].p] = None]
    /\ Return(c)
    /\ UNCHANGED <<disk, caches, tried, floor, torn, swept, strays>>

\* CreateTemp fails: cleanup panics at the name of the file that is nil.
CreateTempFails(c) ==
    /\ At(c, "copy") /\ Fault
    /\ cl' = [cl EXCEPT ![c] = [Idle EXCEPT !.pc = "dead"]]
    /\ UNCHANGED <<disk, cache, tried, floor, torn, swept, strays>>

-----------------------------------------------------------------------------
(* Persist of the directories: OpenWriter, WriteTo, Client.Write and       *)
(* tempWriteFile.Close                                                     *)

\* One goroutine of bluge persists; it tries again after an error.
BeginPersist(c, p) ==
    /\ p \in BlugePath /\ floor[p] = 0 /\ ~Busy(p, {"persist", "remove"})
    /\ Begin(c, "persist", p, "room", 1)
    /\ tried' = [tried EXCEPT ![p] = 1]
    /\ UNCHANGED <<disk, cache, floor, torn, swept, strays, faults>>

\* OpenWriter refers to the CacheFile, or makes one without a file.
OpenWriter(c) ==
    LET p == cl[c].p IN
    /\ At(c, "writer")
    /\ IF caches[p] = None THEN Put(p, 1, 0) ELSE Refer(p)
    /\ cl' = [cl EXCEPT ![c] = [@ EXCEPT !.pc = "write", !.h = "current"]]
    /\ UNCHANGED <<disk, ready, history>>

OpenWriterFails(c) ==
    /\ At(c, "write") /\ Fault
    /\ Return(c)
    /\ UNCHANGED <<disk, cache, tried, floor, torn, swept, strays>>

WriteTo(c) ==
    /\ At(c, "write")
    /\ Goto(c, "upload")
    /\ UNCHANGED <<disk, cache, history>>

\* WriteTo fails: the cached file is removed, and the deferred Close caches
\* what has been written.
WriteToFails(c) ==
    /\ At(c, "write") /\ Fault
    /\ Delete(cl[c].p)
    /\ file' = [file EXCEPT ![cl[c].p] = 0]
    /\ torn' = torn \cup {cl[c].p} /\ Swept({cl[c].p})
    /\ cl' = [Detached({cl[c].p}) EXCEPT ![c] = [@ EXCEPT !.pc = "unref", !.v = Torn, !.ok = FALSE]]
    /\ UNCHANGED <<store, ready, tried, floor, strays>>

\* Client.Write of the directory and of the vector storage
Upload(c) ==
    /\ At(c, "upload")
    /\ store' = [store EXCEPT ![cl[c].p] = cl[c].v]
    /\ Goto(c, IF cl[c].op = "persist" THEN "unref" ELSE "room")
    /\ UNCHANGED <<file, cache, history>>

\* It fails, and may have written the object: Persist closes the file all the
\* same, SaveFile returns.
UploadFails(c) ==
    /\ At(c, "upload") /\ Fault
    /\ store' \in {store, [store EXCEPT ![cl[c].p] = cl[c].v]}
    /\ IF cl[c].op = "persist" THEN cl' = [cl EXCEPT ![c] = [@ EXCEPT !.pc = "unref", !.ok = FALSE]] ELSE Return(c)
    /\ UNCHANGED <<file, cache, tried, floor, torn, swept, strays>>

\* tempWriteFile.Close gives the CacheFile back,
WriterUnref(c) ==
    /\ At(c, "unref")
    /\ Unref(c)
    /\ cl' = [cl EXCEPT ![c] = [@ EXCEPT !.pc = "drop", !.h = "none"]]
    /\ UNCHANGED <<disk, ready, history>>

\* forgets the one of the path,
WriterDrop(c) ==
    /\ At(c, "drop")
    /\ Delete(cl[c].p)
    /\ cl' = [Detached({cl[c].p}) EXCEPT ![c] = [@ EXCEPT !.pc = "rename"]]
    /\ UNCHANGED <<disk, ready, history>>

\* renames the temporary file (UpdateCacheFile the given one),
RenameFile(c) ==
    /\ At(c, "rename")
    /\ file' = [file EXCEPT ![cl[c].p] = cl[c].v]
    /\ Goto(c, "publish")
    /\ UNCHANGED <<store, cache, history>>

\* and makes a new CacheFile that no one refers to.
PublishFile(c) ==
    /\ At(c, "publish")
    /\ Put(cl[c].p, 0, 1)
    /\ floor' = IF cl[c].ok THEN [floor EXCEPT ![cl[c].p] = cl[c].v] ELSE floor
    /\ cl' = [Detached({cl[c].p}) EXCEPT ![c] = Idle]
    /\ UNCHANGED <<disk, ready, tried, torn, swept, strays, faults>>

\* Renaming fails, or Sync or Stat after it.  Persist ignores the error.
PublishFails(c) ==
    /\ cl[c].pc \in {"rename", "publish"} /\ Fault
    /\ floor' = IF cl[c].op = "persist" /\ cl[c].ok THEN [floor EXCEPT ![cl[c].p] = cl[c].v] ELSE floor
    /\ Return(c)
    /\ UNCHANGED <<disk, cache, tried, torn, swept, strays>>

-----------------------------------------------------------------------------
(* SaveFile of the vector storage: Client.Write, then UpdateCacheFile.     *)
(* The owner of a vector index saves while nothing else uses the file.     *)

BeginSave(c, p) ==
    /\ p \in VecPath /\ tried[p] < MaxVer /\ ~Busy(p, {"loadFile", "saveFile", "remove"})
    /\ Begin(c, "saveFile", p, "upload", tried[p] + 1)
    /\ tried' = [tried EXCEPT ![p] = @ + 1]
    /\ UNCHANGED <<disk, cache, floor, torn, swept, strays, faults>>

-----------------------------------------------------------------------------
(* Remove: the cached file, then the object *)

BeginRemove(c, p) ==
    /\ store[p] # 0
    /\ ~Busy(p, {"persist", "saveFile", "remove"})
    /\ p \in VecPath => ~Busy(p, Loads)
    /\ Begin(c, "remove", p, "uncache", 0)
    /\ UNCHANGED <<disk, cache, history>>

RemoveCachedKeepsFile(c) ==
    /\ At(c, "uncache")
    /\ Delete(cl[c].p)
    /\ cl' = [Detached({cl[c].p}) EXCEPT ![c] = [@ EXCEPT !.pc = "delete"]]
    /\ UNCHANGED <<disk, ready, history>>

RemoveCached(c) ==
    /\ At(c, "uncache")
    /\ Delete(cl[c].p)
    /\ file' = [file EXCEPT ![cl[c].p] = 0]
    /\ Swept({cl[c].p})
    /\ cl' = [Detached({cl[c].p}) EXCEPT ![c] = [@ EXCEPT !.pc = "delete"]]
    /\ UNCHANGED <<store, ready, tried, floor, torn, strays, faults>>

\* No version written so far may be shown from now on.
RemoveObject(c) ==
    /\ At(c, "delete")
    /\ store' = [store EXCEPT ![cl[c].p] = 0]
    /\ floor' = [floor EXCEPT ![cl[c].p] = tried[cl[c].p] + 1]
    /\ Return(c)
    /\ UNCHANGED <<file, cache, tried, torn, swept, strays, faults>>

\* Removing the file fails after its CacheFile has been deleted, or removing
\* the empty directory after the file,
RemoveCachedFails(c) ==
    /\ At(c, "uncache") /\ Fault
    /\ Delete(cl[c].p)
    /\ \/ UNCHANGED <<file, swept>>
       \/ file' = [file EXCEPT ![cl[c].p] = 0] /\ Swept({cl[c].p})
    /\ cl' = [Detached({cl[c].p}) EXCEPT ![c] = Idle]
    /\ UNCHANGED <<store, ready, tried, floor, torn, strays>>

\* or removing the object, which may be gone all the same.
RemoveObjectFails(c) ==
    /\ At(c, "delete") /\ Fault
    /\ store' \in {store, [store EXCEPT ![cl[c].p] = 0]}
    /\ Return(c)
    /\ UNCHANGED <<file, cache, tried, floor, torn, swept, strays>>

-----------------------------------------------------------------------------
\* The process restarts: init makes a CacheFile for every file it finds and
\* removes the temporary files.
Restart ==
    /\ Fault
    /\ cl' = [c \in Client |-> Idle]
    /\ ready' = [p \in Path |-> None]
    /\ caches' = [p \in Path |-> IF file[p] # 0 THEN [ref |-> 0, size |-> 1] ELSE None]
    /\ strays' = {} /\ swept' = {}
    /\ UNCHANGED <<disk, tried, floor, torn>>

Step(c) ==
    \/ ListFiles(c) \/ EvictFiles(c)
    \/ GetCacheFile(c) \/ ReadObject(c) \/ CacheFileHit(c) \/ CacheFileTakes(c)
    \/ CopyAndRename(c) \/ InsertCacheFile(c) \/ ReturnCacheFile(c) \/ OpenFile(c) \/ CloseFile(c)
    \/ OpenWriter(c) \/ WriteTo(c) \/ Upload(c)
    \/ WriterUnref(c) \/ WriterDrop(c) \/ RenameFile(c) \/ PublishFile(c)
    \/ RemoveCached(c) \/ RemoveObject(c)

Fails(c) ==
    \/ CacheFileFails(c) \/ CreateTempFails(c) \/ OpenWriterFails(c) \/ WriteToFails(c)
    \/ UploadFails(c) \/ PublishFails(c) \/ RemoveCachedFails(c) \/ RemoveObjectFails(c)

Next ==
    \/ \E c \in Client :
         \/ \E p \in Path : BeginLoad(c, p) \/ BeginPersist(c, p) \/ BeginSave(c, p) \/ BeginRemove(c, p)
         \/ Step(c) \/ Fails(c)
    \/ Restart

Spec == Init /\ [][Next]_vars

-----------------------------------------------------------------------------
(* Properties *)

FilesTypeOK ==
    /\ store \in [Path -> Version] /\ file \in [Path -> Content]
    /\ tried \in [Path -> Version] /\ floor \in [Path -> 0 .. MaxVer + 1]
    /\ cl \in [Client -> Call] /\ torn \subseteq Path

(* A load shows the version of the last save that returned before the load *)
(* began, or a newer one: neither a cached file that outlived an           *)
(* overwriting or a removal, nor a download that an eviction overtook, nor *)
(* a restart at any point brings an older version back. A file whose       *)
(* WriteTo failed is excepted: Persist removes it and Close caches the     *)
(* torn rest again.                                                        *)
LoadSeesLastSaved ==
    \A c \in Client : At(c, "using") /\ cl[c].p \notin torn => cl[c].v >= cl[c].floor

(* refCount never falls below the number of goroutines that hold the       *)
(* CacheFile, so that no Close takes it below zero, unless CacheFile has   *)
(* returned a CacheFile that it did not make.                              *)
Holders(p) == {c \in Client : cl[c].p = p /\ cl[c].h = "current"}
CountCoversHolders ==
    \A p \in Path \ strays : caches[p] # None => caches[p].ref >= Cardinality(Holders(p))

(* "this will be remained, cause refCount" (TestLru): an eviction neither  *)
(* removes nor forgets a file while a goroutine holds its CacheFile.       *)
HeldFileStays ==
    [][\A c \in Client : At(c, "evict") /\ cl'[c].pc \notin {"evict", "idle"} =>
         \A p \in Path \ strays : Holders(p) # {} => caches'[p] # None /\ file'[p] = file[p]]_vars

-----------------------------------------------------------------------------
(* The invariant behind LoadSeesLastSaved *)

Places(op) ==
    CASE op = "none" -> {"idle", "dead"}
      [] op \in Loads -> {"get", "read", "room", "evict", "enter", "copy", "insert", "return", "open",
                          "using", "leave"}
      [] op = "persist" -> {"room", "evict", "writer", "write", "upload", "unref", "drop", "rename",
                            "publish"}
      [] op = "saveFile" -> {"upload", "room", "evict", "rename", "publish"}
      [] op = "remove" -> {"uncache", "delete"}

Shape(c) ==
    /\ cl[c].pc \in Places(cl[c].op)
    /\ cl[c].op = "none" => cl[c].p = None
    /\ cl[c].op \in {"load", "persist"} => cl[c].p \in BlugePath
    /\ cl[c].op \in {"loadFile", "saveFile"} => cl[c].p \in VecPath
    /\ cl[c].op = "remove" => cl[c].p \in Path

\* Whoever changes a file is alone with it, or with readers of a bluge file.
Alone ==
    \A c, d \in Client :
        c # d /\ cl[c].p = cl[d].p /\ cl[c].op \in {"persist", "saveFile", "remove"} => cl[d].op = "load"

BlugeFile(p) ==
    /\ store[p] \in {0, 1} /\ (store[p] # 0 => floor[p] <= 1)
    /\ p \notin torn => file[p] \in {0, 1}

\* A load carries what it has read to the file.
Carrying == {"room", "evict", "enter", "copy", "insert"}

LoadCall(c) ==
    cl[c].op = "load" =>
        /\ cl[c].floor <= 1
        /\ cl[c].pc \in Carrying => cl[c].v = 1
        /\ cl[c].pc = "using" /\ cl[c].p \notin torn => cl[c].v = 1

PersistCall(c) ==
    cl[c].op = "persist" =>
        /\ floor[cl[c].p] = 0
        /\ cl[c].v = 1 \/ (cl[c].p \in torn /\ cl[c].ok = FALSE)
        /\ cl[c].pc \in {"room", "evict", "writer", "write", "upload"} => cl[c].v = 1

VecFile(p) ==
    /\ p \notin torn /\ floor[p] <= tried[p] + 1
    /\ store[p] = 0 \/ store[p] >= floor[p]
    /\ file[p] = 0 \/ file[p] >= floor[p]

LoadFileCall(c) ==
    cl[c].op = "loadFile" =>
        /\ cl[c].floor = floor[cl[c].p]
        /\ cl[c].pc \in Carrying \cup {"using"} => cl[c].v >= floor[cl[c].p]

SaveFileCall(c) ==
    cl[c].op = "saveFile" =>
        /\ cl[c].v = tried[cl[c].p] /\ cl[c].v >= floor[cl[c].p]
        /\ cl[c].pc # "upload" => store[cl[c].p] = cl[c].v
        /\ cl[c].pc = "publish" => file[cl[c].p] \in {0, cl[c].v}

RemoveCall(c) ==
    cl[c].op = "remove" /\ cl[c].pc = "delete" /\ cl[c].p \in VecPath => file[cl[c].p] = 0

Calls ==
    \A c \in Client :
        Shape(c) /\ LoadCall(c) /\ PersistCall(c) /\ LoadFileCall(c) /\ SaveFileCall(c) /\ RemoveCall(c)
Files == (\A p \in BlugePath : BlugeFile(p)) /\ (\A p \in VecPath : VecFile(p))

(* Why a load shows the last version: a bluge file has only one, which is  *)
(* persisted once; of a vector file, the store and the cached file are     *)
(* gone or at least as new as the last save, what a load carries is too,   *)
(* and a save is alone with the file until both have its version.          *)
IInv == FilesTypeOK /\ Calls /\ Alone /\ Files
=============================================================================
