---------------------------- MODULE ShardWriter -----------------------------
(***************************************************************************)
(* The bluge writer of one second-layer shard: GetWriter and CloseWriter   *)
(* count its users (pkg/core/index_shards.go), and                         *)
(* LazyCloseSecondIndexShardWriters (pkg/core/indexlist.go) closes it when *)
(* it has been without users for five minutes.  IndexShard.Close closes it *)
(* at once.                                                                *)
(***************************************************************************)
EXTENDS Integers, FiniteSets

CONSTANTS
    User,        \* goroutines that write to the shard
    MaxWriter,   \* bound: bluge writers ever opened
    MaxClose,    \* bound: calls of IndexShard.Close
    MaxUnpaired  \* bound: CloseWriter calls without a GetWriter

ASSUME WriterAssumption ==
    /\ IsFiniteSet(User)
    /\ MaxWriter \in Nat /\ MaxClose \in Nat /\ MaxUnpaired \in Nat

Nil == 0

VARIABLES
    writer,      \* secondShard.writer: a writer, or Nil
    opened,      \* the bluge writers that are open
    made,        \* bluge writers opened so far
    refs,        \* secondShard.writerRefcount
    expired,     \* closeTime is more than five minutes ago, or was never set
    user,        \* user[c]: where c is, and the writer it read or was given
    lazy,        \* the lazy closer: where it is, and the writer it read
    closing,     \* IndexShard.Close has closed a writer it has yet to forget
    closes,      \* calls of IndexShard.Close so far
    unpaired     \* CloseWriter calls without a GetWriter so far

vars == <<writer, opened, made, refs, expired, user, lazy, closing, closes, unpaired>>

UserState ==
    [pc : {"idle", "add", "open", "reread", "hold", "stamp", "drop"}, w : 0 .. MaxWriter]
LazyState ==
    [pc : {"idle", "clear", "close"}, w : 0 .. MaxWriter]

TypeOK ==
    /\ writer \in 0 .. MaxWriter /\ made \in 0 .. MaxWriter
    /\ opened \subseteq 1 .. MaxWriter
    /\ refs \in Int /\ expired \in BOOLEAN
    /\ user \in [User -> UserState]
    /\ lazy \in LazyState /\ closing \in {0, 1}
    /\ closes \in 0 .. MaxClose
    /\ unpaired \in 0 .. MaxUnpaired

Free == [pc |-> "idle", w |-> Nil]

Init ==
    /\ writer = Nil /\ opened = {} /\ made = 0
    /\ refs = 0 /\ expired = TRUE
    /\ user = [c \in User |-> Free]
    /\ lazy = Free /\ closing = 0 /\ closes = 0
    /\ unpaired = 0

At(c, pc) == user[c].pc = pc
Goto(c, pc) == user' = [user EXCEPT ![c].pc = pc]

\* The users that GetWriter has counted and CloseWriter has not.
Counted == {c \in User : user[c].pc \in {"hold", "stamp", "drop"}}

-----------------------------------------------------------------------------
(* GetWriter *)

\* Read the writer; open one when there is none.
GetWriter(c) ==
    /\ At(c, "idle")
    /\ user' = [user EXCEPT ![c] = [pc |-> IF writer = Nil THEN "open" ELSE "add", w |-> writer]]
    /\ UNCHANGED <<writer, opened, made, refs, expired, lazy, closing, closes, unpaired>>

\* openWriter under the second shard's lock
OpenWriterAgain(c) ==
    /\ At(c, "open") /\ Goto(c, "reread")
    /\ made < MaxWriter
    /\ writer' = made + 1 /\ made' = made + 1 /\ opened' = opened \cup {made + 1}
    /\ UNCHANGED <<refs, expired, lazy, closing, closes, unpaired>>

OpenWriter(c) ==
    /\ At(c, "open") /\ Goto(c, "reread")
    /\ IF writer # Nil
       THEN UNCHANGED <<writer, made, opened>>
       ELSE /\ made < MaxWriter
            /\ writer' = made + 1 /\ made' = made + 1 /\ opened' = opened \cup {made + 1}
    /\ UNCHANGED <<refs, expired, lazy, closing, closes, unpaired>>

\* openWriter fails, or the OpenWAL after it, and GetWriter with them.
CannotOpen(c) == (At(c, "open") /\ writer = Nil) \/ At(c, "reread")

\* CheckShards just returns the error;
GetWriterFails(c) ==
    /\ CannotOpen(c)
    /\ user' = [user EXCEPT ![c] = Free]
    /\ UNCHANGED <<writer, opened, made, refs, expired, lazy, closing, closes, unpaired>>

\* in WriteToShard the deferred CloseWriter runs all the same.
GetWriterFailsInWrite(c) ==
    /\ CannotOpen(c) /\ unpaired < MaxUnpaired
    /\ unpaired' = unpaired + 1
    /\ Goto(c, "stamp")
    /\ UNCHANGED <<writer, opened, made, refs, expired, lazy, closing, closes>>

\* After opening, the writer is read again,
Reread(c) ==
    /\ At(c, "reread")
    /\ user' = [user EXCEPT ![c] = [pc |-> "add", w |-> writer]]
    /\ UNCHANGED <<writer, opened, made, refs, expired, lazy, closing, closes, unpaired>>

\* and the user is counted.
AddRef(c) ==
    /\ At(c, "add") /\ Goto(c, "hold")
    /\ refs' = refs + 1
    /\ UNCHANGED <<writer, opened, made, expired, lazy, closing, closes, unpaired>>

-----------------------------------------------------------------------------
(* CloseWriter *)

\* The user is done with the writer.
Done(c) ==
    /\ At(c, "hold") /\ Goto(c, "stamp")
    /\ UNCHANGED <<writer, opened, made, refs, expired, lazy, closing, closes, unpaired>>

StampCloseTime(c) ==
    /\ At(c, "stamp") /\ Goto(c, "drop")
    /\ expired' = FALSE
    /\ UNCHANGED <<writer, opened, made, refs, lazy, closing, closes, unpaired>>

DropRefIfCurrent(c) ==
    /\ At(c, "drop")
    /\ refs' = IF user[c].w = writer THEN refs - 1 ELSE refs
    /\ user' = [user EXCEPT ![c] = Free]
    /\ UNCHANGED <<writer, opened, made, expired, lazy, closing, closes, unpaired>>

DropRef(c) ==
    /\ At(c, "drop")
    /\ refs' = refs - 1
    /\ user' = [user EXCEPT ![c] = Free]
    /\ UNCHANGED <<writer, opened, made, expired, lazy, closing, closes, unpaired>>

\* WriteToShardRollback of the shard key -1 gets no writer, and its deferred
\* CloseWriter(-1) takes a reference from every second-layer shard.
RollbackInserts ==
    /\ unpaired < MaxUnpaired
    /\ unpaired' = unpaired + 1
    /\ expired' = FALSE /\ refs' = refs - 1
    /\ UNCHANGED <<writer, opened, made, user, lazy, closing, closes>>

-----------------------------------------------------------------------------
(* Closing the bluge writer *)

FiveMinutesPass ==
    /\ ~expired /\ expired' = TRUE
    /\ UNCHANGED <<writer, opened, made, refs, user, lazy, closing, closes, unpaired>>

LazyReadsAnyCount ==
    /\ lazy.pc = "idle"
    /\ expired /\ writer # Nil
    /\ lazy' = [pc |-> "clear", w |-> writer]
    /\ UNCHANGED <<writer, opened, made, refs, expired, user, closing, closes, unpaired>>

\* One tick for this shard: read writer, count and time under the read lock.
LazyReads ==
    /\ lazy.pc = "idle"
    /\ refs = 0 /\ expired /\ writer # Nil
    /\ lazy' = [pc |-> "clear", w |-> writer]
    /\ UNCHANGED <<writer, opened, made, refs, expired, user, closing, closes, unpaired>>

LazyClears ==
    /\ lazy.pc = "clear"
    /\ writer' = Nil
    /\ lazy' = [lazy EXCEPT !.pc = "close"]
    /\ UNCHANGED <<opened, made, refs, expired, user, closing, closes, unpaired>>

LazyCloses ==
    /\ lazy.pc = "close"
    /\ opened' = opened \ {lazy.w}
    /\ lazy' = Free
    /\ UNCHANGED <<writer, made, refs, expired, user, closing, closes, unpaired>>

\* IndexShard.Close does not take the second shard's lock: it closes the
\* writer and then forgets whichever writer is there.
CloseShard ==
    /\ closes < MaxClose /\ closing = 0 /\ writer # Nil
    /\ opened' = opened \ {writer} /\ closing' = 1 /\ closes' = closes + 1
    /\ UNCHANGED <<writer, made, refs, expired, user, lazy, unpaired>>

CloseShardForgets ==
    /\ closing = 1 /\ closing' = 0
    /\ writer' = Nil
    /\ UNCHANGED <<opened, made, refs, expired, user, lazy, closes, unpaired>>

-----------------------------------------------------------------------------
UserStep(c) ==
    \/ GetWriter(c) \/ OpenWriter(c) \/ GetWriterFails(c) \/ GetWriterFailsInWrite(c)
    \/ Reread(c) \/ AddRef(c) \/ Done(c) \/ StampCloseTime(c) \/ DropRef(c)

Next ==
    \/ \E c \in User : UserStep(c)
    \/ RollbackInserts
    \/ FiveMinutesPass
    \/ LazyReads \/ LazyClears \/ LazyCloses
    \/ CloseShard \/ CloseShardForgets

Spec == Init /\ [][Next]_vars

\* Users finish, time passes, and the ticker of the lazy closer keeps firing.
FairSpec ==
    /\ Spec
    /\ \A c \in User : WF_vars(OpenWriter(c) \/ Reread(c) \/ AddRef(c) \/ Done(c)
                                  \/ StampCloseTime(c) \/ DropRef(c))
    /\ WF_vars(FiveMinutesPass)
    /\ WF_vars(LazyReads \/ LazyClears \/ LazyCloses)

-----------------------------------------------------------------------------
(* Properties *)

(* "We close all unused indexSecondShard writers": as long as every        *)
(* CloseWriter had its GetWriter, nobody that GetWriter has counted works  *)
(* with the writer when the lazy closer decides to close it.               *)
LazyClosesUnused ==
    [][lazy.pc = "idle" /\ lazy'.pc = "clear"
         => unpaired > 0 \/ \A c \in User : ~At(c, "hold")]_vars

(* No open writer is forgotten before the index is closed: it is the       *)
(* shard's writer or the one the lazy closer is about to close.            *)
NoWriterForgotten ==
    closes = 0 => opened \subseteq {writer} \cup (IF lazy.pc # "idle" THEN {lazy.w} ELSE {})

(* The writer is released: when the users stop coming, and every           *)
(* CloseWriter had its GetWriter, it is closed in the end.                 *)
UnusedWriterClosed ==
    <>[](\A c \in User : At(c, "idle")) => <>[](opened = {}) \/ <>(closes + unpaired > 0)

(* What GetWriter and CloseWriter keep: the count is the number of users   *)
(* that have yet to finish CloseWriter, less the CloseWriters that had no  *)
(* GetWriter.  Without such calls, zero means no users.                    *)
IInv == TypeOK /\ refs = Cardinality(Counted) - unpaired
=============================================================================
