------------------------------ MODULE KeyCache ------------------------------
(***************************************************************************)
(* pkg/bluge/directory/keycache.go: the process-wide cache of object keys  *)
(* that S3Backend and OssBackend list instead of the object store.  List   *)
(* fetches outside the mutex; every change of an object made through       *)
(* KeyCacheClient is followed by an Invalidate of the changed keys.        *)
(*                                                                         *)
(* A cached item is identified by the goroutine that created it: a         *)
(* goroutine runs one List at a time and every List puts its own item in   *)
(* the map first, so cache.items[prefix] == item exactly when the item in  *)
(* the map has that goroutine as its owner.                                *)
(***************************************************************************)

CONSTANTS
    Key,          \* object keys
    Prefix,       \* prefixes that are listed (one per opened bluge index)
    Lister,       \* goroutines that call objectKeyCache.List
    Writer,       \* goroutines that change objects through KeyCacheClient
    KeysOf,       \* KeysOf[p]: the keys with strings.HasPrefix(key, p)
    Nil           \* the absent map entry, the prefix of no call

ASSUME KeysOfAssumption == KeysOf \in [Prefix -> SUBSET Key]

ASSUME NilAssumption ==
    Nil \notin [owner : Lister, ready : BOOLEAN, invalid : BOOLEAN, keys : SUBSET Key]

VARIABLES
    store,        \* the keys of the objects in the object store
    items,        \* objectKeyCache.items
    listing,      \* listing[l]: the List call l is in
    changing      \* changing[w]: the KeyCacheClient call w is in

vars == <<store, items, listing, changing>>

(* kind is "idle", "fetch" (between the two critical sections of List) or  *)
(* "done" (List has returned keys); seen are the keys client.List has      *)
(* passed so far, raced the ghost set of keys that some call was changing  *)
(* at a moment of this List.                                               *)
ListCall == [kind : {"idle", "fetch", "done"}, prefix : Prefix \cup {Nil},
             seen : SUBSET Key, keys : SUBSET Key, raced : SUBSET Key]

NoCall == [kind |-> "idle", prefix |-> Nil, seen |-> {}, keys |-> {}, raced |-> {}]

ChangeCall == [kind : {"idle", "write", "remove"}, keys : SUBSET Key]

Item == [owner : Lister, ready : BOOLEAN, invalid : BOOLEAN, keys : SUBSET Key]

TypeOK ==
    /\ store \subseteq Key
    /\ items \in [Prefix -> Item \cup {Nil}]
    /\ listing \in [Lister -> ListCall]
    /\ changing \in [Writer -> ChangeCall]

\* Keys whose change has been sent to the store and not yet invalidated.
BeingChanged == {k \in Key : \E w \in Writer : changing[w].kind # "idle" /\ k \in changing[w].keys}

Ready(p) == items[p] # Nil /\ items[p].ready

Init ==
    /\ store \in SUBSET Key
    /\ items = [p \in Prefix |-> Nil]
    /\ listing = [l \in Lister |-> NoCall]
    /\ changing = [w \in Writer |-> [kind |-> "idle", keys |-> {}]]

-----------------------------------------------------------------------------
(* objectKeyCache.List *)

\* The first critical section, when the keys are cached: List returns them.
ListHit(l, p) ==
    /\ listing[l].kind # "fetch"
    /\ Ready(p)
    /\ listing' = [listing EXCEPT ![l] =
                     [kind |-> "done", prefix |-> p, seen |-> {},
                      keys |-> items[p].keys, raced |-> BeingChanged]]
    /\ UNCHANGED <<store, items, changing>>

\* The first critical section, otherwise: a new item replaces whatever is there.
ListMiss(l, p) ==
    /\ listing[l].kind # "fetch"
    /\ ~Ready(p)
    /\ items' = [items EXCEPT ![p] =
                   [owner |-> l, ready |-> FALSE, invalid |-> FALSE, keys |-> {}]]
    /\ listing' = [listing EXCEPT ![l] =
                     [kind |-> "fetch", prefix |-> p, seen |-> {}, keys |-> {},
                      raced |-> BeingChanged]]
    /\ UNCHANGED <<store, changing>>

\* client.List reads the store page by page: one key at a time, in any order.
FetchKey(l, k) ==
    /\ listing[l].kind = "fetch"
    /\ k \in KeysOf[listing[l].prefix] \ listing[l].seen
    /\ listing' = [listing EXCEPT ![l] =
                     [listing[l] EXCEPT !.seen = listing[l].seen \cup {k},
                                        !.keys = listing[l].keys \cup (store \cap {k})]]
    /\ UNCHANGED <<store, items, changing>>

\* client.List fails: List returns the error and leaves its item in the map.
FetchFails(l) ==
    /\ listing[l].kind = "fetch"
    /\ listing' = [listing EXCEPT ![l] = NoCall]
    /\ UNCHANGED <<store, items, changing>>

\* Mutant: the second critical section does not test item.invalid.
PublishInvalid(l) ==
    LET p == listing[l].prefix IN
    /\ listing[l].kind = "fetch"
    /\ listing[l].seen = KeysOf[p]
    /\ items' = IF items[p] # Nil /\ items[p].owner = l
                THEN [items EXCEPT ![p] = [@ EXCEPT !.ready = TRUE, !.keys = listing[l].keys]]
                ELSE items
    /\ listing' = [listing EXCEPT ![l] = [@ EXCEPT !.kind = "done", !.seen = {}]]
    /\ UNCHANGED <<store, changing>>

\* The second critical section: publish the keys unless replaced or invalid.
Publish(l) ==
    LET p == listing[l].prefix IN
    /\ listing[l].kind = "fetch"
    /\ listing[l].seen = KeysOf[p]
    /\ items' = IF items[p] # Nil /\ items[p].owner = l /\ ~items[p].invalid
                THEN [items EXCEPT ![p] = [@ EXCEPT !.ready = TRUE, !.keys = listing[l].keys]]
                ELSE items
    /\ listing' = [listing EXCEPT ![l] = [@ EXCEPT !.kind = "done", !.seen = {}]]
    /\ UNCHANGED <<store, changing>>

-----------------------------------------------------------------------------
(* KeyCacheClient.Write, Copy (one key) and Remove (any number of keys) *)

\* The call enters the store's client.
BeginChange(w, kind, ks) ==
    /\ changing[w].kind = "idle"
    /\ ks # {} /\ (kind = "write" => \E k \in ks : ks = {k})
    /\ changing' = [changing EXCEPT ![w] = [kind |-> kind, keys |-> ks]]
    /\ listing' = [l \in Lister |->
                     IF listing[l].kind = "fetch"
                     THEN [listing[l] EXCEPT !.raced = @ \cup ks] ELSE listing[l]]
    /\ UNCHANGED <<store, items>>

\* The store applies the change to one of the keys (an error may come after it).
ApplyChange(w, k) ==
    /\ changing[w].kind # "idle"
    /\ k \in changing[w].keys
    /\ store' = IF changing[w].kind = "write" THEN store \cup {k} ELSE store \ {k}
    /\ UNCHANGED <<items, listing, changing>>

\* Mutant: Invalidate leaves the items that are being fetched alone.
InvalidItemReadyOnly(item) ==
    IF item = Nil \/ item.ready THEN Nil ELSE item

\* objectKeyCache.Invalidate: drop ready items that match, mark the others.
InvalidItem(item) ==
    IF item = Nil \/ item.ready THEN Nil ELSE [item EXCEPT !.invalid = TRUE]

Invalidate(ks) ==
    items' = [p \in Prefix |->
                IF ks \cap KeysOf[p] # {} THEN InvalidItem(items[p]) ELSE items[p]]

\* The store's client returned, with or without an error; the call returns.
EndChange(w) ==
    /\ changing[w].kind # "idle"
    /\ Invalidate(changing[w].keys)
    /\ changing' = [changing EXCEPT ![w] = [kind |-> "idle", keys |-> {}]]
    /\ UNCHANGED <<store, listing>>

-----------------------------------------------------------------------------
Next ==
    \/ \E l \in Lister, p \in Prefix : ListHit(l, p) \/ ListMiss(l, p)
    \/ \E l \in Lister, k \in Key : FetchKey(l, k)
    \/ \E l \in Lister : FetchFails(l) \/ Publish(l)
    \/ \E w \in Writer, kind \in {"write", "remove"}, ks \in SUBSET Key : BeginChange(w, kind, ks)
    \/ \E w \in Writer, k \in Key : ApplyChange(w, k)
    \/ \E w \in Writer : EndChange(w)

Spec == Init /\ [][Next]_vars

-----------------------------------------------------------------------------
(* Keys served from the cache are the store's keys: a cached listing may   *)
(* differ from the object store only on keys that a Write, Remove or Copy  *)
(* of this process has sent to the store and not yet invalidated.          *)
CachedKeysAreStored ==
    \A p \in Prefix : Ready(p) =>
        \A k \in KeysOf[p] \ BeingChanged : k \in items[p].keys <=> k \in store

(* What List returns, cached or fetched, disagrees with the store only on  *)
(* keys that some call was changing while List ran: a goroutine whose      *)
(* Write or Remove has returned sees its effect in every later List.       *)
ListSeesFinishedChanges ==
    [][\A l \in Lister : listing'[l] # listing[l] /\ listing'[l].kind = "done" =>
          \A k \in KeysOf[listing'[l].prefix] \ listing'[l].raced :
              k \in listing'[l].keys <=> k \in store]_vars

-----------------------------------------------------------------------------
(* The inductive strengthening of CachedKeysAreStored.  While List fetches, *)
(* its item is not ready; a key it has passed agrees with the store unless  *)
(* a change of that key raced the call; and as long as its item is the one  *)
(* in the map and is not invalid, no such change has finished.              *)
OwnsItem(l) ==
    LET p == listing[l].prefix IN
    /\ listing[l].kind = "fetch"
    /\ items[p] # Nil /\ items[p].owner = l

FetchInv(l) ==
    listing[l].kind = "fetch" =>
        /\ listing[l].prefix \in Prefix
        /\ BeingChanged \subseteq listing[l].raced
        /\ listing[l].keys \subseteq listing[l].seen
        /\ listing[l].seen \subseteq KeysOf[listing[l].prefix]
        /\ \A k \in listing[l].seen \ listing[l].raced : k \in listing[l].keys <=> k \in store
        /\ OwnsItem(l) => ~items[listing[l].prefix].ready
        /\ OwnsItem(l) /\ ~items[listing[l].prefix].invalid =>
              \A k \in listing[l].seen \ BeingChanged : k \in listing[l].keys <=> k \in store

IInv == TypeOK /\ CachedKeysAreStored /\ \A l \in Lister : FetchInv(l)

=============================================================================
