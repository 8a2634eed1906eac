--------------------------- MODULE KeyCacheProofs ---------------------------
(* The key cache serves only keys the object store has, for any number of  *)
(* keys, prefixes, listing goroutines and writing goroutines.              *)
EXTENDS KeyCache, TLAPS

(* Records of a List call with some fields replaced. *)
LEMMA ListCallUpdate ==
    ASSUME NEW c \in ListCall, NEW s \in SUBSET Key, NEW t \in SUBSET Key
    PROVE  /\ [c EXCEPT !.kind = "done", !.seen = {}] \in ListCall
           /\ [c EXCEPT !.seen = s, !.keys = t] \in ListCall
           /\ [c EXCEPT !.raced = @ \cup s] \in ListCall
<1>1. [c EXCEPT !.kind = "done", !.seen = {}] \in ListCall
  BY Zenon DEF ListCall
<1>2. [c EXCEPT !.seen = s, !.keys = t] \in ListCall
  BY Zenon DEF ListCall
<1>3. [c EXCEPT !.raced = @ \cup s] \in ListCall
  BY DEF ListCall
<1> QED
  BY <1>1, <1>2, <1>3, Zenon

(* Every call record and map entry keeps its type in every step. *)
LEMMA TypeStep == TypeOK /\ [Next]_vars => TypeOK'
<1> SUFFICES ASSUME TypeOK, [Next]_vars PROVE TypeOK'
  OBVIOUS
<1> USE KeysOfAssumption DEF TypeOK, ListCall, ChangeCall, Item, NoCall
<1>1. ASSUME NEW l \in Lister, NEW p \in Prefix, ListHit(l, p) PROVE TypeOK'
  BY <1>1, ZenonT(60) DEF ListHit, Ready, BeingChanged
<1>2. ASSUME NEW l \in Lister, NEW p \in Prefix, ListMiss(l, p) PROVE TypeOK'
  BY <1>2 DEF ListMiss, BeingChanged
<1>3. ASSUME NEW l \in Lister, NEW k \in Key, FetchKey(l, k) PROVE TypeOK'
  <2> DEFINE s == listing[l].seen \cup {k}
             t == listing[l].keys \cup (store \cap {k})
  <2>1. listing[l] \in ListCall /\ s \in SUBSET Key /\ t \in SUBSET Key
    BY Zenon
  <2>2. [listing[l] EXCEPT !.seen = s, !.keys = t] \in ListCall
    <3> HIDE DEF s, t, ListCall
    <3> QED  BY <2>1, ListCallUpdate, Zenon
  <2> QED
    BY <1>3, <2>2 DEF FetchKey
<1>4. ASSUME NEW l \in Lister, FetchFails(l) PROVE TypeOK'
  BY <1>4, Zenon DEF FetchFails
<1>5. ASSUME NEW l \in Lister, Publish(l) PROVE TypeOK'
  <2> DEFINE p == listing[l].prefix
  <2>1. [listing[l] EXCEPT !.kind = "done", !.seen = {}] \in ListCall
    <3>1. listing[l] \in ListCall
      OBVIOUS
    <3> QED
      BY <3>1, ListCallUpdate, Zenon
  <2>2. listing' \in [Lister -> ListCall]
    BY <1>5, <2>1 DEF Publish
  <2>3. ASSUME items[p] \in Item
        PROVE  [items[p] EXCEPT !.ready = TRUE, !.keys = listing[l].keys] \in Item
    BY <2>3, Zenon
  <2>4. items' \in [Prefix -> Item \cup {Nil}]
    BY <1>5, <2>3, ZenonT(60) DEF Publish
  <2> QED
    BY <1>5, <2>2, <2>4, SMTT(30) DEF Publish
<1>6. ASSUME NEW w \in Writer, NEW kind \in {"write", "remove"}, NEW ks \in SUBSET Key,
             BeginChange(w, kind, ks)
      PROVE  TypeOK'
  <2>1. UNCHANGED <<store, items>>
    BY <1>6, Zenon DEF BeginChange
  <2>2. changing' \in [Writer -> ChangeCall]
    <3>1. [kind |-> kind, keys |-> ks] \in ChangeCall
      OBVIOUS
    <3> HIDE DEF ChangeCall
    <3> QED
      BY <1>6, <3>1, Zenon DEF BeginChange
  <2>3. ASSUME NEW l \in Lister PROVE [listing[l] EXCEPT !.raced = @ \cup ks] \in ListCall
    <3>1. listing[l] \in ListCall
      BY Zenon
    <3> HIDE DEF ListCall
    <3> QED
      BY <3>1, ListCallUpdate, Zenon
  <2>4. listing' \in [Lister -> ListCall]
    <3> HIDE DEF ListCall
    <3> QED
      BY <1>6, <2>3, Zenon DEF BeginChange
  <2> QED
    BY <2>1, <2>2, <2>4, Zenon
<1>7. ASSUME NEW w \in Writer, NEW k \in Key, ApplyChange(w, k) PROVE TypeOK'
  BY <1>7 DEF ApplyChange
<1>8. ASSUME NEW w \in Writer, EndChange(w) PROVE TypeOK'
  <2>1. \A item \in Item \cup {Nil} : InvalidItem(item) \in Item \cup {Nil}
    BY Zenon DEF InvalidItem
  <2> QED
    BY <1>8, <2>1 DEF EndChange, Invalidate
<1>9. CASE UNCHANGED vars
  BY <1>9 DEF vars
<1> QED
  BY <1>1, <1>2, <1>3, <1>4, <1>5, <1>6, <1>7, <1>8, <1>9 DEF Next

(* A List that is not fetching has nothing to keep.                        *)
LEMMA NotFetching ==
    ASSUME NEW x \in Lister, listing'[x].kind # "fetch"
    PROVE  FetchInv(x)'
BY Zenon DEF FetchInv

(* A List keeps what it knows while neither the store, the changes under   *)
(* way nor its own item differ.                                            *)
LEMMA FetchKept ==
    ASSUME NEW x \in Lister, FetchInv(x), listing'[x] = listing[x], store' = store,
           BeingChanged' = BeingChanged,
           listing[x].kind = "fetch" => \/ items'[listing[x].prefix] = items[listing[x].prefix]
                                       \/ ~OwnsItem(x)'
    PROVE  FetchInv(x)'
BY ZenonT(60) DEF FetchInv, OwnsItem

(* CachedKeysAreStored and FetchInv are preserved together: publishing     *)
(* relies on FetchInv of the publisher, a finished change on Invalidate.   *)
LEMMA InvStep == IInv /\ [Next]_vars => IInv'
<1> SUFFICES ASSUME IInv, [Next]_vars PROVE IInv'
  OBVIOUS
<1>0. TypeOK /\ TypeOK' /\ CachedKeysAreStored /\ \A x \in Lister : FetchInv(x)
  BY TypeStep DEF IInv
<1> SUFFICES CachedKeysAreStored' /\ \A x \in Lister : FetchInv(x)'
  BY <1>0 DEF IInv
<1> USE <1>0, KeysOfAssumption, NilAssumption
<1>1. ASSUME NEW l \in Lister, NEW p \in Prefix, ListHit(l, p)
      PROVE  CachedKeysAreStored' /\ \A x \in Lister : FetchInv(x)'
  <2>1. UNCHANGED <<store, items, changing>> /\ listing'[l].kind = "done"
        /\ \A x \in Lister : x # l => listing'[x] = listing[x]
    BY <1>1 DEF ListHit, TypeOK
  <2>2. CachedKeysAreStored'
    BY <2>1, ZenonT(60) DEF CachedKeysAreStored, Ready, BeingChanged
  <2>3. ASSUME NEW x \in Lister PROVE FetchInv(x)'
    <3>1. BeingChanged' = BeingChanged
      BY <2>1, Zenon DEF BeingChanged
    <3>2. CASE x = l
      <4>1. listing'[x].kind # "fetch"
        BY <2>1, <3>2
      <4> QED
        BY <4>1, NotFetching, Zenon
    <3>3. CASE x # l
      BY <2>1, <3>1, <3>3, FetchKept, Zenon
    <3> QED
      BY <3>2, <3>3, Zenon
  <2> QED
    BY <2>2, <2>3
<1>2. ASSUME NEW l \in Lister, NEW p \in Prefix, ListMiss(l, p)
      PROVE  CachedKeysAreStored' /\ \A x \in Lister : FetchInv(x)'
  <2>1. /\ UNCHANGED <<store, changing>>
        /\ listing'[l] = [kind |-> "fetch", prefix |-> p, seen |-> {}, keys |-> {},
                          raced |-> BeingChanged]
        /\ \A x \in Lister : x # l => listing'[x] = listing[x]
        /\ items'[p] = [owner |-> l, ready |-> FALSE, invalid |-> FALSE, keys |-> {}]
        /\ \A q \in Prefix : q # p => items'[q] = items[q]
    BY <1>2, Zenon DEF ListMiss, TypeOK
  <2>2. CachedKeysAreStored'
    BY <2>1 DEF CachedKeysAreStored, Ready, BeingChanged
  <2>5. BeingChanged' = BeingChanged
    BY <2>1, Zenon DEF BeingChanged
  <2>3. FetchInv(l)'
    <3>1. /\ listing'[l].prefix = p /\ listing'[l].seen = {} /\ listing'[l].keys = {}
          /\ listing'[l].raced = BeingChanged /\ items'[p].ready = FALSE
      BY <2>1
    <3> QED
      BY <2>5, <3>1, Zenon DEF FetchInv
  <2>4. ASSUME NEW x \in Lister, x # l PROVE FetchInv(x)'
    <3>1. items'[p].owner = l /\ listing'[x] = listing[x]
      BY <2>1, <2>4
    <3>2. listing[x].kind = "fetch" => listing[x].prefix \in Prefix
      BY Zenon DEF FetchInv
    <3>3. listing[x].kind = "fetch" => \/ items'[listing[x].prefix] = items[listing[x].prefix]
                                      \/ ~OwnsItem(x)'
      BY <2>1, <2>4, <3>1, <3>2, Zenon DEF OwnsItem
    <3> QED
      BY <2>1, <2>5, <3>1, <3>3, FetchKept, Zenon
  <2> QED
    BY <2>2, <2>3, <2>4
<1>3. ASSUME NEW l \in Lister, NEW k \in Key, FetchKey(l, k)
      PROVE  CachedKeysAreStored' /\ \A x \in Lister : FetchInv(x)'
  <2>1. /\ UNCHANGED <<store, items, changing>>
        /\ listing[l].kind = "fetch" /\ listing'[l].kind = "fetch"
        /\ listing'[l].prefix = listing[l].prefix /\ listing'[l].raced = listing[l].raced
        /\ listing'[l].seen = listing[l].seen \cup {k}
        /\ listing'[l].keys = listing[l].keys \cup (store \cap {k})
        /\ k \notin listing[l].seen /\ k \in KeysOf[listing[l].prefix]
        /\ \A x \in Lister : x # l => listing'[x] = listing[x]
    BY <1>3 DEF FetchKey, TypeOK, ListCall
  <2>2. CachedKeysAreStored'
    BY <2>1, ZenonT(60) DEF CachedKeysAreStored, Ready, BeingChanged
  <2>5. BeingChanged' = BeingChanged
    BY <2>1, Zenon DEF BeingChanged
  <2>3. FetchInv(l)'
    <3>1. \A j \in listing'[l].seen : j \in listing[l].seen \/ j = k
      BY <2>1, Zenon
    <3>2. \A j \in listing[l].seen : j \in listing'[l].keys <=> j \in listing[l].keys
      BY <2>1, Zenon
    <3>3. k \in listing'[l].keys <=> k \in store
      BY <2>1, Zenon DEF FetchInv
    <3>4. OwnsItem(l)' => OwnsItem(l)
      BY <2>1, Zenon DEF OwnsItem
    <3>5. /\ listing'[l].keys \subseteq listing'[l].seen
          /\ listing'[l].seen \subseteq KeysOf[listing'[l].prefix]
      BY <2>1, Zenon DEF FetchInv
    <3>6. \A j \in listing'[l].seen \ listing'[l].raced : j \in listing'[l].keys <=> j \in store'
      BY <2>1, <3>1, <3>2, <3>3, Zenon DEF FetchInv
    <3>7. OwnsItem(l)' /\ ~items'[listing'[l].prefix].invalid =>
            \A j \in listing'[l].seen \ BeingChanged' : j \in listing'[l].keys <=> j \in store'
      BY <2>1, <2>5, <3>1, <3>2, <3>3, <3>4, Zenon DEF FetchInv
    <3> QED
      BY <2>1, <2>5, <3>4, <3>5, <3>6, <3>7, Zenon DEF FetchInv
  <2>4. ASSUME NEW x \in Lister, x # l PROVE FetchInv(x)'
    BY <2>1, <2>4, <2>5, FetchKept, Zenon
  <2> QED
    BY <2>2, <2>3, <2>4
<1>4. ASSUME NEW l \in Lister, FetchFails(l)
      PROVE  CachedKeysAreStored' /\ \A x \in Lister : FetchInv(x)'
  <2>1. /\ UNCHANGED <<store, items, changing>> /\ listing'[l].kind = "idle"
        /\ \A x \in Lister : x # l => listing'[x] = listing[x]
    BY <1>4 DEF FetchFails, TypeOK, NoCall
  <2>2. CachedKeysAreStored'
    BY <2>1, ZenonT(60) DEF CachedKeysAreStored, Ready, BeingChanged
  <2>3. ASSUME NEW x \in Lister PROVE FetchInv(x)'
    BY <2>1, ZenonT(60) DEF FetchInv, OwnsItem, BeingChanged
  <2> QED
    BY <2>2, <2>3
<1>5. ASSUME NEW l \in Lister, Publish(l)
      PROVE  CachedKeysAreStored' /\ \A x \in Lister : FetchInv(x)'
  <2> DEFINE p == listing[l].prefix
  <2>1. /\ UNCHANGED <<store, changing>> /\ listing'[l].kind = "done"
        /\ listing[l].kind = "fetch" /\ p \in Prefix /\ listing[l].seen = KeysOf[p]
        /\ \A x \in Lister : x # l => listing'[x] = listing[x]
        /\ \A q \in Prefix : q # p => items'[q] = items[q]
    BY <1>5 DEF Publish, TypeOK, ListCall, FetchInv
  <2>2. CASE OwnsItem(l) /\ ~items[p].invalid
    <3>1. items'[p].ready /\ items'[p].keys = listing[l].keys /\ items'[p].owner = l
          /\ items'[p] # Nil
      <4>1. items[p] \in Item /\ items[p].owner = l
        BY <2>1, <2>2 DEF TypeOK, OwnsItem
      <4>2. items'[p] = [items[p] EXCEPT !.ready = TRUE, !.keys = listing[l].keys]
        BY <1>5, <2>1, <2>2, Zenon DEF Publish, TypeOK, OwnsItem
      <4>3. listing[l].keys \in SUBSET Key
        BY DEF TypeOK, ListCall
      <4>4. [items[p] EXCEPT !.ready = TRUE, !.keys = listing[l].keys] \in Item
        BY <4>1, <4>3, ZenonT(60) DEF Item
      <4> QED
        BY <4>1, <4>2, <4>4, ZenonT(60) DEF Item
    <3>2. CachedKeysAreStored'
      BY <2>1, <2>2, <3>1 DEF CachedKeysAreStored, Ready, BeingChanged, FetchInv
    <3>3. ASSUME NEW x \in Lister PROVE FetchInv(x)'
      <4>1. CASE x = l
        <5>1. listing'[x].kind # "fetch"
          BY <2>1, <4>1
        <5> QED
          BY <5>1, NotFetching, Zenon
      <4>2. CASE x # l
        <5>1. listing'[x] = listing[x] /\ BeingChanged' = BeingChanged
          BY <2>1, <4>2, Zenon DEF BeingChanged
        <5>2. listing[x].kind = "fetch" => listing[x].prefix \in Prefix
          BY Zenon DEF FetchInv
        <5>3. listing[x].kind = "fetch" => \/ items'[listing[x].prefix] = items[listing[x].prefix]
                                          \/ ~OwnsItem(x)'
          <6>1. listing[x].prefix = p => ~OwnsItem(x)'
            BY <3>1, <4>2, <5>1 DEF OwnsItem
          <6> QED
            BY <2>1, <5>2, <6>1, Zenon
        <5> QED
          BY <2>1, <5>1, <5>3, FetchKept, Zenon
      <4> QED
        BY <4>1, <4>2, Zenon
    <3> QED
      BY <3>2, <3>3
  <2>3. CASE ~(OwnsItem(l) /\ ~items[p].invalid)
    <3>1. items' = items
      BY <1>5, <2>1, <2>3 DEF Publish, OwnsItem
    <3>2. CachedKeysAreStored'
      BY <2>1, <3>1, ZenonT(60) DEF CachedKeysAreStored, Ready, BeingChanged
    <3>3. ASSUME NEW x \in Lister PROVE FetchInv(x)'
      <4>1. CASE x = l
        <5>1. listing'[x].kind # "fetch"
          BY <2>1, <4>1
        <5> QED
          BY <5>1, NotFetching, Zenon
      <4>2. CASE x # l
        <5>1. BeingChanged' = BeingChanged
          BY <2>1, Zenon DEF BeingChanged
        <5> QED
          BY <2>1, <3>1, <4>2, <5>1, FetchKept, Zenon
      <4> QED
        BY <4>1, <4>2, Zenon
    <3> QED
      BY <3>2, <3>3
  <2> QED
    BY <2>2, <2>3, Zenon
<1>6. ASSUME NEW w \in Writer, NEW kind \in {"write", "remove"}, NEW ks \in SUBSET Key,
             BeginChange(w, kind, ks)
      PROVE  CachedKeysAreStored' /\ \A x \in Lister : FetchInv(x)'
  <2>1. /\ UNCHANGED <<store, items>>
        /\ changing'[w] = [kind |-> kind, keys |-> ks] /\ changing[w].kind = "idle"
        /\ \A v \in Writer : v # w => changing'[v] = changing[v]
    BY <1>6 DEF BeginChange, TypeOK
  <2>2. BeingChanged' = BeingChanged \cup ks
    BY <2>1 DEF BeingChanged
  <2>3. \A x \in Lister : listing'[x] = IF listing[x].kind = "fetch"
                     THEN [listing[x] EXCEPT !.raced = listing[x].raced \cup ks] ELSE listing[x]
    BY <1>6 DEF BeginChange
  <2>4. \A x \in Lister : /\ listing'[x].kind = listing[x].kind
                          /\ listing'[x].prefix = listing[x].prefix
                          /\ listing'[x].seen = listing[x].seen
                          /\ listing'[x].keys = listing[x].keys
                          /\ listing[x].kind = "fetch" =>
                               listing'[x].raced = listing[x].raced \cup ks
    BY <2>3 DEF TypeOK, ListCall
  <2>5. CachedKeysAreStored'
    BY <2>1, <2>2, ZenonT(60) DEF CachedKeysAreStored, Ready
  <2>6. ASSUME NEW x \in Lister PROVE FetchInv(x)'
    <3>1. OwnsItem(x)' => OwnsItem(x)
      BY <2>1, <2>4, Zenon DEF OwnsItem
    <3> QED
      BY <2>1, <2>2, <2>4, <3>1, ZenonT(60) DEF FetchInv
  <2> QED
    BY <2>5, <2>6
<1>7. ASSUME NEW w \in Writer, NEW k \in Key, ApplyChange(w, k)
      PROVE  CachedKeysAreStored' /\ \A x \in Lister : FetchInv(x)'
  <2>1. UNCHANGED <<items, listing, changing>> /\ k \in BeingChanged
        /\ \A j \in Key : j # k => (j \in store' <=> j \in store)
    BY <1>7 DEF ApplyChange, BeingChanged
  <2>2. BeingChanged' = BeingChanged
    BY <2>1 DEF BeingChanged
  <2>3. CachedKeysAreStored'
    BY <2>1, <2>2, ZenonT(60) DEF CachedKeysAreStored, Ready
  <2>4. ASSUME NEW x \in Lister PROVE FetchInv(x)'
    BY <2>1, <2>2 DEF FetchInv, OwnsItem, TypeOK, ListCall
  <2> QED
    BY <2>3, <2>4
<1>8. ASSUME NEW w \in Writer, EndChange(w)
      PROVE  CachedKeysAreStored' /\ \A x \in Lister : FetchInv(x)'
  <2> DEFINE ks == changing[w].keys
  <2>1. /\ UNCHANGED <<store, listing>> /\ ks \subseteq Key
        /\ \A q \in Prefix : items'[q] = IF ks \cap KeysOf[q] # {}
                                          THEN InvalidItem(items[q]) ELSE items[q]
    BY <1>8, ZenonT(60) DEF EndChange, Invalidate, TypeOK, ChangeCall
  <2>2. BeingChanged' \subseteq BeingChanged /\ BeingChanged \subseteq BeingChanged' \cup ks
    BY <1>8 DEF EndChange, BeingChanged, TypeOK
  <2>3. ASSUME NEW q \in Prefix, items'[q] # Nil, ~items'[q].invalid, ks \cap KeysOf[q] # {}
        PROVE  FALSE
    BY <2>1, <2>3 DEF InvalidItem, TypeOK, Item
  <2>4. ASSUME NEW q \in Prefix, items'[q] # Nil
        PROVE  /\ items[q] # Nil /\ items'[q].owner = items[q].owner
               /\ items'[q].ready = items[q].ready /\ items'[q].keys = items[q].keys
               /\ ~items'[q].invalid => ~items[q].invalid
               /\ items'[q].ready => ks \cap KeysOf[q] = {}
    BY <2>1, <2>4 DEF InvalidItem, TypeOK, Item
  <2>5. CachedKeysAreStored'
    BY <2>1, <2>2, <2>4, ZenonT(60) DEF CachedKeysAreStored, Ready
  <2>6. ASSUME NEW x \in Lister PROVE FetchInv(x)'
    <3>1. CASE listing[x].kind # "fetch"
      BY <2>1, <3>1, NotFetching, Zenon
    <3>2. CASE listing[x].kind = "fetch"
      <4> DEFINE q == listing[x].prefix
      <4>1. q \in Prefix /\ listing'[x] = listing[x] /\ store' = store
        BY <2>1, <3>2, Zenon DEF FetchInv
      <4>2. OwnsItem(x)' => OwnsItem(x) /\ items'[q] # Nil
        BY <2>4, <4>1, Zenon DEF OwnsItem
      <4>3. OwnsItem(x)' => ~items'[q].ready
        BY <2>4, <3>2, <4>1, <4>2, Zenon DEF FetchInv
      <4>4. ASSUME OwnsItem(x)', ~items'[q].invalid
            PROVE  /\ ~items[q].invalid
                   /\ \A k \in listing[x].seen \ BeingChanged' : k \notin BeingChanged
        <5>1. ~items[q].invalid /\ ks \cap KeysOf[q] = {}
          BY <2>3, <2>4, <4>1, <4>2, <4>4, Zenon
        <5>2. listing[x].seen \subseteq KeysOf[q]
          BY <3>2, Zenon DEF FetchInv
        <5> HIDE DEF ks, q
        <5> QED
          BY <2>2, <5>1, <5>2, Zenon
      <4>5. BeingChanged' \subseteq listing[x].raced
        BY <2>2, <3>2, Zenon DEF FetchInv
      <4> QED
        BY <3>2, <4>1, <4>2, <4>3, <4>4, <4>5, Zenon DEF FetchInv
    <3> QED
      BY <3>1, <3>2, Zenon
  <2> QED
    BY <2>5, <2>6, Zenon
<1>9. CASE UNCHANGED vars
  BY <1>9, ZenonT(60) DEF vars, CachedKeysAreStored, Ready, BeingChanged, FetchInv, OwnsItem
<1> QED
  BY <1>1, <1>2, <1>3, <1>4, <1>5, <1>6, <1>7, <1>8, <1>9 DEF Next

(* A prefix being listed is marked as such until its List publishes, and   *)
(* what a List has fetched misses no change but those that Invalidate has  *)
(* made it drop: the invariant of List, Invalidate and the object changes. *)
THEOREM KeyCacheInvariant == Spec => []IInv
<1>1. Init => IInv
  BY DEF Init, IInv, TypeOK, ListCall, ChangeCall, Item, NoCall, CachedKeysAreStored, Ready,
         FetchInv
<1> QED
  BY <1>1, InvStep, PTL DEF Spec

(* Whatever the interleaving of List, Invalidate and object changes, the   *)
(* keys List serves from the cache are the keys in the object store, up to *)
(* changes whose Write, Remove or Copy has not returned yet.               *)
THEOREM CacheCoherent == Spec => []CachedKeysAreStored
<1>1. IInv => CachedKeysAreStored
  BY Zenon DEF IInv
<1> QED
  BY <1>1, KeyCacheInvariant, PTL

(* A List that returns, from the cache or from the store, shows every      *)
(* change that had returned before it began: read-your-writes through the  *)
(* cache, for every caller.                                                *)
THEOREM ReadYourWrites == Spec => ListSeesFinishedChanges
<1> DEFINE Good(l) ==
      listing'[l] # listing[l] /\ listing'[l].kind = "done" =>
          \A k \in KeysOf[listing'[l].prefix] \ listing'[l].raced :
              k \in listing'[l].keys <=> k \in store
<1>1. Init => IInv
  BY DEF Init, IInv, TypeOK, ListCall, ChangeCall, Item, NoCall, CachedKeysAreStored, Ready,
         FetchInv
<1>2. ASSUME IInv, Next, NEW x \in Lister PROVE Good(x)
  <2> USE <1>2 DEF IInv
  <2>1. ASSUME NEW l \in Lister, NEW p \in Prefix, ListHit(l, p) PROVE Good(x)
    BY <2>1, ZenonT(60) DEF ListHit, TypeOK, CachedKeysAreStored, Ready
  <2>2. ASSUME NEW l \in Lister, NEW p \in Prefix, ListMiss(l, p) PROVE Good(x)
    BY <2>2, ZenonT(60) DEF ListMiss, TypeOK
  <2>3. ASSUME NEW l \in Lister, NEW k \in Key, FetchKey(l, k) PROVE Good(x)
    <3>1. listing'[x] # listing[x] => listing'[x].kind = "fetch"
      BY <2>3, ZenonT(60) DEF FetchKey, TypeOK, ListCall
    <3> QED
      BY <3>1
  <2>4. ASSUME NEW l \in Lister, FetchFails(l) PROVE Good(x)
    BY <2>4, Zenon DEF FetchFails, TypeOK, NoCall
  <2>5. ASSUME NEW l \in Lister, Publish(l) PROVE Good(x)
    <3>1. CASE x = l
      <4>1. /\ listing'[l].prefix = listing[l].prefix /\ listing'[l].keys = listing[l].keys
            /\ listing'[l].raced = listing[l].raced
            /\ listing[l].kind = "fetch" /\ listing[l].seen = KeysOf[listing[l].prefix]
        BY <2>5 DEF Publish, TypeOK, ListCall
      <4> QED
        BY <3>1, <4>1 DEF FetchInv
    <3>2. CASE x # l
      BY <2>5, <3>2, Zenon DEF Publish, TypeOK
    <3> QED
      BY <3>1, <3>2, Zenon
  <2>6. ASSUME NEW w \in Writer, NEW kind \in {"write", "remove"}, NEW ks \in SUBSET Key,
               BeginChange(w, kind, ks)
        PROVE  Good(x)
    <3>1. listing'[x] # listing[x] => listing'[x].kind = "fetch"
      BY <2>6 DEF BeginChange, TypeOK, ListCall
    <3> QED
      BY <3>1
  <2>7. ASSUME NEW w \in Writer, NEW k \in Key, ApplyChange(w, k) PROVE Good(x)
    BY <2>7, Zenon DEF ApplyChange
  <2>8. ASSUME NEW w \in Writer, EndChange(w) PROVE Good(x)
    BY <2>8, Zenon DEF EndChange
  <2> QED
    BY <2>1, <2>2, <2>3, <2>4, <2>5, <2>6, <2>7, <2>8, Zenon DEF Next
<1>3. IInv /\ [Next]_vars => [\A l \in Lister : Good(l)]_vars
  BY <1>2
<1> QED
  BY <1>1, <1>3, InvStep, PTL DEF Spec, ListSeesFinishedChanges

=============================================================================
