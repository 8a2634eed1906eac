-------------------------- MODULE IvfPqStepProofs ---------------------------
(***************************************************************************)
(* First the manager of the vector indexes (VecIndexManager): for any      *)
(* goroutines and any number of failing loads, deletions and restarts, no  *)
(* object of an index is freed while somebody holds it, and no two objects *)
(* of it are open at a time.  Then IvfPqIndex: it uses the manager as      *)
(* VecIndexManager says, and the searches, the seals, the saves and the    *)
(* deletes keep its invariant.  IvfPqIndexProofs goes on with the others.  *)
(***************************************************************************)
EXTENDS IvfPqIndex, FiniteSetTheorems, WellFoundedInduction, TLAPS

(* Only finitely many goroutines refer to the object.                      *)
LEMMA ReferringFinite ==
  IsFiniteSet(Referring) /\ IsFiniteSet(Proc)
<1>1. IsFiniteSet(Client \cup {Sealer} \cup {Collector} \cup {Deleter})
  BY FS_AddElement, VecManagerAssumption, Zenon
<1>2. Proc = Client \cup {Sealer} \cup {Collector} \cup {Deleter}
  BY DEF Proc, Holder
<1> QED
  BY <1>1, <1>2, FS_Subset DEF Referring

(* One more goroutine refers to it,                                        *)
LEMMA RefersToo ==
  ASSUME NEW p \in Proc, p \notin Referring, Referring' = Referring \cup {p}
  PROVE  Cardinality(Referring') = Cardinality(Referring) + 1
BY FS_AddElement, ReferringFinite, Zenon

(* or one less.                                                            *)
LEMMA RefersNoMore ==
  ASSUME NEW p \in Referring, Referring' = Referring \ {p}
  PROVE  Cardinality(Referring') = Cardinality(Referring) - 1
BY FS_RemoveElement, ReferringFinite

(* The names of the goroutines differ.                                     *)
LEMMA Names ==
  /\ Collector \in Proc /\ Deleter \in Proc /\ Sealer \in Holder /\ Holder \subseteq Proc
  /\ Collector \notin Holder /\ Deleter \notin Holder /\ Collector # Deleter
  /\ None \notin Proc /\ \A p \in Proc : p \in Holder \/ p = Collector \/ p = Deleter
BY VecManagerAssumption DEF Proc, Holder

(* Somebody refers to it, so that the count is not 0.                      *)
LEMMA ReferredTo ==
  ASSUME NEW p \in Referring
  PROVE  Cardinality(Referring) \in Nat \ {0}
BY FS_CardinalityType, FS_EmptySet, ReferringFinite, Zenon

(* A goroutine asks for the index.                                         *)
LEMMA AsksKeepsManagerInv ==
  ASSUME ManagerInv, NEW p \in Holder, Asks(p)
  PROVE  ManagerInv'
<1> USE Names DEF ManagerInv, Asks, Goto, At, manager
<1>1. ManagerTypeOK'
  <2>3. refs' \in [Obj -> Nat]
    BY Zenon DEF ManagerTypeOK
  <2>4. at' \in [Proc -> Place]
    BY VecManagerAssumption DEF ManagerTypeOK, Place
  <2> QED
    BY <2>3, <2>4, Zenon DEF ManagerTypeOK
<1>2. Places'
  BY ZenonT(60) DEF ManagerTypeOK, Place, Places
<1>3. ReadyOwned' /\ FreesOnly'
  BY ZenonT(60) DEF ManagerTypeOK, Place, Places, ReadyOwned, FreesOnly, Loading, CachedOnly, NoneOpen
<1>4. UsesCached'
  BY ZenonT(60) DEF ManagerTypeOK, Place, Places, UsesCached, ReadyOwned, CachedOnly, Loading, Obj
<1>5. CachedOnly' /\ NoneOpen'
  BY Zenon DEF ManagerTypeOK, Place, Places, ReadyOwned, FreesOnly, UsesCached, Loading, CachedOnly, NoneOpen, Obj
<1>6. Counted'
  <2>1. Referring' = Referring
    BY ZenonT(60) DEF ManagerTypeOK, Place, Places, Referring
  <2> QED
    BY <2>1, Zenon DEF Counted
<1>7. DeletedYoung'
  BY DEF ManagerTypeOK, Place, Places, DeletedYoung, Deleting
<1> QED
  BY <1>1, <1>2, <1>3, <1>4, <1>5, <1>6, <1>7, Zenon

(* It takes the cached object.                                             *)
LEMMA TakesKeepsManagerInv ==
  ASSUME ManagerInv, NEW p \in Holder, Takes(p)
  PROVE  ManagerInv'
<1> USE Names DEF ManagerInv, Takes, Goto, At
<1>1. ManagerTypeOK'
  <2>3. refs' \in [Obj -> Nat]
    BY DEF ManagerTypeOK, Obj
  <2>4. at' \in [Proc -> Place]
    BY VecManagerAssumption DEF ManagerTypeOK, Place
  <2> QED
    BY <2>3, <2>4, Zenon DEF ManagerTypeOK
<1>2. Places'
  BY DEF ManagerTypeOK, Place, Places
<1>3. ReadyOwned' /\ FreesOnly'
  BY DEF ManagerTypeOK, Place, Places, ReadyOwned, FreesOnly, Loading, CachedOnly, NoneOpen
<1>4. UsesCached'
  BY DEF ManagerTypeOK, Place, Places, UsesCached, ReadyOwned, CachedOnly, Loading, Obj
<1>5. CachedOnly' /\ NoneOpen'
  BY ZenonT(60) DEF ManagerTypeOK, Place, Places, ReadyOwned, FreesOnly, UsesCached, Loading, CachedOnly, NoneOpen, Obj
<1>6. Counted'
  <2>1. p \notin Referring /\ Referring' = Referring \cup {p}
    BY DEF ManagerTypeOK, Place, Places, Referring
  <2>2. Cardinality(Referring') = Cardinality(Referring) + 1
    BY <2>1, RefersToo, ZenonT(60)
  <2> QED
    BY <2>2 DEF Counted, ManagerTypeOK, Obj
<1>7. DeletedYoung'
  BY DEF ManagerTypeOK, Place, Places, DeletedYoung, Deleting
<1> QED
  BY <1>1, <1>2, <1>3, <1>4, <1>5, <1>6, <1>7, ZenonT(60)

(* It is the one to load.                                                  *)
LEMMA ClaimsKeepsManagerInv ==
  ASSUME ManagerInv, NEW p \in Holder, Claims(p)
  PROVE  ManagerInv'
<1> USE Names DEF ManagerInv, Claims, Goto, At
<1>1. ManagerTypeOK'
  <2>3. refs' \in [Obj -> Nat]
    BY Zenon DEF ManagerTypeOK
  <2>4. at' \in [Proc -> Place]
    BY VecManagerAssumption, Zenon DEF ManagerTypeOK, Place
  <2> QED
    BY <2>3, <2>4, Zenon DEF ManagerTypeOK
<1>2. Places'
  BY ZenonT(60) DEF ManagerTypeOK, Place, Places
<1>3. ReadyOwned' /\ FreesOnly'
  BY ZenonT(60) DEF ManagerTypeOK, Place, Places, ReadyOwned, FreesOnly, Loading, CachedOnly, NoneOpen
<1>4. UsesCached'
  BY ZenonT(60) DEF ManagerTypeOK, Place, Places, UsesCached, ReadyOwned, CachedOnly, Loading, Obj
<1>5. CachedOnly' /\ NoneOpen'
  BY ZenonT(60) DEF ManagerTypeOK, Place, Places, ReadyOwned, FreesOnly, UsesCached, Loading, CachedOnly, NoneOpen, Obj
<1>6. Counted'
  <2>1. Referring' = Referring
    BY ZenonT(60) DEF ManagerTypeOK, Place, Places, Referring
  <2> QED
    BY <2>1, Zenon DEF Counted
<1>7. DeletedYoung'
  BY DEF ManagerTypeOK, Place, Places, DeletedYoung, Deleting
<1> QED
  BY <1>1, <1>2, <1>3, <1>4, <1>5, <1>6, <1>7, ZenonT(60)

(* The load fails.                                                         *)
LEMMA LoadFailsKeepsManagerInv ==
  ASSUME ManagerInv, NEW p \in Holder, LoadFails(p)
  PROVE  ManagerInv'
<1> USE Names DEF ManagerInv, LoadFails, Goto, At
<1>1. ManagerTypeOK'
  <2>3. refs' \in [Obj -> Nat]
    BY Zenon DEF ManagerTypeOK
  <2>4. at' \in [Proc -> Place]
    BY VecManagerAssumption DEF ManagerTypeOK, Place
  <2> QED
    BY <2>3, <2>4, Zenon DEF ManagerTypeOK
<1>2. Places'
  BY ZenonT(60) DEF ManagerTypeOK, Place, Places
<1>3. ReadyOwned' /\ FreesOnly'
  BY DEF ManagerTypeOK, Place, Places, ReadyOwned, FreesOnly, Loading, CachedOnly, NoneOpen
<1>4. UsesCached'
  BY ZenonT(60) DEF ManagerTypeOK, Place, Places, UsesCached, ReadyOwned, CachedOnly, Loading, Obj
<1>5. CachedOnly' /\ NoneOpen'
  BY DEF ManagerTypeOK, Place, Places, ReadyOwned, FreesOnly, UsesCached, Loading, CachedOnly, NoneOpen, Obj
<1>6. Counted'
  <2>1. Referring' = Referring
    BY ZenonT(60) DEF ManagerTypeOK, Place, Places, Referring
  <2> QED
    BY <2>1, Zenon DEF Counted
<1>7. DeletedYoung'
  BY DEF ManagerTypeOK, Place, Places, DeletedYoung, Deleting
<1> QED
  BY <1>1, <1>2, <1>3, <1>4, <1>5, <1>6, <1>7, ZenonT(60)

(* It gives the object back.                                               *)
LEMMA ClosesKeepsManagerInv ==
  ASSUME ManagerInv, NEW p \in Holder, Closes(p)
  PROVE  ManagerInv'
<1> USE Names DEF ManagerInv, Closes, Goto, At
<1>1. ManagerTypeOK'
  <2>1. p \in Referring /\ cached \in Obj /\ at[p].obj = cached
    BY DEF ManagerTypeOK, Place, Places, UsesCached, Referring, Obj
  <2>2. refs[cached] \in Nat \ {0}
    BY <2>1, ReferredTo DEF Counted, Obj
  <2>3. refs' \in [Obj -> Nat]
    BY <2>1, <2>2 DEF ManagerTypeOK
  <2>4. at' \in [Proc -> Place]
    BY VecManagerAssumption DEF ManagerTypeOK, Place
  <2> QED
    BY <2>3, <2>4, Zenon DEF ManagerTypeOK
<1>2. Places'
  BY DEF ManagerTypeOK, Place, Places
<1>3. ReadyOwned' /\ FreesOnly'
  BY ZenonT(60) DEF ManagerTypeOK, Place, Places, ReadyOwned, FreesOnly, Loading, CachedOnly, NoneOpen
<1>4. UsesCached'
  BY ZenonT(60) DEF ManagerTypeOK, Place, Places, UsesCached, ReadyOwned, CachedOnly, Loading, Obj
<1>5. CachedOnly' /\ NoneOpen'
  BY Zenon DEF ManagerTypeOK, Place, Places, ReadyOwned, FreesOnly, UsesCached, Loading, CachedOnly, NoneOpen, Obj
<1>6. Counted'
  <2>1. p \in Referring /\ Referring' = Referring \ {p}
    BY DEF ManagerTypeOK, Place, Places, Referring
  <2>2. Cardinality(Referring') = Cardinality(Referring) - 1
    BY <2>1, RefersNoMore, Zenon
  <2>3. at[p].obj = cached
    BY ZenonT(60) DEF UsesCached
  <2> QED
    BY <2>2, <2>3 DEF Counted, ManagerTypeOK, Obj
<1>7. DeletedYoung'
  BY DEF ManagerTypeOK, Place, Places, DeletedYoung, Deleting
<1> QED
  BY <1>1, <1>2, <1>3, <1>4, <1>5, <1>6, <1>7, ZenonT(60)

(* An hour passes.                                                         *)
LEMMA ExpiresKeepsManagerInv ==
  ASSUME ManagerInv, Expires
  PROVE  ManagerInv'
<1> USE Names DEF ManagerInv, Expires, At
<1>1. ManagerTypeOK'
  BY Zenon DEF ManagerTypeOK
<1>2. Places'
  BY Zenon DEF ManagerTypeOK, Place, Places
<1>3. ReadyOwned' /\ FreesOnly'
  BY Zenon DEF ManagerTypeOK, Place, Places, ReadyOwned, FreesOnly, Loading, CachedOnly, NoneOpen
<1>4. UsesCached'
  BY ZenonT(60) DEF ManagerTypeOK, Place, Places, UsesCached, ReadyOwned, CachedOnly, Loading, Obj
<1>5. CachedOnly' /\ NoneOpen'
  BY DEF ManagerTypeOK, Place, Places, ReadyOwned, FreesOnly, UsesCached, Loading, CachedOnly, NoneOpen, Obj
<1>6. Counted'
  <2>1. Referring' = Referring
    BY Zenon DEF ManagerTypeOK, Place, Places, Referring
  <2> QED
    BY <2>1, Zenon DEF Counted
<1>7. DeletedYoung'
  BY DEF ManagerTypeOK, Place, Places, DeletedYoung, Deleting
<1> QED
  BY <1>1, <1>2, <1>3, <1>4, <1>5, <1>6, <1>7, ZenonT(60)

(* The object is freed.                                                    *)
LEMMA FreesKeepsManagerInv ==
  ASSUME ManagerInv, NEW p \in {Collector, Deleter}, Frees(p)
  PROVE  ManagerInv'
<1> USE Names DEF ManagerInv, Frees, Goto, At
<1>1. ManagerTypeOK'
  <2>3. refs' \in [Obj -> Nat]
    BY Zenon DEF ManagerTypeOK
  <2>4. at' \in [Proc -> Place]
    BY VecManagerAssumption DEF ManagerTypeOK, Place
  <2> QED
    BY <2>3, <2>4, Zenon DEF ManagerTypeOK
<1>2. Places'
  BY Zenon DEF ManagerTypeOK, Place, Places
<1>3. ReadyOwned' /\ FreesOnly'
  BY ZenonT(60) DEF ManagerTypeOK, Place, Places, ReadyOwned, FreesOnly, Loading, CachedOnly, NoneOpen
<1>4. UsesCached'
  BY ZenonT(60) DEF ManagerTypeOK, Place, Places, UsesCached, ReadyOwned, CachedOnly, Loading, Obj
<1>5. CachedOnly' /\ NoneOpen'
  BY ZenonT(60) DEF ManagerTypeOK, Place, Places, ReadyOwned, FreesOnly, UsesCached, Loading, CachedOnly, NoneOpen, Obj
<1>6. Counted'
  <2>1. Referring' = Referring
    BY ZenonT(60) DEF ManagerTypeOK, Place, Places, Referring
  <2> QED
    BY <2>1, Zenon DEF Counted
<1>7. DeletedYoung'
  BY ZenonT(60) DEF ManagerTypeOK, Place, Places, DeletedYoung, Deleting
<1> QED
  BY <1>1, <1>2, <1>3, <1>4, <1>5, <1>6, <1>7, ZenonT(60)

(* The deletion gives it back.                                             *)
LEMMA DeleteDropsKeepsManagerInv ==
  ASSUME ManagerInv, DeleteDrops
  PROVE  ManagerInv'
<1> USE Names DEF ManagerInv, DeleteDrops, Goto, At
<1>1. ManagerTypeOK'
  <2>1. Deleter \in Referring /\ cached \in Obj /\ at[Deleter].obj = cached
    BY DEF ManagerTypeOK, Place, Places, UsesCached, Referring, Obj
  <2>2. refs[cached] \in Nat \ {0}
    BY <2>1, ReferredTo DEF Counted, Obj
  <2>3. refs' \in [Obj -> Nat]
    BY <2>1, <2>2 DEF ManagerTypeOK
  <2>4. at' \in [Proc -> Place]
    BY VecManagerAssumption, Zenon DEF ManagerTypeOK, Place
  <2> QED
    BY <2>3, <2>4, ZenonT(60) DEF ManagerTypeOK
<1>2. Places'
  BY ZenonT(60) DEF ManagerTypeOK, Place, Places
<1>3. ReadyOwned' /\ FreesOnly'
  BY ZenonT(60) DEF ManagerTypeOK, Place, Places, ReadyOwned, FreesOnly, Loading, CachedOnly, NoneOpen
<1>4. UsesCached'
  BY ZenonT(60) DEF ManagerTypeOK, Place, Places, UsesCached, ReadyOwned, CachedOnly, Loading, Obj
<1>5. CachedOnly' /\ NoneOpen'
  BY Zenon DEF ManagerTypeOK, Place, Places, ReadyOwned, FreesOnly, UsesCached, Loading, CachedOnly, NoneOpen, Obj
<1>6. Counted'
  <2>1. Deleter \in Referring /\ Referring' = Referring \ {Deleter}
    BY DEF ManagerTypeOK, Place, Places, Referring
  <2>2. Cardinality(Referring') = Cardinality(Referring) - 1
    BY <2>1, RefersNoMore, Zenon
  <2>3. at[Deleter].obj = cached
    BY Zenon DEF UsesCached
  <2> QED
    BY <2>2, <2>3 DEF Counted, ManagerTypeOK, Obj
<1>7. DeletedYoung'
  BY DEF ManagerTypeOK, Place, Places, DeletedYoung, Deleting
<1> QED
  BY <1>1, <1>2, <1>3, <1>4, <1>5, <1>6, <1>7, Zenon

(* The deletion ends.                                                      *)
LEMMA DeleteRemovesKeepsManagerInv ==
  ASSUME ManagerInv, DeleteRemoves
  PROVE  ManagerInv'
<1> USE Names DEF ManagerInv, DeleteRemoves, Goto, At, manager
<1>1. ManagerTypeOK'
  <2>3. refs' \in [Obj -> Nat]
    BY DEF ManagerTypeOK
  <2>4. at' \in [Proc -> Place]
    BY VecManagerAssumption DEF ManagerTypeOK, Place
  <2> QED
    BY <2>3, <2>4, ZenonT(60) DEF ManagerTypeOK
<1>2. Places'
  BY DEF ManagerTypeOK, Place, Places
<1>3. ReadyOwned' /\ FreesOnly'
  BY DEF ManagerTypeOK, Place, Places, ReadyOwned, FreesOnly, Loading, CachedOnly, NoneOpen
<1>4. UsesCached'
  BY DEF ManagerTypeOK, Place, Places, UsesCached, ReadyOwned, CachedOnly, Loading, Obj
<1>5. CachedOnly' /\ NoneOpen'
  BY Zenon DEF ManagerTypeOK, Place, Places, ReadyOwned, FreesOnly, UsesCached, Loading, CachedOnly, NoneOpen, Obj
<1>6. Counted'
  <2>1. Referring' = Referring
    BY Zenon DEF ManagerTypeOK, Place, Places, Referring
  <2> QED
    BY <2>1, Zenon DEF Counted
<1>7. DeletedYoung'
  BY DEF ManagerTypeOK, Place, Places, DeletedYoung, Deleting
<1> QED
  BY <1>1, <1>2, <1>3, <1>4, <1>5, <1>6, <1>7, ZenonT(60)

(* While nothing is cached, nobody refers to an object.                    *)
LEMMA NobodyRefers ==
  ASSUME ManagerInv, cached = 0
  PROVE  Referring = {}
BY DEF ManagerInv, UsesCached, Referring

(* Nobody refers to an object whose count is 0.                            *)
LEMMA NobodyRefersToIt ==
  ASSUME ManagerInv, cached # 0, refs[cached] = 0
  PROVE  Referring = {}
BY FS_EmptySet, ReferringFinite, Zenon DEF ManagerInv, Counted

(* A loader publishes the object it made.                                  *)
LEMMA PublishesKeepsManagerInv ==
  ASSUME ManagerInv, NEW p \in Holder, Publishes(p)
  PROVE  ManagerInv'
<1> USE Names DEF ManagerInv
<1> DEFINE o == CHOOSE n \in Obj \ open : TRUE
<1>1. o \in Obj /\ o \in Nat \ {0}
  <2>1. Obj \ open # {}
    BY Zenon DEF Publishes, ManagerTypeOK
  <2>2. o \in Obj \ open
    BY <2>1, Zenon
  <2> QED
    BY <2>2, VecManagerAssumption DEF Obj
<1>2. /\ open' = open \cup {o} /\ cached' = o /\ refs' = [refs EXCEPT ![o] = 1]
      /\ old' = FALSE /\ ready' = None /\ exists' = exists
      /\ at' = [at EXCEPT ![p] = [pc |-> "hold", obj |-> o]]
  BY Zenon DEF Publishes, Goto
<1>3. at[p].pc = "load" /\ ready = p /\ cached = 0 /\ open = {}
  BY ZenonT(60) DEF Publishes, At, ReadyOwned, Loading, CachedOnly, NoneOpen
<1> HIDE DEF o
<1>4. at' \in [Proc -> Place] /\ refs' \in [Obj -> Nat]
  BY <1>1, <1>2 DEF ManagerTypeOK, Place, Obj
<1>5. ManagerTypeOK'
  <2>1. cached' \in 0 .. MaxObj /\ open' \subseteq Obj
    BY <1>1, <1>2, <1>3 DEF Obj
  <2>2. ready' \in Proc \cup {None} /\ old' \in BOOLEAN /\ exists' \in BOOLEAN
    BY <1>2, ZenonT(60) DEF ManagerTypeOK
  <2> QED
    BY <1>4, <2>1, <2>2, ZenonT(60) DEF ManagerTypeOK
<1>6. Places'
  BY <1>2, ZenonT(60) DEF ManagerTypeOK, Place, Places
<1>7. \A q \in Proc : at[q].pc \notin {"hold", "drop", "wait"}
  BY <1>3, Zenon DEF UsesCached, At
<1>8. \A q \in Proc \ {p} : at'[q].pc \notin {"load", "lost", "free", "hold", "drop", "wait"}
  BY <1>2, <1>3, <1>7, ZenonT(60) DEF ManagerTypeOK, ReadyOwned, Loading, At
<1>9. at'[p] = [pc |-> "hold", obj |-> o]
  BY <1>2, ZenonT(60) DEF ManagerTypeOK
<1>10. ReadyOwned' /\ FreesOnly' /\ UsesCached'
  BY <1>1, <1>2, <1>8, <1>9 DEF ReadyOwned, FreesOnly, UsesCached, Loading, At
<1>11. CachedOnly' /\ NoneOpen' /\ DeletedYoung'
  BY <1>1, <1>2, <1>3, Zenon DEF CachedOnly, NoneOpen, DeletedYoung
<1>12. Referring' = {p}
  BY <1>8, <1>9 DEF Referring, At
<1>13. Counted'
  BY <1>1, <1>2, <1>12, FS_Singleton, Zenon DEF Counted, ManagerTypeOK
<1> QED
  BY <1>5, <1>6, <1>10, <1>11, <1>13, ZenonT(60)

(* The collector takes an object nobody refers to out of the cache.        *)
LEMMA CollectsKeepsManagerInv ==
  ASSUME ManagerInv, Collects
  PROVE  ManagerInv'
<1> USE Names DEF ManagerInv
<1>1. Referring = {} /\ open = {cached} /\ cached \in Obj
  BY NobodyRefersToIt DEF Collects, CachedOnly, ManagerTypeOK, Obj
<1>2. /\ cached' = 0 /\ ready' = Collector /\ ready = None
      /\ at' = [at EXCEPT ![Collector] = [pc |-> "free", obj |-> cached]]
      /\ UNCHANGED <<refs, open, old, exists>> /\ old = TRUE /\ cached # 0
  BY DEF Collects, Goto, ManagerTypeOK
<1>3. ManagerTypeOK' /\ at'[Collector] = [pc |-> "free", obj |-> cached]
  <2>1. at' \in [Proc -> Place] /\ at'[Collector] = [pc |-> "free", obj |-> cached]
    BY <1>1, <1>2, Zenon DEF ManagerTypeOK, Place
  <2>2. cached' \in 0 .. MaxObj
    BY <1>2, VecManagerAssumption
  <2>3. /\ ready' \in Proc \cup {None} /\ refs' \in [Obj -> Nat] /\ open' \subseteq Obj
        /\ old' \in BOOLEAN /\ exists' \in BOOLEAN
    BY <1>2, Zenon DEF ManagerTypeOK
  <2> QED
    BY <2>1, <2>2, <2>3, Zenon DEF ManagerTypeOK
<1>4. \A q \in Proc \ {Collector} : at'[q] = at[q]
  BY <1>2, ZenonT(60) DEF ManagerTypeOK
<1>5. Places'
  BY <1>3, <1>4 DEF Places
<1>6. \A q \in Proc : at[q].pc \notin {"load", "lost", "free", "hold", "drop"}
  BY <1>1, <1>2, Zenon DEF ReadyOwned, Loading, At, Referring
<1>7. at[Deleter].pc = "idle"
  BY <1>2, Zenon DEF DeletedYoung, Deleting, At
<1>8. \A q \in Proc : at[q].pc # "wait"
  BY <1>7, ZenonT(60) DEF Places
<1>9. ReadyOwned' /\ FreesOnly' /\ UsesCached'
  BY <1>1, <1>2, <1>3, <1>4, <1>6, <1>8 DEF ReadyOwned, FreesOnly, UsesCached, Loading, At
<1>10. CachedOnly' /\ Counted' /\ NoneOpen' /\ DeletedYoung'
  BY <1>2, Zenon DEF CachedOnly, Counted, NoneOpen, DeletedYoung
<1> QED
  BY <1>3, <1>5, <1>9, <1>10

(* A deletion begins, with a reference to the cached object or without.    *)
LEMMA DeleteBeginsKeepsManagerInv ==
  ASSUME ManagerInv, DeleteBegins
  PROVE  ManagerInv'
<1> USE Names DEF ManagerInv
<1>1. UNCHANGED <<cached, ready, open, exists>> /\ at[Deleter].pc = "idle"
  BY Zenon DEF DeleteBegins, At
<1>2. CASE cached = 0
  <2>1. /\ UNCHANGED <<refs, old>>
        /\ at' = [at EXCEPT ![Deleter] = [pc |-> "remove", obj |-> 0]]
    BY <1>2, ZenonT(60) DEF DeleteBegins, Goto
  <2>2. ManagerTypeOK' /\ at'[Deleter].pc = "remove"
    BY <1>1, <2>1, VecManagerAssumption DEF ManagerTypeOK, Place
  <2>3. \A q \in Proc \ {Deleter} : at'[q] = at[q]
    BY <2>1, ZenonT(60) DEF ManagerTypeOK
  <2>4. Places' /\ ReadyOwned' /\ FreesOnly' /\ UsesCached'
    BY <1>1, <2>2, <2>3 DEF Places, ReadyOwned, FreesOnly, UsesCached, Loading, At
  <2>5. CachedOnly' /\ Counted' /\ NoneOpen' /\ DeletedYoung'
    BY <1>1, <1>2, <2>1, Zenon DEF CachedOnly, Counted, NoneOpen, DeletedYoung
  <2> QED
    BY <2>2, <2>4, <2>5, Zenon
<1>3. CASE cached # 0
  <2>1. /\ refs' = [refs EXCEPT ![cached] = @ + 1] /\ old' = FALSE /\ cached \in Obj
        /\ at' = [at EXCEPT ![Deleter] = [pc |-> "drop", obj |-> cached]]
    BY <1>3 DEF DeleteBegins, Goto, ManagerTypeOK, Obj
  <2>2. refs' \in [Obj -> Nat] /\ refs'[cached] = refs[cached] + 1
    BY <2>1 DEF ManagerTypeOK
  <2>3. ManagerTypeOK' /\ at'[Deleter] = [pc |-> "drop", obj |-> cached]
    BY <1>1, <2>1, <2>2, VecManagerAssumption, ZenonT(60) DEF ManagerTypeOK, Place
  <2>4. \A q \in Proc \ {Deleter} : at'[q] = at[q]
    BY <2>1 DEF ManagerTypeOK
  <2>5. Places' /\ ReadyOwned' /\ FreesOnly' /\ UsesCached'
    BY <1>1, <1>3, <2>3, <2>4 DEF Places, ReadyOwned, FreesOnly, UsesCached, Loading, At
  <2>6. Deleter \notin Referring /\ Referring' = Referring \cup {Deleter}
    BY <1>1, <2>3, <2>4 DEF Referring, At
  <2>7. Counted'
    BY <1>1, <1>3, <2>2, <2>6, RefersToo, ZenonT(60) DEF Counted
  <2>8. CachedOnly' /\ NoneOpen' /\ DeletedYoung'
    BY <1>1, <2>1, Zenon DEF CachedOnly, NoneOpen, DeletedYoung
  <2> QED
    BY <2>3, <2>5, <2>7, <2>8, ZenonT(60)
<1> QED
  BY <1>2, <1>3, Zenon

(* Nobody refers to the object a deletion waits for: it is taken to be     *)
(* freed.                                                                  *)
LEMMA DeleteTakesKeepsManagerInv ==
  ASSUME ManagerInv, DeleteTakes
  PROVE  ManagerInv'
<1> USE Names DEF ManagerInv
<1>1. at[Deleter].pc = "wait" /\ cached # 0 /\ at[Deleter].obj = cached /\ ready = None
  BY Zenon DEF DeleteTakes, At, UsesCached, CachedOnly
<1>2. Referring = {} /\ open = {cached} /\ cached \in Obj
  BY <1>1, NobodyRefersToIt, ZenonT(60) DEF DeleteTakes, CachedOnly, ManagerTypeOK, Obj
<1>3. /\ cached' = 0 /\ ready' = Deleter /\ UNCHANGED <<refs, open, old, exists>>
      /\ at' = [at EXCEPT ![Deleter] = [pc |-> "free", obj |-> cached]]
  BY <1>1, Zenon DEF DeleteTakes, Goto
<1>4. ManagerTypeOK' /\ at'[Deleter] = [pc |-> "free", obj |-> cached]
  <2>1. at' \in [Proc -> Place] /\ at'[Deleter] = [pc |-> "free", obj |-> cached]
    BY <1>2, <1>3, ZenonT(60) DEF ManagerTypeOK, Place
  <2>2. cached' \in 0 .. MaxObj
    BY <1>3, VecManagerAssumption
  <2>3. /\ ready' \in Proc \cup {None} /\ refs' \in [Obj -> Nat] /\ open' \subseteq Obj
        /\ old' \in BOOLEAN /\ exists' \in BOOLEAN
    BY <1>3, Zenon DEF ManagerTypeOK
  <2> QED
    BY <2>1, <2>2, <2>3, ZenonT(60) DEF ManagerTypeOK
<1>5. \A q \in Proc \ {Deleter} : at'[q] = at[q]
  BY <1>3, Zenon DEF ManagerTypeOK
<1>6. \A q \in Proc \ {Deleter} : at[q].pc \notin {"load", "lost", "free", "hold", "drop", "wait"}
  BY <1>1, <1>2, ZenonT(60) DEF ReadyOwned, Loading, At, Referring, Places
<1>7. Places' /\ ReadyOwned' /\ FreesOnly' /\ UsesCached'
  BY <1>2, <1>3, <1>4, <1>5, <1>6 DEF Places, ReadyOwned, FreesOnly, UsesCached, Loading, At
<1>8. CachedOnly' /\ Counted' /\ NoneOpen' /\ DeletedYoung'
  BY <1>3, Zenon DEF CachedOnly, Counted, NoneOpen, DeletedYoung
<1> QED
  BY <1>4, <1>7, <1>8, ZenonT(60)

(* A process that starts has no object.                                    *)
Fresh ==
  /\ cached = 0 /\ ready = None /\ refs = [o \in Obj |-> 0] /\ open = {} /\ old = FALSE
  /\ exists \in BOOLEAN /\ at = [p \in Proc |-> [pc |-> "idle", obj |-> 0]]

(* A manager that has just started satisfies its invariant.                *)
LEMMA FreshManager == Fresh => ManagerInv
<1> SUFFICES ASSUME Fresh PROVE ManagerInv
  BY Zenon
<1>1. ManagerTypeOK
  <2>1. at \in [Proc -> Place]
    BY VecManagerAssumption DEF Fresh, Place
  <2>2. cached \in 0 .. MaxObj /\ refs \in [Obj -> Nat] /\ open \subseteq Obj
    BY VecManagerAssumption DEF Fresh
  <2>3. ready \in Proc \cup {None} /\ old \in BOOLEAN /\ exists \in BOOLEAN
    BY Zenon DEF Fresh
  <2> QED
    BY <2>1, <2>2, <2>3, Zenon DEF ManagerTypeOK
<1>2. Places /\ ReadyOwned /\ FreesOnly /\ UsesCached
  BY Names, Zenon DEF Fresh, Places, ReadyOwned, FreesOnly, UsesCached, Loading, At
<1> QED
  BY <1>1, <1>2, Zenon DEF Fresh, ManagerInv, CachedOnly, Counted, NoneOpen, DeletedYoung

(* So is one that starts again.                                            *)
LEMMA RestartIsFresh ==
  ASSUME ManagerInv, Restart
  PROVE  Fresh'
BY DEF Fresh, Restart, ManagerInv, ManagerTypeOK

(* The same of the next state.                                             *)
LEMMA FreshAgain == Fresh' => ManagerInv'
BY FreshManager, PTL

(* Every step of the manager keeps its invariant.                          *)
LEMMA StepKeepsManagerInv ==
  ASSUME ManagerInv, [ManagerNext]_managerVars
  PROVE  ManagerInv'
<1>1. CASE Restart
  BY <1>1, RestartIsFresh, FreshAgain, ZenonT(60)
<1>2. CASE UNCHANGED managerVars
  BY <1>2, ZenonT(60) DEF managerVars, manager, ManagerInv, ManagerTypeOK, Places, ReadyOwned, FreesOnly,
     UsesCached, CachedOnly, Counted, NoneOpen, DeletedYoung, Loading, At, Referring, Deleting
<1>3. CASE \E p \in Holder :
             Asks(p) \/ Takes(p) \/ Claims(p) \/ Publishes(p) \/ LoadFails(p) \/ Closes(p)
  BY <1>3, AsksKeepsManagerInv, TakesKeepsManagerInv, ClaimsKeepsManagerInv,
     PublishesKeepsManagerInv, LoadFailsKeepsManagerInv, ClosesKeepsManagerInv, Zenon
<1>4. CASE Expires \/ Collects \/ \E p \in {Collector, Deleter} : Frees(p)
  BY <1>4, ExpiresKeepsManagerInv, CollectsKeepsManagerInv, FreesKeepsManagerInv
<1>5. CASE DeleteBegins \/ DeleteDrops \/ DeleteTakes \/ DeleteRemoves
  BY <1>5, DeleteBeginsKeepsManagerInv, DeleteDropsKeepsManagerInv,
     DeleteTakesKeepsManagerInv, DeleteRemovesKeepsManagerInv, Zenon
<1> QED
  BY <1>1, <1>2, <1>3, <1>4, <1>5, Zenon DEF ManagerNext

(* The invariant of vecIdxManager holds for any goroutines.                *)
THEOREM ManagerInvariant == ManagerSpec => []ManagerInv
<1>1. ManagerInit => ManagerInv
  BY FreshManager DEF ManagerInit, Fresh
<1>2. ManagerInv /\ [ManagerNext]_managerVars => ManagerInv'
  BY StepKeepsManagerInv
<1> QED
  BY <1>1, <1>2, PTL DEF ManagerSpec

(* An object somebody got from GetVectorIndex is not freed before they     *)
(* close it: not by backgroundGC, and not by a deletion.                   *)
THEOREM HeldObjectsStay == ManagerSpec => []HeldNotFreed
<1>1. ManagerInv => HeldNotFreed
  <2> SUFFICES ASSUME ManagerInv, NEW p \in Holder, At(p, "hold")
               PROVE  /\ at[p].obj \in open
                      /\ \A q \in {Collector, Deleter} : At(q, "free") => at[q].obj # at[p].obj
    BY Zenon DEF HeldNotFreed
  <2>1. cached # 0 /\ at[p].obj = cached /\ open = {cached} /\ ready = None
    BY Names, Zenon DEF ManagerInv, UsesCached, CachedOnly
  <2>2. \A q \in {Collector, Deleter} : ~At(q, "free")
    BY <2>1, Names, Zenon DEF ManagerInv, ReadyOwned
  <2> QED
    BY <2>1, <2>2, Zenon
<1> QED
  BY <1>1, ManagerInvariant, PTL

(* GetVectorIndex makes no second object of an index while one is open or  *)
(* being freed.                                                            *)
THEOREM NoSecondObject == ManagerSpec => []OneOpen
<1>1. ManagerInv => OneOpen
  <2> SUFFICES ASSUME ManagerInv
               PROVE  OneOpen
    OBVIOUS
  <2>1. CASE cached # 0
    BY <2>1 DEF ManagerInv, CachedOnly, OneOpen
  <2>2. CASE cached = 0 /\ ready \notin {Collector, Deleter}
    BY <2>2, Zenon DEF ManagerInv, NoneOpen, OneOpen
  <2>3. CASE ready \in {Collector, Deleter}
    <3>1. At(ready, "free")
      BY <2>3, Names DEF ManagerInv, ReadyOwned, Places, Loading, At
    <3> QED
      BY <2>3, <3>1, Names, ZenonT(60) DEF ManagerInv, FreesOnly, OneOpen
  <2> QED
    BY <2>1, <2>2, <2>3, Zenon
<1> QED
  BY <1>1, ManagerInvariant, PTL

-----------------------------------------------------------------------------
(* The index uses its manager *)

\* From here on a step that names no prover is proved by Zenon.
USE Zenon

(* What the goroutines that hold the index do to the manager.              *)
LEMMA HolderStepRefines ==
  ASSUME NEW p \in Holder, GetStep(p)
  PROVE  ManagerNext
BY DEF GetStep, Get, Load, LoadFailsFor, ManagerNext

(* A step of a client that ends in the manager or in the index is a step   *)
(* of the manager or leaves it alone.                                      *)
LEMMA ClientStepRefines ==
  ASSUME NEW c \in Client,
         \/ \E op \in Writes, d \in Doc : BeginWrite(c, op, d)
         \/ BeginSearch(c) \/ Retry(c) \/ WriteStep(c) \/ AddFails(c)
         \/ \E n \in SegId : DeleteFails(c, n)
  PROVE  [ManagerNext]_managerVars
<1>1. c \in Holder
  BY DEF Holder
<1>2. CASE \/ \E op \in Writes, d \in Doc : BeginWrite(c, op, d)
           \/ BeginSearch(c) \/ Retry(c)
  BY <1>1, <1>2 DEF BeginWrite, BeginSearch, Retry, ManagerNext
<1>3. CASE FindDeletes(c) \/ AddVectors(c) \/ SearchSegments(c) \/ \E n \in SegId : DeleteSegment(c, n)
  BY <1>3 DEF FindDeletes, AddVectors, SearchSegments, DeleteSegment
<1>4. CASE AddRefused(c) \/ Finish(c) \/ AddFails(c) \/ \E n \in SegId : DeleteFails(c, n)
  BY <1>1, <1>4 DEF AddRefused, Finish, AddFails, DeleteFails, ManagerNext
<1> QED
  BY <1>2, <1>3, <1>4 DEF WriteStep

(* Every step of the index is a step of the manager, or leaves it alone.   *)
LEMMA StepRefines ==
  ASSUME [Next]_vars
  PROVE  [ManagerNext]_managerVars
<1>1. Sealer \in Holder
  BY DEF Holder
<1>2. CASE UNCHANGED vars
  BY <1>2 DEF vars
<1>3. CASE \E c \in Client :
             \/ \E op \in Writes, d \in Doc : BeginWrite(c, op, d)
             \/ BeginSearch(c) \/ Retry(c) \/ WriteStep(c) \/ AddFails(c)
             \/ \E n \in SegId : DeleteFails(c, n)
  BY <1>3, ClientStepRefines
<1>4. CASE \E p \in Holder : GetStep(p)
  BY <1>4, HolderStepRefines
<1>5. CASE RequestSeal \/ CheckSeals \/ SealFails \/ MetaStored
  BY <1>5 DEF RequestSeal, CheckSeals, SealFails, MetaStored
<1>6. CASE TakeTask \/ SealStep
  BY <1>1, <1>6 DEF TakeTask, SealStep, PickSegments, SealSegment, SaveMeta, SealerDone, ManagerNext
<1>7. CASE Collect \/ DeleteIndex \/ DeleteGoesOn \/ DeleteFiles \/ Crash
  BY <1>7 DEF Collect, DeleteIndex, DeleteGoesOn, DeleteFiles, Crash, ManagerNext
<1> QED
  BY <1>2, <1>3, <1>4, <1>5, <1>6, <1>7 DEF Next

(* The index implements the specification of its manager: writes, searches *)
(* and seals reach its objects only through GetVectorIndex and             *)
(* CloseVectorIndex.                                                       *)
THEOREM IndexUsesManager == Spec => ManagerSpec
<1>1. Init => ManagerInit
  BY DEF Init
<1>2. [Next]_vars => [ManagerNext]_managerVars
  BY StepRefines
<1> QED
  BY <1>1, <1>2, PTL DEF Spec, ManagerSpec

(* So nothing an index does frees an object that somebody holds, or opens  *)
(* a second one.                                                           *)
THEOREM IndexObjectsStay == Spec => []HeldNotFreed /\ []OneOpen
BY IndexUsesManager, HeldObjectsStay, NoSecondObject, PTL

-----------------------------------------------------------------------------
(* Counting *)

(* The copies a bag counts are finitely many.                              *)
LEMMA CountType ==
  ASSUME NEW b \in Bag
  PROVE  Count(b) \in Nat
<1> DEFINE C == [d \in Doc |-> {d} \X (1 .. b[d])]
<1>1. \A d \in Doc : IsFiniteSet(C[d])
  <2> SUFFICES ASSUME NEW d \in Doc PROVE IsFiniteSet(C[d])
    OBVIOUS
  <2>1. b[d] \in Nat
    BY DEF Bag
  <2>2. IsFiniteSet(1 .. b[d])
    BY <2>1, FS_Interval, SMT
  <2>3. IsFiniteSet({d})
    BY FS_Singleton
  <2> QED
    BY <2>2, <2>3, FS_Product
<1>2. IsFiniteSet({C[d] : d \in Doc})
  <2>1. C \in Surjection(Doc, {C[d] : d \in Doc})
    BY DEF Surjection
  <2> QED
    BY <2>1, FS_Surjection, IvfPqAssumption
<1>3. IsFiniteSet(UNION {C[d] : d \in Doc})
  <2> DEFINE S == {C[d] : d \in Doc}
  <2>1. \A T \in S : IsFiniteSet(T)
    BY <1>1
  <2> HIDE DEF S
  <2>2. IsFiniteSet(UNION S)
    BY <1>2, <2>1, FS_UNION DEF S
  <2> QED
    BY <2>2 DEF S
<1>4. DOMAIN b = Doc
  BY DEF Bag
<1>5. {C[d] : d \in Doc} = {{d} \X (1 .. b[d]) : d \in DOMAIN b}
  BY <1>4
<1> QED
  BY <1>3, <1>5, FS_CardinalityType DEF Count

(* Nothing is counted in an empty bag.                                     *)
LEMMA CountEmpty == Count(Empty) = 0
<1>1. UNION {{d} \X (1 .. Empty[d]) : d \in DOMAIN Empty} = {}
  <2>1. DOMAIN Empty = Doc /\ \A d \in Doc : Empty[d] = 0
    BY DEF Empty
  <2>2. 1 .. 0 = {}
    BY SMT
  <2>3. \A d \in Doc : {d} \X (1 .. Empty[d]) = {}
    BY <2>1, <2>2
  <2> QED
    BY <2>1, <2>3
<1> QED
  BY <1>1, FS_EmptySet DEF Count

(* A set of places has a first one.                                        *)
LEMMA FirstIn ==
  ASSUME NEW S \in SUBSET SegId, S # {}
  PROVE  First(S) \in S
<1>1. S \subseteq Nat
  BY SMT DEF SegId
<1> USE <1>1
<1>2. PICK i \in S : \A j \in S : ~(<<j, i>> \in OpToRel(<, Nat))
  BY WFMin, NatLessThanWellFounded
<1>3. \A j \in S : ~(j < i)
  BY <1>2 DEF OpToRel
<1>4. \A j \in S : i <= j
  BY <1>3, SMT
<1> QED
  BY <1>4 DEF First

-----------------------------------------------------------------------------
(* Metadata *)

(* The metadata r differs from m in the counts only.                       *)
Like(r, m) ==
  /\ r \in Metadata /\ r.cur = m.cur
  /\ Len(r.segs) = Len(m.segs) /\ DOMAIN r.segs = DOMAIN m.segs
  /\ \A k \in DOMAIN m.segs : r.segs[k].id = m.segs[k].id /\ r.segs[k].status = m.segs[k].status

(* Saving the count of a segment changes nothing else in the metadata.     *)
LEMMA SetCount ==
  ASSUME NEW m \in Metadata, NEW n \in DOMAIN m.segs, NEW v \in Nat
  PROVE  Like([m EXCEPT !.segs[n].count = v], m)
<1> DEFINE s == [m.segs EXCEPT ![n].count = v]
           r == [m EXCEPT !.segs[n].count = v]
<1>1. m.segs \in Seq(Segment) /\ m.cur \in SegId
  BY SMT DEF Metadata
<1>2. m.segs[n] \in Segment
  BY <1>1, SMT
<1>3. [m.segs[n] EXCEPT !.count = v] \in Segment
  BY <1>2, SMT DEF Segment
<1>4. s \in Seq(Segment) /\ Len(s) = Len(m.segs) /\ DOMAIN s = DOMAIN m.segs
  <2> HIDE DEF Segment
  <2> QED
    BY <1>1, <1>3, SMT
<1>5. r.cur = m.cur /\ r.segs = s /\ r = [cur |-> m.cur, segs |-> s]
  <2>1. m = [cur |-> m.cur, segs |-> m.segs]
    BY SMT DEF Metadata
  <2>2. r = [cur |-> m.cur, segs |-> s]
    BY <2>1, SMT
  <2> HIDE DEF r, s
  <2> QED
    BY <2>2, SMT
<1>6. \A k \in DOMAIN m.segs : s[k].id = m.segs[k].id /\ s[k].status = m.segs[k].status
  BY <1>1, <1>2, SMT DEF Segment
<1>7. r \in Metadata
  <2> HIDE DEF s, r
  <2> QED
    BY <1>1, <1>4, <1>5, SMT DEF Metadata
<1> QED
  BY <1>4, <1>5, <1>6, <1>7 DEF Like

(* A segment is sealed.                                                    *)
HasSealed(r, m, n) ==
  /\ r \in Metadata /\ r.cur = m.cur
  /\ Len(r.segs) = Len(m.segs) /\ DOMAIN r.segs = DOMAIN m.segs
  /\ \A k \in DOMAIN m.segs : r.segs[k].id = m.segs[k].id
  /\ r.segs[n].status = "sealed"
  /\ \A k \in DOMAIN m.segs \ {n} : r.segs[k].status = m.segs[k].status

(* Setting the status of a segment seals it, and nothing else.             *)
LEMMA SetSealed ==
  ASSUME NEW m \in Metadata, NEW n \in DOMAIN m.segs
  PROVE  HasSealed([m EXCEPT !.segs[n].status = "sealed"], m, n)
<1> DEFINE s == [m.segs EXCEPT ![n].status = "sealed"]
           r == [m EXCEPT !.segs[n].status = "sealed"]
<1>1. m.segs \in Seq(Segment) /\ m.cur \in SegId
  BY SMT DEF Metadata
<1>2. m.segs[n] \in Segment
  BY <1>1, SMT
<1>3. [m.segs[n] EXCEPT !.status = "sealed"] \in Segment
  BY <1>2, SMT DEF Segment
<1>4. s \in Seq(Segment) /\ Len(s) = Len(m.segs) /\ DOMAIN s = DOMAIN m.segs
  <2> HIDE DEF Segment
  <2> QED
    BY <1>1, <1>3, SMT
<1>5. r.cur = m.cur /\ r.segs = s /\ r = [cur |-> m.cur, segs |-> s]
  <2>1. m = [cur |-> m.cur, segs |-> m.segs]
    BY SMT DEF Metadata
  <2>2. r = [cur |-> m.cur, segs |-> s]
    BY <2>1, SMT
  <2> HIDE DEF r, s
  <2> QED
    BY <2>2, SMT
<1>6. /\ \A k \in DOMAIN m.segs : s[k].id = m.segs[k].id
      /\ s[n].status = "sealed"
      /\ \A k \in DOMAIN m.segs \ {n} : s[k].status = m.segs[k].status
  BY <1>1, <1>2, SMT DEF Segment
<1>7. r \in Metadata
  <2> HIDE DEF s, r
  <2> QED
    BY <1>1, <1>4, <1>5, SMT DEF Metadata
<1> QED
  BY <1>4, <1>5, <1>6, <1>7 DEF HasSealed

HasCount(m, n, v) == m.segs[n].count = v

(* Saving the count of a segment sets that count.                          *)
LEMMA CountSet ==
  ASSUME NEW m \in Metadata, NEW n \in DOMAIN m.segs, NEW v
  PROVE  HasCount([m EXCEPT !.segs[n].count = v], n, v)
<1> DEFINE s == [m.segs EXCEPT ![n].count = v]
<1>1. m.segs[n] \in Segment /\ m = [cur |-> m.cur, segs |-> m.segs]
  BY SMT DEF Metadata
<1>2. [m.segs[n] EXCEPT !.count = v].count = v
  BY <1>1, SMT DEF Segment
<1>3. s[n] = [m.segs[n] EXCEPT !.count = v]
  OBVIOUS
<1>4. [m EXCEPT !.segs[n].count = v] = [cur |-> m.cur, segs |-> s]
  BY <1>1, SMT
<1> HIDE DEF s
<1> QED
  BY <1>2, <1>3, <1>4, SMT DEF HasCount

(* The metadata r has one segment more than m, the current one.            *)
Longer(r, m) ==
  /\ r \in Metadata /\ r.cur = m.cur + 1
  /\ Len(r.segs) = Len(m.segs) + 1 /\ DOMAIN r.segs = 1 .. Len(m.segs) + 1
  /\ \A k \in DOMAIN m.segs : r.segs[k] = m.segs[k]
  /\ r.segs[Len(m.segs) + 1].id = m.cur + 1 /\ r.segs[Len(m.segs) + 1].status = "growing"

(* checkNewSeg's append makes the metadata one segment longer.             *)
LEMMA AddSegment ==
  ASSUME NEW m \in Metadata, m.cur + 1 \in SegId, NEW r,
         r = [cur |-> m.cur + 1, segs |-> Append(m.segs, NewSegment(m.cur + 1, 0))]
  PROVE  Longer(r, m)
<1> DEFINE e == NewSegment(m.cur + 1, 0)
<1>1. m.segs \in Seq(Segment) /\ m.cur \in SegId /\ m.cur \in Nat
  BY SMT DEF Metadata, SegId
<1>2. e \in Segment /\ e.id = m.cur + 1 /\ e.status = "growing"
  BY <1>1, SMT DEF Segment, NewSegment
<1> HIDE DEF e
<1>3. /\ Append(m.segs, e) \in Seq(Segment) /\ Len(Append(m.segs, e)) = Len(m.segs) + 1
      /\ DOMAIN Append(m.segs, e) = 1 .. Len(m.segs) + 1
      /\ \A k \in DOMAIN m.segs : Append(m.segs, e)[k] = m.segs[k]
      /\ Append(m.segs, e)[Len(m.segs) + 1] = e
  <2> HIDE DEF Segment
  <2> QED
    BY <1>1, <1>2, SMT
<1>4. r \in Metadata /\ r.cur = m.cur + 1 /\ r.segs = Append(m.segs, e)
  BY <1>3 DEF Metadata, e
<1> QED
  BY <1>2, <1>3, <1>4 DEF Longer

(* The places of the segments of well-formed metadata.                     *)
LEMMA SegPlaces ==
  ASSUME NEW m \in Metadata
  PROVE  /\ DOMAIN m.segs = 1 .. Len(m.segs) /\ Len(m.segs) \in Nat /\ m.cur \in Nat
         /\ \A n \in DOMAIN m.segs : m.segs[n] \in Segment
BY SMT DEF Metadata, SegId

-----------------------------------------------------------------------------
(* Who is where *)

(* A goroutine moves, the others stay.                                     *)
LEMMA Moves ==
  ASSUME ManagerInv, NEW p \in Proc, NEW pc, NEW o, Goto(p, pc, o)
  PROVE  at'[p].pc = pc /\ \A q \in Proc \ {p} : at'[q] = at[q]
BY SMT DEF ManagerInv, ManagerTypeOK, Goto

(* What a step of a holder leaves alone.                                   *)
LEMMA HolderMoves ==
  ASSUME ManagerInv, NEW p \in Holder,
         Asks(p) \/ Takes(p) \/ Claims(p) \/ Publishes(p) \/ LoadFails(p) \/ Closes(p)
  PROVE  /\ \A q \in Proc \ {p} : at'[q] = at[q]
         /\ exists' = exists /\ (Deleting' <=> Deleting) /\ (Alive' <=> Alive)
         /\ ~Publishes(p) => cached' = cached
<1>1. p \in Proc /\ Deleter \in Proc \ {p}
  BY Names
<1>2. PICK pc, o : Goto(p, pc, o)
  BY DEF Asks, Takes, Claims, Publishes, LoadFails, Closes
<1>3. \A q \in Proc \ {p} : at'[q] = at[q]
  BY <1>1, <1>2, Moves
<1>4. exists' = exists
  BY DEF Asks, Takes, Claims, Publishes, LoadFails, Closes
<1>5. (Deleting' <=> Deleting) /\ (Alive' <=> Alive)
  BY <1>1, <1>3, <1>4 DEF Deleting, Alive, At
<1>6. ~Publishes(p) => cached' = cached
  BY DEF Asks, Takes, Claims, LoadFails, Closes, manager
<1> QED
  BY <1>3, <1>4, <1>5, <1>6

(* Whoever holds the index has the cached object.                          *)
LEMMA Holds ==
  ASSUME ManagerInv, NEW p \in Holder, At(p, "hold")
  PROVE  cached # 0
BY Names DEF ManagerInv, UsesCached

(* Nobody holds the index while it is loaded.                              *)
LEMMA NobodyHolds ==
  ASSUME ManagerInv, NEW p \in Holder, At(p, "load") \/ At(p, "lost")
  PROVE  cached = 0 /\ \A q \in Holder : ~At(q, "hold")
<1>1. ready = p /\ p # None
  BY Names DEF ManagerInv, ReadyOwned, Loading
<1>2. cached = 0
  BY <1>1 DEF ManagerInv, CachedOnly
<1> QED
  BY <1>2, Holds

(* The first step of an operation is taken by nobody who holds the index.  *)
LEMMA AsksNotHolding ==
  ASSUME ManagerInv, NEW p \in Holder, Asks(p)
  PROVE  ~At(p, "hold")
BY DEF Asks, At

-----------------------------------------------------------------------------
(* Jobs *)

(* The parts of a job are typed.                                           *)
LEMMA JobParts ==
  ASSUME Typed, NEW p \in Holder
  PROVE  /\ job[p] \in Job /\ job[p].todo \subseteq SegId
         /\ job[p].op \in Writes \cup {"none", "search", "seal"} /\ job[p].doc \in Doc \cup {None}
         /\ job[p].step \in {"begin", "delete", "add", "done", "seal", "save"}
<1>1. job[p] \in Job
  BY DEF Typed
<1> QED
  BY <1>1, SMT DEF Job

(* Step goes on with the job of one goroutine.                             *)
LEMMA StepIs ==
  ASSUME Typed, NEW p \in Holder, NEW s \in {"begin", "delete", "add", "done", "seal", "save"},
         NEW t \in SUBSET SegId, Step(p, s, t)
  PROVE  /\ job' \in [Holder -> Job] /\ \A q \in Holder \ {p} : job'[q] = job[q]
         /\ job'[p].op = job[p].op /\ job'[p].doc = job[p].doc
         /\ job'[p].step = s /\ job'[p].todo = t
<1> DEFINE j == [job[p] EXCEPT !.step = s, !.todo = t]
<1>1. job \in [Holder -> Job] /\ job[p] \in Job
  BY DEF Typed
<1> USE <1>1
<1>2. j \in Job /\ j.op = job[p].op /\ j.doc = job[p].doc /\ j.step = s /\ j.todo = t
  BY DEF Job
<1>3. job' = [job EXCEPT ![p] = j]
  BY DEF Step
<1> HIDE DEF j
<1>4. job'[p] = j
  BY <1>3
<1>5. job' \in [Holder -> Job] /\ \A q \in Holder \ {p} : job'[q] = job[q]
  BY <1>2, <1>3
<1> QED
  BY <1>2, <1>4, <1>5

(* Another job, or none.                                                   *)
LEMMA JobIs ==
  ASSUME Typed, NEW p \in Holder, NEW j \in Job, job' = [job EXCEPT ![p] = j]
  PROVE  job' \in [Holder -> Job] /\ job'[p] = j /\ \A q \in Holder \ {p} : job'[q] = job[q]
BY DEF Typed

(* NoJob is a job in which nothing is to be done.                          *)
LEMMA NoJobIs ==
  /\ NoJob \in Job /\ NoJob.op = "none" /\ NoJob.step = "begin" /\ NoJob.todo = {}
  /\ NoJob.op \notin Writes /\ NoJob.op \notin {"search", "seal"}
BY SMT DEF NoJob, Job, Writes

(* One goroutine's job changes, and only its own place.                    *)
LEMMA JobTurn ==
  ASSUME JobsOK, NEW p \in Holder,
         \A q \in Holder \ {p} : job'[q] = job[q] /\ at'[q] = at[q],
         p = Sealer => job'[p].op \in {"none", "seal"},
         job'[p].op \in Writes => job'[p].doc \in Doc,
         job'[p].step # "begin" => At(p, "hold")',
         p \in Client /\ job'[p].step \in {"delete", "add"} => job'[p].op \in Writes,
         p \in Client /\ job'[p].step = "delete" => job'[p].op # "insert",
         p \in Client => \A c \in Client \ {p}, d \in Doc : Writing(c, d) => ~Writing(p, d)'
  PROVE  JobsOK'
<1>1. Client \subseteq Holder /\ Sealer \in Holder /\ Sealer \notin Client
  BY VecManagerAssumption DEF Holder
<1> USE <1>1
<1>2. job'[Sealer].op \in {"none", "seal"}
  BY DEF JobsOK
<1>3. \A q \in Holder : job'[q].op \in Writes => job'[q].doc \in Doc
  BY DEF JobsOK
<1>4. \A q \in Holder : job'[q].step # "begin" => At(q, "hold")'
  BY DEF JobsOK, At
<1>5. /\ \A c \in Client : job'[c].step \in {"delete", "add"} => job'[c].op \in Writes
      /\ \A c \in Client : job'[c].step = "delete" => job'[c].op # "insert"
  BY DEF JobsOK
<1>6. ASSUME NEW b \in Client, NEW c \in Client, NEW d \in Doc, Writing(b, d)', Writing(c, d)'
      PROVE  b = c
  <2> USE <1>6
  <2>1. \A q \in Client \ {p} : Writing(q, d)' => Writing(q, d)
    BY DEF Writing
  <2>2. CASE b # p /\ c # p
    BY <2>1, <2>2 DEF JobsOK
  <2>3. CASE b = p /\ c # p
    BY <2>1, <2>3
  <2>4. CASE b # p /\ c = p
    BY <2>1, <2>4
  <2> QED
    BY <2>2, <2>3, <2>4
<1> QED
  BY <1>2, <1>3, <1>4, <1>5, <1>6 DEF JobsOK

(* A client goes on with its write, search or nothing.                     *)
LEMMA ClientTurn ==
  ASSUME JobsOK, NEW p \in Client,
         \A q \in Holder \ {p} : job'[q] = job[q] /\ at'[q] = at[q],
         job'[p].step # "begin" => At(p, "hold")',
         job'[p].step \in {"delete", "add"} => job'[p].op \in Writes,
         job'[p].step = "delete" => job'[p].op # "insert",
         job'[p].op \in Writes => job'[p].op = job[p].op /\ job'[p].doc = job[p].doc
  PROVE  JobsOK'
<1>1. p \in Holder /\ p # Sealer
  BY VecManagerAssumption DEF Holder
<1>2. job'[p].op \in Writes => job'[p].doc \in Doc
  BY <1>1 DEF JobsOK
<1>3. \A d \in Doc : Writing(p, d)' => Writing(p, d)
  BY DEF Writing
<1>4. \A c \in Client \ {p}, d \in Doc : Writing(c, d) => ~Writing(p, d)'
  BY <1>3 DEF JobsOK
<1> QED
  BY <1>1, <1>2, <1>4, JobTurn

(* The sealer goes on.                                                     *)
LEMMA SealerTurn ==
  ASSUME JobsOK,
         \A q \in Holder \ {Sealer} : job'[q] = job[q] /\ at'[q] = at[q],
         job'[Sealer].op \in {"none", "seal"},
         job'[Sealer].step # "begin" => At(Sealer, "hold")'
  PROVE  JobsOK'
<1>1. Sealer \in Holder /\ Sealer \notin Client
  BY VecManagerAssumption DEF Holder
<1>2. job'[Sealer].op \notin Writes
  BY SMT DEF Writes
<1> QED
  BY <1>1, <1>2, JobTurn

(* Goroutines move that do not hold the index.                             *)
LEMMA JobsStay ==
  ASSUME JobsOK, job' = job, \A q \in Holder : At(q, "hold") => At(q, "hold")'
  PROVE  JobsOK'
BY DEF JobsOK, Writing, At

(* What SealSeg has to do does not change.                                 *)
LEMMA SealStays ==
  ASSUME SealOK, job'[Sealer].step = job[Sealer].step, job'[Sealer].todo = job[Sealer].todo,
         job[Sealer].step \in {"seal", "save"} =>
           /\ DOMAIN meta.segs \ {meta.cur} \subseteq DOMAIN meta'.segs \ {meta'.cur}
           /\ \A n \in DOMAIN meta.segs : meta'.segs[n].status = meta.segs[n].status
  PROVE  SealOK'
<1> DEFINE t == job[Sealer].todo
<1> SUFFICES ASSUME job[Sealer].step \in {"seal", "save"} PROVE SealOK'
  BY DEF SealOK
<1>1. t # {} /\ t \subseteq DOMAIN meta.segs \ {meta.cur}
  BY DEF SealOK
<1> USE <1>1
<1>2. t \subseteq DOMAIN meta'.segs \ {meta'.cur}
  OBVIOUS
<1>3. \A n \in t : Growing(n)' \/ (job[Sealer].step = "save" /\ n = First(t))
  BY DEF SealOK, Growing
<1>4. First(t)' = First(t)
  BY DEF First
<1> QED
  BY <1>2, <1>3, <1>4 DEF SealOK

(* It has nothing to do.                                                   *)
LEMMA SealIdle ==
  ASSUME job'[Sealer].step \notin {"seal", "save"}
  PROVE  SealOK'
BY DEF SealOK

(* The metadata stays.                                                     *)
LEMMA MetaStays ==
  ASSUME WellFormed(meta), WellFormed(saved), Behind, UNCHANGED <<meta, saved, recovered>>
  PROVE  WellFormed(meta)' /\ WellFormed(saved)' /\ Behind'
BY DEF WellFormed, Behind, InPlace, Growing

(* Saving a count leaves the metadata well formed and ahead of the saved   *)
(* one.                                                                    *)
LEMMA MetaCounted ==
  ASSUME WellFormed(meta), WellFormed(saved), Behind, Like(meta', meta), UNCHANGED <<saved, recovered>>
  PROVE  WellFormed(meta)' /\ WellFormed(saved)' /\ Behind'
<1>1. WellFormed(meta)'
  BY DEF WellFormed, InPlace, Like
<1>2. WellFormed(saved)'
  BY DEF WellFormed, InPlace
<1>3. Behind'
  BY DEF Behind, Like, Growing
<1> QED
  BY <1>1, <1>2, <1>3

(* What the writes have to delete from stays recorded.                     *)
LEMMA TodoStays ==
  ASSUME TodoOK, DOMAIN meta.segs \subseteq DOMAIN meta'.segs,
         \A c \in Client : job'[c] = job[c] \/ job'[c].todo \subseteq DOMAIN meta.segs
  PROVE  TodoOK'
BY DEF TodoOK

-----------------------------------------------------------------------------
(* What a step must show to keep the invariant *)

(* The invariant while no two segments share their files.                  *)
Inner == Book /\ (exists => Files) /\ (Alive => Vectors /\ (~Hashed => Copies))

(* The clients and the sealer are holders, and the sealer is no client.    *)
LEMMA Clients == Client \subseteq Holder /\ Sealer \in Holder /\ Sealer \notin Client
BY VecManagerAssumption DEF Holder

(* A step that changes only the jobs, and keeps them jobs, keeps the       *)
(* types.                                                                  *)
LEMMA TypedStays ==
  ASSUME Typed, UNCHANGED <<disk, segments, saved, want, repeated, recovered>>, job' \in [Holder -> Job]
  PROVE  Typed'
BY DEF Typed, disk, segments

(* The files and what is recorded of them stay.                            *)
LEMMA FilesStay ==
  ASSUME Files, UNCHANGED <<store, written, meta, saved>>, cached' # 0 => cached # 0
  PROVE  Files'
BY DEF Files, Filled

(* A value of a bag is not below that of a document that is not stored.    *)
LEMMA NotStored ==
  ASSUME NEW vectors \in Bag, NEW d \in Doc, NEW x, x = 0
  PROVE  vectors[d] >= x
BY SMT DEF Bag

(* The vectors stay, and the writes still have to delete what they had to, *)
(* or it is not there.                                                     *)
LEMMA VectorsStay ==
  ASSUME Typed, WellFormed(meta), Vectors, UNCHANGED <<store, faiss, segments>>, cached' # 0 => cached # 0,
         \A n \in DOMAIN meta.segs, d \in Doc :
            HalfDeleted(n, d) => HalfDeleted(n, d)' \/ store[n][d] = 0
  PROVE  Vectors'
<1>1. ASSUME NEW n \in DOMAIN meta.segs, NEW vectors \in Bag, Has(vectors, n)
      PROVE  \A d \in Doc : vectors[d] >= store'[n][d] \/ HalfDeleted(n, d)'
  <2> SUFFICES ASSUME NEW d \in Doc PROVE vectors[d] >= store'[n][d] \/ HalfDeleted(n, d)'
    OBVIOUS
  <2>1. store' = store
    OBVIOUS
  <2>2. vectors[d] >= store[n][d] \/ HalfDeleted(n, d)' \/ store[n][d] = 0
    BY <1>1 DEF Has
  <2> QED
    BY <2>1, <2>2, NotStored
<1>2. /\ meta' = meta /\ faiss' = faiss /\ index' = index /\ cache' = cache /\ store' = store
      /\ DOMAIN meta.segs \subseteq SegId
  BY DEF segments, WellFormed
<1> USE <1>2
<1>3. \A n \in DOMAIN meta.segs : faiss[n] \in Bag /\ index[n] \in Bag
  BY DEF Typed
<1>4. ASSUME NEW n \in DOMAIN meta.segs, ~Growing(n) PROVE Has(faiss[n], n)'
  BY <1>1, <1>3, <1>4 DEF Vectors, Has
<1>5. ASSUME NEW n \in DOMAIN meta.segs, ~Growing(n), cached' # 0 PROVE Has(index[n], n)'
  BY <1>1, <1>3, <1>5 DEF Vectors, Has
<1>6. cached' # 0 => \A n \in SegId : cache'[n] = NoCache \/ Filling(n)'
  BY DEF Vectors, Filling, Growing
<1> QED
  BY <1>4, <1>5, <1>6 DEF Vectors, Growing

(* The copies of the documents nobody touched stay.                        *)
LEMMA CopiesTurn ==
  ASSUME Copies, NEW c \in Client, NEW d,
         \A b \in Client \ {c} : job'[b] = job[b],
         job[c].op \in Writes => job[c].doc = d, job'[c].op \in Writes => job'[c].doc = d,
         repeated \subseteq repeated',
         \A e \in Doc \ {d} : (e \in want' <=> e \in want) /\ \A i \in SegId : store'[i][e] = store[i][e],
         d \in Doc \ repeated' =>
           /\ \A b \in Client \ {c} : ~Writing(b, d)
           /\ Writing(c, d)' => WriteOK(c, d)'
           /\ ~Writing(c, d)' => Settled(d)'
  PROVE  Copies'
<1> SUFFICES ASSUME NEW e \in Doc \ repeated'
             PROVE  /\ ~Busy(e)' => Settled(e)'
                    /\ \A b \in Client : Writing(b, e)' => WriteOK(b, e)'
  BY DEF Copies
<1>1. CASE e = d
  <2>1. \A b \in Client \ {c} : ~Writing(b, e)'
    BY <1>1 DEF Writing
  <2>2. ~Busy(e)' => ~Writing(c, e)'
    BY DEF Busy, Writing
  <2> QED
    BY <1>1, <2>1, <2>2
<1>2. CASE e # d
  <2>1. e \in Doc \ repeated
    OBVIOUS
  <2>2. \A i \in SegId : store'[i][e] = store[i][e]
    BY <1>2
  <2>3. (Nowhere(e)' <=> Nowhere(e)) /\ (Once(e)' <=> Once(e))
    BY <2>2 DEF Nowhere, Once
  <2>4. Settled(e)' <=> Settled(e)
    BY <1>2, <2>3 DEF Settled
  <2>5. ~Writing(c, e)' /\ ~Writing(c, e)
    BY <1>2 DEF Writing
  <2>6. \A b \in Client \ {c} : Writing(b, e)' => WriteOK(b, e)'
    <3> SUFFICES ASSUME NEW b \in Client \ {c}, Writing(b, e)' PROVE WriteOK(b, e)'
      OBVIOUS
    <3>1. job'[b] = job[b] /\ WriteOK(b, e)
      BY <2>1 DEF Copies, Writing
    <3> QED
      BY <2>2, <2>3, <2>4, <3>1 DEF WriteOK
  <2>7. Busy(e) => Busy(e)'
    BY <2>5 DEF Busy, Writing
  <2> QED
    BY <2>1, <2>4, <2>5, <2>6, <2>7 DEF Copies
<1> QED
  BY <1>1, <1>2

(* The copies stay when neither the files nor the clients' jobs change.    *)
LEMMA CopiesStay ==
  ASSUME Copies, UNCHANGED <<store, want, repeated>>, \A c \in Client : job'[c] = job[c]
  PROVE  Copies'
<1>1. \A d \in Doc : (Nowhere(d)' <=> Nowhere(d)) /\ (Once(d)' <=> Once(d))
  BY DEF Nowhere, Once
<1>2. \A d \in Doc : Settled(d)' <=> Settled(d)
  BY <1>1 DEF Settled
<1>3. \A d \in Doc : (Busy(d)' <=> Busy(d)) /\ \A c \in Client : Writing(c, d)' <=> Writing(c, d)
  BY DEF Busy, Writing
<1>4. \A d \in Doc, c \in Client : WriteOK(c, d) => WriteOK(c, d)'
  <2> SUFFICES ASSUME NEW d \in Doc, NEW c \in Client, WriteOK(c, d) PROVE WriteOK(c, d)'
    OBVIOUS
  <2>1. job'[c] = job[c] /\ store' = store
    OBVIOUS
  <2> QED
    BY <1>1, <1>2, <2>1 DEF WriteOK
<1> QED
  BY <1>2, <1>3, <1>4 DEF Copies

(* Nobody's job changes.                                                   *)
LEMMA StillStep ==
  ASSUME Inner, UNCHANGED <<disk, segments, saved, want, repeated, recovered, job>>,
         \A q \in Holder : At(q, "hold") => At(q, "hold")',
         exists' => exists, Alive' => Alive, cached' # 0 => cached # 0
  PROVE  Inner'
<1>1. Book
  BY DEF Inner
<1> USE <1>1
<1>2. Typed'
  BY TypedStays DEF Book, Typed
<1>3. WellFormed(meta)' /\ WellFormed(saved)' /\ Behind'
  BY MetaStays DEF Book, segments
<1>4. JobsOK'
  BY JobsStay DEF Book
<1>5. SealOK' /\ TodoOK'
  BY SealStays, TodoStays DEF Book, segments
<1>6. ASSUME Alive' PROVE Vectors' /\ (~Hashed => Copies')
  <2>1. Vectors /\ (~Hashed => Copies)
    BY <1>6 DEF Inner
  <2>3. \A n \in DOMAIN meta.segs, d \in Doc : HalfDeleted(n, d) => HalfDeleted(n, d)'
    BY DEF HalfDeleted, Writing
  <2>4. Vectors'
    BY <2>1, <2>3, VectorsStay DEF disk, Book
  <2>5. ~Hashed => Copies'
    BY <2>1, CopiesStay DEF disk
  <2> QED
    BY <2>4, <2>5
<1>9. exists' => Files'
  BY FilesStay DEF Inner, segments, disk
<1> QED
  BY <1>9, <1>2, <1>3, <1>4, <1>5, <1>6 DEF Inner, Book

(* A client goes on without a change of the index.                         *)
LEMMA ClientStep ==
  ASSUME Inner, NEW c \in Client, NEW d,
         UNCHANGED <<disk, segments, saved, want, repeated, recovered>>,
         JobsOK', job' \in [Holder -> Job], \A q \in Holder \ {c} : job'[q] = job[q],
         exists' => exists, Alive' => Alive, cached' # 0 => cached # 0,
         job[c].op \in Writes => job[c].doc = d, job'[c].op \in Writes => job'[c].doc = d,
         job'[c].todo \subseteq DOMAIN meta.segs,
         Alive => \A n \in DOMAIN meta.segs, e \in Doc :
                     HalfDeleted(n, e) => HalfDeleted(n, e)' \/ store[n][e] = 0,
         Alive /\ ~Hashed /\ d \in Doc \ repeated =>
           /\ \A b \in Client \ {c} : ~Writing(b, d)
           /\ Writing(c, d)' => WriteOK(c, d)'
           /\ ~Writing(c, d)' => Settled(d)'
  PROVE  Inner'
<1>1. Book
  BY DEF Inner
<1> USE <1>1
<1>2. Typed'
  BY TypedStays DEF Book
<1>3. WellFormed(meta)' /\ WellFormed(saved)' /\ Behind'
  BY MetaStays DEF Book, segments
<1>4. SealOK' /\ TodoOK'
  <2>1. job'[Sealer] = job[Sealer] /\ \A b \in Client \ {c} : job'[b] = job[b]
    BY Clients
  <2>2. DOMAIN meta.segs \subseteq DOMAIN meta'.segs
    BY DEF segments
  <2> QED
    BY <2>1, <2>2, SealStays, TodoStays DEF Book, segments
<1>5. ASSUME Alive' PROVE Vectors' /\ (~Hashed => Copies')
  <2>1. Vectors /\ (~Hashed => Copies) /\ Alive
    BY <1>5 DEF Inner
  <2> USE <2>1
  <2>3. Vectors'
    BY VectorsStay DEF disk, Book
  <2>4. ASSUME ~Hashed PROVE Copies'
    <3>1. /\ Copies /\ \A b \in Client \ {c} : job'[b] = job[b]
          /\ UNCHANGED <<store, want, repeated>>
      BY <2>4, Clients DEF disk
    <3> QED
      BY <2>4, <3>1, CopiesTurn
  <2> QED
    BY <2>3, <2>4
<1>9. exists' => Files'
  BY FilesStay DEF Inner, segments, disk
<1> QED
  BY <1>9, <1>2, <1>3, <1>4, <1>5 DEF Inner, Book

(* The sealer goes on without a change of the index.                       *)
LEMMA SealerStep ==
  ASSUME Inner, UNCHANGED <<disk, segments, saved, want, repeated, recovered>>,
         JobsOK', SealOK', job' \in [Holder -> Job], \A q \in Holder \ {Sealer} : job'[q] = job[q],
         exists' => exists, Alive' => Alive, cached' # 0 => cached # 0
  PROVE  Inner'
<1>1. Book
  BY DEF Inner
<1> USE <1>1
<1>2. Typed'
  BY TypedStays DEF Book
<1>3. WellFormed(meta)' /\ WellFormed(saved)' /\ Behind'
  BY MetaStays DEF Book, segments
<1>4. \A c \in Client : job'[c] = job[c]
  BY Clients
<1>5. ASSUME Alive' PROVE Vectors' /\ (~Hashed => Copies')
  <2>1. Vectors /\ (~Hashed => Copies)
    BY <1>5 DEF Inner
  <2>3. \A n \in DOMAIN meta.segs, d \in Doc : HalfDeleted(n, d) => HalfDeleted(n, d)'
    BY <1>4 DEF HalfDeleted, Writing
  <2>4. Vectors'
    BY <2>1, <2>3, VectorsStay DEF disk, Book
  <2>5. ~Hashed => Copies'
    BY <1>4, <2>1, CopiesStay DEF disk
  <2> QED
    BY <2>4, <2>5
<1>6. TodoOK'
  BY <1>4, TodoStays DEF Book, segments
<1>9. exists' => Files'
  BY FilesStay DEF Inner, segments, disk
<1> QED
  BY <1>9, <1>6, <1>2, <1>3, <1>5 DEF Inner, Book

-----------------------------------------------------------------------------
(* The steps that leave the index alone *)

(* The others still hold the index, and p does not while it asks.          *)
LEMMA OthersHold ==
  ASSUME ManagerInv, NEW p \in Holder, ~At(p, "hold"),
         Asks(p) \/ Takes(p) \/ Claims(p) \/ Publishes(p) \/ LoadFails(p) \/ Closes(p)
  PROVE  \A q \in Holder : At(q, "hold") => At(q, "hold")'
BY HolderMoves, Names DEF At

(* A client that asks the manager again keeps the invariant.               *)
LEMMA RetryStep ==
  ASSUME ManagerInv, Inner, NEW c \in Client, Retry(c)
  PROVE  Inner'
<1>1. c \in Holder /\ Asks(c) /\ UNCHANGED <<disk, segments, saved, job, history>>
  BY Clients DEF Retry
<1>2. /\ \A q \in Holder : At(q, "hold") => At(q, "hold")'
      /\ Alive' => Alive /\ cached' = cached /\ exists' = exists
  BY <1>1, AsksNotHolding, OthersHold, HolderMoves DEF Asks, manager
<1> QED
  BY <1>1, <1>2, StillStep DEF history, Asks, manager

(* Getting the cached index keeps the invariant.                           *)
LEMMA GetKeeps ==
  ASSUME ManagerInv, Inner, NEW p \in Holder, Get(p)
  PROVE  Inner'
<1>1. ~At(p, "hold") /\ UNCHANGED <<disk, segments, saved, job, history>> /\ cached' = cached
  BY DEF Get, Takes, Claims, At
<1>2. /\ \A q \in Holder : At(q, "hold") => At(q, "hold")'
      /\ (Alive' => Alive) /\ exists' = exists
  BY <1>1, OthersHold, HolderMoves DEF Get
<1> QED
  BY <1>1, <1>2, StillStep DEF history

(* Queueing a task for the sealer keeps the invariant.                     *)
LEMMA TasksKeep ==
  ASSUME Inner, RequestSeal \/ CheckSeals
  PROVE  Inner'
<1>1. UNCHANGED <<managerVars, disk, segments, saved, job, history>>
  BY DEF RequestSeal, CheckSeals
<1>2. UNCHANGED <<at, exists, cached>>
  BY <1>1 DEF managerVars, manager
<1>3. (Alive' => Alive) /\ \A q \in Holder : At(q, "hold") => At(q, "hold")'
  BY <1>2 DEF Alive, Deleting, At
<1> QED
  BY <1>1, <1>2, <1>3, StillStep DEF history

(* The collector's step keeps the invariant.                               *)
LEMMA CollectKeeps ==
  ASSUME ManagerInv, Inner, Collect
  PROVE  Inner'
<1>1. UNCHANGED <<disk, segments, saved, job, history, exists>> /\ (cached' # 0 => cached # 0)
  BY DEF Collect, Expires, Collects, Frees
<1>2. \A q \in Proc \ {Collector} : at'[q] = at[q]
  <2>1. CASE Expires
    BY <2>1 DEF Expires
  <2>2. CASE Collects \/ Frees(Collector)
    <3>1. PICK pc, o : Goto(Collector, pc, o)
      BY <2>2 DEF Collects, Frees
    <3> QED
      BY <3>1, Moves, Names
  <2> QED
    BY <2>1, <2>2 DEF Collect
<1>3. (Alive' => Alive) /\ \A q \in Holder : At(q, "hold") => At(q, "hold")'
  BY <1>1, <1>2, Names DEF Alive, Deleting, At
<1> QED
  BY <1>1, <1>3, StillStep DEF history

(* A deletion goes on.                                                     *)
LEMMA DeleteGoesOnKeeps ==
  ASSUME ManagerInv, Inner, DeleteGoesOn
  PROVE  Inner'
<1>1. /\ UNCHANGED <<disk, segments, saved, job, history, exists>> /\ (cached' # 0 => cached # 0)
      /\ ~At(Deleter, "idle")
  BY DEF DeleteGoesOn, DeleteDrops, DeleteTakes, Frees, At
<1>2. PICK pc \in {"remove", "wait", "free"} : \E o : Goto(Deleter, pc, o)
  BY DEF DeleteGoesOn, DeleteDrops, DeleteTakes, Frees
<1>3. at'[Deleter].pc = pc /\ \A q \in Proc \ {Deleter} : at'[q] = at[q]
  BY <1>2, Moves, Names
<1>4. ~Alive'
  <2>1. at'[Deleter].pc # "idle"
    BY <1>2, <1>3, SMT
  <2> QED
    BY <2>1 DEF Alive, Deleting, At
<1>5. \A q \in Holder : At(q, "hold") => At(q, "hold")'
  BY <1>3, Names DEF At
<1> QED
  BY <1>1, <1>4, <1>5, StillStep DEF history

(* The files are gone.                                                     *)
LEMMA DeleteFilesKeeps ==
  ASSUME ManagerInv, Inner, DeleteFiles
  PROVE  Inner'
<1>1. /\ UNCHANGED <<segments, saved, job, history>> /\ exists' = FALSE
      /\ store' = [i \in SegId |-> Empty] /\ written' = {} /\ faiss' = [i \in SegId |-> Empty]
  BY DEF DeleteFiles, DeleteRemoves
<1> USE <1>1
<1>2. \A q \in Holder : At(q, "hold") => At(q, "hold")'
  <2>1. \A q \in Proc \ {Deleter} : at'[q] = at[q]
    BY Moves, Names DEF DeleteFiles, DeleteRemoves
  <2> QED
    BY <2>1, Names DEF At
<1>3. Book /\ ~exists' /\ ~Alive'
  BY DEF Inner, Alive
<1> USE <1>3
<1>4. Empty \in Bag
  BY SMT DEF Empty, Bag
<1>5. Typed'
  <2>1. store' \in [SegId -> Bag] /\ faiss' \in [SegId -> Bag] /\ written' \subseteq SegId
    BY <1>4
  <2> QED
    BY <2>1 DEF Book, Typed, segments, history
<1>6. WellFormed(meta)' /\ WellFormed(saved)' /\ Behind'
  BY MetaStays DEF Book, segments, history
<1>7. JobsOK' /\ SealOK' /\ TodoOK'
  BY <1>2, JobsStay, SealStays, TodoStays DEF Book, segments
<1> QED
  BY <1>5, <1>6, <1>7 DEF Inner, Book

(* A deletion begins: the consumers have finished, their writes are gone.  *)
LEMMA DeleteIndexKeeps ==
  ASSUME ManagerInv, Inner, DeleteIndex
  PROVE  Inner'
<1>1. /\ UNCHANGED <<disk, segments, saved, history, exists>>
      /\ job' = [p \in Holder |-> IF At(p, "idle") THEN NoJob ELSE job[p]]
  BY DEF DeleteIndex, DeleteBegins
<1> USE <1>1
<1>2. PICK pc \in {"remove", "drop"} : \E o : Goto(Deleter, pc, o)
  BY DEF DeleteIndex, DeleteBegins
<1>3. at'[Deleter].pc = pc /\ \A q \in Proc \ {Deleter} : at'[q] = at[q]
  BY <1>2, Moves, Names
<1>4. ~Alive'
  <2>1. at'[Deleter].pc # "idle"
    BY <1>2, <1>3, SMT
  <2> QED
    BY <2>1 DEF Alive, Deleting, At
<1>5. Book
  BY DEF Inner
<1> USE <1>5
<1>6. job' \in [Holder -> Job]
  BY NoJobIs DEF Book, Typed
<1>7. Typed' /\ WellFormed(meta)' /\ WellFormed(saved)' /\ Behind'
  BY <1>6, TypedStays, MetaStays DEF Book, segments, history
<1>8. \A p \in Holder : job'[p] = NoJob \/ job'[p] = job[p]
  OBVIOUS
<1>9. JobsOK'
  <2>1. job'[Sealer].op \in {"none", "seal"}
    BY <1>8, Clients, NoJobIs DEF Book, JobsOK
  <2>2. \A p \in Holder : job'[p].op \in Writes => job'[p].doc \in Doc
    BY <1>8, NoJobIs DEF Book, JobsOK
  <2>3. \A p \in Holder : job'[p].step # "begin" => At(p, "hold")'
    BY <1>3, <1>8, NoJobIs, Names DEF Book, JobsOK, At
  <2>4. \A c \in Client : job'[c].step \in {"delete", "add"} => job'[c].op \in Writes
    <3>1. NoJob.step \notin {"delete", "add"}
      BY NoJobIs, SMT
    <3> QED
      BY <1>8, <3>1, Clients DEF Book, JobsOK
  <2>5. \A c \in Client : job'[c].step = "delete" => job'[c].op # "insert"
    <3>1. NoJob.step # "delete"
      BY NoJobIs, SMT
    <3> QED
      BY <1>8, <3>1, Clients DEF Book, JobsOK
  <2>6. \A c \in Client, d \in Doc : Writing(c, d)' => Writing(c, d)
    BY <1>8, NoJobIs, Clients DEF Writing
  <2>7. \A b, c \in Client, d \in Doc : Writing(b, d)' /\ Writing(c, d)' => b = c
    BY <2>6 DEF Book, JobsOK
  <2> QED
    BY <2>1, <2>2, <2>3, <2>4, <2>5, <2>7 DEF JobsOK
<1>10. SealOK'
  <2>1. CASE job'[Sealer] = NoJob
    <3>1. job'[Sealer].step \notin {"seal", "save"}
      BY <2>1, NoJobIs, SMT
    <3> QED
      BY <3>1, SealIdle
  <2>2. CASE job'[Sealer] = job[Sealer]
    BY <2>2, SealStays DEF Book, segments
  <2> QED
    BY <1>8, <2>1, <2>2, Clients
<1>12. TodoOK'
  <2>1. \A p \in Holder : job'[p] = job[p] \/ job'[p].todo \subseteq DOMAIN meta.segs
    <3>1. {} \subseteq DOMAIN meta.segs
      OBVIOUS
    <3> QED
      BY <1>8, <3>1, NoJobIs
  <2> QED
    BY <2>1, Clients, TodoStays DEF Book, segments
<1>11. exists' => Files'
  <2>1. cached' # 0 => cached # 0
    BY DEF DeleteIndex, DeleteBegins
  <2> QED
    BY <2>1, FilesStay DEF Inner, segments, disk
<1> QED
  BY <1>4, <1>7, <1>9, <1>10, <1>11, <1>12 DEF Inner, Book

(* The manager's object could not be loaded.                               *)
LEMMA LoadFailsKeeps ==
  ASSUME ManagerInv, Inner, NEW p \in Holder, LoadFailsFor(p)
  PROVE  Inner'
<1>1. /\ UNCHANGED <<disk, segments, saved, history>> /\ LoadFails(p) /\ cached' = cached
      /\ At(p, "load") \/ At(p, "lost")
      /\ job' = IF p = Sealer \/ job[p].op = "search" \/ ~exists THEN [job EXCEPT ![p] = NoJob] ELSE job
  BY DEF LoadFailsFor, LoadFails
<1> USE <1>1
<1>2. cached = 0 /\ \A q \in Holder : ~At(q, "hold")
  BY NobodyHolds
<1>3. /\ \A q \in Holder \ {p} : at'[q] = at[q]
      /\ (Alive' => Alive) /\ exists' = exists
      /\ \A q \in Holder : At(q, "hold") => At(q, "hold")'
  BY <1>2, HolderMoves, Names
<1>4. CASE job' = job
  BY <1>2, <1>3, <1>4, StillStep DEF history
<1>5. CASE job' = [job EXCEPT ![p] = NoJob] /\ (p = Sealer \/ job[p].op = "search" \/ ~exists)
  <2>1. /\ Book /\ job' \in [Holder -> Job] /\ job'[p] = NoJob
        /\ \A q \in Holder \ {p} : job'[q] = job[q]
    BY <1>5, JobIs, NoJobIs DEF Inner, Book
  <2>2. job[p].step = "begin"
    BY <1>2, <2>1 DEF Book, JobsOK
  <2>3. CASE p = Sealer
    <3> USE <2>3
    <3>1. JobsOK'
      BY <1>3, <2>1, SealerTurn, NoJobIs DEF Book
    <3>2. SealOK'
      <4>1. job'[Sealer].step \notin {"seal", "save"}
        BY <2>1, NoJobIs, SMT
      <4> QED
        BY <4>1, SealIdle
    <3> QED
      BY <1>2, <1>3, <2>1, <3>1, <3>2, SealerStep DEF history
  <2>4. CASE p \in Client
    <3> USE <2>4
    <3>1. JobsOK'
      <4>1. job'[p].step = "begin" /\ job'[p].op \notin Writes /\ job'[p].step \notin {"delete", "add"}
            /\ job'[p].step # "delete"
        BY <2>1, NoJobIs, SMT
      <4> QED
        BY <1>3, <2>1, <4>1, ClientTurn DEF Book
    <3>2. Alive => job[p].op \notin Writes
      <4>1. "search" \notin Writes
        BY SMT DEF Writes
      <4> QED
        BY <1>5, <4>1, Clients DEF Alive
    <3>3. Alive => \A n \in DOMAIN meta.segs, e \in Doc : HalfDeleted(n, e) => HalfDeleted(n, e)'
      BY <2>1, <3>2, Clients DEF HalfDeleted, Writing
    <3>4. ASSUME Alive' PROVE Vectors' /\ (~Hashed => Copies')
      <4>1. Alive /\ Vectors /\ (~Hashed => Copies)
        BY <1>3, <3>4 DEF Inner
      <4> USE <4>1
      <4>2. Vectors'
        BY <1>2, <2>1, <3>3, VectorsStay DEF disk, segments, Book
      <4>3. \A c \in Client, d \in Doc : (Writing(c, d)' <=> Writing(c, d)) /\ (Writing(c, d) => job'[c] = job[c])
        BY <2>1, <3>2, NoJobIs, Clients DEF Writing
      <4>4. ASSUME Copies PROVE Copies'
        <5>1. \A d \in Doc : (Nowhere(d)' <=> Nowhere(d)) /\ (Once(d)' <=> Once(d))
          BY DEF Nowhere, Once, disk
        <5>2. \A d \in Doc : Settled(d)' <=> Settled(d)
          BY <5>1 DEF Settled, history
        <5>3. \A d \in Doc : Busy(d)' <=> Busy(d)
          BY <4>3 DEF Busy, Writing
        <5>4. \A d \in Doc, c \in Client : Writing(c, d) /\ WriteOK(c, d) => WriteOK(c, d)'
          <6> SUFFICES ASSUME NEW d \in Doc, NEW c \in Client, Writing(c, d), WriteOK(c, d) PROVE WriteOK(c, d)'
            OBVIOUS
          <6>1. job'[c] = job[c] /\ store' = store
            BY <4>3 DEF disk
          <6> QED
            BY <5>1, <5>2, <6>1 DEF WriteOK
        <5> QED
          BY <4>3, <4>4, <5>2, <5>3, <5>4 DEF Copies, history
      <4> QED
        BY <4>2, <4>4
    <3>5. Typed' /\ WellFormed(meta)' /\ WellFormed(saved)' /\ Behind'
      BY <2>1, TypedStays, MetaStays DEF Book, segments, history
    <3>6. SealOK'
      <4>1. job'[Sealer] = job[Sealer]
        BY <2>1, Clients
      <4> QED
        BY <2>1, <4>1, SealStays DEF Book, segments
    <3>8. TodoOK'
      <4>1. job'[p].todo \subseteq DOMAIN meta.segs /\ \A c \in Client \ {p} : job'[c] = job[c]
        BY <2>1, NoJobIs, Clients
      <4> QED
        BY <2>1, <4>1, TodoStays DEF Book, segments
    <3>7. exists' => Files'
      BY <1>3, FilesStay DEF Inner, segments, disk
    <3> QED
      BY <3>1, <3>4, <3>5, <3>6, <3>7, <3>8 DEF Inner, Book
  <2> QED
    BY <2>3, <2>4 DEF Holder
<1> QED
  BY <1>4, <1>5

-----------------------------------------------------------------------------
(* The steps of a write, a search or a seal that leave the segments alone  *)

(* A step that leaves the manager alone moves nobody.                      *)
LEMMA Unmoved ==
  ASSUME UNCHANGED managerVars
  PROVE  /\ UNCHANGED <<at, exists, cached>> /\ (Alive' <=> Alive)
         /\ \A q \in Holder : At(q, "hold") <=> At(q, "hold")'
<1>1. UNCHANGED <<at, exists, cached>>
  BY DEF managerVars, manager
<1> QED
  BY <1>1 DEF Alive, Deleting, At

(* What others still have to delete stays so.                              *)
LEMMA HalfKept ==
  ASSUME NEW c \in Client, \A b \in Client \ {c} : job'[b] = job[b], NEW n, NEW d, HalfDeleted(n, d)
  PROVE  \/ HalfDeleted(n, d)'
         \/ /\ Writing(c, d) /\ job[c].op # "insert"
            /\ job[c].step = "begin" \/ (job[c].step = "delete" /\ n \in job[c].todo)
BY DEF HalfDeleted, Writing

(* Only one write at a time is about a document.                           *)
LEMMA OneWriter ==
  ASSUME JobsOK, NEW c \in Client, NEW d \in Doc, Writing(c, d)
  PROVE  \A b \in Client \ {c} : ~Writing(b, d)
BY DEF JobsOK

(* The segment at a place has its number.                                  *)
LEMMA IdIs ==
  ASSUME Book, NEW n \in DOMAIN meta.segs
  PROVE  Id(n) = n /\ n \in SegId /\ store[n] \in Bag /\ index[n] \in Bag /\ faiss[n] \in Bag
BY DEF Book, Typed, WellFormed, InPlace, Id

(* What is not in a recorded segment is nowhere.                           *)
LEMMA NowhereElse ==
  ASSUME Book, Files, ~Hashed, cached # 0, NEW i \in SegId, NEW d \in Doc, i \notin DOMAIN meta.segs
  PROVE  store[i][d] = 0
<1>1. store[i] = Empty
  BY DEF Files
<1> QED
  BY <1>1 DEF Empty

(* A write that begins keeps the invariant.                                *)
LEMMA BeginWriteKeeps ==
  ASSUME ManagerInv, Inner, NEW c \in Client, NEW op \in Writes, NEW d \in Doc, BeginWrite(c, op, d)
  PROVE  Inner'
<1> DEFINE j == [NoJob EXCEPT !.op = op, !.doc = d]
<1>1. /\ c \in Holder /\ Asks(c) /\ job[c] = NoJob /\ ~Busy(d) /\ job' = [job EXCEPT ![c] = j]
      /\ UNCHANGED <<disk, segments, saved, want, repeated, recovered>>
  BY Clients DEF BeginWrite
<1> USE <1>1
<1>2. j \in Job /\ j.op = op /\ j.doc = d /\ j.step = "begin" /\ j.todo = {}
  BY DEF NoJob, Job, Writes
<1> USE <1>2
<1> HIDE DEF j
<1>3. Book
  BY DEF Inner
<1>4. job' \in [Holder -> Job] /\ job'[c] = j /\ \A q \in Holder \ {c} : job'[q] = job[q]
  BY <1>3, JobIs DEF Book
<1>5. \A b \in Client \ {c} : job'[b] = job[b]
  BY <1>4, Clients
<1>6. /\ \A q \in Holder \ {c} : at'[q] = at[q]
      /\ (Alive' => Alive) /\ exists' = exists /\ cached' = cached
  BY HolderMoves, Names DEF Asks, manager
<1>7. \A b \in Client : ~Writing(b, d)
  BY DEF Busy, Writing
<1>8. JobsOK'
  <2>1. job'[c].step = "begin" /\ job'[c].step \notin {"delete", "add"} /\ job'[c].step # "delete"
    BY <1>4, SMT
  <2>2. c # Sealer
    BY Clients
  <2>3. \A b \in Client \ {c}, e \in Doc : Writing(b, e) => ~Writing(c, e)'
    BY <1>4, <1>7 DEF Writing
  <2> QED
    BY <1>3, <1>4, <1>6, <2>1, <2>2, <2>3, JobTurn DEF Book
<1>9. \A n \in DOMAIN meta.segs, e \in Doc : HalfDeleted(n, e) => HalfDeleted(n, e)'
  BY <1>5, HalfKept, NoJobIs DEF Writing
<1>10. ASSUME Alive, ~Hashed, d \in Doc \ repeated PROVE WriteOK(c, d)'
  <2>1. Settled(d)
    BY <1>10 DEF Inner, Copies
  <2>2. Nowhere(d)' \/ Once(d)'
    BY <2>1 DEF Settled, Nowhere, Once, disk
  <2>3. job'[c].step \notin {"add", "delete", "done"}
    BY <1>4, SMT
  <2> QED
    BY <2>2, <2>3 DEF WriteOK
<1>11. Writing(c, d)'
  BY <1>4 DEF Writing
<1>12. job'[c].todo \subseteq DOMAIN meta.segs
  BY <1>4
<1> QED
  BY <1>4, <1>6, <1>7, <1>8, <1>9, <1>10, <1>11, <1>12, NoJobIs, ClientStep

(* A client that neither writes before nor after.                          *)
LEMMA ReaderStep ==
  ASSUME Inner, NEW c \in Client,
         UNCHANGED <<disk, segments, saved, want, repeated, recovered>>,
         JobsOK', job' \in [Holder -> Job], \A q \in Holder \ {c} : job'[q] = job[q],
         exists' => exists, Alive' => Alive, cached' # 0 => cached # 0,
         job[c].op \notin Writes, job'[c].op \notin Writes, job'[c].todo = {}
  PROVE  Inner'
<1>1. PICK d : d \notin Doc
  BY NoSetContainsEverything
<1>2. \A b \in Client \ {c} : job'[b] = job[b]
  BY Clients
<1>3. \A n \in DOMAIN meta.segs, e \in Doc : HalfDeleted(n, e) => HalfDeleted(n, e)'
  BY <1>2, HalfKept DEF Writing
<1>4. job'[c].todo \subseteq DOMAIN meta.segs
  OBVIOUS
<1> QED
  BY <1>1, <1>3, <1>4, ClientStep

(* A search that begins keeps the invariant.                               *)
LEMMA BeginSearchKeeps ==
  ASSUME ManagerInv, Inner, NEW c \in Client, BeginSearch(c)
  PROVE  Inner'
<1> DEFINE j == [NoJob EXCEPT !.op = "search"]
<1>1. Book /\ c \in Holder
  BY Clients DEF Inner
<1> USE <1>1
<1>2. job' = [job EXCEPT ![c] = j]
  <2>1. job[c] = NoJob /\ job' = [job EXCEPT ![c].op = "search"] /\ job \in [Holder -> Job]
    BY DEF BeginSearch, Book, Typed
  <2> QED
    BY <2>1, SMT
<1>3. j \in Job /\ j.op \notin Writes /\ j.step = "begin" /\ j.step \notin {"delete", "add"}
      /\ j.step # "delete" /\ j.todo = {}
  BY SMT DEF NoJob, Job, Writes
<1> USE <1>3
<1> HIDE DEF j
<1>4. job' \in [Holder -> Job] /\ job'[c] = j /\ \A q \in Holder \ {c} : job'[q] = job[q]
  BY <1>2, JobIs DEF Book
<1>5. /\ Asks(c) /\ job[c].op \notin Writes
      /\ UNCHANGED <<disk, segments, saved, want, repeated, recovered>>
  BY NoJobIs DEF BeginSearch
<1>6. /\ \A q \in Holder \ {c} : at'[q] = at[q]
      /\ (Alive' => Alive) /\ exists' = exists /\ cached' = cached
  BY <1>5, HolderMoves, Names DEF Asks, manager
<1>7. JobsOK'
  BY <1>4, <1>6, ClientTurn DEF Book
<1> QED
  BY <1>4, <1>5, <1>6, <1>7, ReaderStep

(* processDel finds the segments that hold the document.                   *)
LEMMA FindDeletesKeeps ==
  ASSUME ManagerInv, Inner, NEW c \in Client, FindDeletes(c)
  PROVE  Inner'
<1>0. PICK d : d = job[c].doc
  BY SMT
<1> DEFINE found == {n \in DOMAIN meta.segs : store[Id(n)][d] > 0}
<1>1. /\ c \in Holder /\ At(c, "hold") /\ job[c].step = "begin" /\ job[c].op \in Writes
      /\ UNCHANGED managerVars /\ UNCHANGED <<disk, segments, saved, want, repeated, recovered>>
      /\ \/ (job[c].op = "insert" \/ found = {}) /\ Step(c, "add", {})
         \/ job[c].op # "insert" /\ Step(c, "delete", found)
  BY <1>0, Clients DEF FindDeletes, AtStep, history
<1> USE <1>1
<1>2. Book /\ d \in Doc /\ Writing(c, d)
  BY <1>0 DEF Inner, Book, JobsOK, Writing
<1> USE <1>2
<1>3. found \subseteq SegId /\ found \subseteq DOMAIN meta.segs /\ \A n \in DOMAIN meta.segs : n \in found \/ store[n][d] = 0
  <2> SUFFICES ASSUME NEW n \in DOMAIN meta.segs PROVE n \in SegId /\ (n \in found \/ store[n][d] = 0)
    OBVIOUS
  <2>1. Id(n) = n /\ n \in SegId /\ store[n] \in Bag
    BY IdIs
  <2>2. store[n][d] \in Nat
    BY <2>1 DEF Bag
  <2>3. store[n][d] > 0 \/ store[n][d] = 0
    BY <2>2, SMT
  <2> QED
    BY <2>1, <2>3
<1> HIDE DEF found
<1>4. PICK s \in {"add", "delete"}, t \in SUBSET SegId :
        /\ Step(c, s, t)
        /\ job[c].op # "insert" => \A n \in DOMAIN meta.segs : n \in t \/ store[n][d] = 0
        /\ t \subseteq DOMAIN meta.segs /\ (s = "add" => t = {})
        /\ s = "delete" => job[c].op # "insert"
  <2>1. "add" # "delete"
    BY SMT
  <2> QED
    BY <1>3, <2>1
<1>5. /\ job' \in [Holder -> Job] /\ \A q \in Holder \ {c} : job'[q] = job[q]
      /\ job'[c].op = job[c].op /\ job'[c].doc = d /\ job'[c].step = s /\ job'[c].todo = t
  <2>1. s \in {"begin", "delete", "add", "done", "seal", "save"}
    BY <1>4, SMT
  <2> QED
    BY <1>0, <1>4, <2>1, StepIs, SMT DEF Book
<1>6. \A b \in Client \ {c} : job'[b] = job[b]
  BY <1>5, Clients
<1>7. UNCHANGED <<at, exists, cached>> /\ (Alive' <=> Alive) /\ At(c, "hold")'
  BY Unmoved
<1>8. JobsOK'
  <2>1. s = "delete" => job[c].op # "insert"
    BY <1>4
  <2> QED
    BY <1>0, <1>5, <1>7, <2>1, ClientTurn DEF Book
<1>9. \A n \in DOMAIN meta.segs, e \in Doc : HalfDeleted(n, e) => HalfDeleted(n, e)' \/ store[n][e] = 0
  <2> SUFFICES ASSUME NEW n \in DOMAIN meta.segs, NEW e \in Doc, HalfDeleted(n, e),
                      Writing(c, e), job[c].op # "insert"
               PROVE  HalfDeleted(n, e)' \/ store[n][e] = 0
    BY <1>6, HalfKept
  <2>1. e = d /\ (n \in t \/ store[n][d] = 0)
    BY <1>0, <1>4 DEF Writing
  <2>2. CASE n \in t
    <3>1. job'[c].step = "delete"
      BY <1>4, <1>5, <2>2
    <3> QED
      BY <1>5, <2>1, <2>2, <3>1 DEF HalfDeleted, Writing
  <2> QED
    BY <2>1, <2>2
<1>10. ASSUME Alive, ~Hashed, d \in Doc \ repeated PROVE WriteOK(c, d)'
  <2>1. WriteOK(c, d) /\ Files /\ cached # 0 /\ store' = store
    BY <1>10, Holds DEF Inner, Copies, Alive, disk
  <2>2. Nowhere(d)' \/ Once(d)'
    BY <2>1 DEF WriteOK, Nowhere, Once
  <2>3. job[c].op # "insert" => \A i \in SegId : i \in t \/ store[i][d] = 0
    BY <1>4, <1>10, <2>1, NowhereElse
  <2>4. job'[c].op # "insert" /\ job'[c].step = "add" => Nowhere(d)'
    BY <1>4, <1>5, <2>1, <2>3 DEF Nowhere
  <2>5. job'[c].step = "delete" => \A i \in SegId : store'[i][d] > 0 => i \in job'[c].todo
    <3>1. ~(0 > 0)
      BY SMT
    <3> QED
      BY <1>4, <1>5, <2>1, <2>3, <3>1
  <2>6. job'[c].step # "done"
    BY <1>4, <1>5, SMT
  <2> QED
    BY <2>2, <2>4, <2>5, <2>6 DEF WriteOK
<1>11. Writing(c, d)' /\ \A b \in Client \ {c} : ~Writing(b, d)
  BY <1>5, OneWriter DEF Writing, Book
<1> QED
  BY <1>0, <1>4, <1>5, <1>7, <1>8, <1>9, <1>10, <1>11, ClientStep

(* The current segment is growing.                                         *)
LEMMA AddNotRefused ==
  ASSUME Inner, NEW c \in Client, AddRefused(c)
  PROVE  FALSE
BY DEF Inner, Book, WellFormed, AddRefused, Growing

(* A client that returns keeps the invariant.                              *)
LEMMA FinishKeeps ==
  ASSUME ManagerInv, Inner, NEW c \in Client, Finish(c)
  PROVE  Inner'
<1>0. PICK d : d = job[c].doc
  BY SMT
<1>1. /\ c \in Holder /\ Closes(c) /\ job[c].step = "done" /\ job' = [job EXCEPT ![c] = NoJob]
      /\ UNCHANGED <<disk, segments, saved, want, repeated, recovered>> /\ Book
  BY Clients DEF Finish, AtStep, history, Inner
<1> USE <1>1
<1>2. job' \in [Holder -> Job] /\ job'[c] = NoJob /\ \A q \in Holder \ {c} : job'[q] = job[q]
  BY NoJobIs, JobIs DEF Book
<1>3. \A b \in Client \ {c} : job'[b] = job[b]
  BY <1>2, Clients
<1>4. /\ \A q \in Holder \ {c} : at'[q] = at[q]
      /\ (Alive' => Alive) /\ exists' = exists /\ cached' = cached
  BY HolderMoves, Names DEF Closes, manager
<1>5. JobsOK'
  <2>1. NoJob.step = "begin" /\ NoJob.step \notin {"delete", "add"} /\ NoJob.step # "delete"
    BY NoJobIs, SMT
  <2> QED
    BY <1>2, <1>4, <2>1, NoJobIs, ClientTurn DEF Book
<1>6. CASE job[c].op \notin Writes
  BY <1>2, <1>4, <1>5, <1>6, NoJobIs, ReaderStep
<1>7. CASE job[c].op \in Writes
  <2>1. \A n \in DOMAIN meta.segs, e \in Doc : HalfDeleted(n, e) => HalfDeleted(n, e)'
    <3>1. job[c].step \notin {"begin", "delete"}
      BY SMT
    <3> QED
      BY <1>3, <3>1, HalfKept
  <2>2. d \in Doc /\ Writing(c, d)
    BY <1>0, <1>7 DEF Book, JobsOK, Writing
  <2>3. ASSUME Alive, ~Hashed, d \in Doc \ repeated PROVE Settled(d)'
    <3>1. Settled(d)
      BY <2>2, <2>3 DEF Inner, Copies, WriteOK
    <3> QED
      BY <3>1 DEF Settled, Nowhere, Once, disk
  <2>4. ~Writing(c, d)' /\ \A b \in Client \ {c} : ~Writing(b, d)
    BY <1>2, <2>2, NoJobIs, OneWriter DEF Writing, Book
  <2>5. job'[c].todo \subseteq DOMAIN meta.segs
    BY <1>2, NoJobIs
  <2> QED
    BY <1>0, <1>2, <1>4, <1>5, <2>1, <2>3, <2>4, <2>5, NoJobIs, ClientStep
<1> QED
  BY <1>6, <1>7

(* The sealer's taking a task keeps the invariant.                         *)
LEMMA TakeTaskKeeps ==
  ASSUME ManagerInv, Inner, TakeTask
  PROVE  Inner'
<1> DEFINE j == [NoJob EXCEPT !.op = "seal"]
<1>1. Book /\ Sealer \in Holder
  BY Clients DEF Inner
<1> USE <1>1
<1>2. job' = [job EXCEPT ![Sealer] = j]
  <2>1. job[Sealer] = NoJob /\ job' = [job EXCEPT ![Sealer].op = "seal"] /\ job \in [Holder -> Job]
    BY DEF TakeTask, Book, Typed
  <2> QED
    BY <2>1, SMT
<1>3. j \in Job /\ j.op \in {"none", "seal"} /\ j.step = "begin" /\ j.step \notin {"seal", "save"}
  BY SMT DEF NoJob, Job, Writes
<1> HIDE DEF j
<1>4. job' \in [Holder -> Job] /\ job'[Sealer] = j /\ \A q \in Holder \ {Sealer} : job'[q] = job[q]
  BY <1>2, <1>3, JobIs DEF Book
<1>5. Asks(Sealer) /\ UNCHANGED <<disk, segments, saved, want, repeated, recovered>>
  BY DEF TakeTask, history
<1>6. /\ \A q \in Holder \ {Sealer} : at'[q] = at[q]
      /\ (Alive' => Alive) /\ exists' = exists /\ cached' = cached
  BY <1>5, HolderMoves, Names DEF Asks, manager
<1>7. JobsOK' /\ SealOK'
  BY <1>3, <1>4, <1>6, SealerTurn, SealIdle DEF Book
<1> QED
  BY <1>4, <1>5, <1>6, <1>7, SealerStep

(* The sealer's return keeps the invariant.                                *)
LEMMA SealerDoneKeeps ==
  ASSUME ManagerInv, Inner, SealerDone
  PROVE  Inner'
<1>1. /\ Sealer \in Holder /\ Closes(Sealer) /\ job' = [job EXCEPT ![Sealer] = NoJob]
      /\ UNCHANGED <<disk, segments, saved, want, repeated, recovered>> /\ Book
  BY Clients DEF SealerDone, history, Inner
<1> USE <1>1
<1>2. job' \in [Holder -> Job] /\ job'[Sealer] = NoJob /\ \A q \in Holder \ {Sealer} : job'[q] = job[q]
  BY NoJobIs, JobIs DEF Book
<1>3. /\ \A q \in Holder \ {Sealer} : at'[q] = at[q]
      /\ (Alive' => Alive) /\ exists' = exists /\ cached' = cached
  BY HolderMoves, Names DEF Closes, manager
<1>4. JobsOK' /\ SealOK'
  <2>1. NoJob.op \in {"none", "seal"} /\ NoJob.step = "begin" /\ NoJob.step \notin {"seal", "save"}
    BY NoJobIs, SMT
  <2> QED
    BY <1>2, <1>3, <2>1, SealerTurn, SealIdle DEF Book
<1> QED
  BY <1>2, <1>3, <1>4, SealerStep

(* The sealer works with the index as it is.                               *)
LEMMA SealerGoesOn ==
  ASSUME Book, NEW s \in {"seal", "save", "done"}, NEW t \in SUBSET SegId, Step(Sealer, s, t),
         At(Sealer, "hold"), UNCHANGED at
  PROVE  /\ JobsOK' /\ job' \in [Holder -> Job]
         /\ job'[Sealer].step = s /\ job'[Sealer].todo = t
         /\ \A q \in Holder \ {Sealer} : job'[q] = job[q]
         /\ \A c \in Client : job'[c] = job[c]
<1>1. s \in {"begin", "delete", "add", "done", "seal", "save"}
  BY SMT
<1>2. /\ job' \in [Holder -> Job] /\ \A q \in Holder \ {Sealer} : job'[q] = job[q]
      /\ job'[Sealer].op = job[Sealer].op
      /\ job'[Sealer].step = s /\ job'[Sealer].todo = t
  BY <1>1, StepIs, Clients, SMT DEF Book
<1>3. At(Sealer, "hold")'
  BY DEF At
<1>4. JobsOK'
  BY <1>2, <1>3, SealerTurn DEF Book, JobsOK
<1> QED
  BY <1>2, <1>4, Clients

(* The full segments other than the current one are growing.               *)
LEMMA PicksGrow ==
  ASSUME Book
  PROVE  /\ Picks \subseteq SegId /\ Picks \subseteq DOMAIN meta.segs \ {meta.cur}
         /\ \A n \in Picks : Growing(n)
<1> SUFFICES ASSUME NEW s \in Range(meta.segs), Full(s), s.id # meta.cur
             PROVE  s.id \in SegId /\ s.id \in DOMAIN meta.segs \ {meta.cur} /\ Growing(s.id)
  BY DEF Picks
<1>1. PICK n \in DOMAIN meta.segs : s = meta.segs[n]
  BY DEF Range
<1>2. s.id = n /\ n \in SegId
  BY <1>1, IdIs DEF Id
<1> QED
  BY <1>1, <1>2 DEF Full, Growing

(* The sealer's choice of the segments to seal keeps the invariant.        *)
LEMMA PickSegmentsKeeps ==
  ASSUME ManagerInv, Inner, PickSegments
  PROVE  Inner'
<1>1. /\ Book /\ At(Sealer, "hold") /\ UNCHANGED managerVars
      /\ UNCHANGED <<disk, segments, saved, want, repeated, recovered>>
      /\ Step(Sealer, IF Picks = {} THEN "done" ELSE "seal", Picks)
  BY DEF Inner, PickSegments, AtStep, history
<1> USE <1>1
<1>2. PICK s \in {"seal", "save", "done"} :
        Step(Sealer, s, Picks) /\ s # "save" /\ (s \in {"seal", "save"} => Picks # {})
  <2>1. CASE Picks = {}
    <3>1. Step(Sealer, "done", Picks)
      BY <2>1
    <3> QED
      BY <3>1, SMT
  <2>2. CASE Picks # {}
    <3>1. Step(Sealer, "seal", Picks)
      BY <2>2
    <3> QED
      BY <2>2, <3>1, SMT
  <2> QED
    BY <2>1, <2>2
<1>3. UNCHANGED <<at, exists, cached>> /\ (Alive' <=> Alive)
  BY Unmoved
<1>4. Picks \subseteq SegId /\ Picks \subseteq DOMAIN meta.segs \ {meta.cur} /\ \A n \in Picks : Growing(n)
  BY PicksGrow
<1>5. /\ JobsOK' /\ job' \in [Holder -> Job] /\ \A q \in Holder \ {Sealer} : job'[q] = job[q]
      /\ job'[Sealer].step = s /\ job'[Sealer].todo = Picks
  BY <1>2, <1>3, <1>4, SealerGoesOn
<1>6. SealOK'
  <2>1. meta' = meta
    BY DEF segments
  <2>2. \A n \in Picks : Growing(n)'
    BY <1>4, <2>1 DEF Growing
  <2> QED
    BY <1>2, <1>4, <1>5, <2>1, <2>2 DEF SealOK
<1> QED
  BY <1>3, <1>5, <1>6, SealerStep

-----------------------------------------------------------------------------
(* The sealer, the searches, and the stored metadata *)

(* No write goes on.                                                       *)
WritesStay == \A c \in Client : job'[c] = job[c] \/ (job[c].op \notin Writes /\ job'[c].op \notin Writes)

(* The copies stay when the files do and every write stays where it is.    *)
LEMMA CopiesSame ==
  ASSUME Copies, UNCHANGED <<store, want, repeated>>, WritesStay
  PROVE  Copies'
<1>1. \A d \in Doc : (Nowhere(d)' <=> Nowhere(d)) /\ (Once(d)' <=> Once(d))
  BY DEF Nowhere, Once
<1>2. \A d \in Doc : Settled(d)' <=> Settled(d)
  BY <1>1 DEF Settled
<1>3. \A c \in Client, d \in Doc : (Writing(c, d)' <=> Writing(c, d)) /\ (Writing(c, d) => job'[c] = job[c])
  BY DEF Writing, WritesStay
<1>4. \A d \in Doc : Busy(d)' <=> Busy(d)
  BY <1>3 DEF Busy, Writing
<1>5. \A d \in Doc, c \in Client : Writing(c, d) /\ WriteOK(c, d) => WriteOK(c, d)'
  <2> SUFFICES ASSUME NEW d \in Doc, NEW c \in Client, Writing(c, d), WriteOK(c, d) PROVE WriteOK(c, d)'
    OBVIOUS
  <2>1. job'[c] = job[c] /\ store' = store
    BY <1>3
  <2> QED
    BY <1>1, <1>2, <2>1 DEF WriteOK
<1> QED
  BY <1>2, <1>3, <1>4, <1>5 DEF Copies

(* A half deleted document stays one when every write stays where it is.   *)
LEMMA HalfSame ==
  ASSUME WritesStay, NEW n, NEW d, HalfDeleted(n, d)
  PROVE  HalfDeleted(n, d)'
BY DEF HalfDeleted, Writing, WritesStay

(* A bag's counts are no less than themselves.                             *)
LEMMA Same ==
  ASSUME NEW b \in Bag, NEW d \in Doc
  PROVE  b[d] >= b[d]
BY SMT DEF Bag

(* The metadata is stored.                                                 *)
LEMMA SavedStep ==
  ASSUME Inner, UNCHANGED <<managerVars, disk, segments, want, repeated, recovered>>, saved' = meta,
         JobsOK', SealOK', job' \in [Holder -> Job], \A c \in Client : job'[c] = job[c]
  PROVE  Inner'
<1>1. Book
  BY DEF Inner
<1> USE <1>1
<1>2. UNCHANGED <<at, exists, cached>> /\ (Alive' <=> Alive)
  BY Unmoved
<1>3. meta' = meta /\ store' = store /\ written' = written /\ faiss' = faiss
  BY DEF segments, disk
<1> USE <1>3
<1>4. Typed'
  BY DEF Book, Typed, disk, segments
<1>5. WellFormed(meta)' /\ WellFormed(saved)' /\ Behind'
  <2>1. WellFormed(meta)' /\ WellFormed(saved)'
    BY DEF Book, WellFormed, InPlace
  <2>2. \A n \in DOMAIN meta.segs : meta.segs[n].status = "sealed" => meta.segs[n].status # "growing"
    BY SMT
  <2> QED
    BY <2>1, <2>2 DEF Behind, Growing
<1>8. TodoOK'
  BY TodoStays DEF Book
<1>6. exists' => Files'
  BY <1>2 DEF Inner, Files, Filled
<1>7. ASSUME Alive' PROVE Vectors' /\ (~Hashed => Copies')
  <2>1. \A n \in DOMAIN meta.segs, d \in Doc : HalfDeleted(n, d) => HalfDeleted(n, d)'
    BY DEF HalfDeleted, Writing
  <2> QED
    BY <1>2, <1>7, <2>1, VectorsStay, CopiesStay DEF Inner, Book
<1> QED
  BY <1>4, <1>5, <1>6, <1>7, <1>8 DEF Inner, Book

(* Storing the metadata keeps the invariant.                               *)
LEMMA MetaStoredKeeps ==
  ASSUME Inner, MetaStored
  PROVE  Inner'
<1>1. UNCHANGED <<managerVars, disk, segments, want, repeated, recovered, job>> /\ saved' = meta /\ Book
  BY DEF MetaStored, history, Inner
<1> USE <1>1
<1>2. JobsOK'
  BY Unmoved, JobsStay DEF Book
<1>3. SealOK'
  BY SealStays DEF Book, segments
<1> QED
  BY <1>2, <1>3, SavedStep DEF Book, Typed

(* The segment in hand.                                                    *)
LEMMA InHand ==
  ASSUME Book, job[Sealer].step \in {"seal", "save"}
  PROVE  LET n == First(job[Sealer].todo)
         IN  /\ n \in job[Sealer].todo /\ n \in DOMAIN meta.segs /\ n # meta.cur
             /\ job[Sealer].step = "seal" => Growing(n)
<1>1. job[Sealer].todo # {} /\ job[Sealer].todo \subseteq DOMAIN meta.segs \ {meta.cur}
  BY DEF Book, SealOK
<1> USE <1>1
<1>2. job[Sealer].todo \in SUBSET SegId
  BY DEF Book, WellFormed
<1>3. First(job[Sealer].todo) \in job[Sealer].todo
  BY <1>2, FirstIn
<1>4. job[Sealer].step = "seal" => Growing(First(job[Sealer].todo))
  <2>1. "seal" # "save"
    BY SMT
  <2> QED
    BY <1>3, <2>1 DEF Book, SealOK
<1> QED
  BY <1>3, <1>4

(* The sealer's storing of the metadata keeps the invariant.               *)
LEMMA SaveMetaKeeps ==
  ASSUME Inner, SaveMeta
  PROVE  Inner'
<1> DEFINE left == job[Sealer].todo \ {First(job[Sealer].todo)}
<1>1. /\ Book /\ At(Sealer, "hold") /\ job[Sealer].step = "save"
      /\ UNCHANGED <<managerVars, disk, segments, want, repeated, recovered>> /\ saved' = meta
      /\ Step(Sealer, IF left = {} THEN "done" ELSE "seal", left)
  BY DEF SaveMeta, AtStep, history, Inner
<1> USE <1>1
<1>2. /\ left \in SUBSET SegId /\ left \subseteq DOMAIN meta.segs \ {meta.cur}
      /\ \A n \in left : Growing(n)
  BY DEF Book, SealOK, WellFormed
<1>3. PICK t : t = left
  OBVIOUS
<1> USE <1>3
<1> HIDE DEF left
<1>4. PICK s \in {"seal", "save", "done"} : Step(Sealer, s, t) /\ (s \in {"seal", "save"} => t # {})
  <2>1. CASE left = {}
    <3>1. Step(Sealer, "done", t)
      BY <2>1
    <3> QED
      BY <3>1, SMT
  <2>2. CASE left # {}
    <3>1. Step(Sealer, "seal", t)
      BY <2>2
    <3> QED
      BY <2>2, <3>1, SMT
  <2> QED
    BY <2>1, <2>2
<1>5. /\ JobsOK' /\ job' \in [Holder -> Job] /\ \A c \in Client : job'[c] = job[c]
      /\ job'[Sealer].step = s /\ job'[Sealer].todo = t
  BY <1>2, <1>4, Unmoved, SealerGoesOn
<1>6. SealOK'
  <2>1. meta' = meta
    BY DEF segments
  <2>2. \A n \in t : Growing(n)'
    BY <1>2, <2>1 DEF Growing
  <2> QED
    BY <1>2, <1>4, <1>5, <2>1, <2>2 DEF SealOK
<1> QED
  BY <1>5, <1>6, SavedStep

(* Only caches change: they are filled from the store.                     *)
LEMMA CacheStep ==
  ASSUME Inner, UNCHANGED <<managerVars, disk, meta, index, saved, want, repeated, recovered>>,
         cache' \in [SegId -> Bag \cup {NoCache}],
         Alive => \A n \in SegId : \/ cache'[n] = cache[n]
                                   \/ n \in DOMAIN meta.segs /\ Growing(n) /\ cache'[n] = store[n],
         JobsOK', SealOK', TodoOK', job' \in [Holder -> Job], WritesStay
  PROVE  Inner'
<1>1. Book
  BY DEF Inner
<1>2. UNCHANGED <<at, exists, cached>> /\ (Alive' <=> Alive)
  BY Unmoved
<1> USE <1>2
<1>3. store' = store /\ written' = written /\ faiss' = faiss
  BY DEF disk
<1> USE <1>3
<1>4. Typed'
  BY <1>1 DEF Book, Typed
<1>5. WellFormed(meta)' /\ WellFormed(saved)' /\ Behind'
  BY <1>1, MetaStays DEF Book
<1>6. exists' => Files'
  BY DEF Inner, Files, Filled
<1>7. ASSUME Alive' PROVE Vectors' /\ (~Hashed => Copies')
  <2>1. Alive /\ Vectors /\ (~Hashed => Copies)
    BY <1>7 DEF Inner
  <2> USE <2>1
  <2>2. \A n \in DOMAIN meta.segs, d \in Doc : HalfDeleted(n, d) => HalfDeleted(n, d)'
    BY HalfSame
  <2>3. \A n \in DOMAIN meta.segs : /\ Has(faiss[n], n) => Has(faiss[n], n)'
                                    /\ Has(index[n], n) => Has(index[n], n)'
    BY <2>2 DEF Has
  <2>4. cached' # 0 => \A n \in SegId : cache'[n] = NoCache \/ Filling(n)'
    BY DEF Vectors, Filling, Growing
  <2>5. Vectors'
    BY <2>3, <2>4 DEF Vectors, Growing
  <2> QED
    BY <2>5, CopiesSame
<1> QED
  BY <1>4, <1>5, <1>6, <1>7 DEF Inner, Book

(* A search, which fills the cache, keeps the invariant.                   *)
LEMMA SearchSegmentsKeeps ==
  ASSUME ManagerInv, Inner, NEW c \in Client, SearchSegments(c)
  PROVE  Inner'
<1>1. /\ Book /\ c \in Holder /\ At(c, "hold") /\ job[c].op = "search" /\ Step(c, "done", {})
      /\ UNCHANGED <<managerVars, disk, meta, index, saved, want, repeated, recovered>>
      /\ cache' = [n \in SegId |-> IF n \in DOMAIN meta.segs /\ Growing(n) /\ cache[n] = NoCache
                                   THEN store[Id(n)] ELSE cache[n]]
  BY Clients DEF SearchSegments, AtStep, history, Inner
<1> USE <1>1
<1>2. /\ job' \in [Holder -> Job] /\ \A q \in Holder \ {c} : job'[q] = job[q]
      /\ job'[c].op = job[c].op /\ job'[c].step = "done" /\ job'[c].todo = {}
  BY StepIs, SMT DEF Book
<1>3. "search" \notin Writes
  BY SMT DEF Writes
<1>4. WritesStay
  BY <1>2, <1>3, Clients DEF WritesStay
<1>5. JobsOK'
  <2>1. job'[c].step \notin {"delete", "add"} /\ job'[c].step # "delete"
    BY <1>2, SMT
  <2> QED
    BY <1>2, <1>3, <2>1, Unmoved, ClientTurn DEF Book
<1>6. SealOK'
  <2>1. job'[Sealer] = job[Sealer]
    BY <1>2, Clients
  <2> QED
    BY <2>1, SealStays DEF Book
<1>7. \A n \in SegId : cache'[n] = cache[n] \/ (n \in DOMAIN meta.segs /\ Growing(n) /\ cache'[n] = store[n])
  BY IdIs
<1>8. cache' \in [SegId -> Bag \cup {NoCache}]
  <2>1. DOMAIN cache' = SegId /\ cache' = [n \in SegId |-> cache'[n]]
    OBVIOUS
  <2>2. \A n \in SegId : cache'[n] \in Bag \cup {NoCache}
    BY <1>7 DEF Book, Typed
  <2> QED
    BY <2>1, <2>2
<1>9. TodoOK'
  <2>1. job'[c].todo \subseteq DOMAIN meta.segs /\ \A b \in Client \ {c} : job'[b] = job[b]
    BY <1>2, Clients
  <2> QED
    BY <2>1, TodoStays DEF Book
<1> QED
  BY <1>2, <1>4, <1>5, <1>6, <1>7, <1>8, <1>9, CacheStep

(* A seal that fails keeps the invariant.                                  *)
LEMMA SealFailsKeeps ==
  ASSUME ManagerInv, Inner, SealFails
  PROVE  Inner'
<1>0. PICK n : n = First(job[Sealer].todo)
  BY SMT
<1>1. /\ Book /\ At(Sealer, "hold") /\ job[Sealer].step \in {"seal", "save"} /\ Step(Sealer, "done", {})
      /\ UNCHANGED <<managerVars, disk, meta, index, saved, want, repeated, recovered>>
      /\ \/ UNCHANGED cache
         \/ /\ job[Sealer].step = "seal"
            /\ cache' = [cache EXCEPT ![n] = store[Id(n)]]
  BY <1>0 DEF SealFails, AtStep, history, Inner
<1> USE <1>1
<1>2. n \in DOMAIN meta.segs /\ (job[Sealer].step = "seal" => Growing(n))
  BY <1>0, InHand
<1>3. /\ JobsOK' /\ job' \in [Holder -> Job] /\ \A c \in Client : job'[c] = job[c]
      /\ job'[Sealer].step = "done"
  <2>1. "done" \in {"seal", "save", "done"} /\ {} \in SUBSET SegId
    BY SMT
  <2> QED
    BY <2>1, Unmoved, SealerGoesOn
<1>4. SealOK'
  <2>1. job'[Sealer].step \notin {"seal", "save"}
    BY <1>3, SMT
  <2> QED
    BY <2>1, SealIdle
<1>5. WritesStay
  BY <1>3 DEF WritesStay
<1>6. /\ cache' \in [SegId -> Bag \cup {NoCache}]
      /\ \A k \in SegId : \/ cache'[k] = cache[k]
                          \/ k \in DOMAIN meta.segs /\ Growing(k) /\ cache'[k] = store[k]
  <2>1. cache \in [SegId -> Bag \cup {NoCache}] /\ DOMAIN meta.segs \subseteq SegId
    BY DEF Book, Typed, WellFormed
  <2>2. CASE UNCHANGED cache
    BY <2>1, <2>2
  <2>3. CASE job[Sealer].step = "seal" /\ cache' = [cache EXCEPT ![n] = store[Id(n)]]
    <3>1. cache' = [cache EXCEPT ![n] = store[n]] /\ store[n] \in Bag /\ n \in SegId
      BY <1>2, <2>3, IdIs
    <3> QED
      BY <1>2, <2>1, <2>3, <3>1
  <2> QED
    BY <2>2, <2>3
<1>7. TodoOK'
  BY <1>3, TodoStays DEF Book
<1> QED
  BY <1>3, <1>4, <1>5, <1>6, <1>7, CacheStep

(* The bag a seal builds the faiss index from.                             *)
LEMMA SealSegmentKeeps ==
  ASSUME ManagerInv, Inner, SealSegment
  PROVE  Inner'
<1>0. PICK n, vectors : /\ n = First(job[Sealer].todo)
                        /\ vectors = IF cache[n] = NoCache THEN store[Id(n)] ELSE cache[n]
  BY SMT
<1>1. /\ Book /\ At(Sealer, "hold") /\ job[Sealer].step = "seal" /\ Step(Sealer, "save", job[Sealer].todo)
      /\ UNCHANGED <<managerVars, store, written, saved, want, repeated, recovered>>
      /\ \/ /\ vectors = Empty
            /\ cache' = [cache EXCEPT ![n] = vectors] /\ UNCHANGED <<index, faiss, meta>>
         \/ /\ index' = [index EXCEPT ![n] = vectors]
            /\ faiss' = [faiss EXCEPT ![Id(n)] = vectors]
            /\ meta' = [meta EXCEPT !.segs[n].status = "sealed"]
            /\ cache' = FreeCache(n)
  BY <1>0 DEF SealSegment, AtStep, history, Inner
<1> USE <1>1
<1>2. n \in DOMAIN meta.segs /\ n # meta.cur /\ Growing(n) /\ n \in job[Sealer].todo
  <2>1. job[Sealer].step \in {"seal", "save"}
    BY SMT
  <2> QED
    BY <1>0, <2>1, InHand
<1> USE <1>2
<1>3. Id(n) = n /\ n \in SegId /\ store[n] \in Bag /\ DOMAIN meta.segs \subseteq SegId
  BY IdIs DEF Book, WellFormed
<1>4. vectors \in Bag /\ (Alive => vectors = store[n])
  <2>1. cache[n] \in Bag \cup {NoCache}
    BY <1>3 DEF Book, Typed
  <2>2. cached # 0
    BY Holds, Clients
  <2>3. vectors \in Bag
    BY <1>0, <1>3, <2>1
  <2>4. Alive => vectors = store[n]
    BY <1>0, <1>3, <2>2 DEF Inner, Vectors, Filling
  <2> QED
    BY <2>3, <2>4
<1> USE <1>4
<1>5. PICK t \in SUBSET SegId : t = job[Sealer].todo
  BY JobParts, Clients DEF Book
<1> USE <1>5
<1>6. /\ JobsOK' /\ job' \in [Holder -> Job] /\ \A c \in Client : job'[c] = job[c]
      /\ job'[Sealer].step = "save" /\ job'[Sealer].todo = t
  BY Unmoved, SealerGoesOn
<1>7. WritesStay
  BY <1>6 DEF WritesStay
<1>8. ASSUME DOMAIN meta'.segs = DOMAIN meta.segs, meta'.cur = meta.cur,
             \A k \in DOMAIN meta.segs \ {n} : meta'.segs[k].status = meta.segs[k].status
      PROVE  SealOK'
  <2>1. t # {} /\ t \subseteq DOMAIN meta.segs \ {meta.cur} /\ \A k \in t : Growing(k)
    <3>1. job[Sealer].step \in {"seal", "save"} /\ job[Sealer].step # "save"
      BY SMT
    <3> QED
      BY <3>1 DEF Book, SealOK
  <2>2. \A k \in t : Growing(k)' \/ k = n
    BY <1>8, <2>1 DEF Growing
  <2>3. n = First(job'[Sealer].todo)
    BY <1>0, <1>6
  <2> QED
    BY <1>6, <1>8, <2>1, <2>2, <2>3 DEF SealOK
<1>9. CASE cache' = [cache EXCEPT ![n] = vectors] /\ UNCHANGED <<index, faiss, meta>>
  <2> USE <1>9
  <2>1. cache \in [SegId -> Bag \cup {NoCache}]
    BY DEF Book, Typed
  <2>2. cache' \in [SegId -> Bag \cup {NoCache}]
    BY <1>3, <2>1
  <2>3. Alive => \A k \in SegId : \/ cache'[k] = cache[k]
                                  \/ k \in DOMAIN meta.segs /\ Growing(k) /\ cache'[k] = store[k]
    BY <1>3, <2>1
  <2>4. SealOK' /\ TodoOK'
    BY <1>6, <1>8, TodoStays DEF Book
  <2> QED
    BY <1>6, <1>7, <2>2, <2>3, <2>4, CacheStep DEF disk
<1>10. CASE /\ index' = [index EXCEPT ![n] = vectors] /\ faiss' = [faiss EXCEPT ![Id(n)] = vectors]
            /\ meta' = [meta EXCEPT !.segs[n].status = "sealed"] /\ cache' = FreeCache(n)
  <2>1. UNCHANGED <<at, exists, cached>> /\ (Alive' <=> Alive)
    BY Unmoved
  <2>2. /\ meta' \in Metadata /\ meta'.cur = meta.cur
        /\ Len(meta'.segs) = Len(meta.segs) /\ DOMAIN meta'.segs = DOMAIN meta.segs
        /\ \A k \in DOMAIN meta.segs : meta'.segs[k].id = meta.segs[k].id
        /\ meta'.segs[n].status = "sealed"
        /\ \A k \in DOMAIN meta.segs \ {n} : meta'.segs[k].status = meta.segs[k].status
    <3>1. meta \in Metadata
      BY DEF Book, Typed
    <3>2. HasSealed(meta', meta, n)
      BY <1>10, <3>1, SetSealed
    <3> QED
      BY <3>2 DEF HasSealed
  <2>3. /\ faiss \in [SegId -> Bag] /\ index \in [SegId -> Bag] /\ cache \in [SegId -> Bag \cup {NoCache}]
        /\ faiss' = [faiss EXCEPT ![n] = vectors] /\ index' = [index EXCEPT ![n] = vectors]
        /\ cache' = [cache EXCEPT ![n] = NoCache]
    BY <1>3, <1>10 DEF Book, Typed, FreeCache
  <2>4. /\ faiss' \in [SegId -> Bag] /\ index' \in [SegId -> Bag] /\ cache' \in [SegId -> Bag \cup {NoCache}]
        /\ faiss'[n] = vectors /\ index'[n] = vectors /\ cache'[n] = NoCache
        /\ \A k \in SegId \ {n} : faiss'[k] = faiss[k] /\ index'[k] = index[k] /\ cache'[k] = cache[k]
    BY <1>3, <2>3
  <2>5. Typed'
    BY <1>6, <2>2, <2>4 DEF Book, Typed
  <2>6. ~Growing(n)' /\ \A k \in DOMAIN meta.segs \ {n} : Growing(k)' <=> Growing(k)
    <3>1. "sealed" # "growing"
      BY SMT
    <3> QED
      BY <2>2, <3>1 DEF Growing
  <2>7. WellFormed(meta)' /\ WellFormed(saved)'
    <3>1. meta.cur \in DOMAIN meta.segs \ {n}
      BY DEF Book, WellFormed
    <3>2. WellFormed(meta)'
      BY <2>2, <3>1 DEF Book, WellFormed, InPlace
    <3> QED
      BY <3>2 DEF Book, WellFormed, InPlace
  <2>8. Behind'
    BY <2>2, <2>6 DEF Book, Behind
  <2>9. SealOK' /\ TodoOK'
    BY <1>6, <1>8, <2>2, TodoStays DEF Book
  <2>10. exists' => Files'
    BY <2>1, <2>2 DEF Inner, Files, Filled
  <2>11. ASSUME Alive' PROVE Vectors' /\ (~Hashed => Copies')
    <3>1. Alive /\ Vectors /\ (~Hashed => Copies) /\ vectors = store[n]
      BY <2>1, <2>11 DEF Inner
    <3> USE <3>1
    <3>2. \A k \in DOMAIN meta.segs, d \in Doc : HalfDeleted(k, d) => HalfDeleted(k, d)'
      BY <1>7, HalfSame
    <3>3. \A k \in DOMAIN meta.segs : \A v : Has(v, k) => Has(v, k)'
      BY <3>2 DEF Has
    <3>4. Has(vectors, n)'
      BY <1>3, Same DEF Has
    <3>5. ASSUME NEW k \in DOMAIN meta.segs
          PROVE  ~Growing(k)' => Has(faiss[k], k)' /\ (cached' # 0 => Has(index[k], k)')
      <4>1. CASE k = n
        BY <2>4, <2>6, <3>4, <4>1 DEF Has
      <4>2. CASE k # n
        <5>1. k \in SegId \ {n} /\ (Growing(k)' <=> Growing(k))
          BY <1>3, <2>6, <4>2
        <5> QED
          BY <2>1, <2>4, <3>3, <5>1 DEF Vectors, Has
      <4> QED
        BY <4>1, <4>2
    <3>6. ASSUME cached' # 0, NEW k \in SegId PROVE cache'[k] = NoCache \/ Filling(k)'
      <4>1. CASE k = n
        BY <2>4, <4>1
      <4>2. CASE k # n
        <5>1. cache[k] = NoCache \/ Filling(k)
          BY <2>1, <3>6 DEF Vectors
        <5> QED
          BY <2>2, <2>4, <2>6, <4>2, <5>1 DEF Filling
      <4> QED
        BY <4>1, <4>2
    <3>7. Vectors'
      BY <2>2, <3>5, <3>6 DEF Vectors
    <3> QED
      BY <1>6, <3>7, CopiesStay
  <2> QED
    BY <1>6, <2>5, <2>7, <2>8, <2>9, <2>10, <2>11 DEF Inner, Book
<1> QED
  BY <1>9, <1>10

-----------------------------------------------------------------------------
(* The writes: a segment's delete *)

(* The document d is taken out of the n-th bag.                            *)
Without(f, n, d) == [f EXCEPT ![n][d] = 0]

TakesOut(g, f, n, d) ==
  /\ g \in [SegId -> Bag] /\ g[n][d] = 0
  /\ \A e \in Doc \ {d} : g[n][e] = f[n][e]
  /\ \A k \in SegId \ {n} : g[k] = f[k]
  /\ \A k \in SegId, e \in Doc \ {d} : g[k][e] = f[k][e]

(* Without takes the document out of one bag and leaves the others alone.  *)
LEMMA TakenOut ==
  ASSUME NEW f \in [SegId -> Bag], NEW n \in SegId, NEW d \in Doc, NEW g, g = Without(f, n, d)
  PROVE  TakesOut(g, f, n, d)
<1> DEFINE b == [f[n] EXCEPT ![d] = 0]
<1>1. f[n] \in Bag
  OBVIOUS
<1>2. b \in Bag /\ b[d] = 0 /\ \A e \in Doc \ {d} : b[e] = f[n][e]
  BY <1>1, SMT DEF Bag
<1>3. g = [f EXCEPT ![n] = b]
  BY SMT DEF Without
<1> HIDE DEF b
<1>4. g \in [SegId -> Bag] /\ g[n] = b /\ \A k \in SegId \ {n} : g[k] = f[k]
  BY <1>2, <1>3
<1> QED
  BY <1>2, <1>4 DEF TakesOut

(* A bag from which a document was taken was not empty before, if it is    *)
(* not now.                                                                *)
LEMMA StillEmpty ==
  ASSUME NEW b \in Bag, NEW d \in Doc, b[d] = 0, \A e \in Doc \ {d} : b[e] = Empty[e]
  PROVE  b = Empty
<1>1. \A e \in Doc : b[e] = 0
  BY SMT DEF Empty
<1> QED
  BY <1>1, SMT DEF Bag, Empty

(* One copy less is at most one copy.                                      *)
LEMMA CopiesLess ==
  ASSUME NEW d \in Doc, Nowhere(d) \/ Once(d), NEW n \in SegId, store'[n][d] = 0,
         \A k \in SegId \ {n} : store'[k] = store[k]
  PROVE  Nowhere(d)' \/ Once(d)'
<1>1. CASE Nowhere(d)
  BY <1>1 DEF Nowhere
<1>2. CASE Once(d)
  <2>1. PICK j \in SegId : store[j][d] = 1 /\ \A i \in SegId \ {j} : store[i][d] = 0
    BY <1>2 DEF Once
  <2>2. CASE j = n
    BY <2>1, <2>2 DEF Nowhere
  <2>3. CASE j # n
    <3>1. store'[j][d] = 1 /\ \A i \in SegId \ {j} : store'[i][d] = 0
      BY <2>1, <2>3
    <3> QED
      BY <3>1 DEF Once
  <2> QED
    BY <2>2, <2>3
<1> QED
  BY <1>1, <1>2

(* A count is zero or more.                                                *)
LEMMA NatCase ==
  ASSUME NEW x \in Nat
  PROVE  (x > 0 \/ x = 0) /\ ~(0 > 0) /\ 0 >= 0 /\ 1 > 0
BY SMT

(* The files of a segment stay when a document is taken out of it.         *)
LEMMA FilesLess ==
  ASSUME Typed, Files, NEW n \in SegId, NEW d \in Doc, store' \in [SegId -> Bag], store'[n][d] = 0,
         \A e \in Doc \ {d} : store'[n][e] = store[n][e], \A k \in SegId \ {n} : store'[k] = store[k],
         UNCHANGED <<written, saved, cached>>, meta'.cur = meta.cur, DOMAIN meta'.segs = DOMAIN meta.segs
  PROVE  Files'
<1>1. store'[n] # Empty => store[n] # Empty
  <2>1. store'[n] \in Bag
    OBVIOUS
  <2> QED
    BY <2>1, StillEmpty
<1>2. \A i \in SegId : store'[i] # Empty => i \in written'
  BY <1>1 DEF Files
<1> QED
  BY <1>2 DEF Files, Filled

(* Deleting a document from a segment keeps the invariant.                 *)
LEMMA DeleteSegmentKeeps ==
  ASSUME ManagerInv, Inner, NEW c \in Client, NEW n \in SegId, DeleteSegment(c, n)
  PROVE  Inner'
<1>0. PICK d, t, s : /\ d = job[c].doc /\ t = job[c].todo \ {n}
                     /\ s = IF job[c].todo = {n} THEN "add" ELSE "delete"
  OBVIOUS
<1>1. /\ Book /\ c \in Holder /\ At(c, "hold") /\ job[c].step = "delete" /\ n \in job[c].todo
      /\ UNCHANGED <<managerVars, written, saved, want, repeated, recovered>>
      /\ Step(c, s, t)
      /\ store' = [store EXCEPT ![Id(n)][d] = 0]
      /\ index' = IF Growing(n) THEN index ELSE [index EXCEPT ![n][d] = 0]
      /\ Save(n) /\ meta' = [meta EXCEPT !.segs[n].count = CountOf(n)]
  BY <1>0, Clients DEF DeleteSegment, AtStep, history, Inner
<1> USE <1>1
<1>2. n \in DOMAIN meta.segs /\ Id(n) = n /\ job[c].op \in Writes /\ job[c].op # "insert" /\ d \in Doc
  <2>1. n \in DOMAIN meta.segs
    BY DEF Book, TodoOK
  <2>2. job[c].op \in Writes /\ job[c].op # "insert"
    BY SMT DEF Book, JobsOK
  <2> QED
    BY <1>0, <2>1, <2>2, IdIs DEF Book, JobsOK
<1> USE <1>2
<1>3. Writing(c, d) /\ \A b \in Client \ {c} : ~Writing(b, d)
  BY <1>0, OneWriter DEF Writing, Book
<1>4. /\ store' \in [SegId -> Bag] /\ store'[n][d] = 0
      /\ \A e \in Doc \ {d} : store'[n][e] = store[n][e]
      /\ \A k \in SegId \ {n} : store'[k] = store[k]
      /\ \A k \in SegId, e \in Doc \ {d} : store'[k][e] = store[k][e]
  <2>1. store \in [SegId -> Bag] /\ store' = Without(store, n, d)
    BY DEF Book, Typed, Without
  <2>2. TakesOut(store', store, n, d)
    BY <2>1, TakenOut
  <2> QED
    BY <2>2 DEF TakesOut
<1>5. /\ index' \in [SegId -> Bag] /\ \A k \in SegId \ {n} : index'[k] = index[k]
      /\ ~Growing(n) => index'[n][d] = 0 /\ \A e \in Doc \ {d} : index'[n][e] = index[n][e]
  <2>1. index \in [SegId -> Bag]
    BY DEF Book, Typed
  <2>2. CASE Growing(n)
    BY <2>1, <2>2
  <2>3. CASE ~Growing(n)
    <3>1. index' = Without(index, n, d)
      BY <2>3 DEF Without
    <3>2. TakesOut(index', index, n, d)
      BY <2>1, <3>1, TakenOut
    <3> QED
      BY <3>2 DEF TakesOut
  <2> QED
    BY <2>2, <2>3
<1>6. /\ faiss' \in [SegId -> Bag] /\ \A k \in SegId \ {n} : faiss'[k] = faiss[k]
      /\ ~Growing(n) => faiss'[n] = index'[n]
  <2>1. faiss \in [SegId -> Bag] /\ index'[n] \in Bag
    BY <1>5 DEF Book, Typed
  <2>2. IF Growing(n) THEN faiss' = faiss ELSE faiss' = [faiss EXCEPT ![n] = index'[n]]
    BY DEF Save
  <2> QED
    BY <2>1, <2>2
<1>7. /\ cache' \in [SegId -> Bag \cup {NoCache}] /\ \A k \in SegId \ {n} : cache'[k] = cache[k]
      /\ IF Growing(n) THEN cache'[n] = NoCache ELSE cache'[n] = cache[n]
  <2>1. cache \in [SegId -> Bag \cup {NoCache}]
    BY DEF Book, Typed
  <2>2. cache' = IF Growing(n) THEN [cache EXCEPT ![n] = NoCache] ELSE cache
    BY DEF Save, FreeCache
  <2> QED
    BY <2>1, <2>2
<1>8. Like(meta', meta)
  <2>1. store'[n] \in Bag /\ index'[n] \in Bag /\ meta \in Metadata
    BY <1>4, <1>5 DEF Book, Typed
  <2>2. CountOf(n) \in Nat
    BY <2>1, CountType DEF CountOf
  <2> QED
    BY <2>1, <2>2, SetCount
<1> USE <1>8
<1>9. /\ job' \in [Holder -> Job] /\ \A q \in Holder \ {c} : job'[q] = job[q]
      /\ job'[c].op = job[c].op /\ job'[c].doc = d /\ job'[c].step = s /\ job'[c].todo = t
  <2>1. s \in {"begin", "delete", "add", "done", "seal", "save"}
    BY <1>0, SMT
  <2>2. t \in SUBSET SegId
    BY <1>0, JobParts DEF Book
  <2> QED
    BY <1>0, <2>1, <2>2, StepIs, SMT DEF Book
<1>10. UNCHANGED <<at, exists, cached>> /\ (Alive' <=> Alive) /\ At(c, "hold")'
  BY Unmoved
<1> USE <1>10
<1>11. \A b \in Client \ {c} : job'[b] = job[b]
  BY <1>9, Clients
<1>12. Typed'
  BY <1>4, <1>5, <1>6, <1>7, <1>9 DEF Book, Typed, Like
<1>13. WellFormed(meta)' /\ WellFormed(saved)' /\ Behind'
  BY MetaCounted DEF Book
<1>14. JobsOK' /\ SealOK' /\ TodoOK'
  <2>1. JobsOK'
    BY <1>0, <1>9, ClientTurn DEF Book
  <2>2. SealOK'
    <3>1. job'[Sealer] = job[Sealer]
      BY <1>9, Clients
    <3> QED
      BY <3>1, SealStays DEF Book, Like
  <2>3. TodoOK'
    <3>1. t \subseteq DOMAIN meta.segs
      BY <1>0 DEF Book, TodoOK
    <3> QED
      BY <1>9, <1>11, <3>1, TodoStays DEF Book, Like
  <2> QED
    BY <2>1, <2>2, <2>3
<1>15. exists' => Files'
  BY <1>4, FilesLess DEF Inner, Book, Like
<1>16. ASSUME Alive' PROVE Vectors'
  <2>1. Alive /\ Vectors /\ cached # 0
    BY <1>16, Holds DEF Inner
  <2>2. \A e \in Doc \ {d} : \A k : HalfDeleted(k, e) => HalfDeleted(k, e)'
    BY <1>0, <1>11, HalfKept DEF Writing
  <2>3. \A k \in DOMAIN meta.segs \ {n} : HalfDeleted(k, d) => HalfDeleted(k, d)'
    <3> SUFFICES ASSUME NEW k \in DOMAIN meta.segs \ {n}, HalfDeleted(k, d), ~HalfDeleted(k, d)'
                 PROVE  FALSE
      OBVIOUS
    <3>1. k \in job[c].todo
      <4>1. "begin" # "delete"
        BY SMT
      <4> QED
        BY <1>11, <4>1, HalfKept
    <3>2. k \in t /\ s = "delete"
      BY <1>0, <3>1
    <3> QED
      BY <1>9, <3>2 DEF HalfDeleted, Writing
  <2>4. DOMAIN meta'.segs = DOMAIN meta.segs /\ \A k \in DOMAIN meta.segs : Growing(k)' <=> Growing(k)
    BY DEF Like, Growing
  <2>5. ASSUME NEW k \in DOMAIN meta.segs, ~Growing(k) PROVE Has(faiss[k], k)' /\ Has(index[k], k)'
    <3> USE <2>5
    <3>1. Has(faiss[k], k) /\ Has(index[k], k) /\ k \in SegId
      BY <2>1 DEF Vectors, Book, WellFormed
    <3> USE <3>1
    <3>2. CASE k # n
      <4>1. faiss'[k] = faiss[k] /\ index'[k] = index[k] /\ store'[k] = store[k]
        BY <1>4, <1>5, <1>6, <3>2
      <4>2. \A e \in Doc : HalfDeleted(k, e) => HalfDeleted(k, e)'
        BY <2>2, <2>3, <3>2
      <4> QED
        BY <4>1, <4>2 DEF Has
    <3>3. CASE k = n
      <4> USE <3>3
      <4>1. \A e \in Doc \ {d} : /\ index'[n][e] = index[n][e] /\ store'[n][e] = store[n][e]
                                 /\ HalfDeleted(n, e) => HalfDeleted(n, e)'
        BY <1>4, <1>5, <2>2
      <4>2. index'[n][d] >= store'[n][d]
        BY <1>4, <1>5, SMT
      <4>3. Has(index[n], n)'
        BY <4>1, <4>2 DEF Has
      <4> QED
        BY <1>6, <4>3 DEF Has
    <3> QED
      BY <3>2, <3>3
  <2>6. ASSUME NEW k \in SegId PROVE cache'[k] = NoCache \/ Filling(k)'
    <3>1. cache[k] = NoCache \/ Filling(k)
      BY <2>1 DEF Vectors
    <3>2. CASE k # n
      BY <1>4, <1>7, <2>4, <3>1, <3>2 DEF Filling
    <3>3. CASE k = n
      BY <1>7, <3>1, <3>3 DEF Filling
    <3> QED
      BY <3>2, <3>3
  <2> QED
    BY <2>4, <2>5, <2>6 DEF Vectors
<1>17. ASSUME Alive', ~Hashed PROVE Copies'
  <2>1. Copies
    BY <1>17 DEF Inner
  <2>2. ASSUME d \in Doc \ repeated' PROVE WriteOK(c, d)'
    <3>1. WriteOK(c, d)
      BY <1>3, <2>1, <2>2 DEF Copies
    <3>2. Nowhere(d)' \/ Once(d)'
      BY <1>4, <3>1, CopiesLess DEF WriteOK
    <3>3. \A i \in SegId : i \in t \/ store'[i][d] = 0
      <4> SUFFICES ASSUME NEW i \in SegId \ {n}, i \notin t PROVE store'[i][d] = 0
        BY <1>4
      <4>1. i \notin job[c].todo
        BY <1>0
      <4>2. ~(store[i][d] > 0)
        BY <3>1, <4>1 DEF WriteOK
      <4>3. store[i][d] \in Nat
        <5>1. store[i] \in Bag
          BY DEF Book, Typed
        <5> QED
          BY <5>1 DEF Bag
      <4> QED
        BY <1>4, <4>2, <4>3, NatCase
    <3>4. s = "add" => Nowhere(d)'
      <4>1. s = "add" => t = {}
        BY <1>0, SMT
      <4> QED
        BY <3>3, <4>1 DEF Nowhere
    <3>5. \A i \in SegId : store'[i][d] > 0 => i \in t
      BY <3>3, NatCase
    <3>6. s # "done"
      BY <1>0, SMT
    <3> QED
      BY <1>9, <3>2, <3>4, <3>5, <3>6 DEF WriteOK
  <2>3. Writing(c, d)'
    BY <1>9 DEF Writing
  <2>4. /\ repeated \subseteq repeated'
        /\ \A e \in Doc \ {d} : (e \in want' <=> e \in want) /\ \A i \in SegId : store'[i][e] = store[i][e]
    BY <1>4
  <2>5. (job[c].op \in Writes => job[c].doc = d) /\ (job'[c].op \in Writes => job'[c].doc = d)
    BY <1>0, <1>9
  <2> QED
    BY <1>3, <1>11, <2>1, <2>2, <2>3, <2>4, <2>5, CopiesTurn
<1> QED
  BY <1>12, <1>13, <1>14, <1>15, <1>16, <1>17 DEF Inner, Book

=============================================================================
