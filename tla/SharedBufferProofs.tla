--------------------------- MODULE SharedBufferProofs ---------------------------
(***************************************************************************)
(* Proofs about SharedBuffer, for every number of tasks, pages and slots.  *)
(*                                                                         *)
(* The invariants need each other: destroy may free a buffer because a     *)
(* reference count of one means no mapping (RefcountIsMappings), the       *)
(* pages in the hands of a create or a destroy are disjoint from those in  *)
(* the table (WorkIsOwn), and a page outside the table gets only mappings  *)
(* that `late' records.                                                    *)
(***************************************************************************)
EXTENDS SharedBuffer, FiniteSetTheorems, OrderLemmas, TLAPS

\* A task inside create or destroy works on a page of its own, new or dying.
WorkIsOwn ==
  /\ \A t \in Tasks : pc[t] = "register" => work[t] \in Pages /\ page[work[t]] = "new"
  /\ \A t \in Tasks : pc[t] = "free" => work[t] \in Pages /\ page[work[t]] = "dying"
  /\ \A t, u \in Tasks : (pc[t] \in Holding /\ pc[u] \in Holding /\ work[t] = work[u]) => t = u
  /\ \A b \in Pages : page[b] \in {"new", "dying"} =>
       \E t \in Tasks : pc[t] \in Holding /\ work[t] = b

\* Identifiers in use were handed out before.
IdsAreOld == \A b \in Pages : page[b] = "live" => id[b] < next_buffer_id

\* A mapping of a page outside the table was made there.
OutsideIsLate ==
  \A b \in Pages : page[b] # "live" => \A u \in mappings[b] : <<b, u>> \in late

IInv == /\ TypeOK
        /\ RefcountIsMappings
        /\ TableNamesLive
        /\ WorkIsOwn
        /\ IdsAreOld
        /\ OutsideIsLate
-----------------------------------------------------------------------------
\* Adding a task to a finite set of mappings, or taking one away, moves the
\* cardinality by one.
LEMMA CardinalityStep ==
  ASSUME NEW S, IsFiniteSet(S), NEW x
  PROVE  /\ Cardinality(S) \in Nat
         /\ x \notin S => Cardinality(S \cup {x}) = Cardinality(S) + 1
         /\ x \in S => Cardinality(S \ {x}) = Cardinality(S) - 1
  BY FS_CardinalityType, FS_AddElement, FS_RemoveElement

\* A descriptor's mappings are finite: they are tasks.
LEMMA MappingsFinite ==
  ASSUME TypeOK, NEW b \in Pages
  PROVE  IsFiniteSet(mappings[b])
  BY SharedBufferAssumption, FS_Subset DEF TypeOK

\* ipc_init leaves the table in a state of the invariant.
LEMMA InitIInv == Init => IInv
  <1> SUFFICES ASSUME Init PROVE IInv
    OBVIOUS
  <1> USE SharedBufferAssumption DEF Init
  <1>1. TypeOK
    BY DEF TypeOK
  <1>2. RefcountIsMappings
    BY DEF RefcountIsMappings
  <1>3. TableNamesLive
    BY DEF TableNamesLive, Registered
  <1>4. WorkIsOwn
    BY DEF WorkIsOwn, Holding
  <1>5. IdsAreOld /\ OutsideIsLate
    BY DEF IdsAreOld, OutsideIsLate
  <1>6. QED
    BY <1>1, <1>2, <1>3, <1>4, <1>5 DEF IInv

-----------------------------------------------------------------------------
(***************************************************************************)
(* Each action preserves the invariant.                                    *)
(***************************************************************************)
\* The first half of shared_buffer_create preserves the invariant.
LEMMA CreateAllocatesIInv ==
  ASSUME IInv, NEW t \in Tasks, NEW b \in Pages, CreateAllocates(t, b)
  PROVE  IInv'
  <1> USE SharedBufferAssumption DEF IInv, CreateAllocates
  <1>1. TypeOK'
    BY DEF TypeOK
  <1>2. RefcountIsMappings'
    BY FS_EmptySet DEF TypeOK, RefcountIsMappings
  <1>3. TableNamesLive'
    BY DEF TypeOK, TableNamesLive, Registered
  <1>4. WorkIsOwn'
    BY DEF TypeOK, WorkIsOwn, Holding
  <1>5. IdsAreOld'
    BY DEF TypeOK, IdsAreOld
  <1>6. OutsideIsLate'
    BY DEF TypeOK, OutsideIsLate
  <1>7. QED
    BY <1>1, <1>2, <1>3, <1>4, <1>5, <1>6

\* Registering a new buffer in the first free slot preserves the invariant.
LEMMA CreateRegistersIInv ==
  ASSUME IInv, NEW t \in Tasks, CreateRegisters(t)
  PROVE  IInv'
  <1> USE SharedBufferAssumption DEF IInv, CreateRegisters, Return
  <1>1. FirstFreeSlot \in TableSlots /\ table[FirstFreeSlot] = None
    <2>1. FreeSlots \in SUBSET Nat /\ FreeSlots \subseteq TableSlots
      BY DEF FreeSlots, TableSlots
    <2>2. \E s \in FreeSlots : \A r \in FreeSlots : s <= r
      BY <2>1, LeastElement
    <2>3. FirstFreeSlot \in FreeSlots
      BY <2>2 DEF FirstFreeSlot
    <2>4. QED
      BY <2>3 DEF FreeSlots
  <1>2. work[t] \in Pages /\ page[work[t]] = "new"
    BY DEF WorkIsOwn, Holding
  <1>3. TypeOK'
    BY <1>1, <1>2 DEF TypeOK
  <1>4. RefcountIsMappings'
    BY <1>2 DEF TypeOK, RefcountIsMappings
  <1>5. TableNamesLive'
    BY <1>1, <1>2 DEF TypeOK, TableNamesLive, Registered, IdsAreOld
  <1>6. WorkIsOwn'
    BY <1>2 DEF TypeOK, WorkIsOwn, Holding
  <1>7. IdsAreOld'
    BY <1>2 DEF TypeOK, IdsAreOld
  <1>8. OutsideIsLate'
    BY <1>2 DEF TypeOK, OutsideIsLate
  <1>9. QED
    BY <1>3, <1>4, <1>5, <1>6, <1>7, <1>8

\* Giving a buffer back because the table is full preserves the invariant.
LEMMA CreateFindsNoSlotIInv ==
  ASSUME IInv, NEW t \in Tasks, CreateFindsNoSlot(t)
  PROVE  IInv'
  <1> USE SharedBufferAssumption DEF IInv, CreateFindsNoSlot, Return, GiveBack, fields
  <1>1. work[t] \in Pages /\ page[work[t]] = "new"
    BY DEF WorkIsOwn, Holding
  <1>2. TypeOK'
    BY <1>1 DEF TypeOK
  <1>3. RefcountIsMappings'
    BY <1>1 DEF TypeOK, RefcountIsMappings
  <1>4. TableNamesLive'
    BY <1>1 DEF TypeOK, TableNamesLive, Registered
  <1>5. WorkIsOwn'
    BY <1>1 DEF TypeOK, WorkIsOwn, Holding
  <1>6. IdsAreOld' /\ OutsideIsLate'
    BY <1>1 DEF TypeOK, IdsAreOld, OutsideIsLate
  <1>7. QED
    BY <1>2, <1>3, <1>4, <1>5, <1>6

\* shared_buffer_lookup preserves the invariant.
LEMMA LookupIInv ==
  ASSUME IInv, NEW t \in Tasks, NEW i \in 1 .. MaxIds, Lookup(t, i)
  PROVE  IInv'
  <1> USE SharedBufferAssumption DEF IInv, Lookup, fields
  <1>1. Registered \subseteq Pages
    BY DEF TypeOK, Registered
  <1>2. TypeOK'
    BY <1>1 DEF TypeOK
  <1>3. TableNamesLive'
    BY DEF TableNamesLive, Registered
  <1>4. QED
    BY <1>2, <1>3 DEF RefcountIsMappings, WorkIsOwn, Holding, IdsAreOld, OutsideIsLate

\* shared_buffer_map, with a pointer of any age, preserves the invariant.
LEMMA MapIInv ==
  ASSUME IInv, NEW t \in Tasks, NEW u \in Tasks, Map(t, u)
  PROVE  IInv'
  <1> USE SharedBufferAssumption DEF IInv, Map
  <1>1. ptr[t] \in Pages /\ refcount[ptr[t]] \in Nat
    BY DEF TypeOK
  <1>2. TypeOK'
    BY <1>1 DEF TypeOK
  <1>3. RefcountIsMappings'
    <2>1. Cardinality(mappings[ptr[t]] \cup {u}) = Cardinality(mappings[ptr[t]]) + 1
      BY <1>1, MappingsFinite, CardinalityStep
    <2>2. Cardinality(mappings[ptr[t]]) \in Nat
      BY <1>1, MappingsFinite, CardinalityStep
    <2>3. QED
      BY <1>1, <2>1, <2>2 DEF TypeOK, RefcountIsMappings
  <1>4. TableNamesLive'
    BY DEF TableNamesLive, Registered
  <1>5. OutsideIsLate'
    BY <1>1 DEF TypeOK, OutsideIsLate, TableNamesLive
  <1>6. QED
    BY <1>2, <1>3, <1>4, <1>5 DEF WorkIsOwn, Holding, IdsAreOld

\* shared_buffer_unmap preserves the invariant.
LEMMA UnmapIInv ==
  ASSUME IInv, NEW t \in Tasks, NEW u \in Tasks, Unmap(t, u)
  PROVE  IInv'
  <1> USE SharedBufferAssumption DEF IInv, Unmap, Found, RefsAfterUnmap
  <1>1. ptr[t] \in Pages
    BY DEF TypeOK
  <1>2. /\ Cardinality(mappings[ptr[t]] \ {u}) = Cardinality(mappings[ptr[t]]) - 1
        /\ Cardinality(mappings[ptr[t]] \ {u}) \in Nat
        /\ Cardinality(mappings[ptr[t]]) \in Nat
    BY <1>1, MappingsFinite, CardinalityStep, FS_RemoveElement, FS_CardinalityType
  <1>3. refcount[ptr[t]] = 1 + Cardinality(mappings[ptr[t]])
    BY <1>1 DEF RefcountIsMappings
  <1>4. TypeOK'
    BY <1>1, <1>2, <1>3 DEF TypeOK
  <1>5. RefcountIsMappings'
    BY <1>1, <1>2, <1>3 DEF TypeOK, RefcountIsMappings
  <1>6. TableNamesLive'
    BY DEF TableNamesLive, Registered
  <1>7. OutsideIsLate'
    BY <1>1 DEF TypeOK, OutsideIsLate
  <1>8. QED
    BY <1>4, <1>5, <1>6, <1>7 DEF WorkIsOwn, Holding, IdsAreOld

\* shared_buffer_destroy takes only a buffer without mappings from the table.
LEMMA DestroyDecidesIInv ==
  ASSUME IInv, NEW t \in Tasks, DestroyDecides(t)
  PROVE  IInv' /\ mappings[ptr[t]] = {}
  <1> USE SharedBufferAssumption DEF IInv, DestroyDecides, ClearSlot, Unreferenced, fields
  <1>1. ptr[t] \in Pages /\ page[ptr[t]] = "live"
    BY DEF TypeOK, TableNamesLive, Registered
  <1>2. mappings[ptr[t]] = {}
    <2>1. refcount[ptr[t]] = 1 + Cardinality(mappings[ptr[t]])
      BY <1>1 DEF RefcountIsMappings
    <2>2. Cardinality(mappings[ptr[t]]) \in Nat
      BY <1>1, MappingsFinite, FS_CardinalityType
    <2>3. Cardinality(mappings[ptr[t]]) = 0
      BY <1>1, <2>1, <2>2
    <2>4. QED
      BY <1>1, <2>3, MappingsFinite, FS_EmptySet
  <1>3. TypeOK'
    BY <1>1 DEF TypeOK
  <1>4. RefcountIsMappings'
    BY <1>1 DEF TypeOK, RefcountIsMappings
  <1>5. TableNamesLive'
    BY <1>1 DEF TypeOK, TableNamesLive, Registered
  <1>6. WorkIsOwn'
    BY <1>1 DEF TypeOK, WorkIsOwn, Holding
  <1>7. IdsAreOld' /\ OutsideIsLate'
    BY <1>1, <1>2 DEF TypeOK, IdsAreOld, OutsideIsLate
  <1>8. QED
    BY <1>2, <1>3, <1>4, <1>5, <1>6, <1>7

\* So do the look at the owner and a refusal: they touch no page.
LEMMA DestroyReturnsIInv ==
  ASSUME IInv, NEW t \in Tasks, DestroyCalled(t) \/ DestroyRefused(t)
  PROVE  IInv'
  <1> USE SharedBufferAssumption DEF IInv, DestroyCalled, DestroyRefused, Return, fields
  <1>1. /\ UNCHANGED <<table, next_buffer_id, page, id, refcount, mappings, late>>
        /\ pc[t] \notin Holding /\ pc'[t] \notin Holding
        /\ \A u \in Tasks : u # t => pc'[u] = pc[u] /\ work'[u] = work[u]
    BY DEF TypeOK, Holding
  <1>2. TypeOK'
    BY DEF TypeOK
  <1>3. RefcountIsMappings' /\ TableNamesLive'
    BY <1>1 DEF RefcountIsMappings, TableNamesLive, Registered
  <1>4. WorkIsOwn'
    BY <1>1 DEF WorkIsOwn, Holding
  <1>5. IdsAreOld' /\ OutsideIsLate'
    BY <1>1 DEF IdsAreOld, OutsideIsLate
  <1>6. QED
    BY <1>2, <1>3, <1>4, <1>5

\* Freeing the buffer destroy took from the table preserves the invariant.
LEMMA DestroyFreesIInv ==
  ASSUME IInv, NEW t \in Tasks, DestroyFrees(t)
  PROVE  IInv'
  <1> USE SharedBufferAssumption DEF IInv, DestroyFrees, Return, fields
  <1>1. work[t] \in Pages /\ page[work[t]] = "dying"
    BY DEF WorkIsOwn, Holding
  <1>2. TypeOK'
    BY <1>1 DEF TypeOK
  <1>3. RefcountIsMappings'
    BY <1>1 DEF TypeOK, RefcountIsMappings
  <1>4. TableNamesLive'
    BY <1>1 DEF TypeOK, TableNamesLive, Registered
  <1>5. WorkIsOwn'
    BY <1>1 DEF TypeOK, WorkIsOwn, Holding
  <1>6. IdsAreOld' /\ OutsideIsLate'
    BY <1>1 DEF TypeOK, IdsAreOld, OutsideIsLate
  <1>7. QED
    BY <1>2, <1>3, <1>4, <1>5, <1>6

-----------------------------------------------------------------------------
\* Every step preserves the invariant.
LEMMA NextIInv == IInv /\ [Next]_vars => IInv'
  <1> SUFFICES ASSUME IInv, [Next]_vars PROVE IInv'
    OBVIOUS
  <1>1. CASE UNCHANGED vars
    BY <1>1 DEF vars, fields, IInv, TypeOK, RefcountIsMappings, TableNamesLive,
                Registered, WorkIsOwn, IdsAreOld, OutsideIsLate
  <1>2. ASSUME NEW t \in Tasks, NEW b \in Pages, CreateAllocates(t, b) PROVE IInv'
    BY <1>2, CreateAllocatesIInv
  <1>3. ASSUME NEW t \in Tasks, CreateRegisters(t) PROVE IInv'
    BY <1>3, CreateRegistersIInv
  <1>4. ASSUME NEW t \in Tasks, CreateFindsNoSlot(t) PROVE IInv'
    BY <1>4, CreateFindsNoSlotIInv
  <1>5. ASSUME NEW t \in Tasks, NEW i \in 1 .. MaxIds, Lookup(t, i) PROVE IInv'
    BY <1>5, LookupIInv
  <1>6. ASSUME NEW t \in Tasks, NEW u \in Tasks, Map(t, u) PROVE IInv'
    BY <1>6, MapIInv
  <1>7. ASSUME NEW t \in Tasks, NEW u \in Tasks, Unmap(t, u) PROVE IInv'
    BY <1>7, UnmapIInv
  <1>8. ASSUME NEW t \in Tasks, DestroyDecides(t) PROVE IInv'
    BY <1>8, DestroyDecidesIInv
  <1>9. ASSUME NEW t \in Tasks, DestroyFrees(t) PROVE IInv'
    BY <1>9, DestroyFreesIInv
  <1>10. ASSUME NEW t \in Tasks, DestroyCalled(t) \/ DestroyRefused(t) PROVE IInv'
    BY <1>10, DestroyReturnsIInv
  <1>11. QED
    BY <1>1, <1>2, <1>3, <1>4, <1>5, <1>6, <1>7, <1>8, <1>9, <1>10 DEF Next

\* The inductive invariant holds in every reachable state.
THEOREM Invariance == Spec => []IInv
  BY InitIInv, NextIInv, PTL DEF Spec

\* Every field of the table, of the descriptors and of the tasks keeps its type:
\* refcount never wraps below zero in shared_buffer_unmap.
THEOREM TypeCorrect == Spec => []TypeOK
  <1>1. IInv => TypeOK
    BY DEF IInv
  <1>2. QED
    BY <1>1, Invariance, PTL

\* shared_buffer_map and shared_buffer_unmap keep refcount at the number of
\* mappings plus the owner.
THEOREM RefcountExact == Spec => []RefcountIsMappings
  <1>1. IInv => RefcountIsMappings
    BY DEF IInv
  <1>2. QED
    BY <1>1, Invariance, PTL

\* ipc_state.buffers names exactly the live buffers, each under an id of its own.
THEOREM TableExact == Spec => []TableNamesLive
  <1>1. IInv => TableNamesLive
    BY DEF IInv
  <1>2. QED
    BY <1>1, Invariance, PTL

\* shared_buffer_destroy frees a buffer under a mapping only if the mapping was
\* made after the buffer left the table.
THEOREM BusyProtects == Spec => []BusyProtectsMappings
  <1>1. IInv => BusyProtectsMappings
    BY DEF IInv, OutsideIsLate, BusyProtectsMappings
  <1>2. QED
    BY <1>1, Invariance, PTL

\* No descriptor is leaked or freed twice by create and destroy.
THEOREM NoLeak == Spec => []DescriptorsAccountedFor
  <1>1. ASSUME IInv, NEW b \in Pages, page[b] \in {"new", "dying"}
        PROVE  Cardinality({t \in Tasks : pc[t] \in Holding /\ work[t] = b}) = 1
    <2>1. PICK t \in Tasks : pc[t] \in Holding /\ work[t] = b
      BY <1>1 DEF IInv, WorkIsOwn, Holding
    <2>2. {u \in Tasks : pc[u] \in Holding /\ work[u] = b} = {t}
      BY <1>1, <2>1 DEF IInv, WorkIsOwn, Holding
    <2>3. QED
      BY <2>2, FS_Singleton
  <1>2. ASSUME IInv, NEW b \in Pages,
               Cardinality({t \in Tasks : pc[t] \in Holding /\ work[t] = b}) = 1
        PROVE  page[b] \in {"new", "dying"}
    <2>1. {t \in Tasks : pc[t] \in Holding /\ work[t] = b} # {}
      BY <1>2, FS_EmptySet
    <2>2. PICK t \in Tasks : pc[t] \in Holding /\ work[t] = b
      BY <2>1
    <2>3. pc[t] \in {"register", "free"}
      BY <2>2 DEF Holding
    <2>4. QED
      BY <1>2, <2>2, <2>3 DEF IInv, WorkIsOwn, Holding
  <1>3. IInv => DescriptorsAccountedFor
    BY <1>1, <1>2 DEF DescriptorsAccountedFor
  <1>4. QED
    BY <1>3, Invariance, PTL
=============================================================================
