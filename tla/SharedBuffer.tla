----------------------------- MODULE SharedBuffer -----------------------------
(***************************************************************************)
(* The shared buffers of kernel/ipc/ipc.c: descriptors that tasks create,  *)
(* register in ipc_state.buffers, look up by id, map, unmap and destroy.   *)
(*                                                                         *)
(* A descriptor is the page it lives in, so a freed page can come back as  *)
(* another buffer while a task still holds the old pointer.  A section     *)
(* under ipc_state.lock or buffer->lock is one step; the steps before and  *)
(* after it, on pages no one else can see, belong to the nearest section.  *)
(* Contents, sizes, permissions, the GPU and failed allocations (which     *)
(* return before anything changes) are left out.                           *)
(***************************************************************************)
EXTENDS Naturals, FiniteSets

CONSTANTS
  Tasks,
  Pages,      \* the pages descriptors are allocated from
  TableSize,  \* SHM_BUFFER_MAX
  MaxIds      \* bound on the buffers created

None == "none"

ASSUME SharedBufferAssumption ==
  /\ IsFiniteSet(Tasks) /\ IsFiniteSet(Pages) /\ None \notin Tasks \cup Pages
  /\ TableSize \in Nat \ {0} /\ MaxIds \in Nat

VARIABLES
  table,            \* ipc_state.buffers: slot -> page or None
  next_buffer_id,
  page,             \* "free", "new" (in create), "live", "dying" (in destroy)
  id, owner, refcount, mappings,      \* the fields of each descriptor
  ptr,              \* the pointer a task got from create or lookup
  pc, work,         \* "idle", "register", "destroy" or "free", and the page that
                    \* create or destroy has to dispose of
  late              \* ghost: <<page, task>> mapped after the buffer had left
                    \* the table

fields == <<id, owner, refcount, mappings>>
vars   == <<table, next_buffer_id, page, fields, ptr, pc, work, late>>

TableSlots == 1 .. TableSize

TypeOK ==
  /\ table \in [TableSlots -> Pages \cup {None}]
  /\ next_buffer_id \in 1 .. MaxIds + 1
  /\ page \in [Pages -> {"free", "new", "live", "dying"}]
  /\ id \in [Pages -> 0 .. MaxIds]
  /\ owner \in [Pages -> Tasks \cup {None}]
  /\ refcount \in [Pages -> Nat]
  /\ mappings \in [Pages -> SUBSET Tasks]
  /\ ptr \in [Tasks -> Pages \cup {None}]
  /\ pc \in [Tasks -> {"idle", "register", "destroy", "free"}]
  /\ work \in [Tasks -> Pages \cup {None}]
  /\ late \subseteq Pages \X Tasks

Init ==
  /\ table = [s \in TableSlots |-> None]
  /\ next_buffer_id = 1
  /\ page = [b \in Pages |-> "free"]
  /\ id = [b \in Pages |-> 0] /\ owner = [b \in Pages |-> None]
  /\ refcount = [b \in Pages |-> 0] /\ mappings = [b \in Pages |-> {}]
  /\ ptr = [t \in Tasks |-> None]
  /\ pc = [t \in Tasks |-> "idle"] /\ work = [t \in Tasks |-> None]
  /\ late = {}

-----------------------------------------------------------------------------
(***************************************************************************)
(* shared_buffer_create: allocate and fill in, then register or give back. *)
(***************************************************************************)
CreateAllocates(t, b) ==
  /\ pc[t] = "idle" /\ page[b] = "free" /\ next_buffer_id <= MaxIds
  /\ page' = [page EXCEPT ![b] = "new"]
  /\ id' = [id EXCEPT ![b] = 0]
  /\ owner' = [owner EXCEPT ![b] = t]
  /\ refcount' = [refcount EXCEPT ![b] = 1]
  /\ mappings' = [mappings EXCEPT ![b] = {}]
  /\ late' = {l \in late : l[1] # b}
  /\ pc' = [pc EXCEPT ![t] = "register"] /\ work' = [work EXCEPT ![t] = b]
  /\ UNCHANGED <<table, next_buffer_id, ptr>>

FreeSlots == {s \in TableSlots : table[s] = None}

FirstFreeSlot == CHOOSE s \in FreeSlots : \A r \in FreeSlots : s <= r

Return(t) == pc' = [pc EXCEPT ![t] = "idle"] /\ work' = [work EXCEPT ![t] = None]

CreateRegisters(t) ==
  LET b == work[t] IN
  /\ pc[t] = "register" /\ FreeSlots # {} /\ next_buffer_id <= MaxIds
  /\ table' = [table EXCEPT ![FirstFreeSlot] = b]
  /\ id' = [id EXCEPT ![b] = next_buffer_id]
  /\ next_buffer_id' = next_buffer_id + 1
  /\ page' = [page EXCEPT ![b] = "live"]
  /\ ptr' = [ptr EXCEPT ![t] = b]
  /\ Return(t)
  /\ UNCHANGED <<owner, refcount, mappings, late>>

\* Mutant: the pages are leaked when the table is full.
GiveBackNothing(b) == page

GiveBack(b) == [page EXCEPT ![b] = "free"]

CreateFindsNoSlot(t) ==
  /\ pc[t] = "register" /\ FreeSlots = {}
  /\ page' = GiveBack(work[t])
  /\ Return(t)
  /\ UNCHANGED <<table, next_buffer_id, fields, ptr, late>>

-----------------------------------------------------------------------------
\* shared_buffer_lookup by an id the task was sent.
Registered == {table[s] : s \in TableSlots} \ {None}

Lookup(t, i) ==
  LET found == {b \in Registered : id[b] = i} IN
  /\ pc[t] = "idle"
  /\ ptr' = [ptr EXCEPT ![t] = IF found = {} THEN None ELSE CHOOSE b \in found : TRUE]
  /\ UNCHANGED <<table, next_buffer_id, page, fields, pc, work, late>>

\* shared_buffer_map(ptr, u) under buffer->lock.  The pointer may be to a buffer
\* that was destroyed since; a freed page that holds no buffer is not modelled
\* any further.
Map(t, u) ==
  LET b == ptr[t] IN
  /\ pc[t] = "idle" /\ b # None
  /\ page[b] # "free" /\ u \notin mappings[b]
  /\ mappings' = [mappings EXCEPT ![b] = @ \cup {u}]
  /\ refcount' = [refcount EXCEPT ![b] = @ + 1]
  /\ late' = IF b \in Registered THEN late ELSE late \cup {<<b, u>>}
  /\ UNCHANGED <<table, next_buffer_id, page, id, owner, ptr, pc, work>>

\* Mutant: a task that has no mapping is not refused.
FoundAnyway(b, u) == TRUE

Found(b, u) == u \in mappings[b]

\* Mutant: the reference is not given back.
RefsKept(b) == refcount[b]

RefsAfterUnmap(b) == refcount[b] - 1

Unmap(t, u) ==
  LET b == ptr[t] IN
  /\ pc[t] = "idle" /\ b # None
  /\ page[b] # "free" /\ Found(b, u)
  /\ mappings' = [mappings EXCEPT ![b] = @ \ {u}]
  /\ refcount' = [refcount EXCEPT ![b] = RefsAfterUnmap(b)]
  /\ late' = late \ {<<b, u>>}
  /\ UNCHANGED <<table, next_buffer_id, page, id, owner, ptr, pc, work>>

-----------------------------------------------------------------------------
(***************************************************************************)
(* shared_buffer_destroy: the owner, looked at without a lock; the         *)
(* decision under both locks; the free.                                    *)
(***************************************************************************)
\* The pointer may be stale: then this reads what the page was last.
DestroyCalled(t) ==
  LET b == ptr[t] IN
  /\ pc[t] = "idle" /\ b # None /\ owner[b] = t
  /\ pc' = [pc EXCEPT ![t] = "destroy"]
  /\ UNCHANGED <<table, next_buffer_id, page, fields, ptr, work, late>>

\* Mutant: off by one, one foreign mapping is tolerated.
UnreferencedLax(b) == refcount[b] <= 2

Unreferenced(b) == refcount[b] <= 1

\* Mutant: the slot keeps the pointer.
ClearSlotNot(b) == table

ClearSlot(b) == [s \in TableSlots |-> IF table[s] = b THEN None ELSE table[s]]

DestroyDecides(t) ==
  LET b == ptr[t] IN
  /\ pc[t] = "destroy" /\ b \in Registered /\ Unreferenced(b)
  /\ table' = ClearSlot(b)
  /\ page' = [page EXCEPT ![b] = "dying"]
  /\ pc' = [pc EXCEPT ![t] = "free"] /\ work' = [work EXCEPT ![t] = b]
  /\ UNCHANGED <<next_buffer_id, fields, ptr, late>>

DestroyRefused(t) ==
  /\ pc[t] = "destroy" /\ ~ (ptr[t] \in Registered /\ Unreferenced(ptr[t]))
  /\ Return(t)
  /\ UNCHANGED <<table, next_buffer_id, page, fields, ptr, late>>

DestroyFrees(t) ==
  /\ pc[t] = "free"
  /\ page' = [page EXCEPT ![work[t]] = "free"]
  /\ Return(t)
  /\ UNCHANGED <<table, next_buffer_id, fields, ptr, late>>

Next == \E t \in Tasks :
  \/ \E b \in Pages : CreateAllocates(t, b)
  \/ CreateRegisters(t) \/ CreateFindsNoSlot(t)
  \/ \E i \in 1 .. MaxIds : Lookup(t, i)
  \/ \E u \in Tasks : Map(t, u) \/ Unmap(t, u)
  \/ DestroyCalled(t) \/ DestroyDecides(t) \/ DestroyRefused(t) \/ DestroyFrees(t)

Spec == Init /\ [][Next]_vars

-----------------------------------------------------------------------------
(***************************************************************************)
(* Properties.                                                             *)
(***************************************************************************)
\* "Number of active mappings + 1 (owner)", whoever mapped and unmapped, and
\* whatever the page was before.
RefcountIsMappings ==
  \A b \in Pages : page[b] # "free" => refcount[b] = 1 + Cardinality(mappings[b])

\* The table names exactly the live buffers, each once and under an id of its
\* own: a slot never keeps a pointer to a page destroy is about to free.
TableNamesLive ==
  /\ \A b \in Pages : b \in Registered <=> page[b] = "live"
  /\ \A r, s \in TableSlots : (r # s /\ table[r] # None) =>
       table[r] # table[s] /\ (table[s] # None => id[table[r]] # id[table[s]])

\* What destroy's two locks are for: a buffer is freed under a mapping only if
\* the mapping was made after destroy had taken the buffer from the table, with
\* a pointer looked up before.
BusyProtectsMappings ==
  \A b \in Pages : \A u \in mappings[b] : page[b] = "free" => <<b, u>> \in late

\* No descriptor is leaked, and none is freed twice: one that is not free is in
\* the table or belongs to the one create or destroy that will dispose of it.
Holding == {"register", "free"}

DescriptorsAccountedFor ==
  \A b \in Pages : page[b] \in {"new", "dying"} <=>
    Cardinality({t \in Tasks : pc[t] \in Holding /\ work[t] = b}) = 1
=============================================================================
