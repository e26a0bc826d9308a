------------------------------ MODULE StealDeque ------------------------------
(***************************************************************************)
(* kernel/sched/steal_deque.c: the bounded ring of (task, generation) from *)
(* which other CPUs steal.  The indices run freely modulo 2^32 and are     *)
(* masked only to reach a slot.  All callers hold steal_deque_lock[cpu],   *)
(* so every function is one operator on a deque value.                     *)
(***************************************************************************)
EXTENDS Naturals

CONSTANTS
  DequeCap,   \* STEAL_DEQUE_CAPACITY, a power of two
  IndexMod    \* 2^32: the indices are uint32_t

ASSUME StealDequeAssumption ==
  /\ DequeCap \in Nat \ {0}
  /\ IndexMod \in Nat
  /\ \E k \in 2 .. IndexMod : IndexMod = k * DequeCap

Hole == <<>>                          \* the NULL slot
Slots == 0 .. DequeCap - 1
Indices == 0 .. IndexMod - 1

steal_deque_init == [buf |-> [i \in Slots |-> Hole], top |-> 0, bottom |-> 0]

\* uint32_t subtraction bottom - top.
steal_deque_size(d) == (d.bottom + IndexMod - d.top) % IndexMod

\* The slot of the k-th entry counted from the top.
SlotAt(d, k) == ((d.top + k) % IndexMod) % DequeCap

\* The offsets of the entries steal_deque_remove has not cleared.
LiveOffsets(d) == {k \in 0 .. DequeCap - 1 :
                     k < steal_deque_size(d) /\ d.buf[SlotAt(d, k)] # Hole}

First(S) == CHOOSE k \in S : \A j \in S : k <= j

\* A full deque refuses the entry and stays as it is.
steal_deque_push(d, t, gen) ==
  IF steal_deque_size(d) >= DequeCap THEN d
  ELSE [d EXCEPT !.buf[d.bottom % DequeCap] = <<t, gen>>,
                 !.bottom = (d.bottom + 1) % IndexMod]

\* The oldest entry, holes skipped; the holes and its slot are given back.
Stealable(d) == LiveOffsets(d) # {}
StealEntry(d) == d.buf[SlotAt(d, First(LiveOffsets(d)))]

steal_deque_steal(d) ==
  LET n == IF Stealable(d) THEN First(LiveOffsets(d)) + 1 ELSE steal_deque_size(d)
      gone == {SlotAt(d, k) : k \in 0 .. n - 1}
  IN [d EXCEPT !.buf = [i \in Slots |-> IF i \in gone THEN Hole ELSE d.buf[i]],
               !.top = (d.top + n) % IndexMod]

\* The first entry of task t becomes a hole.
steal_deque_remove(d, t) ==
  LET mine == {k \in LiveOffsets(d) : d.buf[SlotAt(d, k)][1] = t} IN
  IF mine = {} THEN d ELSE [d EXCEPT !.buf[SlotAt(d, First(mine))] = Hole]
=============================================================================
