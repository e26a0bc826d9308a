-------------------------------- MODULE MCSched --------------------------------
(***************************************************************************)
(* Sched for TLC.                                                          *)
(***************************************************************************)
EXTENDS Sched

CONSTANTS t1, t2

\* t1 goes after t2 where they share a queue.
TwoPriorities == [t \in Tasks |-> IF t = t1 THEN 0 ELSE 1]

\* t1 is pinned to CPU 0.  The slot of t2 holds now an unpinned task, now one
\* pinned to CPU 1.
PinnedAndFree == [t \in Tasks |-> CASE t = t1 -> {0} [] t = t2 -> {Any, 1}]

AllPinned == [t \in Tasks |-> {0}]
Unpinned  == [t \in Tasks |-> {Any}]
=============================================================================
