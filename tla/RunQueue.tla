------------------------------- MODULE RunQueue -------------------------------
(***************************************************************************)
(* The operators on one CPU's run queue of kernel/sched/sched.c: a list of *)
(* tasks, head first, in falling order of effective priority and first in  *)
(* first out within a priority.  A queue is a sequence; `eff' gives the    *)
(* effective priority of every task.                                       *)
(***************************************************************************)
EXTENDS Naturals, Sequences

InQueue(q) == {q[i] : i \in 1 .. Len(q)}

Without(q, i) == SubSeq(q, 1, i - 1) \o SubSeq(q, i + 1, Len(q))

\* remove_from_cpu_queue_locked; a task that is not there changes nothing.
Remove(q, t) ==
  IF t \in InQueue(q)
  THEN Without(q, CHOOSE i \in 1 .. Len(q) : q[i] = t /\ \A j \in 1 .. i - 1 : q[j] # t)
  ELSE q

\* add_to_cpu_queue_locked: before the first task of lower priority.
Insert(q, t, eff) ==
  LET lower == {i \in 1 .. Len(q) : eff[q[i]] < eff[t]}
      at    == IF lower = {} THEN Len(q) + 1
               ELSE CHOOSE i \in lower : \A j \in lower : i <= j
  IN SubSeq(q, 1, at - 1) \o <<t>> \o SubSeq(q, at, Len(q))

\* reposition_locked moves a task only if it is out of order with a neighbour.
Reposition(q, t, eff) ==
  LET i == CHOOSE k \in 1 .. Len(q) : q[k] = t IN
  IF /\ i = 1 \/ eff[q[i - 1]] >= eff[t]
     /\ i = Len(q) \/ eff[q[i + 1]] <= eff[t]
  THEN q ELSE Insert(Without(q, i), t, eff)
=============================================================================
