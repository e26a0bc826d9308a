------------------------------- MODULE MsgQueue -------------------------------
(***************************************************************************)
(* One message queue of kernel/ipc/ipc.c: a ring per priority level under  *)
(* queue->lock, two wait lists, the three kinds of wait, and destruction.  *)
(*                                                                         *)
(* Everything between spin_lock_irqsave and spin_unlock_irqrestore is one  *)
(* action.  The scheduler appears as: a TASK_BLOCKED task takes no step, a *)
(* woken one takes its next step at some later time.  A message is the     *)
(* number it has among the messages sent at its priority; its payload is   *)
(* left out.                                                               *)
(***************************************************************************)
EXTENDS Integers, Sequences, FiniteSets, FiniteSetsExt

CONSTANTS
  Tasks,        \* tasks that hold a pointer to the queue
  Destroyers,   \* the tasks that may call msg_queue_destroy
  PrioCount,    \* MSG_PRIO_COUNT
  Capacity,     \* queue->capacity: slots per priority level
  Threshold,    \* MSG_STARVATION_THRESHOLD
  MaxSent       \* bound on the sends that may be started

ASSUME MsgQueueAssumption ==
  /\ IsFiniteSet(Tasks)
  /\ Destroyers \subseteq Tasks
  /\ PrioCount \in Nat \ {0}
  /\ Capacity \in Nat \ {0}
  /\ Threshold \in Nat \ {0}
  /\ MaxSent \in Nat

VARIABLES
  buffer,               \* buffer[p][i]: slot i of the section of level p
  prio,                 \* prio[p]: the prio_buffer (head, tail, count) of p
  total_count,
  send_waiters,         \* wait lists; the first element is the list head
  recv_waiters,
  high_prio_recv_count,
  msgs_sent, msgs_recv, high_water, prio_msgs_sent,
  alive,                \* FALSE once msg_queue_destroy freed the pages
  pc,                   \* where each task is
  arg,                  \* the arguments of the call each task is in
  got,                  \* the message the last msg_recv of each task copied
  passed                \* ghost: receives that passed level p over while it
                        \* held a message

ring  == <<buffer, prio, total_count, high_prio_recv_count>>
stats == <<msgs_sent, msgs_recv, high_water, prio_msgs_sent>>
lists == <<send_waiters, recv_waiters>>
vars  == <<ring, stats, lists, alive, pc, arg, got, passed>>

Prios   == 0 .. PrioCount - 1
Slots   == 0 .. Capacity - 1
LowPrio == 0
NoMsg   == <<>>
Waits   == {"nowait", "timed", "forever"}

\* Control points.  "send" and "recv" are before the lock is (re)taken; a
\* blocked task sits in yield() in block_on_queue; a woken one has been made
\* ready by wake_one and has not run yet.
PCs == {"idle", "send", "send_blocked", "send_woken",
        "recv", "recv_blocked", "recv_woken", "destroy", "free"}

SendReady == {"send", "send_woken"}
RecvReady == {"recv", "recv_woken"}

NoArg == [prio |-> LowPrio, wait |-> "nowait", expired |-> FALSE]

TypeOK ==
  /\ buffer \in [Prios -> [Slots -> Nat]]
  /\ prio \in [Prios -> [head : Slots, tail : Slots, count : 0 .. Capacity]]
  /\ total_count \in Nat
  /\ send_waiters \in Seq(Tasks) /\ recv_waiters \in Seq(Tasks)
  /\ high_prio_recv_count \in Nat
  /\ msgs_sent \in Nat /\ msgs_recv \in Nat /\ high_water \in Nat
  /\ prio_msgs_sent \in [Prios -> Nat]
  /\ alive \in BOOLEAN
  /\ pc \in [Tasks -> PCs]
  /\ arg \in [Tasks -> [prio : Prios, wait : Waits, expired : BOOLEAN]]
  /\ got \in [Tasks -> {NoMsg} \cup (Prios \X Nat)]
  /\ passed \in [Prios -> Nat]

Init ==
  /\ buffer = [p \in Prios |-> [i \in Slots |-> 0]]
  /\ prio = [p \in Prios |-> [head |-> 0, tail |-> 0, count |-> 0]]
  /\ total_count = 0
  /\ send_waiters = <<>> /\ recv_waiters = <<>>
  /\ high_prio_recv_count = 0
  /\ msgs_sent = 0 /\ msgs_recv = 0 /\ high_water = 0
  /\ prio_msgs_sent = [p \in Prios |-> 0]
  /\ alive = TRUE
  /\ pc = [t \in Tasks |-> "idle"]
  /\ arg = [t \in Tasks |-> NoArg]
  /\ got = [t \in Tasks |-> NoMsg]
  /\ passed = [p \in Prios |-> 0]

-----------------------------------------------------------------------------
(***************************************************************************)
(* Entering a call.  Levels outside the range are clamped to the nearest.  *)
(***************************************************************************)
Clamp(p) == IF p < LowPrio THEN LowPrio
            ELSE IF p > PrioCount - 1 THEN PrioCount - 1 ELSE p

\* Sends started and not yet in the queue; with msgs_sent, what MaxSent bounds.
SendsInFlight ==
  Cardinality({t \in Tasks : pc[t] \in SendReady \cup {"send_blocked"}})

CallSend(t, p, w) ==
  /\ pc[t] = "idle" /\ alive
  /\ msgs_sent + SendsInFlight < MaxSent
  /\ pc' = [pc EXCEPT ![t] = "send"]
  /\ arg' = [arg EXCEPT ![t] = [prio |-> Clamp(p), wait |-> w, expired |-> FALSE]]
  /\ UNCHANGED <<ring, stats, lists, alive, got, passed>>

CallRecv(t, w) ==
  /\ pc[t] = "idle" /\ alive
  /\ pc' = [pc EXCEPT ![t] = "recv"]
  /\ arg' = [arg EXCEPT ![t] = [prio |-> LowPrio, wait |-> w, expired |-> FALSE]]
  /\ UNCHANGED <<ring, stats, lists, alive, got, passed>>

\* The timer passes the deadline of a timed call.
TimerExpires(t) ==
  /\ pc[t] \in {"send", "recv"}
  /\ arg[t].wait = "timed" /\ ~ arg[t].expired
  /\ arg' = [arg EXCEPT ![t].expired = TRUE]
  /\ UNCHANGED <<ring, stats, lists, alive, pc, got, passed>>

\* wake_one pops the list head; the others stay.
\* Mutant: the head is not unlinked.
AfterWakeNoPop(list) == list

AfterWake(list) == IF list = <<>> THEN <<>> ELSE Tail(list)

\* The control points after task t goes to `next' and the head of `list' wakes.
\* Mutant: wake_one unlinks the head and does not make it ready.
PcAfterWakeLost(t, next, list, woken) == [pc EXCEPT ![t] = next]

PcAfterWake(t, next, list, woken) ==
  [u \in Tasks |-> IF u = t THEN next
                   ELSE IF list # <<>> /\ u = Head(list) THEN woken ELSE pc[u]]

\* What ends a wait without success: no timeout (IPC_ERR_FULL, IPC_ERR_EMPTY)
\* or a deadline that has passed (IPC_ERR_TIMEOUT).
\* Mutant: the deadline is not looked at.
GivesUpOnlyNoWait(t) == arg[t].wait = "nowait"

GivesUp(t) == \/ arg[t].wait = "nowait"
              \/ arg[t].wait = "timed" /\ arg[t].expired

\* Return from the call of t with nothing else changed: the error paths.
ReturnError(t) ==
  /\ pc' = [pc EXCEPT ![t] = "idle"]
  /\ arg' = [arg EXCEPT ![t] = NoArg]
  /\ UNCHANGED <<ring, stats, lists, alive, got, passed>>

-----------------------------------------------------------------------------
(***************************************************************************)
(* msg_send_priority: one pass over the loop under queue->lock.  The timed *)
(* wait whose deadline has not passed unlocks, yields and tries again: it  *)
(* changes nothing and has no action.                                      *)
(***************************************************************************)
\* Mutant: off by one.
LevelFullLate(p) == prio[p].count > Capacity

LevelFull(p) == prio[p].count >= Capacity

SendRefused(t) ==
  /\ pc[t] \in SendReady /\ alive
  /\ LevelFull(arg[t].prio) /\ GivesUp(t)
  /\ ReturnError(t)

SendBlocks(t) ==
  /\ pc[t] \in SendReady /\ alive
  /\ LevelFull(arg[t].prio) /\ arg[t].wait = "forever"
  /\ send_waiters' = <<t>> \o send_waiters
  /\ pc' = [pc EXCEPT ![t] = "send_blocked"]
  /\ UNCHANGED <<ring, stats, recv_waiters, alive, arg, got, passed>>

SendCompletes(t) ==
  LET p == arg[t].prio IN
  /\ pc[t] \in SendReady /\ alive
  /\ ~ LevelFull(p)
  /\ buffer' = [buffer EXCEPT ![p][prio[p].head] = prio_msgs_sent[p]]
  /\ prio' = [prio EXCEPT ![p].head = (prio[p].head + 1) % Capacity,
                          ![p].count = prio[p].count + 1]
  /\ total_count' = total_count + 1
  /\ msgs_sent' = msgs_sent + 1
  /\ prio_msgs_sent' = [prio_msgs_sent EXCEPT ![p] = prio_msgs_sent[p] + 1]
  /\ high_water' = IF total_count + 1 > high_water THEN total_count + 1
                   ELSE high_water
  /\ recv_waiters' = AfterWake(recv_waiters)
  /\ pc' = PcAfterWake(t, "idle", recv_waiters, "recv_woken")
  /\ arg' = [arg EXCEPT ![t] = NoArg]
  /\ UNCHANGED <<high_prio_recv_count, msgs_recv, send_waiters, alive, got, passed>>

-----------------------------------------------------------------------------
(***************************************************************************)
(* msg_recv: one pass over its loop.                                       *)
(***************************************************************************)
Nonempty == {p \in Prios : prio[p].count > 0}

\* Mutant: off by one.
StarvationReliefLate == high_prio_recv_count > Threshold

StarvationRelief == high_prio_recv_count >= Threshold

select_recv_priority == IF StarvationRelief THEN Min(Nonempty) ELSE Max(Nonempty)

RecvCountAfter ==
  IF StarvationRelief \/ select_recv_priority = LowPrio THEN 0
  ELSE high_prio_recv_count + 1

RecvRefused(t) ==
  /\ pc[t] \in RecvReady /\ alive
  /\ total_count = 0 /\ GivesUp(t)
  /\ ReturnError(t)

RecvBlocks(t) ==
  /\ pc[t] \in RecvReady /\ alive
  /\ total_count = 0 /\ arg[t].wait = "forever"
  /\ recv_waiters' = <<t>> \o recv_waiters
  /\ pc' = [pc EXCEPT ![t] = "recv_blocked"]
  /\ UNCHANGED <<ring, stats, send_waiters, alive, arg, got, passed>>

RecvCompletes(t) ==
  LET p == select_recv_priority IN
  /\ pc[t] \in RecvReady /\ alive
  /\ total_count # 0
  /\ got' = [got EXCEPT ![t] = <<p, buffer[p][prio[p].tail]>>]
  /\ prio' = [prio EXCEPT ![p].tail = (prio[p].tail + 1) % Capacity,
                          ![p].count = prio[p].count - 1]
  /\ total_count' = total_count - 1
  /\ high_prio_recv_count' = RecvCountAfter
  /\ msgs_recv' = msgs_recv + 1
  /\ send_waiters' = AfterWake(send_waiters)
  /\ pc' = PcAfterWake(t, "idle", send_waiters, "send_woken")
  /\ arg' = [arg EXCEPT ![t] = NoArg]
  /\ passed' = [l \in Prios |-> IF l # p /\ prio[l].count > 0
                                THEN passed[l] + 1 ELSE 0]
  /\ UNCHANGED <<buffer, msgs_sent, high_water, prio_msgs_sent, recv_waiters, alive>>

-----------------------------------------------------------------------------
(***************************************************************************)
(* msg_queue_destroy: the waiter check under queue->lock, then, with the   *)
(* lock dropped, the removal from the table and the free.                  *)
(***************************************************************************)
CallDestroy(t) ==
  /\ t \in Destroyers
  /\ pc[t] = "idle" /\ alive
  /\ \A u \in Tasks : pc[u] \notin {"destroy", "free"}
  /\ pc' = [pc EXCEPT ![t] = "destroy"]
  /\ UNCHANGED <<ring, stats, lists, alive, arg, got, passed>>

DestroyChecks(t) ==
  /\ pc[t] = "destroy"
  /\ pc' = [pc EXCEPT ![t] = IF send_waiters # <<>> \/ recv_waiters # <<>>
                             THEN "idle" ELSE "free"]   \* IPC_ERR_BUSY
  /\ UNCHANGED <<ring, stats, lists, alive, arg, got, passed>>

DestroyFrees(t) ==
  /\ pc[t] = "free"
  /\ alive' = FALSE
  /\ pc' = [pc EXCEPT ![t] = "idle"]
  /\ UNCHANGED <<ring, stats, lists, arg, got, passed>>

-----------------------------------------------------------------------------
SendStep(t) == SendRefused(t) \/ SendBlocks(t) \/ SendCompletes(t)
RecvStep(t) == RecvRefused(t) \/ RecvBlocks(t) \/ RecvCompletes(t)
DestroyStep(t) == DestroyChecks(t) \/ DestroyFrees(t)

Next == \E t \in Tasks :
  \/ \E p \in -1 .. PrioCount, w \in Waits : CallSend(t, p, w)
  \/ \E w \in Waits : CallRecv(t, w)
  \/ TimerExpires(t)
  \/ SendStep(t)
  \/ RecvStep(t)
  \/ CallDestroy(t)
  \/ DestroyStep(t)

Spec == Init /\ [][Next]_vars

\* The scheduler runs every ready task again and the timer advances; nobody
\* is obliged to start a call.
Fairness == \A t \in Tasks : /\ WF_vars(SendStep(t))
                             /\ WF_vars(RecvStep(t))
                             /\ WF_vars(DestroyStep(t))
                             /\ WF_vars(TimerExpires(t))

FairSpec == Spec /\ Fairness

-----------------------------------------------------------------------------
(***************************************************************************)
(* Properties.                                                             *)
(***************************************************************************)
At(S) == {t \in Tasks : pc[t] \in S}

\* The rings hold exactly the messages sent and not received: the counters of
\* msg_send_priority and msg_recv agree with each other, each level holds the
\* last messages sent at that level in the order they were sent, and
\* total_count is the number of occupied slots, so select_recv_priority never
\* meets the "should not happen" case of a positive total and empty levels.
Occupied == {s \in Prios \X Slots : s[2] < prio[s[1]].count}

TotalIsSum == total_count = Cardinality(Occupied)

RingsHoldWhatIsUnread ==
  /\ TotalIsSum
  /\ msgs_sent = msgs_recv + total_count
  /\ \A p \in Prios : LET b == prio[p] IN
       /\ (b.tail + b.count) % Capacity = b.head
       /\ \A i \in 0 .. b.count - 1 :
            buffer[p][(b.tail + i) % Capacity] = prio_msgs_sent[p] - b.count + i

\* A task is on a wait list exactly while block_on_queue has it blocked there,
\* once, and every one of them asked to wait for ever.
OnceEach(list) == \A i, j \in 1 .. Len(list) : list[i] = list[j] => i = j

WaitListsAreTheBlocked ==
  /\ OnceEach(send_waiters) /\ OnceEach(recv_waiters)
  /\ {send_waiters[i] : i \in 1 .. Len(send_waiters)} = At({"send_blocked"})
  /\ {recv_waiters[i] : i \in 1 .. Len(recv_waiters)} = At({"recv_blocked"})
  /\ \A t \in At({"send_blocked", "recv_blocked"}) : arg[t].wait = "forever"

\* No lost wake-up of receivers: while a receiver is blocked, every message in
\* the queue has a receiver of its own that was woken for it and has not run
\* yet (msg_send_priority wakes one receiver per message; a receiver that
\* overtakes the woken one only makes that one block again).
NoLostRecvWakeup ==
  recv_waiters # <<>> => total_count <= Cardinality(At({"recv_woken"}))

\* Starvation relief: a message at MSG_PRIO_LOW is passed over by at most
\* MSG_STARVATION_THRESHOLD receives of other levels before one serves LOW.
LowLevelNotStarved == passed[LowPrio] <= Threshold

\* "Infinite wait: block until space available": a sender stays blocked while
\* its level has room only as long as some other sender has been woken and has
\* yet to run.
NoStrandedSender ==
  (\E t \in At({"send_blocked"}) : ~ LevelFull(arg[t].prio))
    => At({"send_woken"}) # {}

\* Every call that may not wait for ever returns.
BoundedWaitsReturn ==
  \A t \in Tasks : (pc[t] \in {"send", "recv"} /\ arg[t].wait # "forever")
                     ~> pc[t] = "idle"

\* A message and a blocked receiver do not stay together: a receive follows.
MessageMeetsReceiver ==
  (recv_waiters # <<>> /\ total_count > 0) ~> (total_count = 0 \/ recv_waiters = <<>>)
=============================================================================
