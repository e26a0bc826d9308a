----------------------------- MODULE SchedProofs -----------------------------
(***************************************************************************)
(* Proofs about Sched, for every number of CPUs, tasks, creations,         *)
(* migrations and ticks and every size of the steal deques.                *)
(*                                                                         *)
(* Types hold of every instance.  The safety properties are proved of the  *)
(* instances that are Confined; for each way out of it Sched has a run     *)
(* that violates one of them.  What a CPU does to a task is followed       *)
(* through three places: the run queues and the hands of the CPUs, and of  *)
(* the interrupted threads, that are about to fill them (PlaceInv), the    *)
(* CPUs the task is current or still loaded on (RunInv), and the zombie    *)
(* slots (DeadInv).  FrameInv is about the threads below an interrupt.     *)
(***************************************************************************)
EXTENDS Sched, FiniteSetTheorems, OrderLemmas, TLAPS

\* The tasks that leave a CPU before they end, and where they live.
Settled == Yielders \cup Blockers
Home(t) == CHOOSE h \in CPUs : Affinities[t] = {h}

\* A task that yields, is preempted or blocks is pinned, its slot to one CPU;
\* no interrupt handler calls schedule() without a look at preempt_disabled.
Confined == ~ ReschedIpi /\ \A t \in Settled : \E h \in CPUs : Affinities[t] = {h}

\* The control points with a task in hand, and those at which the code of the
\* current task runs.
WithTask == {"validate", "adopt", "destroy", "add", "push", "undeque", "migrate"}
Busy     == {"run", "add", "push", "migrate", "switch"}

RegInv ==
  /\ \A c \in CPUs :
       /\ pc[c] \in WithTask => reg[c].task \in Tasks
       /\ pc[c] = "migrate" => reg[c].gen \in CPUs /\ reg[c].gen # reg[c].cpu /\ migrations > 0
  /\ \A x \in Threads :
       /\ frame[x].pc \in WithTask => frame[x].reg.task \in Tasks
       /\ frame[x].pc = "migrate" => /\ frame[x].reg.gen \in CPUs /\ migrations > 0
                                     /\ frame[x].reg.gen # frame[x].reg.cpu

\* In the hands of a CPU, and of a thread that was interrupted.
Carries(c, t) == pc[c] \in {"add", "adopt"} /\ reg[c].task = t
Keeps(x, t)   == frame[x].pc \in {"add", "adopt"} /\ frame[x].reg.task = t

\* READY is to be in one run queue, once, or in the hands of one CPU or thread; or
\* lost for ever.
PlaceInv ==
  /\ \A c \in CPUs : Distinct(rq[c])
  /\ \A c, d \in CPUs : \A t \in InQueue(rq[c]) : t \in InQueue(rq[d]) => c = d
  /\ \A c, d \in CPUs : \A t \in InQueue(rq[c]) : state[t] = "ready" /\ ~ Carries(d, t)
  /\ \A c, d \in CPUs : \A t \in Tasks : Carries(c, t) =>
       state[t] = "ready" /\ (Carries(d, t) => c = d)
  /\ \A x, y \in Threads : \A t \in Tasks : Keeps(x, t) =>
       state[t] = "ready" /\ (Keeps(y, t) => x = y)
  /\ \A c \in CPUs, x \in Threads : \A t \in Tasks : Keeps(x, t) =>
       t \notin InQueue(rq[c]) /\ ~ Carries(c, t)
  /\ \A t \in Tasks : state[t] = "ready" =>
       \/ \E c \in CPUs : t \in InQueue(rq[c]) \/ Carries(c, t)
       \/ \E x \in Threads : Keeps(x, t)
       \/ t \in lost
  /\ \A t \in lost :
       /\ state[t] = "ready" /\ \A c \in CPUs : t \notin InQueue(rq[c]) /\ ~ Carries(c, t)
       /\ \A x \in Threads : ~ Keeps(x, t)

\* Current on c, or still loaded there by a schedule() that has chosen another.
On(c, t) == current[c] = t \/ (pc[c] = "switch" /\ from[c] = t)

\* Which stack a CPU is on, and what is known of the tasks that are on a CPU.
StackInv ==
  \A c \in CPUs :
    /\ current[c] \in Tasks \cup {Idle(c)}
    /\ pc[c] # "switch" => stack[c] = current[c]
    /\ pc[c] = "switch" => /\ stack[c] = from[c] /\ from[c] # current[c]
                           /\ from[c] \in Tasks \cup {Idle(c)}
    /\ preempt_disabled[c] = IF pc[c] = "switch" THEN 1 ELSE 0

\* A thread below an interrupt that could not come in the switch window: one that
\* lives and comes back, or one that is finished and does not.  Its context has
\* been saved unless its CPU is still on its stack.
FrameInv ==
  \A x \in Threads : frame[x].pc # "run" =>
    /\ frame[x].pc # "switch"
    /\ x \in Tasks => state[x] # "free" /\ (x \notin Settled => state[x] = "terminated")
    /\ saved_cpu[x] # Any \/ \E c \in CPUs : stack[c] = x

RunInv ==
  /\ \A c, d \in CPUs : \A t \in Tasks : On(c, t) /\ On(d, t) => c = d
  /\ \A c \in CPUs : \A t \in Tasks : current[c] = t =>
       /\ state[t] # "free"
       /\ pc[c] \in Busy => state[t] = "running"
       /\ pc[c] \notin Busy /\ t \notin Settled => state[t] = "terminated"
  /\ \A c \in CPUs : \A t \in Tasks : pc[c] = "switch" /\ from[c] = t =>
       /\ state[t] # "free"
       /\ t \notin Settled => state[t] = "terminated"
  /\ \A t \in Tasks : state[t] = "running" => \E c \in CPUs : current[c] = t

\* A terminated task that has been switched away from, until it is destroyed.
Dead(c, t)   == zombie[c] = t \/ (pc[c] = "destroy" /\ reg[c].task = t)
Buried(x, t) == frame[x].pc = "destroy" /\ frame[x].reg.task = t

DeadInv ==
  /\ \A c, d \in CPUs : \A t \in Tasks : Dead(c, t) =>
       /\ state[t] = "terminated" /\ current[d] # t
       /\ pc[d] = "switch" /\ from[d] = t => c = d
       /\ Dead(d, t) => c = d
  /\ \A x, y \in Threads : \A t \in Tasks : Buried(x, t) =>
       state[t] = "terminated" /\ (Buried(y, t) => x = y)
  /\ \A x \in Threads, c \in CPUs : \A t \in Tasks : Buried(x, t) =>
       ~ Dead(c, t) /\ current[c] # t /\ ~ (pc[c] = "switch" /\ from[c] = t)
  /\ \A c \in CPUs : pc[c] \in {"destroy", "pick"} =>
       zombie[c] = None \/ (current[c] \in Tasks => state[current[c]] = "running")
  /\ \A c \in CPUs : pc[c] = "destroy" => zombie[c] # reg[c].task

\* A task that comes back to a CPU does so at home, with the this_cpu of home.
HomeInv ==
  /\ \A t \in Settled :
       /\ state[t] # "free" => cpu_affinity[t] = Home(t)
       /\ \A c \in CPUs : t \in InQueue(rq[c]) \/ On(c, t) => c = Home(t)
       /\ \A c \in CPUs : pc[c] = "migrate" /\ reg[c].task = t => reg[c].cpu = Home(t)
       /\ \A x \in Threads : frame[x].pc = "migrate" /\ frame[x].reg.task = t =>
            frame[x].reg.cpu = Home(t)
  /\ \A c \in CPUs : pc[c] = "adopt" => cpu_affinity[reg[c].task] = Any
  /\ \A x \in Threads : frame[x].pc = "adopt" => cpu_affinity[frame[x].reg.task] = Any
  /\ \A t \in Tasks : \/ saved_cpu[t] = Any
                      \/ t \in Settled /\ saved_cpu[t] = Home(t)
                      \/ t \notin Settled /\ state[t] \in {"terminated", "free"}
  /\ \A c \in CPUs : saved_cpu[Idle(c)] \in {Any, c}

\* Until the first migration no pinned task is away from its CPU.
PinInv ==
  migrations = 0 =>
    \A c \in CPUs : \A t \in Tasks :
      (t \in InQueue(rq[c]) \/ (current[c] = t /\ state[t] = "running"))
        /\ cpu_affinity[t] # Any => c = cpu_affinity[t]

TypeInv == TypeOK /\ RegInv

IInv ==
  /\ TypeInv /\ PlaceInv /\ StackInv /\ FrameInv /\ RunInv /\ DeadInv /\ HomeInv /\ PinInv

-----------------------------------------------------------------------------
(***************************************************************************)
(* Constants, and the operators on queues and deques.                      *)
(***************************************************************************)
\* CPU numbers, the marks, and the order in which victims are tried.
LEMMA CpuFacts ==
  /\ CPUs \subseteq Nat /\ Any \notin CPUs /\ 0 \in CPUs
  /\ \A c \in CPUs : NextCpu(c) \in CPUs /\ Idle(c) \notin Tasks /\ Idle(c) \in Threads
  /\ \A c, d \in CPUs : Idle(c) = Idle(d) => c = d
  /\ None \notin Tasks /\ Tasks \subseteq Threads
  /\ Priority \in [Tasks -> Int] /\ Affinities \in [Tasks -> SUBSET (CPUs \cup {Any})]
  <1> USE SchedAssumption
  <1>1. CPUs \subseteq Nat /\ Any \notin CPUs /\ 0 \in CPUs
    BY DEF CPUs, Any
  <1>2. \A c \in CPUs : NextCpu(c) \in CPUs
    <2>1. \A x, n \in Nat : n > 0 => x % n \in 0 .. n - 1
      OBVIOUS
    <2>2. QED
      BY <2>1 DEF NextCpu, CPUs
  <1>3. \A c \in CPUs : Idle(c) \notin Tasks /\ Idle(c) \in Threads
    BY DEF Idle, Threads
  <1>4. \A c, d \in CPUs : Idle(c) = Idle(d) => c = d
    BY DEF Idle
  <1>5. QED
    BY <1>1, <1>2, <1>3, <1>4 DEF Threads

\* A queue stays a queue of tasks.
LEMMA InsertType ==
  ASSUME NEW q \in Seq(Tasks), NEW t \in Tasks
  PROVE  Insert(q, t, Priority) \in Seq(Tasks)
  BY InsertAt, CpuFacts

\* A task that is not in the queue yet is in it once afterwards.
LEMMA InsertNew ==
  ASSUME NEW q \in Seq(Tasks), NEW t \in Tasks, Distinct(q), t \notin InQueue(q)
  PROVE  /\ Insert(q, t, Priority) \in Seq(Tasks)
         /\ InQueue(Insert(q, t, Priority)) = InQueue(q) \cup {t}
         /\ Distinct(Insert(q, t, Priority))
  <1>1. Priority \in [Tasks -> Int]
    BY CpuFacts
  <1>2. QED
    BY <1>1, InsertFacts

\* Removing an element that occurs once, or not at all.
LEMMA RemoveFacts ==
  ASSUME NEW q \in Seq(Tasks), NEW t
  PROVE  /\ Remove(q, t) \in Seq(Tasks)
         /\ t \notin InQueue(q) => Remove(q, t) = q
         /\ Distinct(q) => /\ InQueue(Remove(q, t)) = InQueue(q) \ {t}
                           /\ Distinct(Remove(q, t))
  <1>1. CASE t \notin InQueue(q)
    BY <1>1 DEF Remove
  <1>2. CASE t \in InQueue(q)
    <2> DEFINE P(i) == q[i] = t /\ \A j \in 1 .. i - 1 : q[j] # t
               at == CHOOSE i \in 1 .. Len(q) : P(i)
    <2>1. Len(q) \in Nat
      BY LenProperties
    <2>2. \E i \in 1 .. Len(q) : P(i)
      <3> DEFINE S == {i \in 1 .. Len(q) : q[i] = t}
      <3>1. S \in SUBSET Nat /\ S # {}
        BY <1>2 DEF InQueue
      <3>2. PICK i \in S : \A j \in S : i <= j
        BY <3>1, LeastElement
      <3>3. \A j \in 1 .. i - 1 : j \in 1 .. Len(q) /\ ~ (i <= j)
        BY <2>1, <3>1, <3>2
      <3>4. QED
        BY <3>2, <3>3
    <2>3. at \in 1 .. Len(q) /\ q[at] = t
      BY <2>2
    <2>4. Remove(q, t) = Without(q, at)
      BY <1>2 DEF Remove
    <2> HIDE DEF at
    <2>5. QED
      BY <1>2, <2>3, <2>4, WithoutAt, WithoutFacts
  <1>3. QED
    BY <1>1, <1>2

Deques == [buf : [Slots -> Entries], top : Indices, bottom : Indices]

\* The masked index is a slot, the free-running one an index.
LEMMA DequeIndexes ==
  /\ \A x \in Nat : x % IndexMod \in Indices /\ x % DequeCap \in Slots
  /\ Indices \subseteq Nat /\ 0 \in Indices
  /\ \A d \in Deques, k \in Nat : SlotAt(d, k) \in Slots
  /\ \A d \in Deques : steal_deque_size(d) \in Nat
  <1>1. IndexMod \in Nat /\ IndexMod > 0 /\ DequeCap \in Nat /\ DequeCap > 0
    BY StealDequeAssumption
  <1>2. \A x, n \in Nat : n > 0 => x % n \in 0 .. n - 1
    OBVIOUS
  <1>3. \A x \in Nat : x % IndexMod \in Indices /\ x % DequeCap \in Slots
    BY <1>1, <1>2 DEF Indices, Slots
  <1>4. Indices \subseteq Nat /\ 0 \in Indices
    BY <1>1 DEF Indices
  <1>5. ASSUME NEW d \in Deques, NEW k \in Nat PROVE SlotAt(d, k) \in Slots
    <2>1. d.top \in Indices
      BY DEF Deques
    <2>2. d.top + k \in Nat
      <3>1. \A x, y \in Nat : x + y \in Nat
        OBVIOUS
      <3>2. QED
        BY <1>4, <2>1, <3>1
    <2>3. (d.top + k) % IndexMod \in Nat
      BY <1>3, <1>4, <2>2
    <2>4. QED
      BY <1>3, <2>3 DEF SlotAt
  <1>6. ASSUME NEW d \in Deques PROVE steal_deque_size(d) \in Nat
    <2>1. d.bottom \in Nat /\ d.top \in 0 .. IndexMod - 1
      BY <1>4 DEF Deques, Indices
    <2>2. d.bottom + IndexMod - d.top \in Nat
      BY <1>1, <2>1
    <2>3. QED
      BY <1>3, <1>4, <2>2 DEF steal_deque_size
  <1>7. QED
    BY <1>3, <1>4, <1>5, <1>6

\* The first of some offsets is one of them.
LEMMA FirstOffset ==
  ASSUME NEW S \in SUBSET (0 .. DequeCap - 1), S # {}
  PROVE  First(S) \in S /\ First(S) \in Nat
  <1>1. S \in SUBSET Nat
    BY StealDequeAssumption
  <1>2. \E k \in S : \A j \in S : k <= j
    BY <1>1, LeastElement
  <1>3. QED
    BY <1>1, <1>2 DEF First

\* Whatever is pushed, stolen or removed, a deque stays one, and what a thief
\* gets out of it was a task and its generation.
LEMMA DequeTypes ==
  ASSUME NEW d \in Deques
  PROVE  /\ \A t \in Tasks, g \in Nat : steal_deque_push(d, t, g) \in Deques
         /\ steal_deque_steal(d) \in Deques
         /\ \A t \in Tasks : steal_deque_remove(d, t) \in Deques
         /\ Stealable(d) => StealEntry(d) \in Tasks \X Nat
  <1> USE DEF Entries
  <1>1. LiveOffsets(d) \in SUBSET (0 .. DequeCap - 1)
    BY DEF LiveOffsets
  <1>2. /\ d.buf \in [Slots -> Entries] /\ d.top \in Indices /\ d.bottom \in Indices
        /\ d.top \in Nat /\ d.bottom \in Nat
    BY DequeIndexes DEF Deques
  <1>3. ASSUME NEW t \in Tasks, NEW g \in Nat PROVE steal_deque_push(d, t, g) \in Deques
    <2>1. (d.bottom + 1) % IndexMod \in Indices /\ <<t, g>> \in Entries
      BY <1>2, DequeIndexes
    <2>2. QED
      BY <1>2, <2>1 DEF steal_deque_push, Deques
  <1>4. steal_deque_steal(d) \in Deques
    <2> DEFINE n == IF Stealable(d) THEN First(LiveOffsets(d)) + 1 ELSE steal_deque_size(d)
               gone == {SlotAt(d, k) : k \in 0 .. n - 1}
               left == [i \in Slots |-> IF i \in gone THEN Hole ELSE d.buf[i]]
    <2>1. n \in Nat
      BY <1>1, FirstOffset, DequeIndexes DEF Stealable
    <2> HIDE DEF n
    <2>2. (d.top + n) % IndexMod \in Indices
      BY <1>2, <2>1, DequeIndexes
    <2>3. left \in [Slots -> Entries]
      BY <1>2
    <2>4. steal_deque_steal(d) = [d EXCEPT !.buf = left, !.top = (d.top + n) % IndexMod]
      BY DEF steal_deque_steal, n
    <2> HIDE DEF left
    <2>5. QED
      BY <1>2, <2>2, <2>3, <2>4 DEF Deques
  <1>5. ASSUME NEW t \in Tasks PROVE steal_deque_remove(d, t) \in Deques
    BY <1>2 DEF steal_deque_remove, Deques
  <1>6. ASSUME Stealable(d) PROVE StealEntry(d) \in Tasks \X Nat
    <2>1. First(LiveOffsets(d)) \in LiveOffsets(d) /\ First(LiveOffsets(d)) \in Nat
      BY <1>1, <1>6, FirstOffset DEF Stealable
    <2>2. StealEntry(d) # Hole /\ StealEntry(d) \in Entries
      BY <1>2, <2>1, DequeIndexes DEF LiveOffsets, StealEntry
    <2>3. QED
      BY <2>2
  <1>7. QED
    BY <1>3, <1>4, <1>5, <1>6

-----------------------------------------------------------------------------
(***************************************************************************)
(* Types.                                                                  *)
(***************************************************************************)
LEMMA TypeInit == Init => TypeInv
  <1> SUFFICES ASSUME Init PROVE TypeInv
    OBVIOUS
  <1>1. steal_deque_init \in Deques
    BY DequeIndexes DEF steal_deque_init, Deques, Entries
  <1>2. TypeOK
    BY <1>1, CpuFacts, SchedAssumption
    DEF Init, TypeOK, Deques, States, PCs, Regs, NoReg, NoFrame, Fresh
  <1>3. RegInv
    BY DEF Init, RegInv, WithTask, NoFrame
  <1>4. QED
    BY <1>2, <1>3 DEF TypeInv

\* The part of TypeInv that pc and reg do not enter.
DataOK ==
  /\ state \in [Tasks -> States]
  /\ cpu_affinity \in [Tasks -> CPUs \cup {Any}]
  /\ assigned_cpu \in [Tasks -> CPUs]
  /\ generation \in [Tasks -> Nat]
  /\ rq \in [CPUs -> Seq(Tasks)]
  /\ zombie \in [CPUs -> Tasks \cup {None}]
  /\ current \in [CPUs -> Threads] /\ from \in [CPUs -> Threads]
  /\ preempt_disabled \in [CPUs -> {0, 1}]
  /\ deque \in [CPUs -> Deques]
  /\ frame \in [Threads -> [pc : PCs, reg : Regs]] /\ lost \in SUBSET Tasks
  /\ stack \in [CPUs -> Threads]
  /\ saved_cpu \in [Threads -> CPUs \cup {Any}]
  /\ creates \in 0 .. MaxCreates /\ migrations \in 0 .. MaxMigrations
  /\ ticks \in 0 .. MaxTicks

\* TypeOK is the data, the control points and the registers.
LEMMA Split == TypeOK <=> DataOK /\ pc \in [CPUs -> PCs] /\ reg \in [CPUs -> Regs]
  BY DEF TypeOK, DataOK, Deques

\* The same of the next state.
LEMMA SplitNext == TypeOK' <=> DataOK' /\ pc' \in [CPUs -> PCs] /\ reg' \in [CPUs -> Regs]
  BY DEF TypeOK, DataOK, Deques

\* One CPU moves on, with the registers r; what it was about may go to a frame.
LEMMA MovedFrames ==
  ASSUME TypeInv, NEW c \in CPUs, NEW where \in PCs, NEW r \in Regs,
         Go(c, where), reg' = [reg EXCEPT ![c] = r], DataOK', migrations' >= migrations,
         where \in WithTask => r.task \in Tasks,
         where = "migrate" => r.gen \in CPUs /\ r.gen # r.cpu /\ migrations' > 0,
         \A x \in Threads : \/ frame'[x] = frame[x] \/ frame'[x] = NoFrame
                            \/ frame'[x].pc = pc[c] /\ frame'[x].reg = reg[c]
  PROVE  TypeInv'
  <1>1. pc \in [CPUs -> PCs] /\ reg \in [CPUs -> Regs]
    BY Split DEF TypeInv
  <1>2. /\ pc' \in [CPUs -> PCs] /\ reg' \in [CPUs -> Regs]
        /\ pc'[c] = where /\ reg'[c] = r
        /\ \A d \in CPUs \ {c} : pc'[d] = pc[d] /\ reg'[d] = reg[d]
    BY <1>1 DEF Go
  <1>3. migrations \in Nat /\ migrations' \in Nat
    BY Split DEF TypeInv, DataOK
  <1>4. \A d \in CPUs :
          /\ pc'[d] \in WithTask => reg'[d].task \in Tasks
          /\ pc'[d] = "migrate" => reg'[d].gen \in CPUs /\ reg'[d].gen # reg'[d].cpu /\ migrations' > 0
    BY <1>2, <1>3 DEF TypeInv, RegInv
  <1>5. NoFrame.pc \notin WithTask /\ NoFrame.pc # "migrate"
    BY DEF NoFrame, WithTask
  <1>6. \A x \in Threads :
          /\ frame'[x].pc \in WithTask => frame'[x].reg.task \in Tasks
          /\ frame'[x].pc = "migrate" => /\ frame'[x].reg.gen \in CPUs /\ migrations' > 0
                                         /\ frame'[x].reg.gen # frame'[x].reg.cpu
    BY <1>3, <1>5 DEF TypeInv, RegInv
  <1>7. QED
    BY <1>2, <1>4, <1>6, SplitNext DEF TypeInv, RegInv

\* The frames are as they were.
LEMMA Moved ==
  ASSUME TypeInv, NEW c \in CPUs, NEW where \in PCs, NEW r \in Regs,
         Go(c, where), reg' = [reg EXCEPT ![c] = r], DataOK', migrations' >= migrations,
         where \in WithTask => r.task \in Tasks,
         where = "migrate" => r.gen \in CPUs /\ r.gen # r.cpu /\ migrations' > 0,
         frame' = frame
  PROVE  TypeInv'
  BY MovedFrames

\* What schedule() chooses from, and what it makes of the tasks.
LEMMA DispatchTypes ==
  ASSUME DataOK, NEW c \in CPUs
  PROVE  /\ Queue(c) \in Seq(Tasks)
         /\ pick_next_task(c) \in Tasks \cup {Idle(c)}
         /\ pick_next_task(c) \in Threads
         /\ Dispatch(c) => /\ state' \in [Tasks -> States] /\ rq' \in [CPUs -> Seq(Tasks)]
                           /\ assigned_cpu' \in [Tasks -> CPUs]
  <1>1. rq[c] \in Seq(Tasks) /\ rq \in [CPUs -> Seq(Tasks)]
    BY DEF DataOK
  <1>2. Queue(c) \in Seq(Tasks)
    BY <1>1, InsertType DEF Queue, StillRunning
  <1>3. Queue(c) # <<>> => Head(Queue(c)) \in Tasks /\ Tail(Queue(c)) \in Seq(Tasks)
    BY <1>2, HeadTailProperties
  <1>4. pick_next_task(c) \in Tasks \cup {Idle(c)}
    BY <1>3 DEF pick_next_task
  <1>5. <<>> \in Seq(Tasks)
    OBVIOUS
  <1>6. Dispatch(c) => rq' \in [CPUs -> Seq(Tasks)]
    BY <1>1, <1>3, <1>5 DEF Dispatch, Dequeue
  <1>7. Dispatch(c) => state' \in [Tasks -> States] /\ assigned_cpu' \in [Tasks -> CPUs]
    BY DEF Dispatch, DataOK, States, StillRunning
  <1>8. QED
    BY <1>2, <1>4, <1>6, <1>7, CpuFacts

\* Every step keeps the types: the data, then the registers of the CPU that moves.
LEMMA TypeNext == TypeInv /\ [Next]_vars => TypeInv'
  <1> SUFFICES ASSUME TypeInv, [Next]_vars PROVE TypeInv'
    OBVIOUS
  <1> USE DEF taskvars, held, cpuvars, bounds
  <1>a. DataOK /\ pc \in [CPUs -> PCs] /\ reg \in [CPUs -> Regs]
    BY Split DEF TypeInv
  <1>b. NoReg \in Regs
    BY CpuFacts DEF NoReg, Regs
  <1>c. migrations >= migrations
    BY <1>a DEF DataOK
  <1>0. CASE UNCHANGED vars
    <2>1. DataOK'
      BY <1>0, <1>a DEF DataOK, vars
    <2>2. QED
      BY <1>0, <1>a, <2>1, SplitNext DEF vars, TypeInv, RegInv
  <1> SUFFICES ASSUME NEW c \in CPUs, ScheduleStep(c) \/ CallStep(c) \/ Request(c)
               PROVE  TypeInv'
    BY <1>0 DEF Next
  <1>d. reg[c] \in Regs /\ reg = [reg EXCEPT ![c] = reg[c]] /\ pc = [pc EXCEPT ![c] = pc[c]]
    BY <1>a
  <1>e. /\ reg[c].task \in Tasks \cup {None} /\ reg[c].cpu \in CPUs /\ reg[c].gen \in Nat
        /\ pc[c] \in WithTask => reg[c].task \in Tasks
        /\ pc[c] = "migrate" => reg[c].gen \in CPUs
    BY <1>d DEF Regs, TypeInv, RegInv
  <1>f. NoFrame \in [pc : PCs, reg : Regs]
    BY <1>b DEF NoFrame, PCs
  <1>g. \A x \in Threads :
          /\ frame[x].pc \in PCs /\ frame[x].reg \in Regs
          /\ frame[x].pc \in WithTask => frame[x].reg.task \in Tasks
          /\ frame[x].pc = "migrate" => /\ frame[x].reg.gen \in CPUs /\ migrations > 0
                                        /\ frame[x].reg.gen # frame[x].reg.cpu
    BY <1>a DEF DataOK, TypeInv, RegInv
  <1>1. CASE CallSchedule(c)
    <2> DEFINE f == [pc |-> pc[c], reg |-> reg[c]]
    <2>1. f \in [pc : PCs, reg : Regs]
      BY <1>a, <1>d
    <2>2. frame' = [frame EXCEPT ![stack[c]] = f] /\ f.pc = pc[c] /\ f.reg = reg[c]
      BY <1>1 DEF CallSchedule
    <2> HIDE DEF f
    <2>3. \A x \in Threads : frame'[x] = frame[x] \/ frame'[x] = f
      BY <1>a, <2>2 DEF DataOK
    <2>4. ticks' \in 0 .. MaxTicks
      BY <1>1, <1>a, SchedAssumption DEF CallSchedule, DataOK
    <2>5. frame' \in [Threads -> [pc : PCs, reg : Regs]]
      BY <1>a, <2>1, <2>2 DEF DataOK
    <2>6. DataOK'
      BY <1>1, <1>a, <2>4, <2>5 DEF CallSchedule, DataOK
    <2>7. Go(c, "enter") /\ reg' = [reg EXCEPT ![c] = NoReg] /\ migrations' = migrations
      BY <1>1 DEF CallSchedule, Forget
    <2>8. QED
      BY <1>b, <1>c, <2>2, <2>3, <2>6, <2>7, MovedFrames DEF PCs, WithTask
  <1>2. CASE Enter(c)
    <2>1. DataOK' /\ migrations' = migrations /\ frame' = frame
      BY <1>2, <1>a DEF Enter, DataOK
    <2>2. [NoReg EXCEPT !.cpu = NextCpu(c)] \in Regs
      BY <1>b, CpuFacts DEF Regs
    <2>3. \/ Go(c, "steal") /\ reg' = [reg EXCEPT ![c] = [NoReg EXCEPT !.cpu = NextCpu(c)]]
          \/ Go(c, "lock") /\ reg' = [reg EXCEPT ![c] = NoReg]
      BY <1>2 DEF Enter, Forget
    <2>4. QED
      BY <1>b, <1>c, <2>1, <2>2, <2>3, Moved DEF PCs, WithTask
  <1>3. CASE StealFrom(c)
    <2> DEFINE r == [reg[c] EXCEPT !.cpu = NextCpu(reg[c].cpu)]
    <2>1. DataOK' /\ migrations' = migrations /\ frame' = frame
      BY <1>3, <1>a DEF StealFrom, DataOK
    <2>2. r \in Regs
      BY <1>d, <1>e, CpuFacts DEF Regs
    <2>3. \/ Go(c, "lock") /\ reg' = [reg EXCEPT ![c] = NoReg]
          \/ Go(c, "steal") /\ reg' = [reg EXCEPT ![c] = r]
          \/ Go(c, "probe") /\ reg' = [reg EXCEPT ![c] = reg[c]]
      BY <1>3, <1>a, <1>d DEF StealFrom, Forget, Go
    <2> HIDE DEF r
    <2>4. QED
      BY <1>b, <1>c, <1>d, <2>1, <2>2, <2>3, Moved DEF PCs, WithTask
  <1>4. CASE Probe(c)
    <2> DEFINE victim == reg[c].cpu
               d == deque[victim]
               e == StealEntry(d)
               r == [reg[c] EXCEPT !.task = e[1], !.gen = e[2]]
               n == [reg[c] EXCEPT !.cpu = NextCpu(victim)]
    <2>1. d \in Deques
      BY <1>a, <1>e DEF DataOK
    <2>3. steal_deque_steal(d) \in Deques /\ (Stealable(d) => e \in Tasks \X Nat)
      BY <2>1, DequeTypes
    <2>4. DataOK' /\ migrations' = migrations /\ frame' = frame
      <3>1. deque' \in [CPUs -> Deques]
        BY <1>4, <1>a, <2>3 DEF Probe, DataOK
      <3>2. QED
        BY <1>4, <1>a, <3>1 DEF Probe, DataOK
    <2>5. n \in Regs
      BY <1>d, <1>e, CpuFacts DEF Regs
    <2>6. Stealable(d) => e[1] \in Tasks /\ r \in Regs /\ r.task = e[1]
      BY <1>d, <2>3 DEF Regs
    <2>7. CASE Stealable(d)
      <3>1. Go(c, "validate") /\ reg' = [reg EXCEPT ![c] = r]
        BY <1>4, <1>a, <2>7 DEF Probe
      <3> HIDE DEF r, e, d
      <3>2. QED
        BY <1>c, <2>4, <2>6, <2>7, <3>1, Moved DEF PCs
    <2>8. CASE ~ Stealable(d)
      <3>1. Go(c, "steal") /\ reg' = [reg EXCEPT ![c] = n]
        BY <1>4, <1>a, <2>8 DEF Probe
      <3> HIDE DEF n, e, d
      <3>2. QED
        BY <1>c, <2>4, <2>5, <3>1, Moved DEF PCs, WithTask
    <2>9. QED
      BY <2>7, <2>8
  <1>5. CASE Validate(c)
    <2>1. reg[c].task \in Tasks
      BY <1>5, <1>e DEF Validate, WithTask
    <2>2. rq[reg[c].cpu] \in Seq(Tasks)
      BY <1>a, <1>e DEF DataOK
    <2>3. rq' \in [CPUs -> Seq(Tasks)]
      BY <1>5, <1>a, <2>2, RemoveFacts DEF Validate, DataOK
    <2>4. DataOK' /\ migrations' = migrations /\ frame' = frame
      BY <1>5, <1>a, <2>3 DEF Validate, DataOK
    <2>5. (Go(c, "adopt") \/ Go(c, "probe")) /\ reg' = [reg EXCEPT ![c] = reg[c]]
      BY <1>5, <1>d DEF Validate
    <2>6. QED
      BY <1>c, <1>d, <2>1, <2>4, <2>5, Moved DEF PCs
  <1>6. CASE Adopt(c)
    <2>1. reg[c].task \in Tasks /\ rq[c] \in Seq(Tasks)
      BY <1>6, <1>a, <1>e DEF Adopt, WithTask, DataOK
    <2>2. Insert(rq[c], reg[c].task, Priority) \in Seq(Tasks)
      BY <2>1, InsertType
    <2>3. rq' \in [CPUs -> Seq(Tasks)] /\ assigned_cpu' \in [Tasks -> CPUs]
      BY <1>6, <1>a, <2>2 DEF Adopt, DataOK
    <2>4. DataOK' /\ migrations' = migrations /\ frame' = frame
      BY <1>6, <1>a, <2>3 DEF Adopt, DataOK
    <2>5. Go(c, "lock") /\ reg' = [reg EXCEPT ![c] = NoReg]
      BY <1>6 DEF Adopt, Forget
    <2>6. QED
      BY <1>b, <1>c, <2>4, <2>5, Moved DEF PCs, WithTask
  <1>7. CASE TakeZombie(c)
    <2> DEFINE r == [reg[c] EXCEPT !.task = zombie[c]]
    <2>1. zombie[c] \in Tasks
      BY <1>7, <1>a DEF TakeZombie, DataOK
    <2>2. r \in Regs /\ r.task \in Tasks
      BY <1>d, <2>1 DEF Regs
    <2>3. DataOK' /\ migrations' = migrations /\ frame' = frame
      BY <1>7, <1>a DEF TakeZombie, DataOK
    <2>4. Go(c, "destroy") /\ reg' = [reg EXCEPT ![c] = r]
      BY <1>7, <1>a DEF TakeZombie
    <2> HIDE DEF r
    <2>5. QED
      BY <1>c, <2>2, <2>3, <2>4, Moved DEF PCs
  <1>8. CASE DestroyZombie(c)
    <2> DEFINE t == reg[c].task
    <2>1. t \in Tasks /\ generation[t] + 1 \in Nat
      BY <1>8, <1>a, <1>e DEF DestroyZombie, WithTask, DataOK
    <2>2. generation' \in [Tasks -> Nat] /\ state' \in [Tasks -> States]
      <3>1. state' \in [Tasks -> States]
        <4>1. state' = state \/ state' = [state EXCEPT ![t] = "free"]
          BY <1>8 DEF DestroyZombie
        <4> HIDE DEF t
        <4>2. QED
          BY <1>a, <2>1, <4>1 DEF DataOK, States
      <3>2. generation' = generation \/ generation' = [generation EXCEPT ![t] = generation[t] + 1]
        BY <1>8, <1>a, <2>1 DEF DestroyZombie, DataOK
      <3>3. generation' \in [Tasks -> Nat]
        BY <1>a, <2>1, <3>2 DEF DataOK
      <3>4. QED
        BY <3>1, <3>3
    <2>3. /\ frame' = frame \/ frame' = [frame EXCEPT ![t] = NoFrame]
          /\ lost' \in SUBSET Tasks /\ migrations' = migrations
      BY <1>8, <1>a DEF DestroyZombie, DataOK, Loot
    <2>4. /\ frame' \in [Threads -> [pc : PCs, reg : Regs]]
          /\ \A x \in Threads : frame'[x] = frame[x] \/ frame'[x] = NoFrame
      <3>1. t \in Threads /\ frame \in [Threads -> [pc : PCs, reg : Regs]]
        BY <1>a, <2>1, CpuFacts DEF DataOK
      <3> HIDE DEF t
      <3>2. QED
        BY <1>f, <2>3, <3>1
    <2>5. DataOK'
      BY <1>8, <1>a, <2>2, <2>3, <2>4 DEF DestroyZombie, DataOK
    <2>6. Go(c, "pick") /\ reg' = [reg EXCEPT ![c] = NoReg]
      BY <1>8 DEF DestroyZombie, Forget
    <2>7. QED
      BY <1>b, <1>c, <2>3, <2>4, <2>5, <2>6, MovedFrames DEF PCs, WithTask
  <1>9. CASE PickReturns(c)
    <2>1. stack[c] \in Threads
      BY <1>a DEF DataOK
    <2>2. frame' = [frame EXCEPT ![stack[c]] = NoFrame] /\ migrations' = migrations
      BY <1>9 DEF PickReturns, Resume
    <2>3. /\ frame' \in [Threads -> [pc : PCs, reg : Regs]]
          /\ \A x \in Threads : frame'[x] = frame[x] \/ frame'[x] = NoFrame
      BY <1>a, <1>f, <2>2 DEF DataOK
    <2>4. DataOK'
      BY <1>9, <1>a, <2>3, DispatchTypes DEF PickReturns, DataOK
    <2>5. Go(c, frame[stack[c]].pc) /\ reg' = [reg EXCEPT ![c] = frame[stack[c]].reg]
      BY <1>9 DEF PickReturns, Resume
    <2>6. QED
      BY <1>c, <1>g, <2>1, <2>2, <2>3, <2>4, <2>5, MovedFrames
  <1>10. CASE PickSwitches(c)
    <2>1. /\ current' = [current EXCEPT ![c] = pick_next_task(c)]
          /\ from' = [from EXCEPT ![c] = current[c]]
          /\ preempt_disabled' = [preempt_disabled EXCEPT ![c] = 1]
          /\ zombie' = [zombie EXCEPT ![c] = IF current[c] \in Tasks /\ state[current[c]] = "terminated"
                                             THEN current[c] ELSE @]
          /\ Dispatch(c)
          /\ UNCHANGED <<cpu_affinity, generation, deque, reg, held, stack, saved_cpu, bounds>>
      BY <1>10 DEF PickSwitches
    <2>2. pick_next_task(c) \in Threads
      BY <1>a, DispatchTypes
    <2>3. current' \in [CPUs -> Threads] /\ from' \in [CPUs -> Threads]
      BY <1>a, <2>1, <2>2 DEF DataOK
    <2>4. preempt_disabled' \in [CPUs -> {0, 1}] /\ zombie' \in [CPUs -> Tasks \cup {None}]
      BY <1>a, <2>1 DEF DataOK
    <2>5. DataOK' /\ migrations' = migrations /\ frame' = frame
      BY <1>a, <2>1, <2>3, <2>4, DispatchTypes DEF DataOK
    <2>6. Go(c, "switch") /\ reg' = [reg EXCEPT ![c] = reg[c]]
      BY <1>10, <1>d DEF PickSwitches
    <2>7. QED
      BY <1>c, <1>d, <2>5, <2>6, Moved DEF PCs, WithTask
  <1>11. CASE SwitchTo(c)
    <2>1. current[c] \in Threads
      BY <1>a DEF DataOK
    <2>2. frame' = [frame EXCEPT ![current[c]] = NoFrame] /\ migrations' = migrations
      BY <1>11 DEF SwitchTo, Resume
    <2>3. /\ frame' \in [Threads -> [pc : PCs, reg : Regs]]
          /\ \A x \in Threads : frame'[x] = frame[x] \/ frame'[x] = NoFrame
      BY <1>a, <1>f, <2>2 DEF DataOK
    <2>4. DataOK'
      BY <1>11, <1>a, <2>3, CpuFacts DEF SwitchTo, DataOK
    <2>5. Go(c, frame[current[c]].pc) /\ reg' = [reg EXCEPT ![c] = frame[current[c]].reg]
      BY <1>11 DEF SwitchTo, Resume
    <2>6. QED
      BY <1>c, <1>g, <2>1, <2>2, <2>3, <2>4, <2>5, MovedFrames
  <1>12. ASSUME NEW target \in CPUs, AddTask(c, target) PROVE TypeInv'
    <2> DEFINE r == [reg[c] EXCEPT !.cpu = target]
    <2>1. reg[c].task \in Tasks /\ rq[target] \in Seq(Tasks)
      BY <1>12, <1>a, <1>e DEF AddTask, WithTask, DataOK
    <2>2. Insert(rq[target], reg[c].task, Priority) \in Seq(Tasks)
      BY <2>1, InsertType
    <2>3. rq' \in [CPUs -> Seq(Tasks)] /\ assigned_cpu' \in [Tasks -> CPUs]
      BY <1>12, <1>a, <2>2 DEF AddTask, DataOK
    <2>4. DataOK' /\ migrations' = migrations /\ frame' = frame
      BY <1>12, <1>a, <2>3 DEF AddTask, DataOK
    <2>5. r \in Regs /\ r.task \in Tasks
      BY <1>d, <2>1 DEF Regs
    <2>6. (Go(c, "push") \/ Go(c, "run")) /\ reg' = [reg EXCEPT ![c] = r]
      BY <1>12, <1>a DEF AddTask
    <2> HIDE DEF r
    <2>7. QED
      BY <1>c, <2>4, <2>5, <2>6, Moved DEF PCs
  <1>13. CASE PushTask(c)
    <2> DEFINE t == reg[c].task
               target == reg[c].cpu
    <2>1. t \in Tasks /\ deque[target] \in Deques /\ generation[t] \in Nat
      BY <1>13, <1>a, <1>e DEF PushTask, WithTask, DataOK
    <2>2. steal_deque_push(deque[target], t, generation[t]) \in Deques
      BY <2>1, DequeTypes
    <2>3. deque' \in [CPUs -> Deques]
      BY <1>13, <1>a, <2>2 DEF PushTask, DataOK
    <2>4. DataOK' /\ migrations' = migrations /\ frame' = frame
      BY <1>13, <1>a, <2>3 DEF PushTask, DataOK
    <2>5. Go(c, "run") /\ reg' = [reg EXCEPT ![c] = NoReg]
      BY <1>13 DEF PushTask, Forget
    <2>6. QED
      BY <1>b, <1>c, <2>4, <2>5, Moved DEF PCs, WithTask
  <1>14. CASE Undeque(c)
    <2>1. reg[c].task \in Tasks /\ deque[reg[c].cpu] \in Deques
      BY <1>14, <1>a, <1>e DEF Undeque, WithTask, DataOK
    <2>2. steal_deque_remove(deque[reg[c].cpu], reg[c].task) \in Deques
      BY <2>1, DequeTypes
    <2>3. deque' \in [CPUs -> Deques]
      BY <1>14, <1>a, <2>2 DEF Undeque, DataOK
    <2>4. DataOK' /\ migrations' = migrations /\ frame' = frame
      BY <1>14, <1>a, <2>3 DEF Undeque, DataOK
    <2>5. Go(c, "enter") /\ reg' = [reg EXCEPT ![c] = NoReg]
      BY <1>14 DEF Undeque, Forget
    <2>6. QED
      BY <1>b, <1>c, <2>4, <2>5, Moved DEF PCs, WithTask
  <1>15. CASE FinishMigrate(c)
    <2> DEFINE t == reg[c].task
               target == reg[c].cpu
               old == reg[c].gen
    <2>1. t \in Tasks /\ target \in CPUs /\ old \in CPUs /\ rq \in [CPUs -> Seq(Tasks)]
      BY <1>15, <1>a, <1>e DEF FinishMigrate, WithTask, DataOK
    <2>2. Remove(rq[old], t) \in Seq(Tasks)
      BY <2>1, RemoveFacts
    <2>3. Insert(rq[target], t, Priority) \in Seq(Tasks)
      BY <2>1, InsertType
    <2>4. old # target
      BY <1>15 DEF FinishMigrate, TypeInv, RegInv
    <2>5. \/ rq' = rq
          \/ rq' = [rq EXCEPT ![old] = Remove(rq[old], t), ![target] = Insert(rq[target], t, Priority)]
      BY <1>15, <2>1, <2>4 DEF FinishMigrate
    <2>6. rq' \in [CPUs -> Seq(Tasks)] /\ assigned_cpu' \in [Tasks -> CPUs]
      BY <1>15, <1>a, <2>1, <2>2, <2>3, <2>5 DEF FinishMigrate, DataOK
    <2>7. DataOK' /\ migrations' = migrations /\ frame' = frame
      BY <1>15, <1>a, <2>6 DEF FinishMigrate, DataOK
    <2>8. Go(c, "run") /\ reg' = [reg EXCEPT ![c] = NoReg]
      BY <1>15 DEF FinishMigrate, Forget
    <2>9. QED
      BY <1>b, <1>c, <2>7, <2>8, Moved DEF PCs, WithTask
  <1>16. CASE Block(c)
    <2>1. DataOK' /\ migrations' = migrations /\ frame' = frame
      BY <1>16, <1>a DEF Block, DataOK, States
    <2>2. Go(c, "enter") /\ reg' = [reg EXCEPT ![c] = reg[c]]
      BY <1>16, <1>d DEF Block
    <2>3. QED
      BY <1>c, <1>d, <2>1, <2>2, Moved DEF PCs, WithTask
  <1>17. CASE Exit(c)
    <2> DEFINE t == current[c]
               r == [task |-> t, cpu |-> assigned_cpu[t], gen |-> 0]
    <2>1. t \in Tasks /\ assigned_cpu[t] \in CPUs /\ rq[assigned_cpu[t]] \in Seq(Tasks)
      BY <1>17, <1>a DEF Exit, DataOK
    <2>2. Remove(rq[assigned_cpu[t]], t) \in Seq(Tasks)
      BY <2>1, RemoveFacts
    <2>3. rq' \in [CPUs -> Seq(Tasks)] /\ state' \in [Tasks -> States]
      BY <1>17, <1>a, <2>2 DEF Exit, DataOK, States
    <2>4. DataOK' /\ migrations' = migrations /\ frame' = frame
      BY <1>17, <1>a, <2>3 DEF Exit, DataOK
    <2>5. r \in Regs /\ r.task \in Tasks
      BY <2>1 DEF Regs
    <2>6. (Go(c, "undeque") \/ Go(c, "enter")) /\ reg' = [reg EXCEPT ![c] = r]
      BY <1>17 DEF Exit
    <2> HIDE DEF r
    <2>7. QED
      BY <1>c, <2>4, <2>5, <2>6, Moved DEF PCs
  <1>18. ASSUME NEW t \in Tasks, NEW a \in Affinities[t], Create(c, t, a) PROVE TypeInv'
    <2> DEFINE r == [reg[c] EXCEPT !.task = t]
    <2>1. a \in CPUs \cup {Any} /\ t \in Threads
      BY CpuFacts
    <2>2. creates' \in 0 .. MaxCreates
      BY <1>18, <1>a, SchedAssumption DEF Create, DataOK
    <2>a. /\ state' \in [Tasks -> States] /\ cpu_affinity' \in [Tasks -> CPUs \cup {Any}]
          /\ assigned_cpu' \in [Tasks -> CPUs]
      BY <1>18, <1>a, <2>1, CpuFacts DEF Create, DataOK, States
    <2>b. saved_cpu' \in [Threads -> CPUs \cup {Any}]
      BY <1>18, <1>a, <2>1 DEF Create, DataOK, Fresh
    <2>3. DataOK' /\ migrations' = migrations /\ frame' = frame
      BY <1>18, <1>a, <2>2, <2>a, <2>b DEF Create, DataOK
    <2>4. r \in Regs /\ r.task \in Tasks
      BY <1>d DEF Regs
    <2>5. Go(c, "add") /\ reg' = [reg EXCEPT ![c] = r]
      BY <1>18, <1>a DEF Create
    <2> HIDE DEF r
    <2>6. QED
      BY <1>c, <2>3, <2>4, <2>5, Moved DEF PCs
  <1>19. ASSUME NEW t \in Tasks, Wake(c, t) PROVE TypeInv'
    <2> DEFINE r == [reg[c] EXCEPT !.task = t]
    <2>1. DataOK' /\ migrations' = migrations /\ frame' = frame
      BY <1>19, <1>a DEF Wake, DataOK, States
    <2>2. r \in Regs /\ r.task \in Tasks
      BY <1>d DEF Regs
    <2>3. Go(c, "add") /\ reg' = [reg EXCEPT ![c] = r]
      BY <1>19, <1>a DEF Wake
    <2> HIDE DEF r
    <2>4. QED
      BY <1>c, <2>1, <2>2, <2>3, Moved DEF PCs
  <1>20. ASSUME NEW t \in Tasks, NEW target \in CPUs, Migrate(c, t, target) PROVE TypeInv'
    <2> DEFINE r == [task |-> t, cpu |-> target, gen |-> assigned_cpu[t]]
    <2>1. migrations' \in 0 .. MaxMigrations /\ migrations' > 0 /\ migrations' >= migrations
      BY <1>20, <1>a, SchedAssumption DEF Migrate, DataOK
    <2>2. DataOK' /\ frame' = frame
      BY <1>20, <1>a, <2>1 DEF Migrate, DataOK
    <2>3. r \in Regs /\ r.task \in Tasks /\ r.gen \in CPUs /\ r.gen # r.cpu
      BY <1>20, <1>a, CpuFacts DEF Regs, DataOK, Migrate
    <2>4. Go(c, "migrate") /\ reg' = [reg EXCEPT ![c] = r]
      BY <1>20 DEF Migrate
    <2> HIDE DEF r
    <2>5. QED
      BY <2>1, <2>2, <2>3, <2>4, Moved DEF PCs
  <1>21. QED
    BY <1>1, <1>2, <1>3, <1>4, <1>5, <1>6, <1>7, <1>8, <1>9, <1>10, <1>11, <1>12, <1>13,
       <1>14, <1>15, <1>16, <1>17, <1>18, <1>19, <1>20
    DEF ScheduleStep, CallStep, Request

\* Whatever the interleaving, and whether or not the instance is Confined: slots
\* stay task states, queues stay queues of tasks, what a thief finds in a deque
\* is a task and a generation, and every CPU a task is sent to exists.
THEOREM TypeCorrect == Spec => []TypeOK
  <1>1. TypeInv => TypeOK
    BY DEF TypeInv
  <1>2. QED
    BY <1>1, TypeInit, TypeNext, PTL DEF Spec

-----------------------------------------------------------------------------
(***************************************************************************)
(* Safety of a Confined instance.                                          *)
(***************************************************************************)
LEMMA SettledFacts ==
  ASSUME Confined
  PROVE  /\ ~ ReschedIpi /\ Settled \subseteq Tasks
         /\ \A t \in Settled : Home(t) \in CPUs /\ Affinities[t] = {Home(t)} /\ Home(t) # Any
  <1>1. ASSUME NEW t \in Settled PROVE Home(t) \in CPUs /\ Affinities[t] = {Home(t)}
    BY DEF Confined, Home
  <1>2. QED
    BY <1>1, CpuFacts, SchedAssumption DEF Confined, Settled

\* The functions of the state.
LEMMA Shapes ==
  ASSUME TypeInv
  PROVE  /\ state \in [Tasks -> States] /\ cpu_affinity \in [Tasks -> CPUs \cup {Any}]
         /\ rq \in [CPUs -> Seq(Tasks)] /\ zombie \in [CPUs -> Tasks \cup {None}]
         /\ pc \in [CPUs -> PCs] /\ reg \in [CPUs -> Regs]
         /\ current \in [CPUs -> Threads] /\ from \in [CPUs -> Threads]
         /\ stack \in [CPUs -> Threads] /\ frame \in [Threads -> [pc : PCs, reg : Regs]]
         /\ lost \in SUBSET Tasks
         /\ preempt_disabled \in [CPUs -> {0, 1}]
         /\ saved_cpu \in [Threads -> CPUs \cup {Any}]
         /\ migrations \in Nat /\ DataOK
         /\ \A c \in CPUs : InQueue(rq[c]) \subseteq Tasks
  <1>1. DataOK /\ pc \in [CPUs -> PCs] /\ reg \in [CPUs -> Regs]
    BY Split DEF TypeInv
  <1>2. \A c \in CPUs : InQueue(rq[c]) \subseteq Tasks
    <2>1. \A q \in Seq(Tasks) : \A i \in 1 .. Len(q) : q[i] \in Tasks
      BY ElementOfSeq
    <2>2. QED
      BY <1>1, <2>1 DEF DataOK, InQueue
  <1>3. QED
    BY <1>1, <1>2 DEF DataOK

\* With every CPU in its idle task there is nothing to be in the wrong place.
LEMMA SafeInit == Init => IInv
  <1> SUFFICES ASSUME Init PROVE IInv
    OBVIOUS
  <1>1. TypeInv
    BY TypeInit
  <1>2. PlaceInv
    <2>1. InQueue(<<>>) = {} /\ Distinct(<<>>)
      BY DEF InQueue, Distinct
    <2>2. QED
      BY <2>1 DEF Init, PlaceInv, Carries, Keeps, NoFrame
  <1>3. StackInv
    BY CpuFacts DEF Init, StackInv
  <1>4. RunInv
    BY CpuFacts DEF Init, RunInv, On
  <1>5. DeadInv
    BY CpuFacts DEF Init, DeadInv, Dead, Buried, NoFrame
  <1>6. HomeInv
    <2>1. InQueue(<<>>) = {}
      BY DEF InQueue
    <2>2. Settled \subseteq Tasks
      BY SchedAssumption DEF Settled
    <2>3. QED
      BY <2>1, <2>2, CpuFacts DEF Init, HomeInv, On, Fresh, NoFrame
  <1>7. PinInv
    <2>1. InQueue(<<>>) = {}
      BY DEF InQueue
    <2>2. QED
      BY <2>1, CpuFacts DEF Init, PinInv
  <1>8. FrameInv
    BY DEF Init, FrameInv, NoFrame
  <1>9. QED
    BY <1>1, <1>2, <1>3, <1>4, <1>5, <1>6, <1>7, <1>8 DEF IInv

\* A CPU goes on to `where'; the others are where they were.
Stepped(c, where) ==
  /\ pc'[c] = where
  /\ \A d \in CPUs : d # c => pc'[d] = pc[d] /\ reg'[d] = reg[d]

\* A step of c that leaves the tasks, the queues and what is current alone, and
\* neither takes up nor lays down a task.
LEMMA QuietStep ==
  ASSUME IInv, TypeInv', NEW c \in CPUs, Stepped(c, pc'[c]),
         UNCHANGED <<state, cpu_affinity, rq, zombie, held, cpuvars>>, migrations' >= migrations,
         pc[c] \notin {"switch", "add", "adopt", "destroy", "pick"},
         pc'[c] \notin {"switch", "add", "adopt", "destroy", "pick"},
         pc'[c] \in Busy => pc[c] \in Busy,
         pc[c] \in Busy /\ pc'[c] \notin Busy /\ current[c] \in Tasks => current[c] \in Settled,
         pc'[c] = "migrate" /\ reg'[c].task \in Settled => reg'[c].cpu = Home(reg'[c].task)
  PROVE  IInv'
  <1> USE DEF Stepped, held, cpuvars, IInv
  <1>1. PlaceInv'
    BY SMTT(30) DEF PlaceInv, Carries, Keeps
  <1>2. StackInv'
    BY DEF StackInv
  <1>3. \A d \in CPUs, t \in Tasks : On(d, t)' <=> On(d, t)
    BY DEF On
  <1>4. RunInv'
    BY <1>3 DEF RunInv
  <1>5. \A d \in CPUs, t \in Tasks : Dead(d, t)' <=> Dead(d, t)
    BY DEF Dead
  <1>6. DeadInv'
    BY <1>5 DEF DeadInv, Buried
  <1>7. HomeInv'
    BY <1>3, SchedAssumption DEF HomeInv, Settled
  <1>8. PinInv'
    BY Shapes DEF PinInv
  <1>9. FrameInv'
    BY DEF FrameInv
  <1>10. QED
    BY <1>1, <1>2, <1>4, <1>6, <1>7, <1>8, <1>9

\* What c and thread x have in hand may go from one to the other.
HandsMoved(c, x) ==
  /\ \A d \in CPUs, t \in Tasks : d # c => (Carries(d, t)' <=> Carries(d, t))
  /\ \A y \in Threads, t \in Tasks : y # x => (Keeps(y, t)' <=> Keeps(y, t))
  /\ \A t \in Tasks : /\ (Carries(c, t)' \/ Keeps(x, t)') <=> (Carries(c, t) \/ Keeps(x, t))
                       /\ ~ (Carries(c, t)' /\ Keeps(x, t)')

\* Who is READY, queued or in hand stays so.
LEMMA PlaceKept ==
  ASSUME TypeInv, PlaceInv, UNCHANGED <<rq, lost>>,
         \A t \in Tasks : state'[t] = "ready" <=> state[t] = "ready",
         NEW c \in CPUs, NEW x \in Threads, HandsMoved(c, x)
  PROVE  PlaceInv'
  <1> USE DEF HandsMoved
  <1>1. \A d \in CPUs : rq'[d] = rq[d] /\ InQueue(rq[d]) \subseteq Tasks
    BY Shapes
  <1>2. \A d, e \in CPUs : \A t \in InQueue(rq[d]) : state'[t] = "ready" /\ ~ Carries(e, t)'
    BY <1>1 DEF PlaceInv
  <1>3. \A d, e \in CPUs : \A t \in Tasks : Carries(d, t)' =>
          state'[t] = "ready" /\ (Carries(e, t)' => d = e)
    BY DEF PlaceInv
  <1>4. \A y, z \in Threads : \A t \in Tasks : Keeps(y, t)' =>
          state'[t] = "ready" /\ (Keeps(z, t)' => y = z)
    BY DEF PlaceInv
  <1>5. \A d \in CPUs, y \in Threads : \A t \in Tasks : Keeps(y, t)' =>
          t \notin InQueue(rq[d]) /\ ~ Carries(d, t)'
    BY DEF PlaceInv
  <1>6. \A t \in Tasks : state'[t] = "ready" =>
          \/ \E d \in CPUs : t \in InQueue(rq[d]) \/ Carries(d, t)'
          \/ \E y \in Threads : Keeps(y, t)'
          \/ t \in lost
    BY DEF PlaceInv
  <1>7. \A t \in lost :
          /\ state'[t] = "ready" /\ \A d \in CPUs : t \notin InQueue(rq[d]) /\ ~ Carries(d, t)'
          /\ \A y \in Threads : ~ Keeps(y, t)'
    BY Shapes DEF PlaceInv
  <1>8. QED
    BY <1>1, <1>2, <1>3, <1>4, <1>5, <1>6, <1>7 DEF PlaceInv

\* In particular if no hand is touched.
LEMMA PlaceStays ==
  ASSUME TypeInv, PlaceInv, UNCHANGED <<rq, held>>,
         \A t \in Tasks : state'[t] = "ready" <=> state[t] = "ready",
         \A d \in CPUs, t \in Tasks : Carries(d, t)' <=> Carries(d, t)
  PROVE  PlaceInv'
  <1>1. \A y \in Threads, t \in Tasks : Keeps(y, t)' <=> Keeps(y, t)
    BY DEF Keeps, held
  <1>2. HandsMoved(0, Idle(0)) /\ 0 \in CPUs /\ Idle(0) \in Threads
    BY <1>1, CpuFacts DEF HandsMoved, PlaceInv
  <1>3. QED
    BY <1>2, PlaceKept DEF held

\* The frames do not notice a step that frees no task and revives none.
LEMMA FramesKept ==
  ASSUME FrameInv, UNCHANGED <<frame, saved_cpu, stack>>,
         \A t \in Tasks : /\ state[t] # "free" => state'[t] # "free"
                          /\ state[t] = "terminated" => state'[t] = "terminated"
  PROVE  FrameInv'
  BY DEF FrameInv

\* The stacks do not notice a step outside the switch window.
LEMMA StackKept ==
  ASSUME StackInv, NEW c \in CPUs, Stepped(c, pc'[c]), pc[c] # "switch", pc'[c] # "switch",
         UNCHANGED <<current, preempt_disabled, from, stack>>
  PROVE  /\ StackInv'
         /\ \A d \in CPUs, t \in Tasks : On(d, t)' <=> On(d, t)
  BY DEF StackInv, On, Stepped

\* Nor do the zombies, if none is taken up.
LEMMA DeadKept ==
  ASSUME NEW c \in CPUs, Stepped(c, pc'[c]), pc[c] # "destroy", pc'[c] # "destroy",
         UNCHANGED <<zombie, frame>>
  PROVE  /\ \A d \in CPUs, t \in Tasks : Dead(d, t)' <=> Dead(d, t)
         /\ \A x \in Threads, t \in Tasks : Buried(x, t)' <=> Buried(x, t)
  BY DEF Dead, Buried, Stepped

\* The steps that are quiet: through the steal loop as long as nothing is taken,
\* over the deques, and up to the locks of a migration.
LEMMA QuietSteps ==
  ASSUME Confined, IInv, TypeInv', NEW c \in CPUs,
         \/ Enter(c) \/ StealFrom(c) \/ Probe(c)
         \/ Validate(c) /\ pc'[c] = "probe"
         \/ PushTask(c) \/ Undeque(c)
         \/ \E t \in Tasks, target \in CPUs : Migrate(c, t, target)
  PROVE  IInv'
  <1>1. /\ pc \in [CPUs -> PCs] /\ reg \in [CPUs -> Regs] /\ migrations \in Nat
        /\ migrations >= migrations
    BY Shapes DEF IInv
  <1> USE DEF taskvars, held, cpuvars, bounds, Go, Forget, Stepped, Busy
  <1>3. CASE Enter(c)
    <2>1. Stepped(c, "steal") \/ Stepped(c, "lock")
      BY <1>1, <1>3 DEF Enter
    <2>2. QED
      BY <1>1, <1>3, <2>1, QuietStep DEF Enter
  <1>4. CASE StealFrom(c)
    <2>1. Stepped(c, "lock") \/ Stepped(c, "steal") \/ Stepped(c, "probe")
      BY <1>1, <1>4 DEF StealFrom
    <2>2. QED
      BY <1>1, <1>4, <2>1, QuietStep DEF StealFrom
  <1>5. CASE Probe(c)
    <2>1. Stepped(c, "validate") \/ Stepped(c, "steal")
      BY <1>1, <1>5 DEF Probe
    <2>2. QED
      BY <1>1, <1>5, <2>1, QuietStep DEF Probe
  <1>6. CASE Validate(c) /\ pc'[c] = "probe"
    <2>1. Stepped(c, "probe") /\ UNCHANGED rq
      BY <1>1, <1>6 DEF Validate
    <2>2. QED
      BY <1>1, <1>6, <2>1, QuietStep DEF Validate
  <1>7. CASE PushTask(c)
    <2>1. Stepped(c, "run")
      BY <1>1, <1>7 DEF PushTask
    <2>2. QED
      BY <1>1, <1>7, <2>1, QuietStep DEF PushTask
  <1>8. CASE Undeque(c)
    <2>1. Stepped(c, "enter")
      BY <1>1, <1>8 DEF Undeque
    <2>2. QED
      BY <1>1, <1>8, <2>1, QuietStep DEF Undeque
  <1>9. ASSUME NEW t \in Tasks, NEW target \in CPUs, Migrate(c, t, target) PROVE IInv'
    <2>1. Stepped(c, "migrate") /\ reg'[c].task = t /\ reg'[c].cpu = target
      BY <1>1, <1>9 DEF Migrate
    <2>2. t \in Settled => target = Home(t)
      BY <1>9, SettledFacts DEF Migrate, IInv, HomeInv
    <2>3. migrations' >= migrations
      BY <1>1, <1>9 DEF Migrate
    <2>4. QED
      BY <1>1, <1>9, <2>1, <2>2, <2>3, QuietStep DEF Migrate
  <1>10. QED
    BY <1>3, <1>4, <1>5, <1>6, <1>7, <1>8, <1>9

\* An interrupt: what the CPU was about goes to the frame of the thread it is on.
LEMMA InterruptStep ==
  ASSUME Confined, IInv, TypeInv', NEW c \in CPUs, CallSchedule(c)
  PROVE  IInv'
  <1>1. pc[c] # "switch" /\ stack[c] = current[c]
    BY DEF CallSchedule, LetsIn, Confined, IInv, StackInv
  <1>2. PICK x \in Threads : x = current[c] /\ x = stack[c]
    BY <1>1, Shapes DEF IInv
  <1>3. /\ Stepped(c, "enter") /\ frame[x].pc = "run"
        /\ frame'[x].pc = pc[c] /\ frame'[x].reg = reg[c]
        /\ \A y \in Threads : y # x => frame'[y] = frame[y]
        /\ UNCHANGED <<state, cpu_affinity, rq, zombie, lost, cpuvars, migrations>>
    BY <1>2, Shapes DEF CallSchedule, IInv, Stepped, Go, Forget, taskvars, Unmasked
  <1>4. x \in Tasks => state[x] # "free" /\ (x \notin Settled => state[x] = "terminated")
    <2> SUFFICES ASSUME x \in Tasks
                 PROVE  state[x] # "free" /\ (x \notin Settled => state[x] = "terminated")
      OBVIOUS
    <2>1. state[x] # "free" /\ (pc[c] \in Busy => state[x] = "running")
      BY <1>2 DEF IInv, RunInv
    <2>2. state[x] = "running" => x \in Settled
      BY <1>2 DEF CallSchedule, Preemptible, Settled
    <2>3. QED
      BY <1>2, <2>1, <2>2 DEF IInv, RunInv
  <1> USE DEF cpuvars
  <1>5. HandsMoved(c, x)
    BY <1>3 DEF HandsMoved, Carries, Keeps, Stepped
  <1>6. PlaceInv'
    BY <1>3, <1>5, PlaceKept DEF IInv
  <1>7. StackInv' /\ \A d \in CPUs, u \in Tasks : On(d, u)' <=> On(d, u)
    BY <1>1, <1>3, StackKept DEF IInv, Stepped
  <1>8. FrameInv'
    BY <1>1, <1>2, <1>3, <1>4 DEF IInv, FrameInv
  <1>9. RunInv'
    <2>1. \A d \in CPUs : \A t \in Tasks : current[d] = t =>
            /\ state[t] # "free"
            /\ pc'[d] \in Busy => state[t] = "running"
            /\ pc'[d] \notin Busy /\ t \notin Settled => state[t] = "terminated"
      <3> SUFFICES ASSUME NEW d \in CPUs, NEW t \in Tasks, current[d] = t
                   PROVE  /\ state[t] # "free"
                          /\ pc'[d] \in Busy => state[t] = "running"
                          /\ pc'[d] \notin Busy /\ t \notin Settled => state[t] = "terminated"
        OBVIOUS
      <3>1. CASE d = c
        BY <1>2, <1>3, <1>4, <3>1 DEF Stepped, Busy
      <3>2. CASE d # c
        BY <1>3, <3>2 DEF IInv, RunInv, Stepped
      <3>3. QED
        BY <3>1, <3>2
    <2>2. \A d \in CPUs : pc'[d] = "switch" => pc[d] = "switch"
      BY <1>3 DEF Stepped
    <2>3. QED
      BY <1>3, <1>7, <2>1, <2>2 DEF IInv, RunInv
  <1>10. /\ \A d \in CPUs, t \in Tasks : Dead(d, t)' =>
              Dead(d, t) /\ ~ (d = c /\ pc[c] = "destroy" /\ reg[c].task = t)
         /\ \A y \in Threads, t \in Tasks :
              Buried(y, t)' <=> Buried(y, t) \/ (y = x /\ pc[c] = "destroy" /\ reg[c].task = t)
    BY <1>3 DEF Dead, Buried, Stepped, IInv, DeadInv
  <1>11. \A t \in Tasks : pc[c] = "destroy" /\ reg[c].task = t => Dead(c, t)
    BY DEF Dead
  <1>12. DeadInv'
    BY <1>1, <1>3, <1>10, <1>11 DEF IInv, DeadInv, Stepped
  <1>13. HomeInv'
    BY <1>2, <1>3, <1>7, SchedAssumption DEF IInv, HomeInv, Settled, Stepped
  <1>14. PinInv'
    BY <1>3 DEF IInv, PinInv
  <1>15. QED
    BY <1>6, <1>7, <1>8, <1>9, <1>12, <1>13, <1>14 DEF IInv

\* A zombie goes from the slot of the CPU to its hands.
LEMMA TakeZombieStep ==
  ASSUME IInv, TypeInv', NEW c \in CPUs, TakeZombie(c)
  PROVE  IInv'
  <1> USE DEF IInv
  <1>1. /\ Stepped(c, "destroy") /\ pc[c] = "lock" /\ reg'[c].task = zombie[c]
        /\ zombie'[c] = None /\ \A d \in CPUs : d # c => zombie'[d] = zombie[d]
        /\ UNCHANGED <<taskvars, rq, held, cpuvars, migrations>> /\ zombie[c] \in Tasks
    BY Shapes DEF TakeZombie, Stepped, Go, bounds, Regs
  <1> USE DEF Stepped, taskvars, held, cpuvars
  <1>2. PlaceInv'
    <2>1. \A d \in CPUs, t \in Tasks : Carries(d, t)' <=> Carries(d, t)
      BY <1>1 DEF Carries
    <2>2. QED
      BY <1>1, <2>1, PlaceStays
  <1>3. StackInv'
    BY <1>1 DEF StackInv
  <1>4. \A d \in CPUs, t \in Tasks : On(d, t)' <=> On(d, t)
    BY <1>1 DEF On
  <1>5. RunInv'
    BY <1>1, <1>4 DEF RunInv, Busy
  <1>6. \A d \in CPUs, t \in Tasks : Dead(d, t)' <=> Dead(d, t)
    BY <1>1, CpuFacts DEF Dead
  <1>7. DeadInv'
    BY <1>1, <1>6, CpuFacts DEF DeadInv, Buried
  <1>8. HomeInv'
    BY <1>1, <1>4, SchedAssumption DEF HomeInv, Settled
  <1>9. PinInv'
    BY <1>1 DEF PinInv
  <1>10. FrameInv'
    BY <1>1 DEF FrameInv
  <1>11. QED
    BY <1>2, <1>3, <1>5, <1>7, <1>8, <1>9, <1>10

\* The task that is destroyed is on no CPU and in no queue.
LEMMA DestroyZombieStep ==
  ASSUME IInv, TypeInv', NEW c \in CPUs, DestroyZombie(c)
  PROVE  IInv'
  <1> USE DEF IInv
  <1>1. PICK t \in Tasks : t = reg[c].task /\ Dead(c, t) /\ pc[c] = "destroy"
    BY DEF DestroyZombie, Dead, TypeInv, RegInv, WithTask
  <1>2. state[t] = "terminated" /\ zombie[c] # t /\ \A d \in CPUs : ~ On(d, t)
    BY <1>1 DEF DeadInv, On
  <1>3. /\ Stepped(c, "pick")
        /\ state'[t] = "free" /\ \A u \in Tasks : u # t => state'[u] = state[u]
        /\ frame'[t] = NoFrame /\ \A x \in Threads : x # t => frame'[x] = frame[x]
        /\ lost' = lost \cup Loot(t)
        /\ UNCHANGED <<cpu_affinity, rq, zombie, cpuvars, migrations>>
    BY <1>1, <1>2, Shapes, CpuFacts DEF DestroyZombie, Stepped, Go, Forget, bounds
  <1> USE DEF Stepped, cpuvars
  <1>4. PlaceInv'
    <2>1. \A u \in Tasks : state'[u] = "ready" <=> state[u] = "ready"
      BY <1>1, <1>2, <1>3
    <2>2. /\ \A d \in CPUs, u \in Tasks : Carries(d, u)' <=> Carries(d, u)
          /\ \A x \in Threads, u \in Tasks : Keeps(x, u)' <=> Keeps(x, u) /\ x # t
      BY <1>1, <1>3 DEF Carries, Keeps, NoFrame
    <2>3. \A u \in Tasks : u \in lost' <=> u \in lost \/ Keeps(t, u)
      BY <1>3 DEF Loot, Keeps
    <2>4. t \in Threads /\ lost' \subseteq Tasks /\ \A d \in CPUs : rq'[d] = rq[d]
      BY <1>3, Shapes, CpuFacts DEF Loot
    <2>5. \A d \in CPUs : InQueue(rq[d]) \subseteq Tasks
      BY Shapes
    <2>6. /\ \A d, e \in CPUs : \A u \in InQueue(rq[d]) : state'[u] = "ready" /\ ~ Carries(e, u)'
          /\ \A d, e \in CPUs : \A u \in Tasks : Carries(d, u)' =>
               state'[u] = "ready" /\ (Carries(e, u)' => d = e)
      BY <2>1, <2>2, <2>5 DEF PlaceInv
    <2>7. /\ \A x, y \in Threads : \A u \in Tasks : Keeps(x, u)' =>
               state'[u] = "ready" /\ (Keeps(y, u)' => x = y)
          /\ \A d \in CPUs, x \in Threads : \A u \in Tasks : Keeps(x, u)' =>
               u \notin InQueue(rq[d]) /\ ~ Carries(d, u)'
      BY <2>1, <2>2 DEF PlaceInv
    <2>8. \A u \in Tasks : state'[u] = "ready" =>
            \/ \E d \in CPUs : u \in InQueue(rq[d]) \/ Carries(d, u)'
            \/ \E x \in Threads : Keeps(x, u)'
            \/ u \in lost'
      BY <2>1, <2>2, <2>3 DEF PlaceInv
    <2>9. \A u \in lost' :
            /\ state'[u] = "ready" /\ \A d \in CPUs : u \notin InQueue(rq[d]) /\ ~ Carries(d, u)'
            /\ \A x \in Threads : ~ Keeps(x, u)'
      BY <2>1, <2>2, <2>3, <2>4 DEF PlaceInv
    <2>10. QED
      BY <2>4, <2>6, <2>7, <2>8, <2>9 DEF PlaceInv
  <1>5. StackInv'
    BY <1>1, <1>3 DEF StackInv
  <1>6. \A d \in CPUs, u \in Tasks : On(d, u)' <=> On(d, u)
    BY <1>1, <1>3 DEF On
  <1>7. RunInv'
    BY <1>1, <1>2, <1>3, <1>6 DEF RunInv, Busy, On
  <1>8. /\ \A d \in CPUs, u \in Tasks : Dead(d, u)' => Dead(d, u) /\ u # t
        /\ \A x \in Threads, u \in Tasks : Buried(x, u)' => Buried(x, u) /\ u # t
    <2>1. \A d \in CPUs, u \in Tasks : Dead(d, u)' => Dead(d, u) /\ u # t
      BY <1>1, <1>2, <1>3, CpuFacts DEF Dead, DeadInv
    <2>2. \A x \in Threads, u \in Tasks : Buried(x, u)' => Buried(x, u)
      BY <1>3 DEF Buried, NoFrame
    <2>3. \A x \in Threads : ~ Buried(x, t)
      BY <1>1 DEF DeadInv
    <2>4. QED
      BY <2>1, <2>2, <2>3
  <1>9. DeadInv'
    BY <1>1, <1>2, <1>3, <1>8 DEF DeadInv, On
  <1>10. HomeInv'
    BY <1>1, <1>2, <1>3, <1>6, SchedAssumption DEF HomeInv, Settled, NoFrame
  <1>11. PinInv'
    BY <1>1, <1>2, <1>3 DEF PinInv
  <1>12. FrameInv'
    BY <1>3 DEF FrameInv, NoFrame
  <1>13. QED
    BY <1>4, <1>5, <1>7, <1>9, <1>10, <1>11, <1>12

\* One READY task changes its place: the others keep theirs, and it is in the
\* queue of e only, or in the hands of e only.
OthersKept(t) ==
  /\ \A d \in CPUs : Distinct(rq'[d])
  /\ \A u \in Tasks : u # t => (state'[u] = "ready" <=> state[u] = "ready")
  /\ \A d \in CPUs, u \in Tasks : u # t => /\ u \in InQueue(rq'[d]) <=> u \in InQueue(rq[d])
                                           /\ Carries(d, u)' <=> Carries(d, u)
  /\ UNCHANGED held

AtQueue(t, e) == \A d \in CPUs : (t \in InQueue(rq'[d]) <=> d = e) /\ ~ Carries(d, t)'
AtHand(t, e)  == \A d \in CPUs : (Carries(d, t)' <=> d = e) /\ t \notin InQueue(rq'[d])

\* Then every READY task is again in one place.
LEMMA PlaceMoved ==
  ASSUME TypeInv, TypeInv', PlaceInv, NEW t \in Tasks, NEW e \in CPUs,
         state'[t] = "ready", OthersKept(t), AtQueue(t, e) \/ AtHand(t, e),
         t \notin lost, \A x \in Threads : ~ Keeps(x, t)
  PROVE  PlaceInv'
  <1> USE DEF OthersKept, AtQueue, AtHand
  <1>1. \A d \in CPUs : InQueue(rq[d]) \subseteq Tasks
    BY Shapes
  <1>2. \A d \in CPUs : InQueue(rq'[d]) \subseteq Tasks
    <2>1. DataOK'
      BY SplitNext DEF TypeInv
    <2>2. \A q \in Seq(Tasks) : \A i \in 1 .. Len(q) : q[i] \in Tasks
      BY ElementOfSeq
    <2>3. QED
      BY <2>1, <2>2 DEF DataOK, InQueue
  <1>3. \A c, d \in CPUs : \A u \in InQueue(rq'[c]) : u \in InQueue(rq'[d]) => c = d
    BY <1>2 DEF PlaceInv
  <1>4. \A c, d \in CPUs : \A u \in InQueue(rq'[c]) : state'[u] = "ready" /\ ~ Carries(d, u)'
    BY <1>2 DEF PlaceInv
  <1>5. \A c, d \in CPUs : \A u \in Tasks : Carries(c, u)' =>
          state'[u] = "ready" /\ (Carries(d, u)' => c = d)
    BY DEF PlaceInv
  <1>6. lost' = lost /\ lost \subseteq Tasks /\ \A x \in Threads, u \in Tasks : Keeps(x, u)' <=> Keeps(x, u)
    BY Shapes DEF held, Keeps
  <1>7. \A u \in Tasks : state'[u] = "ready" =>
          \/ \E c \in CPUs : u \in InQueue(rq'[c]) \/ Carries(c, u)'
          \/ \E x \in Threads : Keeps(x, u)'
          \/ u \in lost'
    BY <1>6 DEF PlaceInv
  <1>8. /\ \A x, y \in Threads : \A u \in Tasks : Keeps(x, u)' =>
             state'[u] = "ready" /\ (Keeps(y, u)' => x = y)
        /\ \A c \in CPUs, x \in Threads : \A u \in Tasks : Keeps(x, u)' =>
             u \notin InQueue(rq'[c]) /\ ~ Carries(c, u)'
    BY <1>6 DEF PlaceInv
  <1>9. \A u \in lost' :
          /\ state'[u] = "ready" /\ \A c \in CPUs : u \notin InQueue(rq'[c]) /\ ~ Carries(c, u)'
          /\ \A x \in Threads : ~ Keeps(x, u)'
    BY <1>6 DEF PlaceInv
  <1>10. QED
    BY <1>3, <1>4, <1>5, <1>7, <1>8, <1>9 DEF PlaceInv, OthersKept

\* What else such a step has to see to: a pinned task goes home.
LEMMA HandStep ==
  ASSUME IInv, TypeInv', PlaceInv', NEW c \in CPUs, NEW t \in Tasks, Stepped(c, pc'[c]),
         UNCHANGED <<state, cpu_affinity, zombie, held, cpuvars, migrations>>,
         pc[c] \notin {"switch", "destroy", "pick"},
         pc'[c] \notin {"switch", "destroy", "pick", "migrate"},
         pc'[c] \in Busy <=> pc[c] \in Busy,
         pc'[c] = "adopt" => cpu_affinity[reg'[c].task] = Any,
         OthersKept(t),
         \A d \in CPUs : t \in InQueue(rq'[d]) =>
           /\ t \in Settled => d = Home(t)
           /\ migrations = 0 /\ cpu_affinity[t] # Any => d = cpu_affinity[t]
  PROVE  IInv'
  <1> USE DEF IInv, Stepped, held, cpuvars, OthersKept
  <1>2. StackInv'
    BY DEF StackInv
  <1>3. \A d \in CPUs, u \in Tasks : On(d, u)' <=> On(d, u)
    BY DEF On
  <1>4. RunInv'
    BY <1>3 DEF RunInv
  <1>5. \A d \in CPUs, u \in Tasks : Dead(d, u)' <=> Dead(d, u)
    BY DEF Dead
  <1>6. DeadInv'
    BY <1>5 DEF DeadInv, Buried
  <1>7. HomeInv'
    BY <1>3, SchedAssumption DEF HomeInv, Settled
  <1>8. PinInv'
    BY DEF PinInv
  <1>9. FrameInv'
    BY DEF FrameInv
  <1>10. QED
    BY <1>2, <1>4, <1>6, <1>7, <1>8, <1>9

\* A thief takes the task out of the victim's queue ...
LEMMA ValidateStep ==
  ASSUME Confined, IInv, TypeInv', NEW c \in CPUs, Validate(c)
  PROVE  IInv'
  <1>0. reg[c].task \in Tasks /\ reg[c].cpu \in CPUs /\ pc[c] = "validate"
    BY Shapes DEF Validate, IInv, TypeInv, RegInv, WithTask, Regs
  <1>1. PICK t \in Tasks, victim \in CPUs :
          t = reg[c].task /\ victim = reg[c].cpu /\ pc[c] = "validate"
    BY <1>0
  <1>2. CASE MayTakeOver(t, victim, reg[c].gen)
    <2>1. /\ Stepped(c, "adopt") /\ reg'[c].task = t /\ cpu_affinity[t] = Any
          /\ t \in InQueue(rq[victim]) /\ state[t] = "ready"
          /\ UNCHANGED <<state, cpu_affinity, zombie, held, cpuvars, migrations>>
      BY <1>1, <1>2, Shapes DEF Validate, IInv, Stepped, Go, taskvars, bounds, MayTakeOver
    <2>2. rq' = [rq EXCEPT ![victim] = Remove(rq[victim], t)] /\ rq \in [CPUs -> Seq(Tasks)]
      BY <1>1, <1>2, Shapes DEF Validate, IInv
    <2>3. /\ InQueue(rq'[victim]) = InQueue(rq[victim]) \ {t} /\ Distinct(rq'[victim])
          /\ \A d \in CPUs : d # victim => rq'[d] = rq[d]
      BY <1>1, <2>2, RemoveFacts DEF IInv, PlaceInv
    <2>4. \A d \in CPUs : Distinct(rq'[d]) /\ t \notin InQueue(rq'[d])
      BY <1>1, <2>1, <2>3 DEF IInv, PlaceInv
    <2>5. \A d \in CPUs, u \in Tasks : Carries(d, u)' <=> Carries(d, u) \/ (d = c /\ u = t)
      BY <1>1, <2>1 DEF Carries, Stepped
    <2>6. (\A d \in CPUs : ~ Carries(d, t)) /\ t \notin lost /\ \A x \in Threads : ~ Keeps(x, t)
      BY <1>1, <2>1 DEF IInv, PlaceInv
    <2>7. OthersKept(t)
      BY <1>1, <2>1, <2>3, <2>4, <2>5 DEF OthersKept
    <2>8. AtHand(t, c)
      BY <1>1, <2>4, <2>5, <2>6 DEF AtHand
    <2>9. PlaceInv'
      BY <1>1, <2>1, <2>6, <2>7, <2>8, PlaceMoved DEF IInv
    <2>10. QED
      BY <1>1, <2>1, <2>4, <2>7, <2>9, HandStep DEF Busy, Stepped
  <1>3. CASE ~ MayTakeOver(t, victim, reg[c].gen)
    <2>1. pc'[c] = "probe"
      BY <1>1, <1>3, Shapes DEF Validate, Go, IInv
    <2>2. QED
      BY <2>1, QuietSteps
  <1>4. QED
    BY <1>2, <1>3

\* Into the queue of `to', by a CPU that carries the task.
LEMMA Inserted ==
  ASSUME IInv, TypeInv', NEW c \in CPUs, NEW to \in CPUs, NEW t \in Tasks, Carries(c, t),
         ~ (pc'[c] \in {"add", "adopt"}), Stepped(c, pc'[c]), UNCHANGED <<state, held>>,
         rq' = [rq EXCEPT ![to] = Insert(rq[to], t, Priority)]
  PROVE  PlaceInv' /\ OthersKept(t) /\ AtQueue(t, to)
  <1>1. rq \in [CPUs -> Seq(Tasks)]
    BY Shapes DEF IInv
  <1>2. \A d \in CPUs : t \notin InQueue(rq[d]) /\ Distinct(rq[d])
    BY DEF IInv, PlaceInv
  <1>3. /\ InQueue(rq'[to]) = InQueue(rq[to]) \cup {t} /\ Distinct(rq'[to])
        /\ \A d \in CPUs : d # to => rq'[d] = rq[d]
    BY <1>1, <1>2, InsertNew
  <1>4. \A d \in CPUs, u \in Tasks : Carries(d, u)' <=> Carries(d, u) /\ d # c
    BY DEF Carries, Stepped
  <1>5. \A d \in CPUs : Carries(d, t) => d = c
    BY DEF IInv, PlaceInv
  <1>6. \A u \in Tasks : Carries(c, u) => u = t
    BY DEF Carries
  <1>7. state'[t] = "ready" /\ t \notin lost /\ \A x \in Threads : ~ Keeps(x, t)
    BY DEF IInv, PlaceInv
  <1>8. \A d \in CPUs : Distinct(rq'[d])
    BY <1>2, <1>3
  <1>9. AtQueue(t, to)
    BY <1>2, <1>3, <1>4, <1>5 DEF AtQueue
  <1>10. OthersKept(t)
    BY <1>3, <1>4, <1>6, <1>8 DEF OthersKept
  <1>11. PlaceInv'
    BY <1>7, <1>9, <1>10, PlaceMoved DEF IInv
  <1>12. QED
    BY <1>9, <1>10, <1>11

\* ... and puts it, unpinned as it is, into its own.
LEMMA AdoptStep ==
  ASSUME Confined, IInv, TypeInv', NEW c \in CPUs, Adopt(c)
  PROVE  IInv'
  <1>1. PICK t \in Tasks : t = reg[c].task /\ Carries(c, t) /\ pc[c] = "adopt"
    BY DEF Adopt, IInv, TypeInv, RegInv, WithTask, Carries
  <1>2. /\ Stepped(c, "lock") /\ UNCHANGED <<state, cpu_affinity, zombie, held, cpuvars, migrations>>
        /\ rq' = [rq EXCEPT ![c] = Insert(rq[c], t, Priority)]
    BY <1>1, Shapes DEF Adopt, IInv, Stepped, Go, Forget, bounds
  <1>3. state[t] = "ready" /\ cpu_affinity[t] = Any
    BY <1>1 DEF IInv, PlaceInv, HomeInv
  <1>4. t \notin Settled
    BY <1>3, SettledFacts DEF IInv, HomeInv
  <1>5. PlaceInv' /\ OthersKept(t)
    BY <1>1, <1>2, Inserted DEF Stepped
  <1>6. QED
    BY <1>1, <1>2, <1>3, <1>4, <1>5, HandStep DEF Busy, Stepped

\* A woken or new task is put where it is pinned to, or where the policy wants it.
LEMMA AddTaskStep ==
  ASSUME Confined, IInv, TypeInv', NEW c \in CPUs, NEW target \in CPUs, AddTask(c, target)
  PROVE  IInv'
  <1>1. PICK t \in Tasks :
          t = reg[c].task /\ Carries(c, t) /\ pc[c] = "add" /\ target \in Placement(t)
    BY DEF AddTask, IInv, TypeInv, RegInv, WithTask, Carries
  <1>2. /\ Stepped(c, "push") \/ Stepped(c, "run")
        /\ UNCHANGED <<state, cpu_affinity, zombie, held, cpuvars, migrations>>
        /\ rq' = [rq EXCEPT ![target] = Insert(rq[target], t, Priority)]
    BY <1>1, Shapes DEF AddTask, IInv, Stepped, Go, bounds
  <1>3. state[t] = "ready" /\ (cpu_affinity[t] # Any => target = cpu_affinity[t])
    BY <1>1 DEF IInv, PlaceInv, Placement
  <1>4. t \in Settled => target = Home(t)
    BY <1>3, SettledFacts DEF IInv, HomeInv
  <1>5. PlaceInv' /\ OthersKept(t) /\ AtQueue(t, target)
    BY <1>1, <1>2, Inserted DEF Stepped
  <1>6. QED
    BY <1>1, <1>2, <1>3, <1>4, <1>5, HandStep DEF Busy, Stepped, AtQueue

\* A migration under both locks: from queue to queue, or nothing.
LEMMA FinishMigrateStep ==
  ASSUME Confined, IInv, TypeInv', NEW c \in CPUs, FinishMigrate(c)
  PROVE  IInv'
  <1>0. /\ reg[c].task \in Tasks /\ reg[c].cpu \in CPUs /\ reg[c].gen \in CPUs
        /\ reg[c].gen # reg[c].cpu /\ pc[c] = "migrate" /\ migrations > 0
    BY Shapes DEF FinishMigrate, IInv, TypeInv, RegInv, WithTask, Regs
  <1>1. PICK t \in Tasks, target \in CPUs, old \in CPUs :
          /\ t = reg[c].task /\ target = reg[c].cpu /\ old = reg[c].gen
          /\ old # target /\ pc[c] = "migrate" /\ migrations > 0
    BY <1>0
  <1>2. Stepped(c, "run") /\ UNCHANGED <<state, cpu_affinity, zombie, held, cpuvars, migrations>>
    BY Shapes DEF FinishMigrate, IInv, Stepped, Go, Forget, bounds
  <1>3. rq \in [CPUs -> Seq(Tasks)] /\ \A d \in CPUs : Distinct(rq[d])
    BY Shapes DEF IInv, PlaceInv
  <1>4. \A d \in CPUs, u \in Tasks : Carries(d, u)' <=> Carries(d, u)
    BY <1>1, <1>2 DEF Carries, Stepped
  <1>5. migrations \in Nat
    BY Shapes DEF IInv
  <1>6. CASE Moves(t, old)
    <2>1. state[t] = "ready" /\ t \in InQueue(rq[old])
      BY <1>6 DEF Moves
    <2>2. /\ \A d \in CPUs : (t \in InQueue(rq[d]) => d = old) /\ ~ Carries(d, t)
          /\ t \notin lost /\ \A x \in Threads : ~ Keeps(x, t)
      BY <1>1, <2>1 DEF IInv, PlaceInv
    <2>3. t \notin Settled
      BY <1>1, <2>1 DEF IInv, HomeInv
    <2>4. rq' = [rq EXCEPT ![old] = Remove(rq[old], t), ![target] = Insert(rq[target], t, Priority)]
      BY <1>1, <1>3, <1>6 DEF FinishMigrate
    <2>5. /\ rq'[old] = Remove(rq[old], t) /\ rq'[target] = Insert(rq[target], t, Priority)
          /\ \A d \in CPUs : d # old /\ d # target => rq'[d] = rq[d]
      BY <1>1, <1>3, <2>4
    <2>6. InQueue(rq'[old]) = InQueue(rq[old]) \ {t} /\ Distinct(rq'[old])
      BY <1>1, <1>3, <2>5, RemoveFacts
    <2>7. Distinct(rq[target]) /\ t \notin InQueue(rq[target]) /\ rq[target] \in Seq(Tasks)
      BY <1>1, <1>3, <2>2
    <2>8. InQueue(rq'[target]) = InQueue(rq[target]) \cup {t} /\ Distinct(rq'[target])
      BY <1>1, <2>5, <2>7, InsertNew
    <2>9. AtQueue(t, target)
      BY <1>1, <1>4, <2>2, <2>5, <2>6, <2>8 DEF AtQueue
    <2>10. OthersKept(t)
      BY <1>1, <1>2, <1>3, <1>4, <2>5, <2>6, <2>8 DEF OthersKept
    <2>11. PlaceInv'
      BY <1>1, <1>2, <2>1, <2>2, <2>9, <2>10, PlaceMoved DEF IInv
    <2>12. QED
      BY <1>1, <1>2, <1>5, <2>3, <2>10, <2>11, HandStep DEF Busy, Stepped
  <1>7. CASE ~ Moves(t, old)
    <2>1. UNCHANGED rq
      BY <1>1, <1>7 DEF FinishMigrate
    <2>2. OthersKept(t)
      BY <1>2, <1>3, <1>4, <2>1 DEF OthersKept
    <2>3. PlaceInv'
      BY <1>2, <1>4, <2>1, PlaceStays DEF IInv
    <2>4. t \in Settled => \A d \in CPUs : t \in InQueue(rq[d]) => d = Home(t)
      BY DEF IInv, HomeInv
    <2>5. QED
      BY <1>1, <1>2, <1>5, <2>1, <2>2, <2>3, <2>4, HandStep DEF Busy, Stepped
  <1>8. QED
    BY <1>6, <1>7

\* A new task is in the hands of its creator only.
LEMMA CreateStep ==
  ASSUME Confined, IInv, TypeInv', NEW c \in CPUs, NEW t \in Tasks, NEW a \in Affinities[t],
         Create(c, t, a)
  PROVE  IInv'
  <1>1. /\ Stepped(c, "add") /\ pc[c] = "run" /\ reg'[c].task = t /\ state[t] = "free"
        /\ state'[t] = "ready" /\ \A u \in Tasks : u # t => state'[u] = state[u]
        /\ cpu_affinity'[t] = a /\ \A u \in Tasks : u # t => cpu_affinity'[u] = cpu_affinity[u]
        /\ saved_cpu'[t] = Any /\ \A x \in Threads : x # t => saved_cpu'[x] = saved_cpu[x]
        /\ UNCHANGED <<rq, zombie, current, preempt_disabled, from, held, stack, migrations>>
    BY Shapes, CpuFacts DEF Create, IInv, Stepped, Go, Regs, Fresh
  <1>2. /\ \A d \in CPUs : t \notin InQueue(rq[d]) /\ ~ Carries(d, t)
        /\ t \notin lost /\ \A x \in Threads : ~ Keeps(x, t)
        /\ \A d \in CPUs : Distinct(rq[d])
    BY <1>1 DEF IInv, PlaceInv
  <1>3. \A d \in CPUs : ~ On(d, t)
    BY <1>1 DEF IInv, RunInv, On
  <1>4. (\A d \in CPUs : ~ Dead(d, t)) /\ \A x \in Threads : ~ Buried(x, t)
    BY <1>1 DEF IInv, DeadInv
  <1>5. \A d \in CPUs, u \in Tasks : Carries(d, u)' <=> Carries(d, u) \/ (d = c /\ u = t)
    BY <1>1 DEF Carries, Stepped
  <1>6. PlaceInv'
    <2>1. OthersKept(t)
      BY <1>1, <1>2, <1>5 DEF OthersKept
    <2>2. AtHand(t, c)
      BY <1>1, <1>2, <1>5 DEF AtHand
    <2>3. QED
      BY <1>1, <1>2, <2>1, <2>2, PlaceMoved DEF IInv
  <1>7. StackInv' /\ \A d \in CPUs, u \in Tasks : On(d, u)' <=> On(d, u)
    BY <1>1, StackKept DEF IInv, Stepped
  <1>8. RunInv'
    BY <1>1, <1>3, <1>7 DEF IInv, RunInv, On, Stepped, Busy
  <1>9. /\ \A d \in CPUs, u \in Tasks : Dead(d, u)' <=> Dead(d, u)
        /\ \A x \in Threads, u \in Tasks : Buried(x, u)' <=> Buried(x, u)
    BY <1>1, DeadKept DEF Stepped, held
  <1>10. DeadInv'
    BY <1>1, <1>4, <1>9 DEF IInv, DeadInv, Stepped
  <1>11. HomeInv'
    <2>1. t \in Settled => a = Home(t)
      BY SettledFacts
    <2>2. \A u \in Settled :
            /\ state'[u] # "free" => cpu_affinity'[u] = Home(u)
            /\ \A d \in CPUs : u \in InQueue(rq'[d]) \/ On(d, u)' => d = Home(u)
            /\ \A d \in CPUs : pc'[d] = "migrate" /\ reg'[d].task = u => reg'[d].cpu = Home(u)
            /\ \A x \in Threads : frame'[x].pc = "migrate" /\ frame'[x].reg.task = u =>
                 frame'[x].reg.cpu = Home(u)
      BY <1>1, <1>7, <2>1, SettledFacts DEF IInv, HomeInv, Stepped, held
    <2>3. \A d \in CPUs : pc'[d] = "adopt" => cpu_affinity'[reg'[d].task] = Any
      <3>1. SUFFICES ASSUME NEW d \in CPUs, pc'[d] = "adopt"
                     PROVE  cpu_affinity'[reg'[d].task] = Any
        OBVIOUS
      <3>2. d # c /\ pc[d] = "adopt" /\ reg'[d] = reg[d] /\ reg[d].task \in Tasks
        BY <1>1, <3>1 DEF Stepped, IInv, TypeInv, RegInv, WithTask
      <3>3. reg[d].task # t
        BY <1>2, <3>2 DEF Carries
      <3>4. QED
        BY <1>1, <3>2, <3>3 DEF IInv, HomeInv
    <2>4. \A u \in Tasks : \/ saved_cpu'[u] = Any
                           \/ u \in Settled /\ saved_cpu'[u] = Home(u)
                           \/ u \notin Settled /\ state'[u] \in {"terminated", "free"}
      BY <1>1, CpuFacts DEF IInv, HomeInv
    <2>5. \A d \in CPUs : saved_cpu'[Idle(d)] \in {Any, d}
      BY <1>1, CpuFacts DEF IInv, HomeInv
    <2>6. \A x \in Threads : frame'[x].pc = "adopt" => cpu_affinity'[frame'[x].reg.task] = Any
      <3>1. SUFFICES ASSUME NEW x \in Threads, frame'[x].pc = "adopt"
                     PROVE  cpu_affinity'[frame'[x].reg.task] = Any
        OBVIOUS
      <3>2. frame'[x] = frame[x] /\ frame[x].pc = "adopt" /\ frame[x].reg.task \in Tasks
        BY <1>1, <3>1 DEF held, IInv, TypeInv, RegInv, WithTask
      <3>3. frame[x].reg.task # t
        BY <1>2, <3>2 DEF Keeps
      <3>4. QED
        BY <1>1, <3>2, <3>3 DEF IInv, HomeInv
    <2>7. QED
      BY <2>2, <2>3, <2>4, <2>5, <2>6 DEF HomeInv
  <1>12. PinInv'
    BY <1>1, <1>2, <1>3 DEF IInv, PinInv, On
  <1>13. FrameInv'
    BY <1>1 DEF IInv, FrameInv, held
  <1>14. QED
    BY <1>6, <1>7, <1>8, <1>10, <1>11, <1>12, <1>13 DEF IInv

\* A woken task is in the hands of its waker only, though it may still be on its
\* way out of its own CPU.
LEMMA WakeStep ==
  ASSUME IInv, TypeInv', NEW c \in CPUs, NEW t \in Tasks, Wake(c, t)
  PROVE  IInv'
  <1>1. /\ Stepped(c, "add") /\ pc[c] = "run" /\ reg'[c].task = t /\ state[t] = "blocked"
        /\ state'[t] = "ready" /\ \A u \in Tasks : u # t => state'[u] = state[u]
        /\ UNCHANGED <<cpu_affinity, rq, zombie, held, cpuvars, migrations>>
    BY Shapes DEF Wake, IInv, Stepped, Go, Regs, bounds
  <1> USE DEF held, cpuvars
  <1>2. /\ \A d \in CPUs : t \notin InQueue(rq[d]) /\ ~ Carries(d, t)
        /\ t \notin lost /\ \A x \in Threads : ~ Keeps(x, t)
        /\ \A d \in CPUs : Distinct(rq[d])
    BY <1>1 DEF IInv, PlaceInv
  <1>3. (\A d \in CPUs : ~ Dead(d, t)) /\ \A x \in Threads : ~ Buried(x, t)
    BY <1>1 DEF IInv, DeadInv
  <1>4. \A d \in CPUs, u \in Tasks : Carries(d, u)' <=> Carries(d, u) \/ (d = c /\ u = t)
    BY <1>1 DEF Carries, Stepped
  <1>5. PlaceInv'
    <2>1. OthersKept(t)
      BY <1>1, <1>2, <1>4 DEF OthersKept
    <2>2. AtHand(t, c)
      BY <1>1, <1>2, <1>4 DEF AtHand
    <2>3. QED
      BY <1>1, <1>2, <2>1, <2>2, PlaceMoved DEF IInv
  <1>6. StackInv' /\ \A d \in CPUs, u \in Tasks : On(d, u)' <=> On(d, u)
    BY <1>1, StackKept DEF IInv, Stepped
  <1>7. RunInv'
    BY <1>1, <1>6 DEF IInv, RunInv, Stepped, Busy
  <1>8. /\ \A d \in CPUs, u \in Tasks : Dead(d, u)' <=> Dead(d, u)
        /\ \A x \in Threads, u \in Tasks : Buried(x, u)' <=> Buried(x, u)
    BY <1>1, DeadKept DEF Stepped
  <1>9. DeadInv'
    BY <1>1, <1>3, <1>8 DEF IInv, DeadInv, Stepped
  <1>10. HomeInv'
    BY <1>1, <1>6, SchedAssumption DEF IInv, HomeInv, Settled, Stepped
  <1>11. PinInv'
    BY <1>1 DEF IInv, PinInv
  <1>12. FrameInv'
    BY <1>1, FramesKept DEF IInv
  <1>13. QED
    BY <1>5, <1>6, <1>7, <1>9, <1>10, <1>11, <1>12 DEF IInv

\* The running task stops being one and goes into schedule().
LEMMA Stopped ==
  ASSUME IInv, TypeInv', NEW c \in CPUs, NEW t \in Tasks, current[c] = t, pc[c] = "run",
         Stepped(c, pc'[c]), pc'[c] \in {"enter", "undeque"},
         UNCHANGED <<cpu_affinity, rq, zombie, held, cpuvars, migrations>>,
         state'[t] \in {"blocked", "terminated"}, state'[t] = "blocked" => t \in Settled,
         \A u \in Tasks : u # t => state'[u] = state[u]
  PROVE  IInv'
  <1> USE DEF held, cpuvars
  <1>1. state[t] = "running"
    BY DEF IInv, RunInv, Busy
  <1>2. (\A d \in CPUs : ~ Dead(d, t)) /\ \A x \in Threads : ~ Buried(x, t)
    BY <1>1 DEF IInv, DeadInv
  <1>3. PlaceInv'
    <2>1. \A u \in Tasks : state'[u] = "ready" <=> state[u] = "ready"
      BY <1>1
    <2>2. \A d \in CPUs, u \in Tasks : Carries(d, u)' <=> Carries(d, u)
      BY DEF Carries, Stepped
    <2>3. QED
      BY <2>1, <2>2, PlaceStays DEF IInv
  <1>4. StackInv' /\ \A d \in CPUs, u \in Tasks : On(d, u)' <=> On(d, u)
    BY StackKept DEF IInv
  <1>5. \A d \in CPUs : On(d, t) => d = c
    BY DEF IInv, RunInv, On
  <1>6. RunInv'
    BY <1>1, <1>4, <1>5 DEF IInv, RunInv, Stepped, Busy, On
  <1>7. /\ \A d \in CPUs, u \in Tasks : Dead(d, u)' <=> Dead(d, u)
        /\ \A x \in Threads, u \in Tasks : Buried(x, u)' <=> Buried(x, u)
    BY DeadKept
  <1>8. DeadInv'
    <2>1. \A d \in CPUs : /\ pc'[d] \in {"destroy", "pick"} => zombie[d] = None
                               \/ (current[d] \in Tasks => state'[current[d]] = "running")
                          /\ pc'[d] = "destroy" => zombie[d] # reg'[d].task
      BY <1>5 DEF IInv, DeadInv, Stepped, On
    <2>2. \A u \in Tasks : state[u] = "terminated" => state'[u] = "terminated"
      BY <1>1
    <2>3. \A d \in CPUs : pc'[d] = "switch" <=> pc[d] = "switch"
      BY DEF Stepped
    <2>4. QED
      BY <1>7, <2>1, <2>2, <2>3 DEF IInv, DeadInv
  <1>9. HomeInv'
    BY <1>1, <1>4, SchedAssumption DEF IInv, HomeInv, Settled, Stepped
  <1>10. PinInv'
    BY DEF IInv, PinInv
  <1>11. FrameInv'
    BY <1>1, FramesKept DEF IInv
  <1>12. QED
    BY <1>3, <1>4, <1>6, <1>8, <1>9, <1>10, <1>11 DEF IInv

\* Only a settled task blocks.
LEMMA BlockStep ==
  ASSUME IInv, TypeInv', NEW c \in CPUs, Block(c)
  PROVE  IInv'
  <1>1. PICK t \in Tasks : t = current[c] /\ t \in Settled
    BY SchedAssumption DEF Block, Settled
  <1>2. /\ Stepped(c, "enter") /\ pc[c] = "run"
        /\ state'[t] = "blocked" /\ \A u \in Tasks : u # t => state'[u] = state[u]
        /\ UNCHANGED <<cpu_affinity, rq, zombie, held, cpuvars, migrations>>
    BY <1>1, Shapes DEF Block, IInv, Stepped, Go, bounds
  <1>3. QED
    BY <1>1, <1>2, Stopped DEF Stepped

\* A running task is in no queue: scheduler_terminate_task finds nothing to unlink.
LEMMA ExitStep ==
  ASSUME IInv, TypeInv', NEW c \in CPUs, Exit(c)
  PROVE  IInv'
  <1>1. PICK t \in Tasks : t = current[c] /\ pc[c] = "run"
    BY DEF Exit
  <1>2. assigned_cpu[t] \in CPUs /\ rq \in [CPUs -> Seq(Tasks)]
    BY Shapes DEF IInv, DataOK
  <1>3. t \notin InQueue(rq[assigned_cpu[t]])
    BY <1>1, <1>2 DEF IInv, PlaceInv, RunInv, Busy
  <1>4. Remove(rq[assigned_cpu[t]], t) = rq[assigned_cpu[t]]
    BY <1>3 DEF Remove
  <1>5. rq' = rq
    BY <1>1, <1>2, <1>4 DEF Exit
  <1>6. /\ Stepped(c, "enter") \/ Stepped(c, "undeque")
        /\ state'[t] = "terminated" /\ \A u \in Tasks : u # t => state'[u] = state[u]
        /\ UNCHANGED <<cpu_affinity, zombie, held, cpuvars, migrations>>
    BY <1>1, Shapes DEF Exit, IInv, Stepped, Go, bounds
  <1>7. QED
    BY <1>1, <1>5, <1>6, Stopped DEF Stepped

\* The section under rq_lock: p is taken from the queue, to which o, if it was
\* still running, has just gone back.
Picked(c, p, o) ==
  /\ p \in Tasks \cup {Idle(c)} /\ o = current[c]
  /\ pc[c] \in {"pick", "lock"}
  /\ zombie[c] = None \/ (o \in Tasks => state[o] = "running")
  /\ StillRunning(c) <=> o \in Tasks /\ state[o] = "running"
  /\ StillRunning(c) => o \in Settled
  /\ \A d \in CPUs : Distinct(rq'[d]) /\ (d # c => rq'[d] = rq[d])
  /\ \A t \in Tasks : t \in InQueue(rq'[c]) <=>
       t # p /\ (t \in InQueue(rq[c]) \/ (StillRunning(c) /\ t = o))
  /\ p \in Tasks => p \in InQueue(rq[c]) \/ (StillRunning(c) /\ p = o)
  /\ \A t \in Tasks : state'[t] = IF t = p THEN "running"
                                  ELSE IF StillRunning(c) /\ t = o THEN "ready" ELSE state[t]

\* Dispatch, described by what it does to the places of two tasks.
LEMMA PickedFacts ==
  ASSUME IInv, NEW c \in CPUs, AtPick(c), Dispatch(c), NEW p, NEW o,
         p = pick_next_task(c), o = current[c]
  PROVE  Picked(c, p, o)
  <1>1. /\ pc[c] \in {"pick", "lock"}
        /\ zombie[c] = None \/ (o \in Tasks => state[o] = "running")
    BY DEF AtPick, IInv, DeadInv
  <1>2. StillRunning(c) <=> o \in Tasks /\ state[o] = "running"
    BY DEF StillRunning
  <1>3. StillRunning(c) => o \in Settled
    BY <1>1, <1>2 DEF IInv, RunInv, Busy
  <1>4. /\ rq \in [CPUs -> Seq(Tasks)] /\ \A d \in CPUs : Distinct(rq[d])
        /\ InQueue(rq[c]) \subseteq Tasks
    BY Shapes DEF IInv, PlaceInv
  <1>5. /\ Queue(c) \in Seq(Tasks) /\ Distinct(Queue(c))
        /\ InQueue(Queue(c)) = IF StillRunning(c) THEN InQueue(rq[c]) \cup {o} ELSE InQueue(rq[c])
    <2>1. CASE StillRunning(c)
      <3>1. o \in Tasks /\ o \notin InQueue(rq[c])
        BY <1>2, <2>1 DEF IInv, PlaceInv
      <3>2. Queue(c) = Insert(rq[c], o, Priority)
        BY <2>1 DEF Queue
      <3>3. QED
        BY <1>4, <2>1, <3>1, <3>2, InsertNew
    <2>2. CASE ~ StillRunning(c)
      BY <1>4, <2>2 DEF Queue
    <2>3. QED
      BY <2>1, <2>2
  <1>6. /\ \A d \in CPUs : d # c => rq'[d] = rq[d]
        /\ rq'[c] = IF Queue(c) = <<>> THEN <<>> ELSE Tail(Queue(c))
    BY <1>4 DEF Dispatch, Dequeue
  <1>7. CASE Queue(c) = <<>>
    <2>1. InQueue(<<>>) = {} /\ Distinct(<<>>)
      BY DEF InQueue, Distinct
    <2>2. p = Idle(c)
      BY <1>7 DEF pick_next_task
    <2>3. InQueue(rq[c]) = {} /\ ~ StillRunning(c) /\ rq'[c] = <<>>
      BY <1>5, <1>6, <1>7, <2>1
    <2>4. \A t \in Tasks : state'[t] = state[t] /\ t # p
      BY <2>2, <2>3, CpuFacts DEF Dispatch
    <2>5. QED
      BY <1>1, <1>2, <1>4, <1>6, <2>1, <2>2, <2>3, <2>4, CpuFacts DEF Picked
  <1>8. CASE Queue(c) # <<>>
    <2>1. p = Head(Queue(c)) /\ rq'[c] = Tail(Queue(c))
      BY <1>6, <1>8 DEF pick_next_task
    <2>2. /\ p \in Tasks /\ p \in InQueue(Queue(c)) /\ Distinct(rq'[c])
          /\ InQueue(rq'[c]) = InQueue(Queue(c)) \ {p}
      BY <1>5, <1>8, <2>1, TailFacts
    <2>3. \A t \in Tasks : state'[t] = IF t = p THEN "running"
                                       ELSE IF StillRunning(c) /\ t = o THEN "ready" ELSE state[t]
      BY DEF Dispatch
    <2>4. p \in InQueue(rq[c]) \/ (StillRunning(c) /\ p = o)
      BY <1>5, <2>2
    <2>5. \A t \in Tasks : t \in InQueue(rq'[c]) <=>
            t # p /\ (t \in InQueue(rq[c]) \/ (StillRunning(c) /\ t = o))
      BY <1>5, <2>2
    <2>6. \A d \in CPUs : Distinct(rq'[d]) /\ (d # c => rq'[d] = rq[d])
      BY <1>4, <1>6, <2>2
    <2>7. QED
      BY <1>1, <1>2, <1>3, <2>2, <2>3, <2>4, <2>5, <2>6 DEF Picked
  <1>9. QED
    BY <1>7, <1>8

\* Every task the section touches was READY in this queue, or RUNNING here.
LEMMA PickedPlace ==
  ASSUME IInv, TypeInv', NEW c \in CPUs, NEW p, NEW o, Picked(c, p, o),
         UNCHANGED lost, NEW x \in Threads, HandsMoved(c, x)
  PROVE  PlaceInv'
  <1> USE DEF Picked, HandsMoved
  <1>1. \A d \in CPUs : InQueue(rq[d]) \subseteq Tasks /\ Distinct(rq[d])
    BY Shapes DEF IInv, PlaceInv
  <1>2. \A d \in CPUs : InQueue(rq'[d]) \subseteq Tasks
    <2>1. DataOK'
      BY SplitNext DEF TypeInv
    <2>2. \A q \in Seq(Tasks) : \A i \in 1 .. Len(q) : q[i] \in Tasks
      BY ElementOfSeq
    <2>3. QED
      BY SMTT(30), <2>1, <2>2 DEF DataOK, InQueue
  <1>3. \A d \in CPUs, t \in Tasks : Carries(d, t)' => Carries(d, t) \/ Keeps(x, t)
    OBVIOUS
  <1>4. \A d \in CPUs, t \in Tasks : t \in InQueue(rq'[d]) =>
          /\ t # p
          /\ t \in InQueue(rq[d]) \/ (d = c /\ StillRunning(c) /\ t = o)
    BY DEF IInv, PlaceInv
  <1>5. /\ \A d \in CPUs : StillRunning(c) => o \notin InQueue(rq[d]) /\ ~ Carries(d, o)
        /\ \A y \in Threads : StillRunning(c) => ~ Keeps(y, o)
        /\ \A d \in CPUs : p \in Tasks => ~ Carries(d, p)
        /\ \A y \in Threads : p \in Tasks => ~ Keeps(y, p)
        /\ p \in Tasks => p \notin lost
        /\ StillRunning(c) => o \notin lost
    BY DEF IInv, PlaceInv
  <1>6. \A d, e \in CPUs : \A t \in InQueue(rq'[d]) : t \in InQueue(rq'[e]) => d = e
    BY <1>2, <1>4, <1>5 DEF IInv, PlaceInv
  <1>7. \A y \in Threads, t \in Tasks : Keeps(y, t)' => Keeps(y, t) \/ Carries(c, t)
    OBVIOUS
  <1>8. \A d, e \in CPUs : \A t \in InQueue(rq'[d]) : state'[t] = "ready" /\ ~ Carries(e, t)'
    BY <1>2, <1>3, <1>4, <1>5 DEF IInv, PlaceInv
  <1>9. \A d, e \in CPUs : \A t \in Tasks : Carries(d, t)' =>
          state'[t] = "ready" /\ (Carries(e, t)' => d = e)
    BY <1>3, <1>5 DEF IInv, PlaceInv
  <1>10. \A y, z \in Threads : \A t \in Tasks : Keeps(y, t)' =>
           state'[t] = "ready" /\ (Keeps(z, t)' => y = z)
    BY <1>5, <1>7 DEF IInv, PlaceInv
  <1>11. \A d \in CPUs, y \in Threads : \A t \in Tasks : Keeps(y, t)' =>
           t \notin InQueue(rq'[d]) /\ ~ Carries(d, t)'
    BY <1>4, <1>5, <1>7 DEF IInv, PlaceInv
  <1>12. \A t \in Tasks : state'[t] = "ready" =>
           \/ \E d \in CPUs : t \in InQueue(rq'[d]) \/ Carries(d, t)'
           \/ \E y \in Threads : Keeps(y, t)'
           \/ t \in lost
    BY DEF IInv, PlaceInv
  <1>13. \A t \in lost :
           /\ state'[t] = "ready" /\ \A d \in CPUs : t \notin InQueue(rq'[d]) /\ ~ Carries(d, t)'
           /\ \A y \in Threads : ~ Keeps(y, t)'
    BY <1>3, <1>4, <1>5, <1>7, Shapes DEF IInv, PlaceInv
  <1>14. QED
    BY <1>6, <1>8, <1>9, <1>10, <1>11, <1>12, <1>13 DEF PlaceInv

\* schedule() goes on with the task it came from.
LEMMA PickReturnsStep ==
  ASSUME Confined, IInv, TypeInv', NEW c \in CPUs, PickReturns(c)
  PROVE  IInv'
  <1>1. PICK p \in Threads : p = pick_next_task(c) /\ p = current[c]
    BY Shapes DEF PickReturns, IInv
  <1>2. Picked(c, p, p)
    BY <1>1, PickedFacts DEF PickReturns
  <1>3. stack[c] = p
    BY <1>1, <1>2 DEF IInv, StackInv, Picked
  <1>4. /\ Stepped(c, frame[p].pc) /\ reg'[c] = frame[p].reg
        /\ frame'[p] = NoFrame /\ \A y \in Threads : y # p => frame'[y] = frame[y]
        /\ UNCHANGED <<cpu_affinity, zombie, lost, cpuvars, migrations>>
    BY <1>3, Shapes DEF PickReturns, Resume, IInv, Stepped, Go, bounds, cpuvars
  <1> USE DEF cpuvars
  <1>5. PlaceInv'
    <2>1. HandsMoved(c, p)
      BY <1>2, <1>4 DEF HandsMoved, Carries, Keeps, Stepped, Picked, NoFrame
    <2>2. QED
      BY <1>1, <1>2, <1>4, <2>1, PickedPlace
  <1>6. StackInv' /\ \A d \in CPUs, u \in Tasks : On(d, u)' <=> On(d, u)
    <2>1. pc'[c] # "switch" /\ pc[c] # "switch"
      BY <1>1, <1>2, <1>4 DEF IInv, FrameInv, Picked, Stepped
    <2>2. QED
      BY <1>4, <2>1, StackKept DEF IInv, Stepped
  <1>7. /\ \A t \in Tasks : t # p => state'[t] = state[t]
        /\ p \in Tasks => state'[p] = "running" /\ state[p] \in {"ready", "running"}
    BY <1>2 DEF Picked, IInv, PlaceInv
  <1>8. p \in Tasks => p \in Settled
    BY <1>1, <1>2, <1>7 DEF Picked, IInv, RunInv, Busy
  <1>9. \A d \in CPUs : p \in Tasks /\ On(d, p) => d = c
    BY <1>1 DEF IInv, RunInv, On
  <1>10. RunInv'
    BY <1>1, <1>2, <1>4, <1>6, <1>7, <1>8, <1>9 DEF IInv, RunInv, Stepped, Busy, On, Picked
  <1>11. /\ \A d \in CPUs, u \in Tasks : Dead(d, u)' <=> Dead(d, u) \/ (d = c /\ Buried(p, u))
         /\ \A y \in Threads, u \in Tasks : Buried(y, u)' <=> Buried(y, u) /\ y # p
    BY <1>2, <1>4 DEF Dead, Buried, Stepped, Picked, NoFrame
  <1>12. DeadInv'
    <2>1. \A u \in Tasks : state[u] = "terminated" => state'[u] = "terminated"
      BY <1>7
    <2>2. \A d \in CPUs : pc'[d] = "switch" <=> pc[d] = "switch"
      <3>1. pc'[c] # "switch" /\ pc[c] # "switch"
        BY <1>2, <1>4 DEF IInv, FrameInv, Picked, Stepped
      <3>2. QED
        BY <1>4, <3>1 DEF Stepped
    <2>3. \A d \in CPUs : pc'[d] \in {"destroy", "pick"} => zombie[d] = None
                               \/ (current[d] \in Tasks => state'[current[d]] = "running")
      BY <1>1, <1>4, <1>7 DEF IInv, DeadInv, Stepped
    <2>4. pc'[c] = "destroy" => zombie[c] # reg'[c].task
      <3> SUFFICES ASSUME frame[p].pc = "destroy" PROVE zombie[c] # frame[p].reg.task
        BY <1>4 DEF Stepped
      <3>1. PICK u \in Tasks : u = frame[p].reg.task
        BY <1>2 DEF IInv, TypeInv, RegInv, WithTask
      <3>2. ~ Dead(c, u)
        BY <1>2, <3>1 DEF IInv, DeadInv, Buried
      <3>3. QED
        BY <3>1, <3>2 DEF Dead
    <2>5. \A d \in CPUs : pc'[d] = "destroy" => zombie[d] # reg'[d].task
      BY <1>4, <2>4 DEF IInv, DeadInv, Stepped
    <2>6. QED
      BY <1>4, <1>11, <2>1, <2>2, <2>3, <2>5 DEF IInv, DeadInv
  <1>13. \A d \in CPUs, t \in Tasks : t \in InQueue(rq'[d]) => t \in InQueue(rq[d])
    BY <1>2 DEF Picked
  <1>14. HomeInv'
    BY <1>1, <1>2, <1>4, <1>6, <1>7, <1>13, SettledFacts DEF IInv, HomeInv, Stepped, Picked, NoFrame
  <1>15. PinInv'
    <2>1. p \in Tasks => c = Home(p) /\ cpu_affinity[p] = Home(p)
      BY <1>1, <1>7, <1>8 DEF IInv, HomeInv, On
    <2>2. QED
      BY <1>1, <1>4, <1>7, <1>9, <1>13, <2>1 DEF IInv, PinInv, On
  <1>16. FrameInv'
    BY <1>4, <1>7 DEF IInv, FrameInv, NoFrame
  <1>17. QED
    BY <1>5, <1>6, <1>10, <1>12, <1>14, <1>15, <1>16 DEF IInv

\* schedule() chooses another task: it is loaded nowhere else, since a task that
\* comes back to a queue while a CPU is still on its stack does so at home.
LEMMA PickSwitchesStep ==
  ASSUME Confined, IInv, TypeInv', NEW c \in CPUs, PickSwitches(c)
  PROVE  IInv'
  <1>1. PICK p, o : p = pick_next_task(c) /\ o = current[c] /\ p # o
    BY DEF PickSwitches
  <1>2. Picked(c, p, o)
    BY <1>1, PickedFacts DEF PickSwitches
  <1>3. /\ Stepped(c, "switch") /\ UNCHANGED <<cpu_affinity, held, stack, saved_cpu, migrations>>
        /\ zombie'[c] = IF o \in Tasks /\ state[o] = "terminated" THEN o ELSE zombie[c]
        /\ current'[c] = p /\ from'[c] = o /\ preempt_disabled'[c] = 1
        /\ \A d \in CPUs : d # c => /\ zombie'[d] = zombie[d] /\ current'[d] = current[d]
                                    /\ from'[d] = from[d]
                                    /\ preempt_disabled'[d] = preempt_disabled[d]
    BY <1>1, <1>2, Shapes DEF PickSwitches, IInv, Stepped, Go, bounds, Picked
  <1>4. PlaceInv'
    <2>1. HandsMoved(c, Idle(c)) /\ Idle(c) \in Threads
      BY <1>2, <1>3, CpuFacts DEF HandsMoved, Carries, Keeps, Stepped, Picked, held, IInv, PlaceInv
    <2>2. QED
      BY <1>2, <1>3, <2>1, PickedPlace DEF held
  <1>5. StackInv'
    BY <1>1, <1>2, <1>3 DEF IInv, StackInv, Stepped, Picked
  <1>6. p \in Tasks => p \in InQueue(rq[c]) /\ state[p] = "ready" /\ state'[p] = "running"
    BY <1>1, <1>2 DEF Picked, IInv, PlaceInv
  <1>7. \A d \in CPUs : p \in Tasks => ~ On(d, p)
    <2> SUFFICES ASSUME NEW d \in CPUs, p \in Tasks, On(d, p) PROVE FALSE
      OBVIOUS
    <2>1. p \in Settled
      BY <1>6 DEF IInv, RunInv, On, Busy
    <2>2. d = c
      BY <1>6, <2>1 DEF IInv, HomeInv
    <2>3. QED
      BY <1>1, <1>2, <2>2 DEF On, Picked
  <1>8. \A d \in CPUs : o \in Tasks /\ On(d, o) => d = c
    BY <1>1 DEF IInv, RunInv, On
  <1>9. \A d \in CPUs, t \in Tasks :
          On(d, t)' <=> On(d, t) \/ (d = c /\ t = p)
    BY <1>1, <1>2, <1>3 DEF On, Stepped, Picked
  <1>10. /\ o \in Tasks => /\ state[o] # "free" /\ state'[o] # "free"
                           /\ o \notin Settled => state'[o] = "terminated"
                           /\ state'[o] # "running"
         /\ \A t \in Tasks : t # p /\ t # o => state'[t] = state[t]
    BY <1>1, <1>2 DEF IInv, RunInv, Busy, Picked
  <1>11. RunInv'
    <2>1. \A d, e \in CPUs : \A t \in Tasks : On(d, t)' /\ On(e, t)' => d = e
      BY <1>7, <1>9 DEF IInv, RunInv
    <2>2. \A d \in CPUs : \A t \in Tasks : current'[d] = t =>
            /\ state'[t] # "free"
            /\ pc'[d] \in Busy => state'[t] = "running"
            /\ pc'[d] \notin Busy /\ t \notin Settled => state'[t] = "terminated"
      <3> SUFFICES ASSUME NEW d \in CPUs, NEW t \in Tasks, current'[d] = t
                   PROVE  /\ state'[t] # "free"
                          /\ pc'[d] \in Busy => state'[t] = "running"
                          /\ pc'[d] \notin Busy /\ t \notin Settled => state'[t] = "terminated"
        OBVIOUS
      <3>1. CASE d = c
        BY <1>3, <1>6, <3>1 DEF Stepped, Busy
      <3>2. CASE d # c
        <4>1. current[d] = t /\ On(d, t) /\ pc'[d] = pc[d]
          BY <1>3, <3>2 DEF On, Stepped
        <4>2. t # p /\ t # o
          BY <1>7, <1>8, <3>2, <4>1
        <4>3. QED
          BY <1>10, <4>1, <4>2 DEF IInv, RunInv
      <3>3. QED
        BY <3>1, <3>2
    <2>3. \A d \in CPUs : \A t \in Tasks : pc'[d] = "switch" /\ from'[d] = t =>
            /\ state'[t] # "free"
            /\ t \notin Settled => state'[t] = "terminated"
      <3> SUFFICES ASSUME NEW d \in CPUs, NEW t \in Tasks, pc'[d] = "switch", from'[d] = t
                   PROVE  state'[t] # "free" /\ (t \notin Settled => state'[t] = "terminated")
        OBVIOUS
      <3>1. CASE d = c
        BY <1>3, <1>10, <3>1
      <3>2. CASE d # c
        <4>1. pc[d] = "switch" /\ from[d] = t /\ On(d, t)
          BY <1>3, <3>2 DEF On, Stepped
        <4>2. t # p /\ t # o
          BY <1>7, <1>8, <3>2, <4>1
        <4>3. QED
          BY <1>10, <4>1, <4>2 DEF IInv, RunInv
      <3>3. QED
        BY <3>1, <3>2
    <2>4. \A t \in Tasks : state'[t] = "running" => \E d \in CPUs : current'[d] = t
      <3> SUFFICES ASSUME NEW t \in Tasks, state'[t] = "running"
                   PROVE  \E d \in CPUs : current'[d] = t
        OBVIOUS
      <3>1. CASE t = p
        BY <1>3, <3>1
      <3>2. CASE t # p
        <4>1. t # o /\ state[t] = "running"
          BY <1>10, <3>2
        <4>2. PICK d \in CPUs : current[d] = t
          BY <4>1 DEF IInv, RunInv
        <4>3. QED
          BY <1>1, <1>3, <4>1, <4>2
      <3>3. QED
        BY <3>1, <3>2
    <2>5. QED
      BY <2>1, <2>2, <2>3, <2>4 DEF RunInv
  <1>12. \A d \in CPUs, t \in Tasks :
           Dead(d, t)' <=> Dead(d, t) \/ (d = c /\ t = o /\ state[o] = "terminated")
    BY <1>1, <1>2, <1>3, CpuFacts DEF Dead, Stepped, Picked
  <1>13. \A d \in CPUs, t \in Tasks : Dead(d, t) => t # o /\ t # p /\ state'[t] = "terminated"
    BY <1>1, <1>6, <1>10 DEF IInv, DeadInv
  <1>14. DeadInv'
    <2>4. \A x \in Threads, t \in Tasks : Buried(x, t)' <=> Buried(x, t)
      BY <1>3 DEF Buried, held
    <2>5. \A x \in Threads, t \in Tasks : Buried(x, t) => t # o /\ t # p /\ state'[t] = "terminated"
      BY <1>1, <1>6, <1>10 DEF IInv, DeadInv
    <2>6. \A x, y \in Threads : \A t \in Tasks : Buried(x, t)' =>
            state'[t] = "terminated" /\ (Buried(y, t)' => x = y)
      BY <2>4, <2>5 DEF IInv, DeadInv
    <2>7. \A x \in Threads, d \in CPUs : \A t \in Tasks : Buried(x, t)' =>
            ~ Dead(d, t)' /\ current'[d] # t /\ ~ (pc'[d] = "switch" /\ from'[d] = t)
      BY <1>3, <1>12, <2>4, <2>5 DEF IInv, DeadInv, Stepped
    <2>8. \A d \in CPUs : /\ pc'[d] \in {"destroy", "pick"} => zombie'[d] = None
                               \/ (current'[d] \in Tasks => state'[current'[d]] = "running")
                          /\ pc'[d] = "destroy" => zombie'[d] # reg'[d].task
      <3> SUFFICES ASSUME NEW d \in CPUs, d # c, pc[d] \in {"destroy", "pick"}
                   PROVE  /\ zombie[d] = None
                               \/ (current[d] \in Tasks => state'[current[d]] = "running")
                          /\ pc[d] = "destroy" => zombie[d] # reg[d].task
        BY <1>3 DEF Stepped
      <3>1. current[d] \in Tasks => current[d] # p /\ current[d] # o
        BY <1>7, <1>8 DEF On
      <3>2. QED
        BY <1>10, <3>1 DEF IInv, DeadInv
    <2> SUFFICES ASSUME NEW d \in CPUs, NEW e \in CPUs, NEW t \in Tasks, Dead(d, t)'
                 PROVE  /\ state'[t] = "terminated" /\ current'[e] # t
                        /\ pc'[e] = "switch" /\ from'[e] = t => d = e
                        /\ Dead(e, t)' => d = e
      BY <2>6, <2>7, <2>8 DEF DeadInv
    <2>1. CASE Dead(d, t)
      <3>1. t # o /\ t # p /\ state'[t] = "terminated"
        BY <1>13, <2>1
      <3>2. current[e] # t /\ (pc[e] = "switch" /\ from[e] = t => d = e) /\ (Dead(e, t) => d = e)
        BY <2>1 DEF IInv, DeadInv
      <3>3. QED
        BY <1>3, <1>12, <3>1, <3>2 DEF Stepped
    <2>2. CASE d = c /\ t = o /\ state[o] = "terminated"
      <3>1. state'[t] = "terminated" /\ ~ Dead(e, t)
        BY <1>1, <1>2, <1>13, <2>2 DEF Picked
      <3>2. e # c => current[e] # t /\ ~ (pc[e] = "switch" /\ from[e] = t)
        BY <1>8, <2>2 DEF On
      <3>3. QED
        BY <1>1, <1>3, <1>12, <2>2, <3>1, <3>2 DEF Stepped
    <2>3. QED
      BY <1>12, <2>1, <2>2
  <1>15. HomeInv'
    <2>1. \A d \in CPUs, t \in Tasks : t \in InQueue(rq'[d]) => t \in InQueue(rq[d]) \/ On(d, t)
      BY <1>1, <1>2 DEF Picked, On
    <2>2. \A t \in Tasks : state'[t] = "free" <=> state[t] = "free"
      BY <1>6, <1>10
    <2>3. \A t \in Tasks : t \notin Settled /\ state[t] \in {"terminated", "free"}
            => state'[t] \in {"terminated", "free"}
      BY <1>6, <1>10
    <2>4. \A t \in Settled : \A d \in CPUs : t \in InQueue(rq'[d]) \/ On(d, t)' => d = Home(t)
      BY <1>6, <1>9, <2>1, SettledFacts DEF IInv, HomeInv
    <2>5. \A t \in Settled : state'[t] # "free" => cpu_affinity[t] = Home(t)
      BY <2>2, SettledFacts DEF IInv, HomeInv
    <2>6. QED
      BY <1>2, <1>3, <2>3, <2>4, <2>5 DEF IInv, HomeInv, Stepped, Picked, held
  <1>16. PinInv'
    <2> SUFFICES ASSUME migrations = 0, NEW d \in CPUs, NEW t \in Tasks, cpu_affinity[t] # Any,
                        t \in InQueue(rq'[d]) \/ (current'[d] = t /\ state'[t] = "running")
                 PROVE  d = cpu_affinity[t]
      BY <1>3 DEF PinInv
    <2>1. t \in InQueue(rq[d]) \/ (current[d] = t /\ state[t] = "running")
      <3>1. CASE t \in InQueue(rq'[d])
        BY <1>1, <1>2, <3>1 DEF Picked
      <3>2. CASE current'[d] = t /\ state'[t] = "running" /\ d = c
        BY <1>3, <1>6, <3>2
      <3>3. CASE current'[d] = t /\ state'[t] = "running" /\ d # c
        <4>1. current[d] = t /\ On(d, t)
          BY <1>3, <3>3 DEF On
        <4>2. t # p /\ t # o
          BY <1>7, <1>8, <3>3, <4>1
        <4>3. QED
          BY <1>10, <3>3, <4>1, <4>2
      <3>4. QED
        BY <3>1, <3>2, <3>3
    <2>2. QED
      BY <2>1 DEF IInv, PinInv
  <1>17. FrameInv'
    <2>1. \A t \in Tasks : /\ state[t] # "free" => state'[t] # "free"
                           /\ state[t] = "terminated" => state'[t] = "terminated"
      BY <1>2, <1>6 DEF Picked
    <2>2. QED
      BY <1>3, <2>1, FramesKept DEF IInv, held
  <1>18. QED
    BY <1>4, <1>5, <1>11, <1>14, <1>15, <1>16, <1>17 DEF IInv

\* switch_to: the context that is loaded clears the flag of the CPU it is on.
LEMMA SwitchToStep ==
  ASSUME Confined, IInv, TypeInv', NEW c \in CPUs, SwitchTo(c)
  PROVE  IInv'
  <1>1. PICK x, o : x = current[c] /\ o = from[c] /\ pc[c] = "switch" /\ x # o
    BY DEF SwitchTo, IInv, StackInv
  <1>2. x \in Tasks \cup {Idle(c)} /\ o \in Tasks \cup {Idle(c)} /\ x \in Threads /\ o \in Threads
    BY <1>1, CpuFacts DEF IInv, StackInv
  <1>3. saved_cpu[x] \in {Any, c}
    BY <1>1, <1>2 DEF IInv, HomeInv, RunInv, On, Busy
  <1>4. /\ Stepped(c, frame[x].pc) /\ reg'[c] = frame[x].reg
        /\ frame'[x] = NoFrame /\ \A y \in Threads : y # x => frame'[y] = frame[y]
        /\ UNCHANGED <<taskvars, rq, zombie, lost, current, migrations>>
        /\ saved_cpu'[o] = c /\ \A y \in Threads : y # o => saved_cpu'[y] = saved_cpu[y]
        /\ stack'[c] = x /\ from'[c] = x /\ preempt_disabled'[c] = 0
        /\ \A d \in CPUs : d # c => /\ stack'[d] = stack[d] /\ from'[d] = from[d]
                                    /\ preempt_disabled'[d] = preempt_disabled[d]
    BY <1>1, <1>2, <1>3, Shapes DEF SwitchTo, Resume, IInv, Stepped, Go, bounds
  <1> USE DEF taskvars
  <1>5. PlaceInv'
    <2>1. HandsMoved(c, x)
      BY <1>1, <1>2, <1>4 DEF HandsMoved, Carries, Keeps, Stepped, NoFrame
    <2>2. QED
      BY <1>2, <1>4, <2>1, PlaceKept DEF IInv
  <1>a. pc'[c] # "switch" /\ (x \in Tasks => state[x] = "running")
    BY <1>1, <1>2, <1>4 DEF IInv, FrameInv, RunInv, Busy, Stepped
  <1>b. x \in Tasks /\ pc'[c] \notin Busy => x \in Settled
    BY <1>2, <1>4, <1>a DEF IInv, FrameInv, Busy, Stepped
  <1>6. StackInv'
    BY <1>1, <1>2, <1>4, <1>a DEF IInv, StackInv, Stepped
  <1>7. \A d \in CPUs, t \in Tasks : On(d, t)' => On(d, t)
    BY <1>1, <1>4, <1>a DEF On, Stepped
  <1>8. RunInv'
    BY <1>1, <1>4, <1>7, <1>a, <1>b DEF IInv, RunInv, Stepped, Busy
  <1>9. /\ \A d \in CPUs, u \in Tasks : Dead(d, u)' <=> Dead(d, u) \/ (d = c /\ Buried(x, u))
        /\ \A y \in Threads, u \in Tasks : Buried(y, u)' <=> Buried(y, u) /\ y # x
    BY <1>1, <1>2, <1>4 DEF Dead, Buried, Stepped, NoFrame
  <1>10. DeadInv'
    <2>1. \A d \in CPUs, t \in Tasks :
            pc'[d] = "switch" /\ from'[d] = t => pc[d] = "switch" /\ from[d] = t
      BY <1>4, <1>a DEF Stepped
    <2>2. \A d \in CPUs : pc'[d] \in {"destroy", "pick"} => zombie[d] = None
                               \/ (current[d] \in Tasks => state[current[d]] = "running")
      BY <1>1, <1>4, <1>a DEF IInv, DeadInv, Stepped
    <2>3. pc'[c] = "destroy" => zombie[c] # reg'[c].task
      <3> SUFFICES ASSUME frame[x].pc = "destroy" PROVE zombie[c] # frame[x].reg.task
        BY <1>4 DEF Stepped
      <3>1. PICK u \in Tasks : u = frame[x].reg.task
        BY <1>2 DEF IInv, TypeInv, RegInv, WithTask
      <3>2. ~ Dead(c, u)
        BY <1>2, <3>1 DEF IInv, DeadInv, Buried
      <3>3. QED
        BY <3>1, <3>2 DEF Dead
    <2>4. \A d \in CPUs : pc'[d] = "destroy" => zombie[d] # reg'[d].task
      BY <1>4, <2>3 DEF IInv, DeadInv, Stepped
    <2>5. QED
      <3>1. \A d, e \in CPUs : \A t \in Tasks : Dead(d, t)' =>
              /\ state[t] = "terminated" /\ current[e] # t
              /\ pc'[e] = "switch" /\ from'[e] = t => d = e
              /\ Dead(e, t)' => d = e
        BY <1>2, <1>9, <2>1 DEF IInv, DeadInv
      <3>2. \A y, z \in Threads : \A t \in Tasks : Buried(y, t)' =>
              state[t] = "terminated" /\ (Buried(z, t)' => y = z)
        BY <1>9 DEF IInv, DeadInv
      <3>3. \A y \in Threads, d \in CPUs : \A t \in Tasks : Buried(y, t)' =>
              ~ Dead(d, t)' /\ current[d] # t /\ ~ (pc'[d] = "switch" /\ from'[d] = t)
        BY <1>2, <1>9, <2>1 DEF IInv, DeadInv
      <3>4. QED
        BY <1>4, <2>2, <2>4, <3>1, <3>2, <3>3 DEF DeadInv
  <1>11. HomeInv'
    <2>1. o \in Tasks => \/ o \in Settled /\ c = Home(o)
                         \/ o \notin Settled /\ state[o] = "terminated"
      BY <1>1 DEF IInv, HomeInv, RunInv, On
    <2>2. \A t \in Tasks : \/ saved_cpu'[t] = Any
                           \/ t \in Settled /\ saved_cpu'[t] = Home(t)
                           \/ t \notin Settled /\ state[t] \in {"terminated", "free"}
      BY <1>4, <2>1, CpuFacts DEF IInv, HomeInv
    <2>3. \A d \in CPUs : saved_cpu'[Idle(d)] \in {Any, d}
      BY <1>2, <1>4, CpuFacts DEF IInv, HomeInv
    <2>4. QED
      BY <1>1, <1>2, <1>4, <1>7, <2>2, <2>3, SettledFacts DEF IInv, HomeInv, Stepped, NoFrame
  <1>12. PinInv'
    BY <1>4 DEF IInv, PinInv
  <1>13. FrameInv'
    <2>1. stack[c] = o /\ c # Any
      BY <1>1, CpuFacts DEF IInv, StackInv
    <2>2. QED
      BY <1>2, <1>4, <2>1 DEF IInv, FrameInv, NoFrame
  <1>14. QED
    BY <1>5, <1>6, <1>8, <1>10, <1>11, <1>12, <1>13 DEF IInv

\* Every step of a Confined instance keeps the invariant.
LEMMA SafeNext ==
  ASSUME Confined
  PROVE  IInv /\ [Next]_vars => IInv'
  <1> SUFFICES ASSUME IInv, [Next]_vars PROVE IInv'
    OBVIOUS
  <1>1. TypeInv'
    BY TypeNext DEF IInv
  <1>2. CASE UNCHANGED vars
    <2> USE <1>2 DEF vars, taskvars, held, cpuvars, bounds
    <2>1. PlaceInv' /\ StackInv' /\ RunInv' /\ DeadInv'
      BY DEF IInv, PlaceInv, Carries, Keeps, StackInv, RunInv, On, DeadInv, Dead, Buried
    <2>2. HomeInv' /\ PinInv' /\ FrameInv'
      BY DEF IInv, HomeInv, On, PinInv, FrameInv
    <2>3. QED
      BY <1>1, <2>1, <2>2 DEF IInv
  <1>3. ASSUME NEW c \in CPUs, ScheduleStep(c) PROVE IInv'
    BY <1>1, <1>3, QuietSteps, ValidateStep, AdoptStep, TakeZombieStep, DestroyZombieStep,
       PickReturnsStep, PickSwitchesStep, SwitchToStep DEF ScheduleStep
  <1>4. ASSUME NEW c \in CPUs, CallStep(c) PROVE IInv'
    BY <1>1, <1>4, QuietSteps, AddTaskStep, FinishMigrateStep DEF CallStep
  <1>5. ASSUME NEW c \in CPUs, Request(c) PROVE IInv'
    BY <1>1, <1>5, InterruptStep, QuietSteps, BlockStep, ExitStep, CreateStep, WakeStep DEF Request
  <1>6. QED
    BY <1>2, <1>3, <1>4, <1>5 DEF Next

\* The inductive invariant, of every Confined instance of the scheduler.
THEOREM Invariance ==
  ASSUME Confined
  PROVE  Spec => []IInv
  BY SafeInit, SafeNext, PTL DEF Spec

\* PlaceInv and RunInv, counted.
LEMMA OnePlace == TypeInv /\ PlaceInv /\ RunInv => TaskInOnePlace
  <1> SUFFICES ASSUME TypeInv, PlaceInv, RunInv, NEW t \in Tasks
               PROVE  /\ Cardinality(Positions(t)) + Cardinality(Carriers(t))
                             + Cardinality(Keepers(t))
                           = IF state[t] = "ready" /\ t \notin lost THEN 1 ELSE 0
                      /\ state[t] = "running" => Cardinality({c \in CPUs : current[c] = t}) = 1
    BY DEF TaskInOnePlace
  <1>1. /\ Cardinality({}) = 0
        /\ \A S, x : (x \in S /\ \A y \in S : y = x) => Cardinality(S) = 1
    <2>1. \A S, x : (x \in S /\ \A y \in S : y = x) => S = {x}
      OBVIOUS
    <2>2. QED
      BY <2>1, FS_EmptySet, FS_Singleton
  <1>2. \A x : x \in Positions(t) <=>
          \E c \in CPUs : \E i \in 1 .. Len(rq[c]) : x = <<c, i>> /\ rq[c][i] = t
    BY DEF Positions
  <1>3. \A c \in CPUs : t \in InQueue(rq[c]) <=> \E i \in 1 .. Len(rq[c]) : rq[c][i] = t
    BY DEF InQueue
  <1>4. \A c \in CPUs : c \in Carriers(t) <=> Carries(c, t)
    BY DEF Carriers, Carries
  <1>a. \A x \in Threads : x \in Keepers(t) <=> Keeps(x, t)
    BY DEF Keepers, Loot, Keeps
  <1>5. \A c \in CPUs : \A i, j \in 1 .. Len(rq[c]) : rq[c][i] = t /\ rq[c][j] = t => i = j
    BY DEF PlaceInv, Distinct
  <1>6. CASE \E c \in CPUs : t \in InQueue(rq[c])
    <2>1. PICK c \in CPUs : t \in InQueue(rq[c])
      BY <1>6
    <2>2. PICK i \in 1 .. Len(rq[c]) : rq[c][i] = t
      BY <1>3, <2>1
    <2>3. \A d \in CPUs : t \in InQueue(rq[d]) => d = c
      BY <2>1 DEF PlaceInv
    <2>4. \A x \in Positions(t) : x = <<c, i>>
      BY <1>2, <1>3, <1>5, <2>2, <2>3
    <2>5. <<c, i>> \in Positions(t)
      BY <1>2, <2>2
    <2>6. Carriers(t) = {} /\ Keepers(t) = {} /\ state[t] = "ready" /\ t \notin lost
      <3>1. \A d \in CPUs : ~ Carries(d, t)
        BY <2>1 DEF PlaceInv
      <3>2. Carriers(t) = {}
        BY <1>4, <3>1 DEF Carriers
      <3>3. Keepers(t) = {}
        BY <1>a, <2>1 DEF PlaceInv, Keepers
      <3>4. QED
        BY <2>1, <3>2, <3>3 DEF PlaceInv
    <2>7. Cardinality(Positions(t)) = 1 /\ Cardinality(Carriers(t)) = 0 /\ Cardinality(Keepers(t)) = 0
      BY <1>1, <2>4, <2>5, <2>6
    <2>8. QED
      BY <2>6, <2>7
  <1>7. CASE \A c \in CPUs : t \notin InQueue(rq[c])
    <2>1. Positions(t) = {}
      BY <1>2, <1>3, <1>7
    <2>2. CASE \E c \in CPUs : Carries(c, t)
      <3>1. PICK c \in CPUs : Carries(c, t)
        BY <2>2
      <3>2. c \in Carriers(t) /\ \A d \in Carriers(t) : d = c
        BY <1>4, <3>1 DEF PlaceInv, Carriers
      <3>3. state[t] = "ready" /\ t \notin lost /\ Keepers(t) = {}
        BY <1>a, <3>1 DEF PlaceInv, Keepers
      <3>4. Cardinality(Carriers(t)) = 1 /\ Cardinality(Keepers(t)) = 0
        BY <1>1, <3>2, <3>3
      <3>5. Cardinality(Positions(t)) = 0
        BY <1>1, <2>1
      <3>6. QED
        BY <3>3, <3>4, <3>5
    <2>4. CASE (\A c \in CPUs : ~ Carries(c, t)) /\ \E x \in Threads : Keeps(x, t)
      <3>1. PICK x \in Threads : Keeps(x, t)
        BY <2>4
      <3>2. x \in Keepers(t) /\ \A y \in Keepers(t) : y = x
        BY <1>a, <3>1 DEF PlaceInv, Keepers
      <3>3. state[t] = "ready" /\ t \notin lost /\ Carriers(t) = {}
        BY <1>4, <2>4, <3>1 DEF PlaceInv, Carriers
      <3>4. Cardinality(Keepers(t)) = 1 /\ Cardinality(Carriers(t)) = 0 /\ Cardinality(Positions(t)) = 0
        BY <1>1, <2>1, <3>2, <3>3
      <3>5. QED
        BY <3>3, <3>4
    <2>3. CASE (\A c \in CPUs : ~ Carries(c, t)) /\ \A x \in Threads : ~ Keeps(x, t)
      <3>1. Carriers(t) = {} /\ Keepers(t) = {}
        BY <1>4, <1>a, <2>3 DEF Carriers, Keepers
      <3>2. ~ (state[t] = "ready" /\ t \notin lost)
        BY <1>7, <2>3 DEF PlaceInv
      <3>3. Cardinality(Carriers(t)) = 0 /\ Cardinality(Positions(t)) = 0 /\ Cardinality(Keepers(t)) = 0
        BY <1>1, <2>1, <3>1
      <3>4. ASSUME state[t] = "running" PROVE Cardinality({c \in CPUs : current[c] = t}) = 1
        <4>1. PICK c \in CPUs : current[c] = t
          BY <3>4 DEF RunInv
        <4>2. \A d \in CPUs : current[d] = t => d = c
          BY <4>1 DEF RunInv, On
        <4>3. c \in {d \in CPUs : current[d] = t}
          BY <4>1
        <4>4. QED
          BY <1>1, <4>2, <4>3
      <3>5. QED
        BY <3>2, <3>3, <3>4
    <2>5. QED
      BY <2>2, <2>3, <2>4
  <1>8. QED
    BY <1>6, <1>7

\* The bound Followed turns no switch away: an interrupted thread comes back to the
\* CPU it was interrupted on.
AllFollowed == \A c \in CPUs : pc[c] = "switch" => Followed(c, current[c])

\* schedule() goes on, after an interrupt, on the CPU its this_cpu names: what the
\* model does not follow (a thread carried to another CPU with it) does not happen.
THEOREM InterruptedComesBack ==
  ASSUME Confined
  PROVE  Spec => []AllFollowed
  <1>1. IInv => AllFollowed
    <2> SUFFICES ASSUME IInv, NEW c \in CPUs, pc[c] = "switch",
                        frame[current[c]].pc \in InSchedule
                 PROVE  saved_cpu[current[c]] = c
      BY DEF AllFollowed, Followed
    <2>1. PICK x \in Threads : x = current[c] /\ x \in Tasks \cup {Idle(c)} /\ x # stack[c]
      BY Shapes DEF IInv, StackInv
    <2>2. \A d \in CPUs : stack[d] # x
      <3> SUFFICES ASSUME NEW d \in CPUs, stack[d] = x PROVE FALSE
        OBVIOUS
      <3>1. d # c
        BY <2>1
      <3>2. x \in Tasks => On(d, x) /\ On(c, x)
        BY <2>1 DEF IInv, StackInv, On
      <3>3. x = Idle(c) => Idle(d) = Idle(c)
        BY CpuFacts DEF IInv, StackInv
      <3>4. QED
        BY <2>1, <3>1, <3>2, <3>3, CpuFacts DEF IInv, RunInv
    <2>3. saved_cpu[x] # Any
      BY <2>1, <2>2 DEF IInv, FrameInv, InSchedule
    <2>4. x \in Tasks => saved_cpu[x] = c
      BY <2>1, <2>3 DEF IInv, HomeInv, RunInv, On, Busy
    <2>5. QED
      BY <2>1, <2>3, <2>4 DEF IInv, HomeInv
  <1>2. QED
    BY <1>1, Invariance, PTL

\* A READY task is in one run queue, once, or in the hands of one CPU or of one
\* interrupted thread, or was lost with the stack of its thief; no other task is in
\* a queue; a RUNNING task is current on one CPU.  So neither stealing nor migration,
\* wake-up or preemption, a tick in the steal phase included, runs a task twice, or
\* loses one but by destroying the thread that had it in hand.
THEOREM NoTaskLostOrTwice ==
  ASSUME Confined
  PROVE  Spec => []TaskInOnePlace
  <1>1. IInv => TaskInOnePlace
    BY OnePlace DEF IInv
  <1>2. QED
    BY <1>1, Invariance, PTL

\* switch_to never loads a thread another CPU is still on.
THEOREM StacksAreNotShared ==
  ASSUME Confined
  PROVE  Spec => []OneCpuPerStack
  <1>1. IInv => OneCpuPerStack
    <2> SUFFICES ASSUME IInv, NEW c \in CPUs, NEW d \in CPUs, stack[c] = stack[d] PROVE c = d
      BY DEF OneCpuPerStack
    <2>1. \A e \in CPUs : /\ stack[e] \in Tasks \cup {Idle(e)}
                          /\ stack[e] \in Tasks => On(e, stack[e])
      BY DEF IInv, StackInv, On
    <2>2. CASE stack[c] \in Tasks
      BY <2>1, <2>2 DEF IInv, RunInv
    <2>3. CASE stack[c] = Idle(c)
      <3>1. Idle(c) \notin Tasks /\ (Idle(c) = Idle(d) => c = d)
        BY CpuFacts
      <3>2. stack[d] \in Tasks \cup {Idle(d)}
        BY <2>1
      <3>3. QED
        BY <2>3, <3>1, <3>2
    <2>4. QED
      BY <2>1, <2>2, <2>3
  <1>2. QED
    BY <1>1, Invariance, PTL

\* switch_to is always reached on the stack of the thread it saves: whatever else a
\* tick may interrupt, no schedule() is nested in the window before it.
THEOREM SwitchFromOwnStack ==
  ASSUME Confined
  PROVE  Spec => []SwitchesFromOwnStack
  <1>1. IInv => SwitchesFromOwnStack
    BY DEF IInv, StackInv, SwitchesFromOwnStack, OnOwnStack
  <1>2. QED
    BY <1>1, Invariance, PTL

\* A CPU that has left schedule() has its own preempt_disabled cleared, whichever
\* thread it went on with.
THEOREM PreemptionComesBack ==
  ASSUME Confined
  PROVE  Spec => []PreemptionReenabled
  <1>1. IInv => PreemptionReenabled
    BY DEF IInv, StackInv, PreemptionReenabled
  <1>2. QED
    BY <1>1, Invariance, PTL

\* task_destroy is reached only when no CPU is on the stack it frees.
THEOREM FreedStackIsUnused ==
  ASSUME Confined
  PROVE  Spec => []StackOutlivesUse
  <1>1. IInv => StackOutlivesUse
    BY DEF IInv, StackInv, RunInv, StackOutlivesUse
  <1>2. QED
    BY <1>1, Invariance, PTL

\* Until the first migration a pinned task is queued and runs on its CPU only.
THEOREM PinnedAtHome ==
  ASSUME Confined
  PROVE  Spec => []PinnedStaysHome
  <1>1. IInv => PinnedStaysHome
    <2> SUFFICES ASSUME IInv, migrations = 0, NEW c \in CPUs, NEW t \in Tasks,
                        current[c] = t \/ t \in InQueue(rq[c]), cpu_affinity[t] # Any,
                        state[t] \in {"ready", "running"}
                 PROVE  c = cpu_affinity[t]
      BY DEF PinnedStaysHome
    <2>1. CASE t \in InQueue(rq[c]) \/ state[t] = "running"
      BY <2>1 DEF IInv, PinInv
    <2>2. CASE current[c] = t /\ state[t] = "ready"
      <3>1. t \in Settled
        BY <2>2 DEF IInv, RunInv
      <3>2. QED
        BY <2>2, <3>1 DEF IInv, HomeInv, On
    <2>3. QED
      BY <2>1, <2>2
  <1>2. QED
    BY <1>1, Invariance, PTL

=============================================================================
