--------------------------------- MODULE Sched ---------------------------------
(***************************************************************************)
(* The per-CPU scheduler of kernel/sched/sched.c with the task life cycle  *)
(* of task.c, the steal deques of steal_deque.c and the context switch.    *)
(*                                                                         *)
(* Every CPU executes schedule(), a wake-up, a creation, an exit or a      *)
(* migration in steps that end where the code drops a lock.  What is       *)
(* followed beside the fields of struct task and struct cpu_runqueue is    *)
(* the stack each CPU is really on: schedule() changes current_task under  *)
(* rq_lock, but changes stacks in switch_to after the lock is gone.        *)
(*                                                                         *)
(* A tick may come wherever no lock is held, inside schedule() too, unless *)
(* preempt_disabled is set.  The schedule() it calls lies on the stack of  *)
(* the interrupted thread, which keeps what it was about to do, and what   *)
(* it had in hand, until it runs again.  Statistics, tracing, cache        *)
(* maintenance and the choice the active policy makes between CPUs are     *)
(* left out: any CPU may be chosen.                                        *)
(***************************************************************************)
EXTENDS Integers, Sequences, FiniteSets, RunQueue, StealDeque

CONSTANTS
  NumCpus,        \* cpu_count
  Tasks,          \* the slots of task_table
  Priority,       \* the effective priority of each task
  Affinities,     \* the values of cpu_affinity each task may be created with
  Yielders,       \* the tasks that yield, or are preempted while they run
  Blockers,       \* the tasks that block; what is in neither runs to its exit
  Stealing,       \* CONFIG_WORK_STEALING
  Isolated,       \* sched.isolated_cores
  ReschedIpi,     \* TRUE on x86-64, whose IPI handler calls schedule()
  MaxCreates,     \* bound on task creations
  MaxMigrations,  \* bound on the calls of sched_migrate_task
  MaxTicks        \* bound on the interrupts taken inside a call

CPUs == 0 .. NumCpus - 1
Any  == -1        \* CPU_AFFINITY_ANY
None == "none"

ASSUME SchedAssumption ==
  /\ NumCpus \in Nat \ {0}
  /\ IsFiniteSet(Tasks) /\ None \notin Tasks /\ \A c \in CPUs : <<"idle", c>> \notin Tasks
  /\ Priority \in [Tasks -> Nat]
  /\ Affinities \in [Tasks -> SUBSET (CPUs \cup {Any})]
  /\ Yielders \subseteq Tasks /\ Blockers \subseteq Tasks
  /\ Stealing \in BOOLEAN /\ ReschedIpi \in BOOLEAN
  /\ Isolated \subseteq CPUs
  /\ MaxCreates \in Nat /\ MaxMigrations \in Nat /\ MaxTicks \in Nat

VARIABLES
  state, cpu_affinity, assigned_cpu, generation,   \* of struct task
  rq,                 \* rq[c]: head .. tail of cpu_rq(c)
  zombie,             \* rq->zombie
  current,            \* current_task[c]
  preempt_disabled,
  deque,              \* cpu_steal_deques[c]
  pc,                 \* where the code CPU c executes is
  reg,                \* its local variables: a task, a CPU and a generation
  from,               \* `current' of the schedule() that is about to switch
  frame,              \* frame[x]: the place and locals of x below an interrupt
  stack,              \* stack[c]: the thread whose stack CPU c is on
  saved_cpu,          \* saved_cpu[x]: this_cpu in the context last saved for x
  lost,               \* auxiliary: READY tasks whose thief was destroyed
  creates, migrations, ticks

taskvars == <<state, cpu_affinity, assigned_cpu, generation>>
held     == <<frame, lost>>
cpuvars  == <<current, preempt_disabled, from, stack, saved_cpu>>
bounds   == <<creates, migrations, ticks>>
vars     == <<taskvars, rq, zombie, deque, pc, reg, held, cpuvars, bounds>>

Idle(c) == <<"idle", c>>
Threads == Tasks \cup {Idle(c) : c \in CPUs}
States  == {"free", "ready", "running", "blocked", "terminated"}

\* Of schedule(): enter, steal, probe, validate, adopt, lock, destroy, pick,
\* switch.  Of scheduler_add_task_to_cpu: add, push.  Of task_exit: undeque.
\* Of sched_migrate_task: migrate.
PCs == {"run", "enter", "steal", "probe", "validate", "adopt", "lock", "destroy",
        "pick", "switch", "add", "push", "undeque", "migrate"}

NoReg == [task |-> None, cpu |-> 0, gen |-> 0]

\* Of a thread that was not interrupted, or in its own code.
NoFrame == [pc |-> "run", reg |-> NoReg]

\* A context resumes in the schedule() that saved it, with the this_cpu it had,
\* or, new, in task_entry_trampoline, which asks for the CPU it is on.
\* Mutant: the trampoline clears the flag of CPU 0.
FreshOnCpuZero == 0

Fresh == Any

Entries == {Hole} \cup (Tasks \X Nat)
Regs    == [task : Tasks \cup {None}, cpu : CPUs, gen : Nat]

TypeOK ==
  /\ state \in [Tasks -> States]
  /\ cpu_affinity \in [Tasks -> CPUs \cup {Any}]
  /\ assigned_cpu \in [Tasks -> CPUs]
  /\ generation \in [Tasks -> Nat]
  /\ rq \in [CPUs -> Seq(Tasks)]
  /\ zombie \in [CPUs -> Tasks \cup {None}]
  /\ current \in [CPUs -> Threads] /\ from \in [CPUs -> Threads]
  /\ preempt_disabled \in [CPUs -> {0, 1}]
  /\ deque \in [CPUs -> [buf : [Slots -> Entries], top : Indices, bottom : Indices]]
  /\ pc \in [CPUs -> PCs]
  /\ reg \in [CPUs -> Regs]
  /\ frame \in [Threads -> [pc : PCs, reg : Regs]]
  /\ lost \subseteq Tasks
  /\ stack \in [CPUs -> Threads]
  /\ saved_cpu \in [Threads -> CPUs \cup {Any}]
  /\ creates \in 0 .. MaxCreates /\ migrations \in 0 .. MaxMigrations
  /\ ticks \in 0 .. MaxTicks

\* Every CPU has started its idle task and no other task exists.
Init ==
  /\ state = [t \in Tasks |-> "free"]
  /\ cpu_affinity = [t \in Tasks |-> Any]
  /\ assigned_cpu = [t \in Tasks |-> 0]
  /\ generation = [t \in Tasks |-> 0]
  /\ rq = [c \in CPUs |-> <<>>]
  /\ zombie = [c \in CPUs |-> None]
  /\ current = [c \in CPUs |-> Idle(c)] /\ from = current
  /\ preempt_disabled = [c \in CPUs |-> 0]
  /\ deque = [c \in CPUs |-> steal_deque_init]
  /\ pc = [c \in CPUs |-> "run"]
  /\ reg = [c \in CPUs |-> NoReg]
  /\ frame = [x \in Threads |-> NoFrame]
  /\ lost = {}
  /\ stack = current
  /\ saved_cpu = [x \in Threads |-> Fresh]
  /\ creates = 0 /\ migrations = 0 /\ ticks = 0

Go(c, where) == pc' = [pc EXCEPT ![c] = where]
Forget(c)    == reg' = [reg EXCEPT ![c] = NoReg]

\* Thread x goes on where it was interrupted, or in its own code.
Resume(c, x) ==
  /\ Go(c, frame[x].pc)
  /\ reg' = [reg EXCEPT ![c] = frame[x].reg]
  /\ frame' = [frame EXCEPT ![x] = NoFrame]

-----------------------------------------------------------------------------
(***************************************************************************)
(* schedule(): the work-stealing attempt, with no lock of this CPU held.   *)
(***************************************************************************)
\* yield(), or an interrupt whose handler calls schedule().
Preemptible(c) ==
  current[c] \in Tasks /\ state[current[c]] = "running" => current[c] \in Yielders

\* A tick is turned away by preempt_disabled; the handler of the RESCHED IPI looks
\* at nothing.
\* Mutant: the tick does not look at preempt_disabled.
LetsInAlways(c) == TRUE

LetsIn(c) == preempt_disabled[c] = 0 \/ ReschedIpi

\* A handler, and the schedule() it calls, run with interrupts masked.
Unmasked(c) == frame[stack[c]].pc = "run"

CallSchedule(c) ==
  /\ Preemptible(c) /\ Unmasked(c)
  /\ pc[c] = "run" \/ (LetsIn(c) /\ ticks < MaxTicks)
  /\ frame' = [frame EXCEPT ![stack[c]] = [pc |-> pc[c], reg |-> reg[c]]]
  /\ Go(c, "enter") /\ Forget(c)
  /\ ticks' = IF pc[c] = "run" THEN ticks ELSE ticks + 1
  /\ UNCHANGED <<taskvars, rq, zombie, deque, lost, cpuvars, creates, migrations>>

\* Mutant: the victim index does not wrap around.
NextCpuNoWrap(c) == c + 1

NextCpu(c) == (c + 1) % NumCpus

\* The unlocked look at rq->head.
Enter(c) ==
  /\ pc[c] = "enter"
  /\ IF Stealing /\ c \notin Isolated /\ rq[c] = <<>>
     THEN Go(c, "steal") /\ reg' = [reg EXCEPT ![c] = [NoReg EXCEPT !.cpu = NextCpu(c)]]
     ELSE Go(c, "lock") /\ Forget(c)
  /\ UNCHANGED <<taskvars, rq, zombie, deque, held, cpuvars, bounds>>

\* The next victim, unless it is in the middle of a context switch.
StealFrom(c) ==
  LET victim == reg[c].cpu IN
  /\ pc[c] = "steal"
  /\ IF victim = c THEN Go(c, "lock") /\ Forget(c)
     ELSE IF preempt_disabled[victim] = 1
     THEN reg' = [reg EXCEPT ![c].cpu = NextCpu(victim)] /\ UNCHANGED pc
     ELSE Go(c, "probe") /\ UNCHANGED reg
  /\ UNCHANGED <<taskvars, rq, zombie, deque, held, cpuvars, bounds>>

\* steal_deque_steal under steal_deque_lock[victim].  That a victim is given
\* up after STEAL_DEQUE_CAPACITY entries is left out.
Probe(c) ==
  LET victim == reg[c].cpu
      d      == deque[victim]
  IN
  /\ pc[c] = "probe"
  /\ deque' = [deque EXCEPT ![victim] = steal_deque_steal(d)]
  /\ IF Stealable(d)
     THEN /\ reg' = [reg EXCEPT ![c].task = StealEntry(d)[1], ![c].gen = StealEntry(d)[2]]
          /\ Go(c, "validate")
     ELSE /\ reg' = [reg EXCEPT ![c].cpu = NextCpu(victim)]
          /\ Go(c, "steal")
  /\ UNCHANGED <<taskvars, rq, zombie, held, cpuvars, bounds>>

\* The checks under rq_lock[victim].
MayTakeOver(t, victim, gen) ==
  /\ generation[t] = gen
  /\ state[t] = "ready"
  /\ assigned_cpu[t] = victim
  /\ cpu_affinity[t] = Any
  /\ t \in InQueue(rq[victim])

Validate(c) ==
  LET t == reg[c].task  victim == reg[c].cpu  ok == MayTakeOver(t, victim, reg[c].gen) IN
  /\ pc[c] = "validate"
  /\ rq' = IF ok THEN [rq EXCEPT ![victim] = Remove(@, t)] ELSE rq
  /\ Go(c, IF ok THEN "adopt" ELSE "probe")
  /\ UNCHANGED <<taskvars, zombie, deque, reg, held, cpuvars, bounds>>

Adopt(c) ==
  LET t == reg[c].task IN
  /\ pc[c] = "adopt"
  /\ rq' = [rq EXCEPT ![c] = Insert(@, t, Priority)]
  /\ assigned_cpu' = [assigned_cpu EXCEPT ![t] = c]
  /\ Go(c, "lock") /\ Forget(c)
  /\ UNCHANGED <<state, cpu_affinity, generation, zombie, deque, held, cpuvars, bounds>>

-----------------------------------------------------------------------------
(***************************************************************************)
(* schedule(): the zombie, the choice under rq_lock, the switch.           *)
(***************************************************************************)
TakeZombie(c) ==
  /\ pc[c] = "lock" /\ zombie[c] # None
  /\ reg' = [reg EXCEPT ![c].task = zombie[c]]
  /\ zombie' = [zombie EXCEPT ![c] = None]
  /\ Go(c, "destroy")
  /\ UNCHANGED <<taskvars, rq, deque, held, cpuvars, bounds>>

\* The task in the hands of thread x, interrupted before it could queue it.
Loot(x) == {t \in Tasks : frame[x].pc \in {"add", "adopt"} /\ frame[x].reg.task = t}

\* task_destroy frees the slot and the stack of a TERMINATED task.
DestroyZombie(c) ==
  LET t == reg[c].task IN
  /\ pc[c] = "destroy"
  /\ IF state[t] = "terminated"
     THEN /\ state' = [state EXCEPT ![t] = "free"]
          /\ generation' = [generation EXCEPT ![t] = @ + 1]
          /\ frame' = [frame EXCEPT ![t] = NoFrame]
          /\ lost' = lost \cup Loot(t)
     ELSE UNCHANGED <<state, generation, frame, lost>>
  /\ Go(c, "pick") /\ Forget(c)
  /\ UNCHANGED <<cpu_affinity, assigned_cpu, rq, zombie, deque, cpuvars, bounds>>

\* A current task that still runs goes back to the queue before the choice.
StillRunning(c) == current[c] \in Tasks /\ state[current[c]] = "running"

Queue(c) == IF StillRunning(c) THEN Insert(rq[c], current[c], Priority) ELSE rq[c]

pick_next_task(c) == IF Queue(c) = <<>> THEN Idle(c) ELSE Head(Queue(c))

\* pick_next_task panics: the CPU takes no further step.
StaleHead(c) == rq[c] # <<>> /\ state[Head(rq[c])] \in {"terminated", "free"}

AtPick(c) == pc[c] = "pick" \/ (pc[c] = "lock" /\ zombie[c] = None)

Dequeue(c) ==
  rq' = [rq EXCEPT ![c] = IF Queue(c) = <<>> THEN <<>> ELSE Tail(Queue(c))]

\* What the section does to the tasks: the chosen one runs, the previous one,
\* if it was running, is ready on this CPU.
Dispatch(c) ==
  /\ state' = [t \in Tasks |-> IF t = pick_next_task(c) THEN "running"
                               ELSE IF StillRunning(c) /\ t = current[c] THEN "ready"
                               ELSE state[t]]
  /\ assigned_cpu' = IF StillRunning(c) THEN [assigned_cpu EXCEPT ![current[c]] = c]
                     ELSE assigned_cpu
  /\ Dequeue(c)

PickReturns(c) ==
  /\ AtPick(c) /\ ~ StaleHead(c) /\ pick_next_task(c) = current[c]
  /\ Dispatch(c)
  /\ Resume(c, stack[c])
  /\ UNCHANGED <<cpu_affinity, generation, zombie, deque, lost, cpuvars, bounds>>

PickSwitches(c) ==
  LET old == current[c] IN
  /\ AtPick(c) /\ ~ StaleHead(c) /\ pick_next_task(c) # old
  /\ Dispatch(c)
  /\ zombie' = [zombie EXCEPT ![c] = IF old \in Tasks /\ state[old] = "terminated"
                                     THEN old ELSE @]
  /\ current' = [current EXCEPT ![c] = pick_next_task(c)]
  /\ from' = [from EXCEPT ![c] = old]
  /\ preempt_disabled' = [preempt_disabled EXCEPT ![c] = 1]
  /\ Go(c, "switch")
  /\ UNCHANGED <<cpu_affinity, generation, deque, reg, held, stack, saved_cpu, bounds>>

\* The assertion on the stack pointer, whose failure panics; switch_to; and on
\* the other stack the end of schedule() or task_entry_trampoline, which clear
\* the preempt_disabled of the CPU they take themselves to be on.
OnOwnStack(c) == stack[c] = from[c]

\* Bound: a thread interrupted after the outer schedule() read this_cpu is not
\* followed on another CPU, where that schedule() would go on with this_cpu.
InSchedule == {"steal", "probe", "validate", "adopt", "lock", "destroy", "pick", "switch"}
Followed(c, x) == frame[x].pc \in InSchedule => saved_cpu[x] = c

SwitchTo(c) ==
  LET cpu == saved_cpu[current[c]] IN
  /\ pc[c] = "switch" /\ OnOwnStack(c) /\ Followed(c, current[c])
  /\ saved_cpu' = [saved_cpu EXCEPT ![from[c]] = c]
  /\ stack' = [stack EXCEPT ![c] = current[c]]
  /\ preempt_disabled' = [preempt_disabled EXCEPT ![IF cpu = Any THEN c ELSE cpu] = 0]
  /\ from' = [from EXCEPT ![c] = current[c]]
  /\ Resume(c, current[c])
  /\ UNCHANGED <<taskvars, rq, zombie, deque, lost, current, bounds>>

-----------------------------------------------------------------------------
(***************************************************************************)
(* What the code a CPU runs asks of the scheduler.                         *)
(***************************************************************************)
\* task_create_with_priority, followed by scheduler_add_task.
Create(c, t, a) ==
  /\ pc[c] = "run" /\ state[t] = "free" /\ creates < MaxCreates
  /\ state' = [state EXCEPT ![t] = "ready"]
  /\ cpu_affinity' = [cpu_affinity EXCEPT ![t] = a]
  /\ assigned_cpu' = [assigned_cpu EXCEPT ![t] = 0]
  /\ saved_cpu' = [saved_cpu EXCEPT ![t] = Fresh]
  /\ reg' = [reg EXCEPT ![c].task = t]
  /\ Go(c, "add")
  /\ creates' = creates + 1
  /\ UNCHANGED <<generation, rq, zombie, deque, held, current,
                 preempt_disabled, from, stack, migrations, ticks>>

\* The current task makes itself TASK_BLOCKED where another will find it, and
\* calls schedule().
Block(c) ==
  /\ pc[c] = "run" /\ current[c] \in Blockers
  /\ state' = [state EXCEPT ![current[c]] = "blocked"]
  /\ Go(c, "enter")
  /\ UNCHANGED <<cpu_affinity, assigned_cpu, generation, rq, zombie, deque, reg,
                 held, cpuvars, bounds>>

Wake(c, t) ==
  /\ pc[c] = "run" /\ state[t] = "blocked"
  /\ state' = [state EXCEPT ![t] = "ready"]
  /\ reg' = [reg EXCEPT ![c].task = t]
  /\ Go(c, "add")
  /\ UNCHANGED <<cpu_affinity, assigned_cpu, generation, rq, zombie, deque, held,
                 cpuvars, bounds>>

\* scheduler_add_task: the pinned CPU or the one the policy chooses.
\* Mutant: the policy is asked for pinned tasks too.
PlacementUnpinned(t) == CPUs

Placement(t) == IF cpu_affinity[t] # Any THEN {cpu_affinity[t]} ELSE CPUs

AddTask(c, target) ==
  LET t == reg[c].task IN
  /\ pc[c] = "add" /\ target \in Placement(t)
  /\ rq' = [rq EXCEPT ![target] = Insert(@, t, Priority)]
  /\ assigned_cpu' = [assigned_cpu EXCEPT ![t] = target]
  /\ reg' = [reg EXCEPT ![c].cpu = target]
  /\ Go(c, IF Stealing THEN "push" ELSE "run")
  /\ UNCHANGED <<state, cpu_affinity, generation, zombie, deque, held, cpuvars, bounds>>

PushTask(c) ==
  LET t == reg[c].task  target == reg[c].cpu IN
  /\ pc[c] = "push"
  /\ deque' = IF cpu_affinity[t] = Any
              THEN [deque EXCEPT ![target] = steal_deque_push(@, t, generation[t])]
              ELSE deque
  /\ Forget(c)
  /\ Go(c, "run")
  /\ UNCHANGED <<taskvars, rq, zombie, held, cpuvars, bounds>>

\* task_exit: scheduler_terminate_task on the CPU assigned_cpu names, then
\* schedule().
Exit(c) ==
  LET t == current[c] IN
  /\ pc[c] = "run" /\ t \in Tasks
  /\ state' = [state EXCEPT ![t] = "terminated"]
  /\ rq' = [rq EXCEPT ![assigned_cpu[t]] = Remove(@, t)]
  /\ reg' = [reg EXCEPT ![c] = [task |-> t, cpu |-> assigned_cpu[t], gen |-> 0]]
  /\ Go(c, IF Stealing THEN "undeque" ELSE "enter")
  /\ UNCHANGED <<cpu_affinity, assigned_cpu, generation, zombie, deque, held, cpuvars, bounds>>

Undeque(c) ==
  /\ pc[c] = "undeque"
  /\ deque' = [deque EXCEPT ![reg[c].cpu] = steal_deque_remove(@, reg[c].task)]
  /\ Go(c, "enter") /\ Forget(c)
  /\ UNCHANGED <<taskvars, rq, zombie, held, cpuvars, bounds>>

\* sched_migrate_task: the unlocked checks, then the move under both locks.
Migrate(c, t, target) ==
  /\ pc[c] = "run" /\ migrations < MaxMigrations
  /\ state[t] \notin {"running", "free"}
  /\ cpu_affinity[t] \in {Any, target}
  /\ assigned_cpu[t] # target
  /\ reg' = [reg EXCEPT ![c] = [task |-> t, cpu |-> target, gen |-> assigned_cpu[t]]]
  /\ Go(c, "migrate")
  /\ migrations' = migrations + 1
  /\ UNCHANGED <<taskvars, rq, zombie, deque, held, cpuvars, creates, ticks>>

\* The task is still in the queue it was read to be in; else a thief was faster
\* and only assigned_cpu changes.
\* Mutant: the result of remove_from_cpu_queue_locked is not looked at.
MovesUnchecked(t, old) == state[t] = "ready"

Moves(t, old) == state[t] = "ready" /\ t \in InQueue(rq[old])

FinishMigrate(c) ==
  LET t == reg[c].task  target == reg[c].cpu  old == reg[c].gen IN
  /\ pc[c] = "migrate"
  /\ rq' = IF Moves(t, old)
           THEN [rq EXCEPT ![old] = Remove(@, t), ![target] = Insert(@, t, Priority)]
           ELSE rq
  /\ assigned_cpu' = [assigned_cpu EXCEPT ![t] = target]
  /\ Forget(c)
  /\ Go(c, "run")
  /\ UNCHANGED <<state, cpu_affinity, generation, zombie, deque, held, cpuvars, bounds>>

-----------------------------------------------------------------------------
ScheduleStep(c) == Enter(c) \/ StealFrom(c) \/ Probe(c) \/ Validate(c) \/ Adopt(c)
                   \/ TakeZombie(c) \/ DestroyZombie(c) \/ PickReturns(c)
                   \/ PickSwitches(c) \/ SwitchTo(c)

CallStep(c) == (\E target \in CPUs : AddTask(c, target)) \/ PushTask(c) \/ Undeque(c)
               \/ FinishMigrate(c)

Request(c) ==
  \/ CallSchedule(c) \/ Block(c) \/ Exit(c)
  \/ \E t \in Tasks : \/ \E a \in Affinities[t] : Create(c, t, a)
                      \/ Wake(c, t)
                      \/ \E target \in CPUs : Migrate(c, t, target)

Next == \E c \in CPUs : ScheduleStep(c) \/ CallStep(c) \/ Request(c)

Spec == Init /\ [][Next]_vars

-----------------------------------------------------------------------------
(***************************************************************************)
(* Properties.                                                             *)
(***************************************************************************)
\* A READY task is in exactly one run queue, once, or in the hands of one CPU that
\* is about to put it there (a waker, a creator or a thief), or in those of one
\* thread that was interrupted there; a task that is not READY is in none, and a
\* RUNNING one is the current task of one CPU.  A lost task, a task in two queues
\* and a terminated task at the head of a queue, on which pick_next_task panics,
\* all break it.  What it allows, a task that is stranded with an interrupted thief
\* or lost with it, is StolenIsQueued's.
Positions(t) == UNION {{<<c, i>> : i \in {k \in 1 .. Len(rq[c]) : rq[c][k] = t}} : c \in CPUs}
Carriers(t)  == {c \in CPUs : pc[c] \in {"add", "adopt"} /\ reg[c].task = t}
Keepers(t)   == {x \in Threads : t \in Loot(x)}

TaskInOnePlace ==
  \A t \in Tasks :
    /\ Cardinality(Positions(t)) + Cardinality(Carriers(t)) + Cardinality(Keepers(t))
         = IF state[t] = "ready" /\ t \notin lost THEN 1 ELSE 0
    /\ state[t] = "running" => Cardinality({c \in CPUs : current[c] = t}) = 1

\* What sched_try_steal asks of its caller: it "owns it and must add it to their own
\* run queue".  A thief that is preempted before it has done so, in the schedule() of
\* a task that blocks or ends, does not: it comes back to its loot when it is woken,
\* or is made a zombie and its stack freed.  (Not so; SchedLostLoot.cfg.)
StolenIsQueued ==
  lost = {} /\ \A x \in Tasks : Loot(x) # {} => state[x] \in {"running", "ready"}

\* No two CPUs execute on one stack: switch_to never loads the context of a
\* thread that another CPU has yet to save.
OneCpuPerStack == \A c, d \in CPUs : stack[c] = stack[d] => c = d

\* switch_to(old, new) is reached on old's stack, never by a schedule() nested
\* in the window between task_set_current and switch_to: "a nested call while
\* schedule() is already in flight no-ops safely".
SwitchesFromOwnStack == \A c \in CPUs : pc[c] = "switch" => OnOwnStack(c)

\* A CPU that has left schedule() can be preempted again.
PreemptionReenabled == \A c \in CPUs : pc[c] = "run" => preempt_disabled[c] = 0

\* The stack and the slot of a task are not freed while a CPU is on that stack.
StackOutlivesUse == \A c \in CPUs : stack[c] \in Tasks => state[stack[c]] # "free"

\* A pinned task is dispatched on its CPU only, even if its slot was, in an
\* earlier life, an unpinned task with entries left in a steal deque.  (Until
\* sched_migrate_task is called: its look at cpu_affinity, before the locks, can
\* be of an earlier life of the slot, and it does not compare generations.)
PinnedStaysHome == migrations = 0 =>
  \A c \in CPUs : \A t \in Tasks :
    (current[c] = t \/ t \in InQueue(rq[c])) /\ cpu_affinity[t] # Any
      /\ state[t] \in {"ready", "running"} => c = cpu_affinity[t]
=============================================================================
