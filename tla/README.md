# TLA+ models of the SLM-OS kernel core

SLM-OS is a small multi-core kernel (ARM64 and x86-64) that runs language models
and the components around them. This directory holds TLA+ specifications of the
parts of it where tasks and CPUs meet: message queues, shared buffers,
priority-inheriting mutexes, the scheduler, task sleep with the control RPC to the
Hailo accelerator, and the component runtime with its message router. TLC checks
them on small instances; TLAPS proves, for every size, the invariants of the message
queue and that it implements a FIFO per level, and the invariants of the shared buffers,
the PI mutexes, the scheduler (of pinned tasks and of tasks that run to completion), the
control RPC over task sleep, and the component runtime over the router.

Paths below are relative to `src/`. Each `.cfg` is run with
`tlc -config X.cfg <module>`, where `<module>` is the MC module of that name (for
`HailoControl.cfg`, `HailoControl` itself); `tlapm` on `OrderLemmas.tla` and on each
`*Proofs.tla` checks the proofs.
`PROJECT.json` lists components, runs, mutants, hazards, findings and theorems,
and maps every definition to the lines it models.

## 1. The system and its components

| Component | State | Operations | Meets others through |
|---|---|---|---|
| Message queue (`kernel/ipc/ipc.c`) | a ring per priority level, counters, two wait lists, `queue->lock` | send, receive (no wait, timed, for ever), destroy | blocks and wakes tasks: `block_on_queue`, `wake_one` call the scheduler |
| Shared buffer (`ipc.c`) | table of descriptors, reference counts, mapping lists, two locks | create, lookup, map, unmap, destroy | the page allocator reuses descriptor pages |
| PI mutex (`kernel/ipc/pi_mutex.c`) | owner, wait FIFO, guard; per task `pi_priority`, `effective_priority`, `pi_mutexes_held` | lock, trylock, unlock with hand-off | writes priorities the run queues are ordered by; repositions a queued owner |
| Run queue (`kernel/sched/sched.c`) | list by falling effective priority, per CPU, `rq_lock` | add, remove, reposition | |
| Scheduler (`sched.c`) | current task, zombie, `preempt_disabled` per CPU; state, affinity, CPU and generation per task | `schedule`, add, terminate, migrate, steal, tick | everything that blocks or wakes |
| Steal deque (`kernel/sched/steal_deque.c`) | ring of (task, generation) per CPU, its own lock | push, steal, remove | thieves on other CPUs |
| Task life cycle (`kernel/sched/task.c`) | slots of `task_table` | create, exit, destroy | zombie slot of the CPU it ended on |
| Context switch (`kernel/arch/*/context.S`) | the stack each CPU is on | `switch_to` | runs after `rq_lock` is dropped |
| Task sleep (`kernel/sched/task_sleep.c`) | one sleep queue, `TASK_FLAG_WAKEUP_PENDING` per task | sleep, wake early, wake the expired on every tick | any driver that waits; run queues |
| Hailo control RPC (`kernel/ai_accel/hailo/hailo_control.c`) | `control_lock`, the waiter slot, `control_msi_pending`, ISTATUS | send and receive one command, interrupt handler | PI mutex, task sleep, the firmware |
| Message router (`runtime/src/msg_router.rs`) | topics and wildcard subscriptions with a mailbox each, last received per component | subscribe, unsubscribe all, publish with or without wait, receive, acknowledge | components, telemetry; one spin lock, mailboxes without it |
| Component runtime (`kernel/src/component_runtime.c`, `runtime/src/component/`) | registry of named slots with a state, a task and cleanup context each | run, hot swap, task body, cleanup | registry lock, router, task exit |
| Telemetry feed (`kernel/src/tcp_telemetry_server.c`) | its subscription | start, stop, drain | the router |
| Deferred preemption, supervisor (`kernel/sched/`) | pending flags, heartbeats | | timer tick; not modelled |
| Memory (`kernel/mm/`) | page bitmap, buffer handles, page tables | | not modelled |
| VFS, inference, shell, Lua, network | | | not modelled; see section 9 |

What is hard here is not the single function but the gaps between them: a lock
dropped before the work is finished, a value read on one CPU and used after the
task moved to another, a wake-up that reaches a task which cannot use it, a slot
or a page that is recycled while someone still holds its address. The list is
under `hazards` in `PROJECT.json`.

What makes each part correct:

* message queue: messages come out once, in order per level; no receiver sleeps
  past a message; LOW is not starved; waits end; no free under a waiter;
* shared buffer: the count is the mappings; the table names live buffers; nothing
  leaks; no free under a mapping;
* PI mutex: exclusion and hand-off; a holder is never below what its waiters lent;
  nothing is left once all is released; waiters get the mutex;
* task sleep: a sleeper is linked once and comes back once; a wake-up is neither lost nor
  used twice;
* control RPC: a call gets its own answer or none, the interrupt finds who waits, every
  call ends;
* router and components: tables agree; a message reaches who subscribed and stays until it
  is acknowledged; no registry entry or subscription is left without a task;
* scheduler: a ready task is in one place; a running one on one CPU; one CPU per
  stack; slots and stacks outlive their use; a pinned task stays; preemption comes
  back after every switch.

## 2. Modules

| Module | Models |
|---|---|
| `MsgQueue` | one message queue, its senders, receivers and destroyer |
| `MsgQueueAbs` | what it promises: a bounded FIFO per level |
| `MCMsgQueue` | the refinement mapping |
| `MsgQueueProofs` | the proofs about `MsgQueue`, and that it implements `MsgQueueAbs` |
| `SharedBuffer`, `MCSharedBuffer`, `SharedBufferProofs` | shared buffers, their instance, their proofs |
| `OrderLemmas` | lemmas shared by the proofs: least and greatest elements, and what the list operations of `RunQueue` do to a list without repetitions |
| `RunQueue` | the list operations of `sched.c`, as operators |
| `PiMutex`, `MCPiMutex`, `PiMutexProofs` | PI mutexes over `RunQueue`, their instances, their proofs |
| `StealDeque` | the deque functions, as operators |
| `Sched`, `MCSched`, `SchedProofs` | the scheduler, over `RunQueue` and `StealDeque`; its instances, its proofs |
| `TaskSleep`, `TaskSleepProofs` | `task_sleep.c`, and what each of its steps preserves |
| `HailoControl`, `HailoProofs` | the control RPC, composed with `TaskSleep`; its proofs |
| `MsgRouter` | the publish/subscribe router |
| `Components`, `MCComponents` | registry, operator, component tasks and telemetry feed, composed with `MsgRouter` |
| `ComponentsProofs` | the proofs about `MsgRouter` and `Components` |

**Grain.** A section under one spin lock is one action. Where the code reads in
one section and writes in another, or touches a field outside the lock that
protects it, the read and the write are separate actions and the value is kept in
a variable in between (`reg`, `rqop`, `arg`, `from`). Statistics that nothing
reads, tracing, cache maintenance and printing are left out.

**MsgQueue.** `pc[t]` is the place of each task: before the lock (`send`, `recv`),
in the `yield()` of `block_on_queue` (`*_blocked`), made ready by `wake_one` but not
yet running (`*_woken`), or in destroy. A pass of the loop in `msg_send_priority` or
`msg_recv` is `SendRefused`, `SendBlocks`, `SendCompletes`, and the same for receive.
`AfterWake` and `PcAfterWake` are `wake_one`. A message is its number at its level, so
that order is visible; `passed` is a ghost counter of receives that passed a level
over. `CallSend` tries levels outside the range too (`Clamp`).

**SharedBuffer.** A descriptor is the page it lives in. `page` says whether it is
free, under construction, in the table, or about to be freed; `ptr[t]` is a pointer a
task keeps, which may be stale. `late` is a ghost: mappings made through a pointer to
a buffer that had left the table. `shared_buffer_destroy` looks at the owner without a lock
(`DestroyCalled`) and decides later under both (`DestroyDecides`, `DestroyRefused`). Using a pointer to a free page is not followed
further (what is there then is not a buffer).

**PiMutex.** Lockers go through `floor`, `raised` or `level`, `boost`, `repos` and `append` with
the guard held, each a step, since other CPUs write the same priorities. `raised` and `level` are
the `changed` of `try_boost_owner` before the comparison: whoever found the floor high enough and
the owner's effective priority too (`level`, no boost) goes on to `append` without repositioning
the owner. Unlocking is
one step under the guard, followed by the wake-up. The run queue has one operation in
progress at a time (`rqop`, the holder of `rq_lock`), which reads the base first, then the
inherited floor (`RqReadFloor`), then stores and places (`RqFinish`); lockers and
`task_set_priority` come between. Tasks take mutexes in increasing order; with no order the code can
deadlock as any mutex can. `offered[t]` is a ghost: the priority last lent on t's
behalf. Two more keep track of the run queue's order: `stirred` are the queued tasks whose
`effective_priority` was stored since they were placed (by a booster or by
`task_set_priority`, neither of which holds `rq_lock`), and `disturbed` says that a task was
placed while another one was stirred, so that the search for its place met a list that was
out of order. `task_set_priority`, which holds no lock either, is one step: the interleavings
followed are those of its stores with the lockers' steps. Deadlines and AI levels are not set, so the base is `task->priority`.

**Sched.** `pc[c]` says where CPU `c` is; `stack[c]` is the thread whose stack it is on,
which differs from `current[c]` between `task_set_current` and `switch_to`.
`saved_cpu[x]` is the `this_cpu` local in the saved context of `x`: after the switch,
`schedule()` clears the `preempt_disabled` of *that* CPU, while a new task's trampoline
asks for the CPU it is on (`Fresh`). The assertion on the stack pointer before
`switch_to` is `OnOwnStack`; a CPU that fails it panics and takes no more steps, and so
does one whose `pick_next_task` finds a terminated head.

A tick may interrupt a CPU at every point where no lock is held, in the steal phase and the
zombie section of `schedule()` and in the other calls too, unless `preempt_disabled` is set (the
IPI does not look at it). `CallSchedule` puts the place and the locals of the interrupted thread
into `frame` and starts a `schedule()` on top, which runs masked (`Unmasked`); when the thread is
next switched to, or keeps the CPU, it goes on there (`Resume`). A task that has marked itself
BLOCKED or TERMINATED can be interrupted as well, and one that is destroyed with a stolen task in
its frame puts that one into the ghost `lost`. (An exiting thread interrupted with a zombie in hand
takes the zombie's slot with it: a leaked slot, of which no property speaks.) Two bounds: `MaxTicks`
interrupts inside a call, and `Followed`: a thread interrupted inside `schedule()` is not followed to
another CPU, which never happens where the theorems hold (`InterruptedComesBack`). The builds with
`SECONDARY_PREEMPT` or `COOP_PREEMPT`, which defer preemption to another place, are not modelled. The policy's choice of CPU is
any CPU. Left out: the bound of `STEAL_DEQUE_CAPACITY` probes per victim, the eight
attempts of `scheduler_terminate_task` (`assigned_cpu` changes under a running task at most
once per migration in flight, so the re-check under the lock succeeds), the re-check of `TASK_READY` in `scheduler_add_task` (the caller has just set
it), `steal_deque_pop` (no caller).

**TaskSleep.** Lists are sets. Time is the set `due` of tasks whose deadline has passed;
`task_wake_sleepers` reads the clock (`ReadClock`), then collects under the lock what that
reading was late enough for, then wakes without the lock. `credit` is a ghost: wake-ups
that left the flag, less the sleeps it ended. The window between `TASK_BLOCKED` and
`schedule()` is `Sched`'s.

**HailoControl.** The caller's path is `mutex`, `status` (stale ISTATUS written back),
`pending` (flag cleared), `ring`, then the loop `check`, `poll`, `publish`, `slice`, and
`read`, `unlock`. The interrupt handler runs in parallel: it reads ISTATUS, writes it back,
sets the flag, looks for the waiter, wakes it. The firmware (external) takes a request,
writes the response while nobody may read it whole, and answers when it likes, or never.
Requests carry a number only in the model: on the wire there is the opcode, since the
sequence number is always 0. `Nap` is any other caller of `task_sleep_ms`, which is what a
late wake-up can disturb.

**MsgRouter.** A mailbox is a number; `owner` is the `component_idx` of its subscription.
`msg_router_ack` stores `READY_IDLE` and then `ack = 1`: two steps, with the router lock
held (`acking`) and publishers between them. `Clear` is `Mailbox::clear`: it waits for a writer and
after `CLEAR_WAIT_MS` takes the mailbox over; time is not counted, so a reset that meets a writer
may always take over. The writer then stores into a slot that was reset, or a second one joins it;
the ghost `taken` holds these mailboxes until they are reset with no such writer about. A publisher gathers (`Gather`), then per target
claims, writes and waits. Ghosts: `stale`, the targets reset since they were gathered, and
in a message, that it came through such a target; `acked`, `gone`, `crowded`, what became of
the message a publisher waits for.

**Components.** Every registry call and every router call is a step of its own. One operator
runs `component_run` and `component_hot_swap`; a built-in component is a listener that may
give up at any time (its 30 s are over). Two ghosts: `outlived`, the indexes whose task was still
alive when the slot was unregistered; and `orphaned`, those that `component_hot_swap` subscribed for
after their task had unsubscribed or ended, until they are unsubscribed again. The telemetry feed
is started and stopped in two steps, subscription and listener; a start whose listener fails
unsubscribes again.

## 3. Runs that pass

| Run | Instance | Shows |
|---|---|---|
| `MsgQueueSafety` | 3 tasks, 2 levels of 2 slots, threshold 1, 3 sends, destruction | `RingsHoldWhatIsUnread`, `WaitListsAreTheBlocked`, `NoLostRecvWakeup`, `LowLevelNotStarved`; `ImplementsFifos`: the queue implements `MsgQueueAbs` |
| `MsgQueueLive` | 3 tasks, 1 level of 1 slot, 3 sends, fair | `BoundedWaitsReturn`, `MessageMeetsReceiver` |
| `PiMutexSafety` | 3 tasks of priority 0, 1, 2; 2 mutexes; 2 lock calls each; ticks for two of the tasks; one `task_set_priority` | `MutualExclusion`, `OwnerAndWaitersAgree`, `HeldCountExact`, `FloorCoversWaiters`, `QueuedOwnerNotOvertaken`, `HandOffToWaiter` |
| `PiMutexLive` | the same without ticks, fair | `WaiterGetsMutex` |
| `SchedSafety` | 2 CPUs, stealing, 2 creations in 2 slots, 1 migration, 1 tick inside a call; t1 pinned, yields and blocks; t2 pinned or not, runs to completion | `TaskInOnePlace`, `OneCpuPerStack`, `SwitchesFromOwnStack`, `PreemptionReenabled`, `StackOutlivesUse`, `PinnedStaysHome` |
| `SharedBufferSafety` | 2 tasks, 3 pages, table of 2, 3 ids, symmetric | `RefcountIsMappings`, `TableNamesLive`, `BusyProtectsMappings`, `DescriptorsAccountedFor` |
| `HailoControl` | 2 tasks, 2 RPCs of 2 slices, 1 ticking CPU, t1 sleeps for other reasons too, fair | `SleeperInOnePlace`, `EarlyEndIsPaid`, `AnswerIsOwn`, `WaiterHoldsLock`, `SignalFindsSleeper`, `CallsReturn` |
| `Components` | 2 components, 2 slots, 2 tasks, 2 commands, 2 publishers with 3 publications, 1 topic slot of 2 mailboxes, 1 wildcard slot, symmetric | `TablesAgree`, `RoutedToSubscriber`, `LandedUntilAcked`, `EntriesCarried` |

**Bounds.** `MaxSent` of 3 with rings of 2 slots fills, wraps and refills a level; a
threshold of 1 makes relief happen with two messages. Two mutexes and three priorities
give chains (an owner that waits for the other mutex) and a hand-off that leaves a
waiter behind. `PiMutexSafety` also
passes with ticks for all three tasks (7.3 million states). Two CPUs and two creations give a steal,
a recycled slot, and a tick between the theft and the thief's queue; `SchedSafety` also passes with three creations and no
migration (6.2 million states), where a slot is recycled while the other task is about, and with three, one
migration and no tick inside a call (1.0 million); `IndexMod` = 4 with a deque of 2 makes the indices wrap.
Three pages against a table of two makes the table full. Two RPCs of two slices give a call
that times out, its late answer in the next call, and a wake-up that reaches the caller
after it has returned; the safety invariants also hold with two ticking CPUs (1.1 million
states) and with two opcodes. Two commands give a start, a second start and a swap of a
component that is starting, running or ending; one topic slot makes the topic table full
and its slot change hands. `Components` also passes with two topic slots (598 thousand
states), and with three commands and one publisher (4.5 million), where the registry is
full. What more of each would add
is repetition of these cases; for the proved modules the theorems remove the bounds.

`SchedSafety` keeps unpinned tasks that run to completion and pinned tasks that yield.
An unpinned task that yields or blocks breaks three of its properties; those cases are
the runs of section 4, and together they delimit what the code guarantees.

`CHECK_DEADLOCK FALSE` is set everywhere: with the bounds used up, with every task
blocked, or with a CPU that panicked, the system may stop.

**Fairness.** `MsgQueue`: weak fairness of every started call of every task and of the
timer — tasks of one priority are requeued behind each other and timed waits yield, so
every ready task runs again, and time passes. (Dispatch is by strict priority: users of
different priority may starve each other, and the claim is not made for them.) Nobody is
obliged to call. `PiMutex`: weak fairness of
each running task's steps in `pi_mutex.c`, including that a holder releases, and of the
run queue. `HailoControl`: weak fairness of each started call and of the ticks, since deadlines pass
and a ready task is dispatched; strong fairness of taking `control_lock`, which `PiMutex`
hands to its waiters (`WaiterGetsMutex`); none of the firmware or of the handler: a call
ends without them. `Components` claims no liveness. In `PiMutex` no fairness is assumed of ticks: dispatch is by strict priority, so a
preempted low task may wait for ever, and the liveness run has no preemption.

**Mutants.** Every property of every passing run is violated by at least one mutant in
the module text, marked `Mutant:` — the definition above the real one, which makes the
change a slip in the C code would make.

## 4. Where the code and its documents disagree

Four runs expect a violation. Each states what a comment or a header says.

| Run | Property | What happens |
|---|---|---|
| `MsgQueueStranded` | `NoStrandedSender` | Two senders block on different levels. A receive makes room in one; the LIFO head, of the other level, is woken, finds its level full and blocks again. The first sender sleeps with room in its level (`ipc.c:350`, `:498`). |
| `SchedStealWindow` | `OneCpuPerStack` | Thief reads `preempt_disabled` = 0; victim enters `schedule()`, queues its current task and drops the lock; thief takes the task, loads its stale context and runs on a stack that is in use (`sched.c:1846-1849`). |
| `SchedMovedTask` | `PreemptionReenabled` | A task that blocked on one CPU is woken onto another and clears the flag of the first (`sched.c:2484-2486`). The second stays closed to ticks until a new task, or a context saved there, is next switched in on it or elsewhere. |
| `SchedReschedIpi` | `SwitchesFromOwnStack` | The IPI handler counts on a guard `schedule()` does not have (`platform_x86.c:59-61`); the nested `schedule()` meets the assertion on the wrong stack and panics. |

A fifth was found by the proof of `PiMutex`, and `PiMutexOvertaken.cfg` (on `MCPiMutex`, four
tasks) reproduces it in seconds: `OwnerNotOvertaken`, without the condition that
`QueuedOwnerNotOvertaken` has, is violated. "Move a queued task to the position its current
priority calls for" (`sched.c:1512`) is done by a comparison with the two neighbours
(`:1501`), which is right in a sorted queue. But `try_boost_owner` (`pi_mutex.c:107`) and
`task_set_priority` (`task.c:1034`) store the `effective_priority` of a queued task without
`rq_lock`. Between such a store and the repositioning, another task is inserted behind one of
lower priority that the raised one hides; the raised one is then moved ahead, and when the
inserted task, an owner, is next looked at, its neighbours are in order and it stays behind a
task of lower priority than its waiter. It gets to run when the tasks ahead of it block.

Two more are as quick to reproduce.

* `SchedLostLoot.cfg` (on `MCSched`): `StolenIsQueued`. `sched_try_steal` hands over a task that is
  in no queue: the "caller owns it and must add it to their own run queue" (`sched.c:1805-1806`).
  Between the victim's unlock (`:1892`) and the thief's lock (`:2256`) interrupts are on and
  `preempt_disabled` is 0. A thief that came to `schedule()` to block, or from `task_exit`, is not
  put back by the `schedule()` of a tick that arrives there: the stolen READY task stays in its
  frame until somebody wakes the thief, and is lost if the thief was ending, since its stack is
  freed. `TaskInOnePlace` allows exactly that (the hands of an interrupted thread, `lost`) and
  rules out every other way to lose a task or have it twice.
* `ComponentsSurvivor.cfg` (on `MCComponents`): `CleanupSparesOthers`. "a surviving task from an
  earlier component cannot fire a cleanup meant for a new component that reused the same registry
  slot" (`component_runtime.c:64-67`, and again at `:613-617`). The context of its own holds only the
  index. A task that outlives its registration, which a hot swap never stops, finds the state RUNNING
  of the component that has the slot now, unsubscribes it and unloads it. `EntriesCarried` leaves
  those indexes out (`outlived`).

Other places where code and comments differ, met while modelling, and what became of them:

* `ipc.h:175` "IPC_ERR_BUSY if tasks are waiting": a timed waiter is never on a wait list, a
  woken one has left it, and the free comes after the unlock, so a queue can go away under it.
* `pi_mutex.h:28-30` "never less": a raise of the owner's effective priority between the
  comparison and the store of `try_boost_owner` is lost, for a running owner until it is next
  queued. The inherited floor is not affected (`FloorCoversWaiters`).
* `hailo_control.c:133-136` says that the waiter re-checks `control_msi_pending` in the section
  that publishes it; the code (`:444-446`) does not. A signal in that window costs one slice,
  and `SignalFindsSleeper` says that it is the only window.
* `hailo_control.c:844-880` says that after the write-back a set flag is the answer to this
  RPC. A handler that had read ISTATUS before, or the late answer of a call that timed out,
  sets it too: `AnswerIsOwn` is for calls that begin with nothing under way.
* `component_runtime.c:916-918`: the saved topics are subscribed for the new component after
  `component_run` returned. If its task has ended by then and its cleanup has unsubscribed, the
  subscription stays in the table with nobody to drain it, until a later owner of the index
  unsubscribes. `EntriesCarried` says it of these indexes only (`orphaned`). A hot swap also drops
  wildcard subscriptions, and loses all of them if the new component fails to start.
* `docs/tutorials/component.md:173` ("the new message overwrites it (latest-wins semantics)") and
  the comment at `msg_router.rs:1049-1053` ("`Mailbox::deliver` already overwrites
  unconditionally") say that an unread message is overwritten. There is no `deliver` any more:
  `try_deliver` (`:209-217`) takes an idle mailbox only, so it is the new message that is dropped,
  by `nowait` at once, else after the wait. `LandedUntilAcked` states what the code does.
* `msg_router.rs:113-121`: on timeout a reset takes the mailbox over, "a stale or torn message in a
  slot being reset anyway is the lesser failure". The slot may be a new subscriber's by the time the
  message lands. `RoutedToSubscriber` and `LandedUntilAcked` leave such mailboxes out (`taken`), and
  say that the damage ends with their next reset.
* `msg_router.rs:811-817`: a mailbox gathered under the lock may be another subscriber's when it is
  filled ("contention window is narrow and acceptable"): `RoutedToSubscriber` counts such a message
  as stale.
* `msg_router.rs:904-910`: a publisher that shares a mailbox may take the acknowledgement of the
  message before for its own; `LandedUntilAcked` has the exact count only for a publisher that
  had the mailbox to itself.
* `registry.rs`: `count`, the "number of active components", is not reduced when a cleanup
  sets `UNLOADED`, which frees the slot.

## 5. What is proved

The proof modules hold for every value of the constants that satisfies the named
assumptions: `MsgQueueAssumption`, `SharedBufferAssumption`, `TaskSleepAssumption`,
`HailoAssumption` (finite sets, positive sizes), `PiMutexAssumption` (finitely many tasks and
mutexes, mutexes in an order, initial priorities in range), `RouterAssumption` and
`ComponentsAssumption` (table sizes are numbers, the marks for "free" are no names, the
telemetry feed's index is the one after the registry's), `SchedAssumption` (at least one CPU,
idle tasks are no slots of the table, affinities are CPUs or `Any`) and
`StealDequeAssumption` (the index type is a multiple of the capacity, at least two).

**MsgQueueProofs.** `Invariance` proves `Spec => []IInv` with

    IInv == TypeOK /\ RingsHoldWhatIsUnread /\ WaitListsAreTheBlocked
            /\ NoLostRecvWakeup /\ ReliefBound

`TypeCorrect`, `RingsCorrect`, `WaitListsCorrect`, `NoLostWakeup` and `LowServed` follow.
`ReliefBound` is the strengthening that starvation freedom needs: while LOW holds a
message, the number of times it was passed over is at most `high_prio_recv_count`, and
that counter never exceeds the threshold. `RingsHoldWhatIsUnread` is needed with the
rest because `RecvCompletes` picks a level by `total_count > 0`, and only
`total_count = |Occupied|` says that such a level exists (lemma `SelectedHoldsMessage`).
`NoLostRecvWakeup` needs that the head of a wait list is a blocked task and no one else
(`WaitListsAreTheBlocked`), so that a wake-up adds one to the woken. Lemmas: `Quiet` and
`ControlStep` for the steps that touch control only, `PushFront` and `PopFront` for wait
lists, `RingPush` and `RingPop` for a ring modulo its capacity, `OccupiedStep` for the sum.

`QueueIsFifos` proves the refinement `Spec => ImplementsFifos`. The mapping reads a level's
FIFO out of its ring, `count` slots from `tail`. By `RingsHoldWhatIsUnread` that sequence is a
`Window`: the consecutive numbers from the oldest unread to the newest sent. Sending
lengthens the window at its end (`SendMaps`, a `Put`), receiving shortens it at its front
(`RecvMaps`, a `Take`), everything else leaves it (`NextMaps`, a stutter), whatever the wrap of
the indices. `MsgQueueAbs` states no fairness, so nothing more is needed.

**SharedBufferProofs.** `Invariance` proves

    IInv == TypeOK /\ RefcountIsMappings /\ TableNamesLive
            /\ WorkIsOwn /\ IdsAreOld /\ OutsideIsLate

`WorkIsOwn`: a page that is new or dying is the work of exactly one call;
`IdsAreOld`: ids in the table are below `next_buffer_id`, so a new one is unique;
`OutsideIsLate`: a mapping on a page that is not live was made after the unlinking. From
it `TypeCorrect`, `RefcountExact`, `TableExact`, `BusyProtects` and `NoLeak`. `RefcountExact`
is what makes `refcount <= 1` mean that nobody has the buffer mapped.

**TaskSleepProofs** proves once that every step of `task_sleep.c` keeps

    SleepInv == SleepTypeOK /\ SleeperInOnePlace /\ EarlyEndIsPaid /\ ListsEmpty

(`SleepStepInv`), so that a module that composes `TaskSleep` with callers only shows that
its steps are such steps. `ListsEmpty`: a CPU's private list is empty until it collects,
so collecting overwrites nothing.

**HailoProofs** proves `Spec => []IInv` with

    IInv == TypeOK /\ SleepInv /\ InsideHolds /\ SliceLeft /\ WaiterKnown
            /\ WaiterHoldsLock /\ SignalOnItsWay /\ CleanCalls /\ AnswerIsOwn

`InsideHolds`: who is past the lock holds it, so at most one call is inside. `SliceLeft`
bounds `elapsed`. `SignalOnItsWay` is what `SignalFindsSleeper` needs of the intermediate
states: while the flag is set and a call is between its test of the flag and the end of
its slice, the handler missed it, is about to look, is about to wake it, or has woken it
(it is out of the sleep queue, or has the flag its `task_sleep_ms` returns on).
`CleanCalls` follows the one request of a call that began clean through doorbell, firmware
and response. The proof goes by who takes the step: `RpcPart`, `CallPart`, `HandlerPart`,
`FirmwarePart`, `SleepAlonePart`.

**PiMutexProofs** proves `InductiveInvariant`, `Spec => []IInv`, in three layers.

1. *Who is where.* `ControlInv`: a locker between `floor` and `append` runs, holds the guard of
   the mutex it wants, and that mutex has an owner; a task that left the wait queue owns what
   it wanted; a task that is to be woken has one waker. `QueueInv`: the run queue is the queued
   tasks, each once. `RqopInv`: what the holder of `rq_lock` has in hand. With these
   `MutualExclusion`, `OwnerAndWaitersAgree` and `HeldCountExact` are inductive, and
   `HandOffToWaiter` is a property of each step.
2. *The floors.* `LentFloor`: from the moment a locker has raised the owner's floor until it
   waits, the floor is not below what it offered, because the guard it holds keeps the owner
   from releasing. With the exact count, which drops a floor only with the last mutex, this gives
   `FloorCoversWaiters`; a hand-off looks at the waiters left behind (`FloorFrom`).
3. *The order of the run queue.* A re-queue reads the floor under `rq_lock` and uses it later,
   when it inserts, so the owner may be queued below its floor. `StaleFloorRepaired`: then a
   locker that has *raised* the floor (`raised`, `boost`, `repos`) has still to reposition it. One
   that found the floor high enough owes nothing: whoever raised it is before its reposition or
   the placement read the floor as it is now. That `changed` is true of a raise without a boost
   (the mutant `RaisesUnnoticed`) is what this rests on. `OrderInv`, while not `disturbed`:
   the tasks that are not `stirred` are in order (`InOrder`), and unless a locker is at work on
   it none is below its floor (`AtFloor`) or has an unstirred task of lower priority than its
   floor ahead (`AheadOfFloor`). The last two with `FloorCoversWaiters` give
   `QueuedOwnerNotOvertaken`. The attempt to prove it without `disturbed` is what led to the
   fifth item of section 4.

The lists are reasoned about through `OrderLemmas`: what `Insert`, removal and `Reposition` do
to membership, repetition and the relative order of two elements.

**ComponentsProofs** proves `InductiveInvariant` for the composition, `IInv == RouterInv /\ CompInv`.
`RouterKept` proves `RouterInv` of every call of the router by whomever (`RouterStep`), and
`NextIsRouterStep` that each step of `Components` is one such call at most; `CompKept` uses of the
router only who holds a subscription after a call. Three layers again:

1. *Tables.* `TablesAgree` is inductive with its types. The point is `msg_router_unsubscribe_all`:
   `sub_count` less the caller's mailboxes is zero exactly where no other subscriber is left, so a
   topic is reclaimed exactly when its last subscriber goes, and `topic_count` with it.
2. *Mailboxes.* `PublishersInv`: a target that was not reset since it was gathered still belongs to
   a subscriber of the topic, since every change of owner, name or pattern resets the mailbox
   (`SubscribeResets`, `UnsubscribeResets`). `WritersInv`: a mailbox being written has one writer,
   unless it was taken over (`taken`); a reset that finds no writer leaves none behind. `CountingInv`: once the message of a publisher that is alone was
   acknowledged, its mailbox is not full again before it leaves. They carry `RoutedToSubscriber`
   and `LandedUntilAcked` over the steps between gathering and acknowledgement.
3. *Registry.* `LocalsInv`: what the operator and the tasks remember is an index in range, and the
   state UPDATING is the doing of a hot swap under way. `EntryInv(i)`, for the slots no task
   outlived: `EntriesCarried`, and what its steps rely on in between: an exiting task finds
   TERMINATING or UPDATING, a task about to unload its slot holds no subscription, a slot between
   registration and task creation has neither task nor subscription, and one that a swap is about
   to unregister holds a subscription only if its task is there to be noted in `outlived`. Holding a
   subscription is meant of indexes that are not `orphaned`: `Resubscribe` adds to `orphaned` exactly
   where no task of the index has its unsubscription still before it.

**SchedProofs.** `TypeCorrect` holds of every instance. It needs `RegInv` (a control point with a
task in hand has one, a migration has two different CPUs) and the lemmas about the deques:
masked indices are slots, free-running ones stay in range, and what `steal_deque_steal` returns
is an entry, never a hole, whatever the capacity and wherever the indices wrap.

The six safety properties are proved of the instances that are

    Confined == ~ ReschedIpi /\ \A t \in Settled : \E h \in CPUs : Affinities[t] = {h}

where `Settled` are the slots whose tasks yield, are preempted or block. Each part is needed, and
where one is missing section 4 has the counterexample: with the IPI, `SchedReschedIpi`; with an
unpinned task that is preempted, `SchedStealWindow`; with an unpinned one that blocks, even without
stealing, `SchedMovedTask`. That a slot is pinned to the same CPU in all its lives is needed because
`sched_migrate_task` may act on what it read of an earlier life (`sched.c:1664`): on three CPUs,
with a task that blocks and a slot pinned to CPU 1 first and to CPU 0 next, a late migration takes the second
task to CPU 1, and `TaskInOnePlace` fails when it blocks there and is woken at home. Nothing is asked of tasks that run
to completion: they are stolen, migrated and placed anywhere, and their slots are reused pinned or
not. `SchedSafety` is such an instance. `Invariance` proves `Spec => []IInv` with

    IInv == TypeInv /\ PlaceInv /\ StackInv /\ FrameInv /\ RunInv /\ DeadInv
            /\ HomeInv /\ PinInv

* `PlaceInv`: queues have no repetitions and share no task, what is queued, carried by a CPU or
  kept in the frame of an interrupted thread (`Keeps`) is READY and in one of these places, and a
  READY task is in one or in `lost`. Counted, it is `TaskInOnePlace` (`OnePlace`).
* `StackInv`: outside the window before `switch_to` a CPU is on the stack of its current task and
  its flag is clear; in the window it is on that of `from`, and its flag is set.
* `FrameInv`: a thread below an interrupt was not in the switch window, which `preempt_disabled`
  closes. It is alive if it may come back (settled, or idle) and TERMINATED otherwise, and its
  context has been saved unless its CPU is still on its stack. With `HomeInv` this gives
  `InterruptedComesBack`: what goes on inside `schedule()` does so on the CPU its `this_cpu` names.
* `RunInv`: a task is *on* at most one CPU, where on is to be current or still loaded in the
  window. At the control points where the task's own code runs it is RUNNING; inside
  `schedule()` only a settled task is anything but TERMINATED.
* `DeadInv`: a zombie, or a task about to be destroyed, is TERMINATED, current nowhere, and still
  loaded at most on the CPU whose zombie it is, in the window, in which no zombie is taken. One
  that an interrupted thread was about to destroy (`Buried`) is nobody else's.
* `HomeInv`: a settled task is queued, current and loaded at its home only, and what its context
  says of `this_cpu` is home; that of a task that runs to completion is never loaded again.
* `PinInv`: `PinnedStaysHome` for the tasks that run to completion.

The step that matters is `PickSwitchesStep`: a task found READY in the queue of `c` while a CPU is
still on its stack must have yielded or blocked, so it is settled, so that CPU is `c` itself. The
steps that move one READY task go through `PlaceMoved` and `HandStep`, those that move none through
`QuietStep`, an interrupt (`InterruptStep`) and a return from one move what is in a CPU's hands to a
frame and back (`HandsMoved`, `PlaceKept`), and the choice under `rq_lock` is described once (`PickedFacts`).

## 6. What is only model-checked

Liveness (`BoundedWaitsReturn`, `MessageMeetsReceiver`, `WaiterGetsMutex`, `CallsReturn`):
fairness and ENABLED are outside the prover. Every safety property of a passing run is proved;
those of `Sched` under `Confined`, outside of which section 4 shows them to fail.

## 7. Plan

1. *done* — `MsgQueue`, `SharedBuffer`, `RunQueue`, `PiMutex`, `StealDeque`, `Sched`; the
   invariants of the first two proved.
2. *done* — `TaskSleep` and `HailoControl`, proved; `MsgRouter` and `Components`.
3. *done* — `PiMutexProofs`, `ComponentsProofs`, the refinement `ImplementsFifos`.
4. *done* — `SchedProofs`.
5. Beyond: kill by another task and `sched_set_task_affinity` in `Sched`; `Kbuf` and `Pmm`;
   the deferred-preemption trampoline and the CPU supervisor.

## 8. Abstract specifications

`MsgQueueAbs` is the only one so far. Worth stating next: a mutex as a set of waiters and
an owner (for `PiMutex`), and a scheduler as a partition of the tasks into running, ready
and blocked (for `Sched`).

## 9. Not modelled, and why

* Deadline boosts, AI levels and policies: they choose numbers the models take as given.
* Page tables, ELF loading, drivers, network, USB, GPU: data formats and hardware.
* Inference and model loading: numerical code.
* Shell, Lua and the telemetry sessions: parsing and output around the calls modelled here.
* Killing a task from another one, and what it leaves in run queues and in the sleep queue.
* The router's direct channels.
* The middle levels of the message queue, which starvation relief can pass over without
  bound: it shows only with an endless supply of messages at two levels.
* Weak memory and the non-coherent caches of the Raspberry Pi 5: every model assumes that
  locks and fences work as on a coherent machine.
