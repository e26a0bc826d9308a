------------------------------- MODULE TaskSleep -------------------------------
(***************************************************************************)
(* The scheduler-blocking sleep of kernel/sched/task_sleep.c: the global   *)
(* sleep queue, the ticks that empty it and the early wake-up.             *)
(*                                                                         *)
(* Time is abstracted to which deadlines have passed.  task_wake_sleepers  *)
(* reads the clock before it takes sleep_queue_lock; what it will find     *)
(* expired is what had passed at that reading, and a deadline computed     *)
(* later lies after it.  The lists are sets: all of what has expired is    *)
(* woken, in no order that matters.  Of the scheduler there is left which  *)
(* woken tasks wait in a run queue.                                        *)
(***************************************************************************)
EXTENDS Integers, FiniteSets

CONSTANTS
  Tasks,     \* the tasks that sleep
  Tickers    \* the CPUs whose scheduler_tick calls task_wake_sleepers

ASSUME TaskSleepAssumption == IsFiniteSet(Tasks) /\ IsFiniteSet(Tickers)

VARIABLES
  state,            \* task->state
  sleep_queue,      \* the tasks linked from sleep_queue_head
  wakeup_pending,   \* the tasks with TASK_FLAG_WAKEUP_PENDING
  call,             \* where each task is in task_sleep_ms
  due,              \* the tasks whose wake_time_ns has passed
  seen,             \* seen[c]: what c's reading of the clock was late enough for
  to_wake,          \* to_wake[c]: the private list of task_wake_sleepers on c
  tick,             \* where c is in task_wake_sleepers
  queued,           \* queued[t]: how often t is in a run queue
  credit            \* history: the wake-ups of t that have not ended a sleep

sleepvars == <<state, sleep_queue, wakeup_pending, call, due, seen, to_wake, tick,
               queued, credit>>

SleepTypeOK ==
  /\ state \in [Tasks -> {"running", "ready", "blocked"}]
  /\ sleep_queue \subseteq Tasks /\ wakeup_pending \subseteq Tasks /\ due \subseteq Tasks
  /\ call \in [Tasks -> {"none", "enter", "asleep"}]
  /\ seen \in [Tickers -> SUBSET Tasks] /\ to_wake \in [Tickers -> SUBSET Tasks]
  /\ tick \in [Tickers -> {"idle", "collect", "wake"}]
  /\ queued \in [Tasks -> Nat]
  /\ credit \in [Tasks -> Int]

SleepInit ==
  /\ state = [t \in Tasks |-> "running"]
  /\ sleep_queue = {} /\ wakeup_pending = {} /\ due = {}
  /\ call = [t \in Tasks |-> "none"]
  /\ seen = [c \in Tickers |-> {}] /\ to_wake = [c \in Tickers |-> {}]
  /\ tick = [c \in Tickers |-> "idle"]
  /\ queued = [t \in Tasks |-> 0]
  /\ credit = [t \in Tasks |-> 0]

-----------------------------------------------------------------------------
(***************************************************************************)
(* task_sleep_ms, called with a positive time by a task that runs.         *)
(***************************************************************************)
\* The deadline is computed before the lock is taken.
SleepCall(t) ==
  /\ call[t] = "none"
  /\ call' = [call EXCEPT ![t] = "enter"]
  /\ seen' = [c \in Tickers |-> seen[c] \ {t}]
  /\ UNCHANGED <<state, sleep_queue, wakeup_pending, due, to_wake, tick, queued, credit>>

\* The flag is consumed and there is no sleep.
\* Mutant: the flag is looked at and left as it is.
KeepPending(t) == wakeup_pending

ConsumePending(t) == wakeup_pending \ {t}

SleepSkipped(t) ==
  /\ call[t] = "enter" /\ t \in wakeup_pending
  /\ wakeup_pending' = ConsumePending(t)
  /\ call' = [call EXCEPT ![t] = "none"]
  /\ due' = due \ {t}
  /\ credit' = [credit EXCEPT ![t] = @ - 1]
  /\ UNCHANGED <<state, sleep_queue, seen, to_wake, tick, queued>>

SleepBlocks(t) ==
  /\ call[t] = "enter" /\ t \notin wakeup_pending
  /\ sleep_queue' = sleep_queue \cup {t}
  /\ state' = [state EXCEPT ![t] = "blocked"]
  /\ call' = [call EXCEPT ![t] = "asleep"]
  /\ UNCHANGED <<wakeup_pending, due, seen, to_wake, tick, queued, credit>>

\* The scheduler dispatches the woken task and its schedule() returns.
Dispatched(t) ==
  /\ queued[t] > 0 /\ state[t] = "ready"
  /\ queued' = [queued EXCEPT ![t] = @ - 1]
  /\ state' = [state EXCEPT ![t] = "running"]
  /\ call' = [call EXCEPT ![t] = "none"]
  /\ due' = due \ {t}
  /\ UNCHANGED <<sleep_queue, wakeup_pending, seen, to_wake, tick, credit>>

DeadlinePasses(t) ==
  /\ call[t] # "none" /\ t \notin due
  /\ due' = due \cup {t}
  /\ UNCHANGED <<state, sleep_queue, wakeup_pending, call, seen, to_wake, tick, queued,
                 credit>>

-----------------------------------------------------------------------------
(***************************************************************************)
(* task_wake_sleepers on CPU c, and task_sleep_wake.                       *)
(***************************************************************************)
ReadClock(c) ==
  /\ tick[c] = "idle"
  /\ tick' = [tick EXCEPT ![c] = "collect"]
  /\ seen' = [seen EXCEPT ![c] = due]
  /\ UNCHANGED <<state, sleep_queue, wakeup_pending, call, due, to_wake, queued, credit>>

\* Under the lock: the expired tasks leave the queue.
\* Mutant: they are copied to the private list and stay linked.
DetachNothing(c) == sleep_queue

Detach(c) == sleep_queue \ seen[c]

Collect(c) ==
  /\ tick[c] = "collect"
  /\ to_wake' = [to_wake EXCEPT ![c] = sleep_queue \cap seen[c]]
  /\ sleep_queue' = Detach(c)
  /\ tick' = [tick EXCEPT ![c] = IF sleep_queue \cap seen[c] = {} THEN "idle" ELSE "wake"]
  /\ seen' = [seen EXCEPT ![c] = {}]
  /\ UNCHANGED <<state, wakeup_pending, call, due, queued, credit>>

\* Without the lock: READY, then scheduler_add_task, which takes rq_lock.
AddToRunQueue(t) ==
  /\ state' = [state EXCEPT ![t] = "ready"]
  /\ queued' = [queued EXCEPT ![t] = @ + 1]

WakeCollected(c, t) ==
  /\ tick[c] = "wake" /\ t \in to_wake[c]
  /\ to_wake' = [to_wake EXCEPT ![c] = @ \ {t}]
  /\ tick' = [tick EXCEPT ![c] = IF to_wake[c] = {t} THEN "idle" ELSE "wake"]
  /\ AddToRunQueue(t)
  /\ UNCHANGED <<sleep_queue, wakeup_pending, call, due, seen, credit>>

\* A task that is not linked is about to sleep, or awake.
\* Mutant: nothing to do for it.
DropWakeup(t) == wakeup_pending

KeepWakeup(t) == wakeup_pending \cup {t}

\* task_sleep_wake: the sleeper is unlinked under the lock and added to a run
\* queue after it; a task that is not linked gets the flag.
task_sleep_wake(t) ==
  /\ IF t \in sleep_queue
     THEN /\ sleep_queue' = sleep_queue \ {t}
          /\ AddToRunQueue(t)
          /\ UNCHANGED <<wakeup_pending, credit>>
     ELSE /\ wakeup_pending' = KeepWakeup(t)
          /\ credit' = [credit EXCEPT ![t] = @ + 1]
          /\ UNCHANGED <<sleep_queue, state, queued>>
  /\ UNCHANGED <<call, due, seen, to_wake, tick>>

\* What goes on without a decision of the tasks.
SleepStep(t) == SleepSkipped(t) \/ SleepBlocks(t) \/ Dispatched(t) \/ DeadlinePasses(t)

TickStep(c) == ReadClock(c) \/ Collect(c) \/ \E t \in Tasks : WakeCollected(c, t)

-----------------------------------------------------------------------------
(***************************************************************************)
(* Properties.                                                             *)
(***************************************************************************)
\* A sleeper is in the sleep queue, on the private list of one CPU or in one
\* run queue, once, and nobody else is: the link sleep_next serves one list at
\* a time, no sleeper is forgotten and none is added twice, whichever ticks and
\* wake-ups meet.
SleeperInOnePlace ==
  \A t \in Tasks :
    /\ state[t] = "running" <=> call[t] # "asleep"
    /\ queued[t] = IF state[t] = "ready" THEN 1 ELSE 0
    /\ state[t] = "blocked" <=> t \in sleep_queue \/ \E c \in Tickers : t \in to_wake[c]
    /\ \A c \in Tickers : t \in to_wake[c] =>
          t \notin sleep_queue /\ \A d \in Tickers \ {c} : t \notin to_wake[d]

\* A sleep ends before its time only for a task_sleep_wake of its own: no
\* wake-up ends two sleeps, though the flag is one bit and may outlive the wait
\* it was meant for.
EarlyEndIsPaid ==
  \A t \in Tasks : credit[t] >= IF t \in wakeup_pending THEN 1 ELSE 0
=============================================================================
