---------------------------- MODULE TaskSleepProofs ----------------------------
(***************************************************************************)
(* What every step of TaskSleep preserves, whoever takes it.  A module     *)
(* that composes TaskSleep with the callers of task_sleep_ms shows that    *)
(* its own steps are SleepNext steps, or leave sleepvars alone.            *)
(***************************************************************************)
EXTENDS TaskSleep, TLAPS

SleepNext ==
  \/ \E t \in Tasks : SleepCall(t) \/ SleepStep(t) \/ task_sleep_wake(t)
  \/ \E c \in Tickers : TickStep(c)

(* The private list of task_wake_sleepers is empty outside its second loop: *)
(* what it collects replaces nothing.                                       *)
ListsEmpty == \A c \in Tickers : tick[c] # "wake" => to_wake[c] = {}

SleepInv == SleepTypeOK /\ SleeperInOnePlace /\ EarlyEndIsPaid /\ ListsEmpty

(* The first state, where every task runs and nobody sleeps, satisfies it. *)
LEMMA SleepInitInv == SleepInit => SleepInv
BY DEF SleepInit, SleepInv, SleepTypeOK, SleeperInOnePlace, EarlyEndIsPaid, ListsEmpty

(* Calls of task_sleep_ms keep it, up to the schedule() that returns. *)
LEMMA SleepCallInv ==
  ASSUME NEW t \in Tasks, SleepInv, SleepCall(t) PROVE SleepInv'
BY DEF SleepCall, SleepInv, SleepTypeOK, SleeperInOnePlace, EarlyEndIsPaid, ListsEmpty

LEMMA SleepSkippedInv ==
  ASSUME NEW t \in Tasks, SleepInv, SleepSkipped(t) PROVE SleepInv'
BY DEF SleepSkipped, ConsumePending, SleepInv, SleepTypeOK, SleeperInOnePlace,
       EarlyEndIsPaid, ListsEmpty

LEMMA SleepBlocksInv ==
  ASSUME NEW t \in Tasks, SleepInv, SleepBlocks(t) PROVE SleepInv'
BY DEF SleepBlocks, SleepInv, SleepTypeOK, SleeperInOnePlace, EarlyEndIsPaid, ListsEmpty

LEMMA DispatchedInv ==
  ASSUME NEW t \in Tasks, SleepInv, Dispatched(t) PROVE SleepInv'
BY DEF Dispatched, SleepInv, SleepTypeOK, SleeperInOnePlace, EarlyEndIsPaid, ListsEmpty

LEMMA DeadlinePassesInv ==
  ASSUME NEW t \in Tasks, SleepInv, DeadlinePasses(t) PROVE SleepInv'
BY DEF DeadlinePasses, SleepInv, SleepTypeOK, SleeperInOnePlace, EarlyEndIsPaid, ListsEmpty

LEMMA ReadClockInv ==
  ASSUME NEW c \in Tickers, SleepInv, ReadClock(c) PROVE SleepInv'
BY DEF ReadClock, SleepInv, SleepTypeOK, SleeperInOnePlace, EarlyEndIsPaid, ListsEmpty

LEMMA CollectInv ==
  ASSUME NEW c \in Tickers, SleepInv, Collect(c) PROVE SleepInv'
BY DEF Collect, Detach, SleepInv, SleepTypeOK, SleeperInOnePlace, EarlyEndIsPaid, ListsEmpty

LEMMA WakeCollectedInv ==
  ASSUME NEW c \in Tickers, NEW t \in Tasks, SleepInv, WakeCollected(c, t) PROVE SleepInv'
BY DEF WakeCollected, AddToRunQueue, SleepInv, SleepTypeOK, SleeperInOnePlace,
       EarlyEndIsPaid, ListsEmpty

LEMMA WakeInv ==
  ASSUME NEW t \in Tasks, SleepInv, task_sleep_wake(t) PROVE SleepInv'
BY DEF task_sleep_wake, AddToRunQueue, KeepWakeup, SleepInv, SleepTypeOK,
       SleeperInOnePlace, EarlyEndIsPaid, ListsEmpty

(* Every step of the sleep queue, its ticks and its wake-ups keeps SleepInv. *)
THEOREM SleepStepInv == ASSUME SleepInv, [SleepNext]_sleepvars PROVE SleepInv'
<1>1. CASE UNCHANGED sleepvars
  BY <1>1 DEF sleepvars, SleepInv, SleepTypeOK, SleeperInOnePlace, EarlyEndIsPaid, ListsEmpty
<1>2. CASE SleepNext
  BY <1>2, SleepCallInv, SleepSkippedInv, SleepBlocksInv, DispatchedInv, DeadlinePassesInv,
     ReadClockInv, CollectInv, WakeCollectedInv, WakeInv
  DEF SleepNext, SleepStep, TickStep
<1> QED
  BY <1>1, <1>2
=============================================================================
