-------------------------------- MODULE PiMutex --------------------------------
(***************************************************************************)
(* The priority-inheriting mutexes of kernel/ipc/pi_mutex.c, with the part *)
(* of kernel/sched/sched.c that keeps a run queue in priority order.       *)
(*                                                                         *)
(* Several mutexes are taken by several tasks on several CPUs.  What one   *)
(* guard, the pi_floor lock or rq_lock protects is one step; where the     *)
(* code touches a field of another task outside the lock that protects it  *)
(* (effective_priority in try_boost_owner, pi_priority in a recompute) the *)
(* read and the write are two steps.  One run queue stands for the queue   *)
(* of the CPU the tasks are assigned to.  A task has no deadline and no AI *)
(* level here, so its base is task->priority.                              *)
(***************************************************************************)
EXTENDS Integers, Sequences, FiniteSets, RunQueue

CONSTANTS
  Tasks,
  Mutexes,      \* numbered: a task takes them in increasing order
  MaxPrio,      \* TASK_PRIORITY_MAX
  StartPrios,   \* the assignments of base priorities to start from
  MaxLocks,     \* bound on the lock calls of each task
  Preemptible,  \* the tasks a tick may preempt (all of them; fewer bounds a run)
  MaxSets       \* bound on the calls of task_set_priority

None == "none"

ASSUME PiMutexAssumption ==
  /\ IsFiniteSet(Tasks) /\ None \notin Tasks
  /\ IsFiniteSet(Mutexes) /\ Mutexes \subseteq Nat
  /\ MaxPrio \in Nat
  /\ StartPrios \subseteq [Tasks -> 0 .. MaxPrio]
  /\ Preemptible \subseteq Tasks
  /\ MaxLocks \in Nat /\ MaxSets \in Nat

VARIABLES
  owner,      \* owner[m]: mutex->owner, None for NULL
  locked,     \* locked[m]: mutex->locked
  waitq,      \* waitq[m]: the FIFO from wait_head to wait_tail
  guard,      \* guard[m]: the task inside the guard of m across several steps
  priority, effective_priority, pi_priority, pi_mutexes_held,
  state,      \* state[t]: task->state, "queued" being READY and in the queue
  pc,         \* pc[t]: where t is in pi_mutex.c
  want,       \* want[t]: the mutex of the call t is in
  wakee,      \* wakee[t]: the waiter t handed its mutex to and has to queue
  holding,    \* holding[t]: the mutexes whose lock call has returned to t
  runq,       \* the run queue, head first
  rqop,       \* what the holder of rq_lock is doing
  offered,    \* history: the floor raised on behalf of t last, by itself or in
              \* a hand-off it was left behind by
  stirred,    \* history: the queued tasks whose effective_priority was stored
              \* without rq_lock since they were placed
  disturbed,  \* history: a task was placed while another one was stirred
  locks,      \* locks[t]: lock calls made, capped by MaxLocks
  sets        \* calls of task_set_priority, capped by MaxSets

mutexvars == <<owner, locked, waitq, guard>>
priovars  == <<priority, effective_priority, pi_priority, pi_mutexes_held>>
ctlvars   == <<state, pc, want, wakee, holding, offered, locks, sets>>
rqvars    == <<runq, rqop>>
history   == <<stirred, disturbed>>
vars      == <<mutexvars, priovars, ctlvars, rqvars, history>>

Prios == 0 .. MaxPrio
NoMutex == -1
Unread == -1
NoOp == [kind |-> "none", by |-> None, task |-> None, base |-> 0, floor |-> 0]

\* "run" is outside pi_mutex.c.  With the guard held, in try_boost_owner:
\* "floor", then before the comparison "raised" or "level" (changed is true or
\* false), "boost"; after it "repos" (sched_reposition_task) and "append".  With
\* the guard released: "blocked" (in schedule()), "wake" (before
\* scheduler_add_task_to_cpu).
PCs == {"run", "floor", "raised", "level", "boost", "repos", "append", "blocked", "wake"}
States == {"running", "queued", "blocked", "ready"}

TypeOK ==
  /\ owner \in [Mutexes -> Tasks \cup {None}]
  /\ locked \in [Mutexes -> {0, 1}]
  /\ waitq \in [Mutexes -> Seq(Tasks)]
  /\ guard \in [Mutexes -> Tasks \cup {None}]
  /\ priority \in [Tasks -> Prios]
  /\ effective_priority \in [Tasks -> Prios]
  /\ pi_priority \in [Tasks -> Prios]
  /\ pi_mutexes_held \in [Tasks -> Nat]
  /\ state \in [Tasks -> States]
  /\ pc \in [Tasks -> PCs]
  /\ want \in [Tasks -> Mutexes \cup {NoMutex}]
  /\ wakee \in [Tasks -> Tasks \cup {None}]
  /\ holding \in [Tasks -> SUBSET Mutexes]
  /\ runq \in Seq(Tasks)
  /\ rqop \in [kind : {"none", "requeue", "wake", "repos"},
               by : Tasks \cup {None}, task : Tasks \cup {None},
               base : Prios, floor : Prios \cup {Unread}]
  /\ offered \in [Tasks -> Prios]
  /\ stirred \in SUBSET Tasks /\ disturbed \in BOOLEAN
  /\ locks \in [Tasks -> 0 .. MaxLocks]
  /\ sets \in 0 .. MaxSets

Init ==
  /\ owner = [m \in Mutexes |-> None]
  /\ locked = [m \in Mutexes |-> 0]
  /\ waitq = [m \in Mutexes |-> <<>>]
  /\ guard = [m \in Mutexes |-> None]
  /\ priority \in StartPrios
  /\ effective_priority = priority
  /\ pi_priority = [t \in Tasks |-> 0]
  /\ pi_mutexes_held = [t \in Tasks |-> 0]
  /\ state = [t \in Tasks |-> "running"]
  /\ pc = [t \in Tasks |-> "run"]
  /\ want = [t \in Tasks |-> NoMutex]
  /\ wakee = [t \in Tasks |-> None]
  /\ holding = [t \in Tasks |-> {}]
  /\ runq = <<>>
  /\ rqop = NoOp
  /\ offered = [t \in Tasks |-> 0]
  /\ stirred = {} /\ disturbed = FALSE
  /\ locks = [t \in Tasks |-> 0]
  /\ sets = 0

Higher(a, b) == IF a > b THEN a ELSE b

\* The stores to effective_priority that do not hold rq_lock leave a queued
\* task where it is.
Stir ==
  /\ stirred' = stirred \cup {x \in InQueue(runq) :
                               effective_priority'[x] # effective_priority[x]}
  /\ UNCHANGED disturbed

-----------------------------------------------------------------------------
(***************************************************************************)
(* pi_mutex_lock and pi_mutex_trylock.                                     *)
(***************************************************************************)
\* The caller may take m: it is on a CPU and respects the lock order.
MayTake(t, m) ==
  /\ state[t] = "running" /\ pc[t] = "run"
  /\ locks[t] < MaxLocks
  /\ \A h \in holding[t] : h < m
  /\ guard[m] = None

\* note_mutex_acquired and the two stores of the fast path.
\* Mutant: note_mutex_acquired is forgotten.
AcquireUncounted(t, m) ==
  /\ locked' = [locked EXCEPT ![m] = 1]
  /\ owner' = [owner EXCEPT ![m] = t]
  /\ holding' = [holding EXCEPT ![t] = @ \cup {m}]
  /\ UNCHANGED pi_mutexes_held

\* Mutant: the mutex is not marked as locked.
AcquireUnmarked(t, m) ==
  /\ owner' = [owner EXCEPT ![m] = t]
  /\ pi_mutexes_held' = [pi_mutexes_held EXCEPT ![t] = @ + 1]
  /\ holding' = [holding EXCEPT ![t] = @ \cup {m}]
  /\ UNCHANGED locked

Acquire(t, m) ==
  /\ locked' = [locked EXCEPT ![m] = 1]
  /\ owner' = [owner EXCEPT ![m] = t]
  /\ pi_mutexes_held' = [pi_mutexes_held EXCEPT ![t] = @ + 1]
  /\ holding' = [holding EXCEPT ![t] = @ \cup {m}]

LockFree(t, m) ==
  /\ MayTake(t, m) /\ locked[m] = 0
  /\ Acquire(t, m)
  /\ locks' = [locks EXCEPT ![t] = @ + 1]
  /\ UNCHANGED <<waitq, guard, priority, effective_priority, pi_priority,
                 state, pc, want, wakee, offered, sets, rqvars, history>>

LockHeld(t, m) ==
  /\ MayTake(t, m) /\ locked[m] = 1
  /\ guard' = [guard EXCEPT ![m] = t]
  /\ pc' = [pc EXCEPT ![t] = "floor"]
  /\ want' = [want EXCEPT ![t] = m]
  /\ locks' = [locks EXCEPT ![t] = @ + 1]
  /\ UNCHANGED <<owner, locked, waitq, priovars, state, wakee, holding,
                 offered, sets, rqvars, history>>

\* What raise_inherited_priority returns: the first value of changed.
\* Mutant: a floor that rises without a boost is not a change.
RaisesUnnoticed(t) == FALSE

Raises(t) == effective_priority[t] > pi_priority[owner[want[t]]]

\* raise_inherited_priority(owner, caller->effective_priority).
RaiseFloor(t) ==
  LET o == owner[want[t]] IN
  /\ pc[t] = "floor"
  /\ pi_priority' = [pi_priority EXCEPT ![o] = Higher(@, effective_priority[t])]
  /\ offered' = [offered EXCEPT ![t] = effective_priority[t]]
  /\ pc' = [pc EXCEPT ![t] = IF Raises(t) THEN "raised" ELSE "level"]
  /\ UNCHANGED <<mutexvars, priority, effective_priority, pi_mutexes_held, state,
                 want, wakee, holding, locks, sets, rqvars, history>>

\* The test of caller's effective priority against the owner's.  An owner that
\* is not boosted is repositioned only if its floor rose.
CompareOwner(t) ==
  /\ pc[t] \in {"raised", "level"}
  /\ pc' = [pc EXCEPT ![t] =
              IF effective_priority[t] > effective_priority[owner[want[t]]]
              THEN "boost" ELSE IF @ = "raised" THEN "repos" ELSE "append"]
  /\ UNCHANGED <<mutexvars, priovars, state, want, wakee, holding, offered,
                 locks, sets, rqvars, history>>

BoostOwner(t) ==
  /\ pc[t] = "boost"
  /\ effective_priority' =
       [effective_priority EXCEPT ![owner[want[t]]] = effective_priority[t]]
  /\ pc' = [pc EXCEPT ![t] = "repos"]
  /\ Stir
  /\ UNCHANGED <<mutexvars, priority, pi_priority, pi_mutexes_held, state, want,
                 wakee, holding, offered, locks, sets, rqvars>>

\* The caller joins the wait queue, blocks and drops the guard; schedule()
\* then gives its CPU away.
AppendAndBlock(t) ==
  LET m == want[t] IN
  /\ pc[t] = "append"
  /\ waitq' = [waitq EXCEPT ![m] = Append(@, t)]
  /\ guard' = [guard EXCEPT ![m] = None]
  /\ state' = [state EXCEPT ![t] = "blocked"]
  /\ pc' = [pc EXCEPT ![t] = "blocked"]
  /\ UNCHANGED <<owner, locked, priovars, want, wakee, holding, offered, locks, sets,
                 rqvars, history>>

-----------------------------------------------------------------------------
(***************************************************************************)
(* pi_mutex_unlock.  The guard section is one step: the owner runs it, so  *)
(* only floors of the new owner are touched by others meanwhile, and those *)
(* are raised under pi_floor.lock.                                         *)
(***************************************************************************)
\* The first waiter of the highest effective priority.
BestIndex(q) ==
  CHOOSE i \in 1 .. Len(q) :
    /\ \A j \in 1 .. Len(q) : effective_priority[q[j]] <= effective_priority[q[i]]
    /\ \A j \in 1 .. i - 1 : effective_priority[q[j]] < effective_priority[q[i]]

\* The wait queue without its i-th task.
\* Mutant: the chosen waiter is not unlinked.
UnlinkedKept(q, i) == q

Unlinked(q, i) == Without(q, i)

\* The floor of the new owner: its own, or the highest of the waiters left.
\* Mutant: the waiters left behind are not looked at.
FloorFromOwn(b, q) == pi_priority[b]

FloorFrom(b, q) ==
  CHOOSE f \in {pi_priority[b]} \cup {effective_priority[u] : u \in InQueue(q)} :
    \A g \in {pi_priority[b]} \cup {effective_priority[u] : u \in InQueue(q)} : g <= f

\* The owner holds no mutex after this one and had inherited something.
DropsFloor(t) == pi_mutexes_held[t] = 1 /\ pi_priority[t] # 0

\* pi_mutex_unlock takes the owner from the mutex and trusts its caller to be it.
MayRelease(t, m) ==
  /\ state[t] = "running" /\ pc[t] = "run"
  /\ m \in holding[t] /\ guard[m] = None

\* Mutant: a single waiter is overlooked.
HasWaitersTwo(m) == Len(waitq[m]) > 1

HasWaiters(m) == waitq[m] # <<>>

UnlockFree(t, m) ==
  /\ MayRelease(t, m) /\ ~ HasWaiters(m)
  /\ owner' = [owner EXCEPT ![m] = None]
  /\ locked' = [locked EXCEPT ![m] = 0]
  /\ pi_mutexes_held' = [pi_mutexes_held EXCEPT ![t] = @ - 1]
  /\ pi_priority' = [pi_priority EXCEPT ![t] = IF DropsFloor(t) THEN 0 ELSE @]
  /\ effective_priority' =
       [effective_priority EXCEPT ![t] = IF DropsFloor(t) THEN priority[t] ELSE @]
  /\ holding' = [holding EXCEPT ![t] = @ \ {m}]
  /\ UNCHANGED <<waitq, guard, priority, state, pc, want, wakee, offered,
                 locks, sets, rqvars, history>>

UnlockHandOff(t, m) ==
  LET i    == BestIndex(waitq[m])
      best == waitq[m][i]
      rest == Unlinked(waitq[m], i)
  IN
  /\ MayRelease(t, m) /\ HasWaiters(m)
  /\ waitq' = [waitq EXCEPT ![m] = rest]
  /\ owner' = [owner EXCEPT ![m] = best]
  /\ pi_mutexes_held' = [pi_mutexes_held EXCEPT ![t] = @ - 1, ![best] = @ + 1]
  /\ pi_priority' = [pi_priority EXCEPT ![t] = IF DropsFloor(t) THEN 0 ELSE @,
                                        ![best] = FloorFrom(best, rest)]
  /\ effective_priority' =
       [effective_priority EXCEPT ![t] = IF DropsFloor(t) THEN priority[t] ELSE @]
  /\ holding' = [holding EXCEPT ![t] = @ \ {m}]
  /\ state' = [state EXCEPT ![best] = "ready"]
  /\ pc' = [pc EXCEPT ![t] = "wake"]
  /\ wakee' = [wakee EXCEPT ![t] = best]
  /\ offered' = [u \in Tasks |-> IF u \in InQueue(rest) THEN effective_priority[u]
                                 ELSE offered[u]]
  /\ UNCHANGED <<locked, guard, priority, want, locks, sets, rqvars, history>>

-----------------------------------------------------------------------------
(***************************************************************************)
(* The run queue under rq_lock.  Each of the three operations first takes  *)
(* the lock and reads the base of its task, then its inherited floor, then *)
(* stores the effective priority and puts the task in its place.  None of  *)
(* what it reads is protected by the lock.                                 *)
(***************************************************************************)
\* What the holder of rq_lock sets out to do for task x.
RqStart(kind, by, x) ==
  [kind |-> kind, by |-> by, task |-> x, base |-> priority[x], floor |-> Unread]

\* A tick on the CPU of a running task, outside the sections that mask IRQs.
PreemptStart(t) ==
  /\ rqop = NoOp /\ t \in Preemptible
  /\ state[t] = "running" /\ pc[t] \in {"run", "wake"}
  /\ rqop' = RqStart("requeue", t, t)
  /\ state' = [state EXCEPT ![t] = "ready"]
  /\ UNCHANGED <<mutexvars, priovars, runq, pc, want, wakee, holding, offered,
                 locks, sets, history>>

\* scheduler_add_task_to_cpu(best, ...) of the unlocker.
WakeStart(t) ==
  /\ rqop = NoOp
  /\ state[t] = "running" /\ pc[t] = "wake"
  /\ rqop' = RqStart("wake", t, wakee[t])
  /\ UNCHANGED <<mutexvars, priovars, runq, ctlvars, history>>

\* sched_reposition_task(owner): nothing to do for an owner not in the queue.
ReposStart(t) ==
  LET o == owner[want[t]] IN
  /\ rqop = NoOp
  /\ pc[t] = "repos"
  /\ IF o \in InQueue(runq)
     THEN /\ rqop' = RqStart("repos", t, o)
          /\ UNCHANGED pc
     ELSE /\ pc' = [pc EXCEPT ![t] = "append"]
          /\ UNCHANGED rqop
  /\ UNCHANGED <<mutexvars, priovars, runq, state, want, wakee, holding, offered,
                 locks, sets, history>>

\* set_effective_priority looks at pi_priority last.
RqReadFloor ==
  /\ rqop # NoOp /\ rqop.floor = Unread
  /\ rqop' = [rqop EXCEPT !.floor = pi_priority[rqop.task]]
  /\ UNCHANGED <<mutexvars, priovars, runq, ctlvars, history>>

RqFinish(kind) ==
  LET x   == rqop.task
      eff == [effective_priority EXCEPT ![x] = Higher(rqop.floor, rqop.base)]
  IN
  /\ rqop.kind = kind /\ rqop.floor # Unread
  /\ effective_priority' = eff
  /\ runq' = IF kind = "repos" THEN Reposition(runq, x, eff) ELSE Insert(runq, x, eff)
  /\ rqop' = NoOp
  /\ state' = [state EXCEPT ![x] = "queued"]
  /\ pc' = CASE kind = "requeue" -> pc
             [] kind = "wake"    -> [pc EXCEPT ![rqop.by] = "run"]
             [] kind = "repos"   -> [pc EXCEPT ![rqop.by] = "append"]
  /\ wakee' = IF kind = "wake" THEN [wakee EXCEPT ![rqop.by] = None] ELSE wakee
  /\ stirred' = stirred \ {x}
  /\ disturbed' = (disturbed \/ stirred' # {})
  /\ UNCHANGED <<mutexvars, priority, pi_priority, pi_mutexes_held, want, holding,
                 offered, locks, sets>>

\* schedule() dispatches the head.  One that was blocked in pi_mutex_lock
\* returns from it, and takes the mutex as its own without looking.
Dispatch ==
  LET t == Head(runq) IN
  /\ rqop = NoOp /\ runq # <<>>
  /\ runq' = Tail(runq)
  /\ state' = [state EXCEPT ![t] = "running"]
  /\ holding' = [holding EXCEPT ![t] = IF pc[t] = "blocked" THEN @ \cup {want[t]} ELSE @]
  /\ want' = [want EXCEPT ![t] = IF pc[t] = "blocked" THEN NoMutex ELSE @]
  /\ pc' = [pc EXCEPT ![t] = IF @ = "blocked" THEN "run" ELSE @]
  /\ stirred' = stirred \ {t}
  /\ UNCHANGED <<mutexvars, priovars, rqop, wakee, offered, locks, sets, disturbed>>

\* task_set_priority stores the base and never lowers the effective priority.
task_set_priority(t, p) ==
  /\ sets < MaxSets
  /\ p # priority[t]
  /\ priority' = [priority EXCEPT ![t] = p]
  /\ effective_priority' = [effective_priority EXCEPT ![t] = Higher(@, p)]
  /\ sets' = sets + 1
  /\ Stir
  /\ UNCHANGED <<mutexvars, pi_priority, pi_mutexes_held, state, pc, want, wakee,
                 holding, offered, locks, rqvars>>

-----------------------------------------------------------------------------
LockStep(t) == RaiseFloor(t) \/ CompareOwner(t) \/ BoostOwner(t)
               \/ ReposStart(t) \/ AppendAndBlock(t)
UnlockStep(t) == \E m \in Mutexes : UnlockFree(t, m) \/ UnlockHandOff(t, m)
QueueStep == RqReadFloor \/ RqFinish("requeue") \/ RqFinish("wake") \/ RqFinish("repos")
             \/ Dispatch

Next ==
  \/ \E t \in Tasks :
       \/ \E m \in Mutexes : LockFree(t, m) \/ LockHeld(t, m)
       \/ LockStep(t)
       \/ UnlockStep(t)
       \/ PreemptStart(t) \/ WakeStart(t)
       \/ \E p \in Prios : task_set_priority(t, p)
  \/ QueueStep

Spec == Init /\ [][Next]_vars

\* Every CPU goes on and a holder releases what it holds.  Nothing makes a tick
\* come or a task call pi_mutex_lock.
Fairness ==
  /\ WF_vars(QueueStep)
  /\ \A t \in Tasks : WF_vars(LockStep(t) \/ UnlockStep(t) \/ WakeStart(t))

FairSpec == Spec /\ Fairness

-----------------------------------------------------------------------------
(***************************************************************************)
(* Properties.                                                             *)
(***************************************************************************)
\* Mutual exclusion across the blocking path: a task whose lock call returned,
\* straight away or after a hand-off it never looks at, is the owner.
MutualExclusion ==
  \A t \in Tasks : \A m \in holding[t] : owner[m] = t /\ locked[m] = 1

\* owner, locked and the wait queues agree: a mutex with waiters is locked, and
\* a task waits in one queue at most, once, and only while it is blocked there.
Waiting(t, m) == t \in InQueue(waitq[m])

OwnerAndWaitersAgree ==
  /\ \A m \in Mutexes :
       /\ (locked[m] = 1) <=> (owner[m] # None)
       /\ waitq[m] # <<>> => owner[m] # None
       /\ \A i, j \in 1 .. Len(waitq[m]) : waitq[m][i] = waitq[m][j] => i = j
  /\ \A t \in Tasks, m \in Mutexes :
       Waiting(t, m) <=> (state[t] = "blocked" /\ want[t] = m)

\* The count that decides when the inherited priority is dropped is exact,
\* hand-offs done on the task's behalf by other CPUs included, and nothing is
\* left of an inheritance once the last mutex is released.
HeldCountExact ==
  \A t \in Tasks :
    /\ pi_mutexes_held[t] = Cardinality({m \in Mutexes : owner[m] = t})
    /\ pi_mutexes_held[t] = 0 => pi_priority[t] = 0

\* "over-boosting is the safe side": the inherited floor of an owner is never
\* below the priority any of its waiters offered it, whatever else it locked
\* or released meanwhile and whoever handed the mutex to it.
FloorCoversWaiters ==
  \A m \in Mutexes : \A t \in InQueue(waitq[m]) :
    pi_priority[owner[m]] >= offered[t]

\* The purpose of it all, "Move a queued task to the position its current
\* priority calls for": a queued owner is behind no task of lower priority than
\* one of its waiters, except while a locker is on its way to reposition it.  A task
\* ahead of it that was stirred keeps the place it had.
Boosting(o) == \E t \in Tasks : /\ pc[t] \in {"raised", "boost", "repos"}
                                /\ owner[want[t]] = o

OwnerNotOvertaken ==
  \A m \in Mutexes : \A t \in InQueue(waitq[m]) : \A j \in 1 .. Len(runq) :
    (runq[j] = owner[m] /\ ~ Boosting(owner[m])) =>
      \A i \in 1 .. j - 1 :
        runq[i] \in stirred \/ effective_priority[runq[i]] >= offered[t]

\* The same, as long as no task was placed while another was stirred: both
\* add_to_cpu_queue_locked and the look at the neighbours in reposition_locked
\* rely on the order of the queue.
QueuedOwnerNotOvertaken == ~ disturbed => OwnerNotOvertaken

\* Only the owner's unlock gives a mutex away, and it gives it to a waiter if
\* there is one: ownership never passes over the wait queue.
HandOffToWaiter ==
  [][\A m \in Mutexes :
       /\ (owner[m] # None /\ owner'[m] # owner[m]) =>
            IF waitq[m] = <<>> THEN owner'[m] = None ELSE owner'[m] \in InQueue(waitq[m])]_vars

\* Every task that blocks on a mutex gets it.  Checked without ticks: dispatch
\* is by strict priority, so a task preempted for ever may starve the others.
WaiterGetsMutex == \A t \in Tasks : pc[t] = "blocked" ~> pc[t] = "run"
=============================================================================
