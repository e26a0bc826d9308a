----------------------------- MODULE PiMutexProofs -----------------------------
(***************************************************************************)
(* Proofs about PiMutex, for every number of tasks, mutexes and priorities.*)
(*                                                                         *)
(* IInv has three layers.  ControlInv, QueueInv and RqopInv say who is     *)
(* inside which section: they are what keeps an owner from giving a mutex  *)
(* away under a locker that lends it a priority.  MutualExclusion,         *)
(* OwnerAndWaitersAgree, HeldCountExact and the floors rest on them.  The  *)
(* order of the run queue needs both: a re-queue may store a floor that is *)
(* out of date, and then another locker is on its way to repair it         *)
(* (StaleFloorRepaired).                                                   *)
(***************************************************************************)
EXTENDS PiMutex, FiniteSetTheorems, OrderLemmas, TLAPS

Inside(t)  == pc[t] \in {"floor", "raised", "level", "boost", "repos", "append"}
Lending(t) == pc[t] \in {"raised", "boost", "repos"}
Level(t)   == pc[t] \in {"level", "append"}

\* Who is inside the guard of a mutex, who waits, who has been handed one.
ControlInv ==
  /\ \A t \in Tasks :
       /\ Inside(t) => /\ state[t] = "running" /\ want[t] \in Mutexes
                       /\ guard[want[t]] = t /\ owner[want[t]] \in Tasks
       /\ pc[t] = "blocked" => /\ want[t] \in Mutexes /\ state[t] # "running"
                               /\ state[t] # "blocked" => owner[want[t]] = t
       /\ state[t] = "blocked" => pc[t] = "blocked"
       /\ pc[t] = "wake" => /\ wakee[t] \in Tasks
                            /\ pc[wakee[t]] = "blocked" /\ state[wakee[t]] = "ready"
  /\ \A t, u \in Tasks : pc[t] = "wake" /\ pc[u] = "wake" /\ wakee[t] = wakee[u] => t = u

QueueInv ==
  /\ Distinct(runq)
  /\ InQueue(runq) = {t \in Tasks : state[t] = "queued"}
  /\ stirred \subseteq InQueue(runq)

\* What the holder of rq_lock has in hand.
RqopInv ==
  \/ rqop = NoOp
  \/ /\ rqop.kind = "requeue" /\ rqop.task \in Tasks /\ rqop.by = rqop.task
     /\ state[rqop.task] = "ready" /\ pc[rqop.task] \in {"run", "wake"}
  \/ /\ rqop.kind = "wake" /\ rqop.by \in Tasks
     /\ state[rqop.by] = "running" /\ pc[rqop.by] = "wake" /\ rqop.task = wakee[rqop.by]
  \/ /\ rqop.kind = "repos" /\ rqop.by \in Tasks
     /\ pc[rqop.by] = "repos" /\ rqop.task = owner[want[rqop.by]]
     /\ rqop.task \in InQueue(runq)

\* A locker that has raised the floor of the owner finds it raised until it
\* waits.
LentFloor ==
  \A t \in Tasks : Lending(t) \/ Level(t) => pi_priority[owner[want[t]]] >= offered[t]

\* Where the floor read for a task in hand has been overtaken, the locker that
\* raised it has still to reposition the task.
StaleFloorRepaired ==
  rqop # NoOp /\ rqop.floor # Unread =>
    \/ rqop.floor >= pi_priority[rqop.task]
    \/ \E t \in Tasks : t # rqop.by /\ Lending(t) /\ owner[want[t]] = rqop.task

\* The tasks that were not stirred are in order, none of them is below its floor
\* or ahead of a task whose floor is higher, except where a locker is at work.
InOrder ==
  \A i, j \in 1 .. Len(runq) : i < j /\ runq[i] \notin stirred /\ runq[j] \notin stirred =>
    effective_priority[runq[i]] >= effective_priority[runq[j]]

AheadOfFloor ==
  \A i, j \in 1 .. Len(runq) : i < j /\ runq[i] \notin stirred /\ ~ Boosting(runq[j]) =>
    effective_priority[runq[i]] >= pi_priority[runq[j]]

AtFloor ==
  \A j \in 1 .. Len(runq) : runq[j] \notin stirred /\ ~ Boosting(runq[j]) =>
    effective_priority[runq[j]] >= pi_priority[runq[j]]

OrderInv == ~ disturbed => InOrder /\ AheadOfFloor /\ AtFloor

IInv ==
  /\ TypeOK /\ ControlInv /\ QueueInv /\ RqopInv
  /\ MutualExclusion /\ OwnerAndWaitersAgree /\ HeldCountExact
  /\ FloorCoversWaiters /\ LentFloor /\ StaleFloorRepaired /\ OrderInv

-----------------------------------------------------------------------------
(***************************************************************************)
(* Constants and helpers.                                                  *)
(***************************************************************************)
\* What the code fixes: priorities are 0 .. TASK_PRIORITY_MAX, mutexes are ordered.
LEMMA Constants ==
  /\ None \notin Tasks /\ IsFiniteSet(Mutexes) /\ NoMutex \notin Mutexes
  /\ Mutexes \subseteq Nat
  /\ MaxPrio \in Nat /\ 0 \in Prios /\ Prios \subseteq Nat
  /\ StartPrios \subseteq [Tasks -> Prios]
  BY PiMutexAssumption DEF Prios, NoMutex

\* The larger of two priorities is one.
LEMMA HigherFacts ==
  ASSUME NEW a \in Prios, NEW b \in Prios
  PROVE  Higher(a, b) \in Prios /\ Higher(a, b) >= a /\ Higher(a, b) >= b
  BY Constants DEF Higher, Prios

\* The mutexes a task owns, for the exact count.
Owned(t) == {m \in Mutexes : owner[m] = t}

\* A task owns finitely many mutexes.
LEMMA OwnedFinite ==
  ASSUME NEW t
  PROVE  IsFiniteSet(Owned(t)) /\ Cardinality(Owned(t)) \in Nat
  <1>1. Owned(t) \subseteq Mutexes
    BY DEF Owned
  <1>2. QED
    BY <1>1, Constants, FS_Subset, FS_CardinalityType

\* A mutex that changes hands is counted once less here and once more there.
LEMMA OwnedMoves ==
  ASSUME owner \in [Mutexes -> Tasks \cup {None}],
         NEW m \in Mutexes, NEW n \in Tasks \cup {None}, n # owner[m],
         owner' = [owner EXCEPT ![m] = n]
  PROVE  \A t : Cardinality(Owned(t)') =
                  IF t = n THEN Cardinality(Owned(t)) + 1
                  ELSE IF t = owner[m] THEN Cardinality(Owned(t)) - 1
                  ELSE Cardinality(Owned(t))
  <1>1. SUFFICES ASSUME NEW t
                 PROVE  Cardinality(Owned(t)') =
                          IF t = n THEN Cardinality(Owned(t)) + 1
                          ELSE IF t = owner[m] THEN Cardinality(Owned(t)) - 1
                          ELSE Cardinality(Owned(t))
    OBVIOUS
  <1>2. IsFiniteSet(Owned(t))
    BY OwnedFinite
  <1>3. CASE t = n
    <2>1. Owned(t)' = Owned(t) \cup {m} /\ m \notin Owned(t)
      BY <1>3 DEF Owned
    <2>2. QED
      BY <1>2, <1>3, <2>1, FS_AddElement
  <1>4. CASE t # n /\ t = owner[m]
    <2>1. Owned(t)' = Owned(t) \ {m} /\ m \in Owned(t)
      BY <1>4 DEF Owned
    <2>2. QED
      BY <1>2, <1>4, <2>1, FS_RemoveElement
  <1>5. CASE t # n /\ t # owner[m]
    <2>1. Owned(t)' = Owned(t)
      BY <1>5 DEF Owned
    <2>2. QED
      BY <1>5, <2>1
  <1>6. QED
    BY <1>3, <1>4, <1>5

\* An owner has a count of one or more.
LEMMA OwnerCounted ==
  ASSUME HeldCountExact, NEW t \in Tasks, NEW m \in Mutexes, owner[m] = t
  PROVE  pi_mutexes_held[t] = Cardinality(Owned(t)) /\ Cardinality(Owned(t)) >= 1
  <1>1. Owned(t) # {}
    BY DEF Owned
  <1>2. Cardinality(Owned(t)) # 0
    BY <1>1, OwnedFinite, FS_EmptySet
  <1>3. pi_mutexes_held[t] = Cardinality(Owned(t))
    BY DEF HeldCountExact, Owned
  <1>4. QED
    BY <1>2, <1>3, OwnedFinite

\* No owner has a count of zero.
LEMMA OwnersCounted ==
  ASSUME HeldCountExact
  PROVE  \A m \in Mutexes : owner[m] \in Tasks => pi_mutexes_held[owner[m]] # 0
  <1>1. SUFFICES ASSUME NEW m \in Mutexes, owner[m] \in Tasks
                 PROVE  pi_mutexes_held[owner[m]] # 0
    OBVIOUS
  <1>2. PICK t \in Tasks : t = owner[m]
    BY <1>1
  <1>3. pi_mutexes_held[t] = Cardinality(Owned(t)) /\ Cardinality(Owned(t)) >= 1
    BY <1>2, OwnerCounted
  <1>4. QED
    BY <1>2, <1>3

\* A task that holds one mutex owns no other.
LEMMA OnlyOwned ==
  ASSUME HeldCountExact, NEW t \in Tasks, NEW m \in Mutexes, owner[m] = t,
         pi_mutexes_held[t] = 1
  PROVE  \A n \in Mutexes : owner[n] = t => n = m
  <1>1. Cardinality(Owned(t)) = 1 /\ m \in Owned(t) /\ IsFiniteSet(Owned(t))
    BY OwnedFinite DEF HeldCountExact, Owned
  <1>2. Cardinality(Owned(t) \ {m}) = 0 /\ IsFiniteSet(Owned(t) \ {m})
    BY <1>1, FS_RemoveElement
  <1>3. Owned(t) \ {m} = {}
    BY <1>2, FS_EmptySet
  <1>4. QED
    BY <1>3 DEF Owned

\* The waiter pi_mutex_unlock chooses is in the queue.
LEMMA BestChosen ==
  ASSUME NEW q \in Seq(Tasks), q # <<>>, effective_priority \in [Tasks -> Prios]
  PROVE  BestIndex(q) \in 1 .. Len(q)
  <1> DEFINE E == {effective_priority[q[i]] : i \in 1 .. Len(q)}
  <1>0. Len(q) \in Nat /\ Len(q) >= 1 /\ \A i \in 1 .. Len(q) : q[i] \in Tasks
    OBVIOUS
  <1>1. E \in SUBSET (0 .. MaxPrio) /\ E # {}
    BY <1>0 DEF Prios
  <1>2. PICK e \in E : \A f \in E : e >= f
    BY <1>1, Constants, GreatestElement
  <1> DEFINE I == {i \in 1 .. Len(q) : effective_priority[q[i]] = e}
  <1>3. I \in SUBSET Nat /\ I # {}
    BY <1>0, <1>2
  <1>4. PICK i \in I : \A j \in I : i <= j
    <2> HIDE DEF I
    <2>1. QED
      BY <1>3, LeastElement
  <1>5. /\ i \in 1 .. Len(q)
        /\ \A j \in 1 .. Len(q) : effective_priority[q[j]] <= effective_priority[q[i]]
    BY <1>2, <1>4
  <1>6. \A j \in 1 .. i - 1 : effective_priority[q[j]] < effective_priority[q[i]]
    <2>1. SUFFICES ASSUME NEW j \in 1 .. i - 1
                   PROVE  effective_priority[q[j]] < effective_priority[q[i]]
      OBVIOUS
    <2>2. j \in 1 .. Len(q) /\ ~ (i <= j)
      BY <1>0, <1>5
    <2>3. effective_priority[q[j]] # e
      BY <1>4, <2>2
    <2>4. effective_priority[q[j]] \in Nat /\ effective_priority[q[i]] \in Nat
      BY <1>0, <1>5, <2>2, Constants
    <2>5. QED
      BY <1>4, <1>5, <2>2, <2>3, <2>4
  <1>7. QED
    BY <1>5, <1>6 DEF BestIndex

\* The floor of the new owner covers its own and all the waiters left.
LEMMA FloorFromFacts ==
  ASSUME NEW b \in Tasks, NEW q \in Seq(Tasks),
         effective_priority \in [Tasks -> Prios], pi_priority \in [Tasks -> Prios]
  PROVE  /\ FloorFrom(b, q) \in Prios
         /\ FloorFrom(b, q) >= pi_priority[b]
         /\ \A u \in InQueue(q) : FloorFrom(b, q) >= effective_priority[u]
  <1> DEFINE F == {pi_priority[b]} \cup {effective_priority[u] : u \in InQueue(q)}
  <1>1. \A u \in InQueue(q) : u \in Tasks
    BY ElementOfSeq DEF InQueue
  <1>2. F \in SUBSET (0 .. MaxPrio) /\ F # {}
    BY <1>1 DEF Prios
  <1>3. PICK f \in F : \A g \in F : f >= g
    <2> HIDE DEF F
    <2>1. QED
      BY <1>2, Constants, GreatestElement
  <1>4. \A g \in F : g <= f
    <2>1. \A g \in F : g \in Nat
      BY <1>2, Constants DEF Prios
    <2>2. QED
      BY <1>3, <2>1
  <1>5. FloorFrom(b, q) = CHOOSE g \in F : \A h \in F : h <= g
    BY DEF FloorFrom
  <1>6. FloorFrom(b, q) \in F /\ \A h \in F : h <= FloorFrom(b, q)
    <2> HIDE DEF F
    <2>1. QED
      BY <1>3, <1>4, <1>5
  <1>7. \A h \in F : h \in Nat
    BY <1>2, Constants DEF Prios
  <1>8. QED
    BY <1>2, <1>6, <1>7 DEF Prios

\* What does not touch a queued task or its floor, and ends no boost, keeps the
\* order.
LEMMA OrderKept ==
  ASSUME OrderInv, runq' = runq, UNCHANGED history,
         \A x \in InQueue(runq) :
           /\ effective_priority'[x] = effective_priority[x]
           /\ pi_priority'[x] = pi_priority[x] \/ Boosting(x)'
           /\ Boosting(x) => Boosting(x)'
  PROVE  OrderInv'
  <1>1. \A j \in 1 .. Len(runq) : runq[j] \in InQueue(runq)
    BY DEF InQueue
  <1>2. stirred' = stirred /\ disturbed' = disturbed
    BY DEF history
  <1>3. ASSUME ~ disturbed, InOrder, AheadOfFloor, AtFloor
        PROVE  InOrder' /\ AheadOfFloor' /\ AtFloor'
    <2>1. InOrder'
      BY <1>1, <1>2, <1>3 DEF InOrder
    <2>2. AheadOfFloor'
      BY <1>1, <1>2, <1>3 DEF AheadOfFloor
    <2>3. AtFloor'
      BY <1>1, <1>2, <1>3 DEF AtFloor
    <2>4. QED
      BY <2>1, <2>2, <2>3
  <1>4. QED
    BY <1>2, <1>3 DEF OrderInv

\* The stores without rq_lock take what they touch out of the order.
LEMMA OrderStirred ==
  ASSUME OrderInv, Stir, UNCHANGED <<runq, pi_priority>>,
         \A x \in InQueue(runq) : Boosting(x) => Boosting(x)'
  PROVE  OrderInv'
  <1>1. \A j \in 1 .. Len(runq) : runq[j] \in InQueue(runq)
    BY DEF InQueue
  <1>2. /\ disturbed' = disturbed /\ runq' = runq /\ pi_priority' = pi_priority
        /\ \A x \in InQueue(runq) : x \notin stirred' =>
             x \notin stirred /\ effective_priority'[x] = effective_priority[x]
    BY DEF Stir
  <1>3. ASSUME ~ disturbed, InOrder, AheadOfFloor, AtFloor
        PROVE  InOrder' /\ AheadOfFloor' /\ AtFloor'
    <2>1. InOrder'
      BY <1>1, <1>2, <1>3 DEF InOrder
    <2>2. AheadOfFloor'
      BY <1>1, <1>2, <1>3 DEF AheadOfFloor
    <2>3. AtFloor'
      BY <1>1, <1>2, <1>3 DEF AtFloor
    <2>4. QED
      BY <2>1, <2>2, <2>3
  <1>4. QED
    BY <1>2, <1>3 DEF OrderInv

-----------------------------------------------------------------------------
(***************************************************************************)
(* One lemma per action.                                                   *)
(***************************************************************************)
\* The fast path of pi_mutex_lock and pi_mutex_trylock keeps the invariant.
LEMMA LockFreeStep ==
  ASSUME IInv, NEW t \in Tasks, NEW m \in Mutexes, LockFree(t, m)
  PROVE  IInv'
  <1> USE Constants DEF IInv
  <1> USE DEF LockFree, MayTake, Acquire, rqvars, history
  <1>0. owner[m] = None /\ waitq[m] = <<>>
    BY DEF OwnerAndWaitersAgree, TypeOK
  <1>1. TypeOK'
    <2>1. /\ owner' \in [Mutexes -> Tasks \cup {None}]
          /\ locked' \in [Mutexes -> {0, 1}]
      BY DEF TypeOK
    <2>2. pi_mutexes_held' \in [Tasks -> Nat]
      BY DEF TypeOK
    <2>3. holding' \in [Tasks -> SUBSET Mutexes]
      BY DEF TypeOK
    <2>4. locks' \in [Tasks -> 0 .. MaxLocks]
      BY PiMutexAssumption DEF TypeOK
    <2>5. QED
      BY <2>1, <2>2, <2>3, <2>4 DEF TypeOK
  <1>2. ControlInv'
    BY <1>0 DEF ControlInv, Inside, TypeOK
  <1>3. QueueInv'
    BY DEF QueueInv
  <1>4. RqopInv'
    BY <1>0 DEF RqopInv, ControlInv, Inside, TypeOK
  <1>5. MutualExclusion'
    BY <1>0 DEF MutualExclusion, TypeOK
  <1>6. OwnerAndWaitersAgree'
    BY <1>0 DEF OwnerAndWaitersAgree, Waiting, TypeOK
  <1>7. HeldCountExact'
    <2>1. owner \in [Mutexes -> Tasks \cup {None}] /\ t # owner[m]
      BY <1>0 DEF TypeOK
    <2>2. \A u : Cardinality(Owned(u)') = IF u = t THEN Cardinality(Owned(u)) + 1
                                          ELSE IF u = owner[m] THEN Cardinality(Owned(u)) - 1
                                          ELSE Cardinality(Owned(u))
      BY <2>1, OwnedMoves
    <2>3. \A u \in Tasks : pi_mutexes_held[u] = Cardinality(Owned(u))
      BY DEF HeldCountExact, Owned
    <2>4. \A u \in Tasks : pi_mutexes_held'[u] = Cardinality(Owned(u)')
      BY <1>0, <2>2, <2>3 DEF TypeOK
    <2>5. \A u \in Tasks : pi_mutexes_held'[u] = 0 => pi_priority'[u] = 0
      <3>1. \A u \in Tasks : pi_mutexes_held[u] = 0 => pi_priority[u] = 0
        BY DEF HeldCountExact
      <3>2. QED
        BY <3>1 DEF TypeOK
    <2>6. QED
      BY <2>4, <2>5 DEF HeldCountExact, Owned
  <1>8. FloorCoversWaiters'
    <2>1. InQueue(waitq[m]) = {}
      BY <1>0 DEF InQueue
    <2>2. QED
      BY <2>1 DEF FloorCoversWaiters, TypeOK
  <1>9. LentFloor'
    BY <1>0 DEF LentFloor, Lending, Level, ControlInv, Inside, TypeOK
  <1>10. StaleFloorRepaired'
    BY <1>0 DEF StaleFloorRepaired, Lending, ControlInv, Inside, TypeOK
  <1>11. OrderInv'
    <2>1. \A x \in Tasks : Boosting(x) => Boosting(x)'
      BY <1>0 DEF Boosting, ControlInv, Inside, TypeOK
    <2>2. QED
      BY <2>1, OrderKept DEF QueueInv
  <1>12. QED
    BY <1>1, <1>2, <1>3, <1>4, <1>5, <1>6, <1>7, <1>8, <1>9, <1>10, <1>11

\* Entering the guard of a mutex that is held keeps the invariant.
LEMMA LockHeldStep ==
  ASSUME IInv, NEW t \in Tasks, NEW m \in Mutexes, LockHeld(t, m)
  PROVE  IInv'
  <1> USE Constants DEF IInv
  <1> USE DEF LockHeld, MayTake, priovars, rqvars, history
  <1>1. TypeOK'
    <2>1. guard' \in [Mutexes -> Tasks \cup {None}] /\ pc' \in [Tasks -> PCs]
      BY DEF TypeOK, PCs
    <2>2. want' \in [Tasks -> Mutexes \cup {NoMutex}]
      BY DEF TypeOK
    <2>3. locks' \in [Tasks -> 0 .. MaxLocks]
      BY PiMutexAssumption DEF TypeOK
    <2>4. QED
      BY <2>1, <2>2, <2>3 DEF TypeOK
  <1>2. ControlInv'
    <2>1. owner[m] \in Tasks
      BY DEF OwnerAndWaitersAgree, TypeOK
    <2>2. QED
      BY <2>1 DEF ControlInv, Inside, TypeOK
  <1>3. QueueInv'
    BY DEF QueueInv
  <1>4. RqopInv'
    BY DEF RqopInv, ControlInv, Inside, TypeOK
  <1>5. MutualExclusion'
    BY DEF MutualExclusion
  <1>6. OwnerAndWaitersAgree'
    BY SMTT(30) DEF OwnerAndWaitersAgree, Waiting, TypeOK
  <1>7. HeldCountExact'
    BY DEF HeldCountExact
  <1>8. FloorCoversWaiters'
    BY DEF FloorCoversWaiters
  <1>9. LentFloor'
    BY DEF LentFloor, Lending, Level, TypeOK
  <1>10. StaleFloorRepaired'
    BY ZenonT(40) DEF StaleFloorRepaired, Lending, TypeOK
  <1>11. OrderInv'
    <2>1. \A x \in Tasks : Boosting(x) => Boosting(x)'
      BY ZenonT(40) DEF Boosting, TypeOK
    <2>2. QED
      BY <2>1, OrderKept DEF QueueInv
  <1>12. QED
    BY <1>1, <1>2, <1>3, <1>4, <1>5, <1>6, <1>7, <1>8, <1>9, <1>10, <1>11

\* raise_inherited_priority: the floor only rises, and a task in hand whose floor
\* is overtaken has the caller as its repairer.
LEMMA RaiseFloorStep ==
  ASSUME IInv, NEW t \in Tasks, RaiseFloor(t)
  PROVE  IInv'
  <1> USE Constants DEF IInv
  <1> USE DEF RaiseFloor, mutexvars, rqvars, history
  <1> DEFINE o == owner[want[t]]
             high == Higher(pi_priority[o], effective_priority[t])
  <1>0. /\ state[t] = "running" /\ want[t] \in Mutexes /\ o \in Tasks
        /\ high \in Prios /\ high >= pi_priority[o] /\ high >= effective_priority[t]
        /\ pi_priority' = [pi_priority EXCEPT ![o] = high]
    <2>1. state[t] = "running" /\ want[t] \in Mutexes /\ o \in Tasks
      BY DEF ControlInv, Inside
    <2>2. QED
      BY <2>1, HigherFacts DEF TypeOK
  <1>01. ~ Raises(t) => high = pi_priority[o]
    <2>1. pi_priority[o] \in Nat /\ effective_priority[t] \in Nat
      BY <1>0 DEF TypeOK
    <2>2. QED
      BY <2>1 DEF Raises, Higher
  <1>00. \A x \in Tasks : /\ pi_priority[x] \in Nat /\ pi_priority'[x] \in Nat
                          /\ pi_priority'[x] >= pi_priority[x]
    <2> HIDE DEF high
    <2>1. \A x \in Tasks : pi_priority'[x] = IF x = o THEN high ELSE pi_priority[x]
      BY <1>0 DEF TypeOK
    <2>2. high \in Nat /\ \A x \in Tasks : pi_priority[x] \in Nat
      BY <1>0 DEF TypeOK
    <2>3. high >= pi_priority[o]
      BY <1>0
    <2>4. QED
      BY <2>1, <2>2, <2>3
  <1> HIDE DEF high
  <1>1. TypeOK'
    BY <1>0, HigherFacts DEF TypeOK, PCs
  <1>2. ControlInv'
    BY DEF ControlInv, Inside, TypeOK
  <1>3. QueueInv'
    BY DEF QueueInv
  <1>4. RqopInv'
    BY DEF RqopInv, ControlInv, Inside, TypeOK
  <1>5. MutualExclusion'
    BY DEF MutualExclusion
  <1>6. OwnerAndWaitersAgree'
    BY DEF OwnerAndWaitersAgree, Waiting, TypeOK
  <1>7. HeldCountExact'
    <2>1. pi_mutexes_held[o] # 0
      BY <1>0, OwnersCounted
    <2>2. \A u \in Tasks : pi_mutexes_held[u] = 0 => pi_priority[u] = 0
      BY DEF HeldCountExact
    <2>3. \A u \in Tasks : pi_mutexes_held'[u] = 0 => pi_priority'[u] = 0
      BY <1>0, <2>1, <2>2 DEF TypeOK
    <2>4. QED
      BY <2>3 DEF HeldCountExact
  <1>8. FloorCoversWaiters'
    <2>1. \A n \in Mutexes : \A u \in InQueue(waitq[n]) :
            /\ owner[n] \in Tasks /\ u \in Tasks /\ u # t
            /\ pi_priority[owner[n]] >= offered[u]
      <3>1. \A n \in Mutexes : \A u \in InQueue(waitq[n]) : u \in Tasks /\ waitq[n] # <<>>
        BY ElementOfSeq DEF InQueue, TypeOK
      <3>2. \A n \in Mutexes : waitq[n] # <<>> => owner[n] \in Tasks
        BY DEF OwnerAndWaitersAgree, TypeOK
      <3>3. \A n \in Mutexes : t \notin InQueue(waitq[n])
        BY <1>0 DEF OwnerAndWaitersAgree, Waiting
      <3>4. QED
        BY <3>1, <3>2, <3>3 DEF FloorCoversWaiters
    <2>2. \A u \in Tasks : u # t => offered'[u] = offered[u] /\ offered[u] \in Nat
      BY DEF TypeOK
    <2>3. QED
      BY <1>00, <2>1, <2>2 DEF FloorCoversWaiters
  <1>9. LentFloor'
    <2>1. \A u \in Tasks : u # t /\ (Lending(u) \/ Level(u)) => owner[want[u]] \in Tasks
      BY DEF ControlInv, Inside, Lending, Level
    <2>2. \A u \in Tasks : u # t => offered'[u] = offered[u] /\ offered[u] \in Nat /\ pc'[u] = pc[u]
      BY DEF TypeOK
    <2>3. offered'[t] = effective_priority[t] /\ pi_priority'[owner[want[t]]] = high
      BY <1>0 DEF TypeOK
    <2>4. QED
      BY <1>0, <1>00, <2>1, <2>2, <2>3 DEF LentFloor, Lending, Level
  <1>10. StaleFloorRepaired'
    <2>1. CASE rqop.task = o /\ Raises(t)
      <3>1. t # rqop.by \/ rqop = NoOp
        BY DEF RqopInv
      <3>2. Lending(t)' /\ owner'[want'[t]] = o
        BY <2>1 DEF Lending, TypeOK
      <3>3. QED
        BY <2>1, <3>1, <3>2 DEF StaleFloorRepaired
    <2>2. CASE rqop.task # o \/ ~ Raises(t)
      <3>1. rqop # NoOp => rqop.task \in Tasks
        BY DEF RqopInv, ControlInv, QueueInv, TypeOK
      <3>2. rqop # NoOp => pi_priority'[rqop.task] = pi_priority[rqop.task]
        BY <1>0, <1>01, <2>2, <3>1 DEF TypeOK
      <3>3. \A u \in Tasks : Lending(u) => Lending(u)'
        BY DEF Lending, TypeOK
      <3>4. QED
        BY <3>2, <3>3 DEF StaleFloorRepaired
    <2>3. QED
      BY <2>1, <2>2
  <1>11. OrderInv'
    <2>1. \A x \in Tasks : Boosting(x) => Boosting(x)'
      BY DEF Boosting, TypeOK
    <2>2. Raises(t) => Boosting(o)'
      BY DEF Boosting, TypeOK
    <2>3. \A x \in Tasks : pi_priority'[x] = pi_priority[x] \/ Boosting(x)'
      BY <1>0, <1>01, <2>2 DEF TypeOK
    <2>4. QED
      BY <2>1, <2>3, OrderKept DEF QueueInv
  <1>12. QED
    BY <1>1, <1>2, <1>3, <1>4, <1>5, <1>6, <1>7, <1>8, <1>9, <1>10, <1>11

\* The comparison of the two priorities changes nothing but the place in the code.
LEMMA CompareOwnerStep ==
  ASSUME IInv, NEW t \in Tasks, CompareOwner(t)
  PROVE  IInv'
  <1> USE Constants DEF IInv
  <1> USE DEF CompareOwner, mutexvars, priovars, rqvars, history
  <1>1. TypeOK'
    BY DEF TypeOK, PCs
  <1>2. ControlInv'
    BY DEF ControlInv, Inside, TypeOK
  <1>3. QueueInv'
    BY DEF QueueInv
  <1>4. RqopInv'
    BY DEF RqopInv, ControlInv, Inside, TypeOK
  <1>5. MutualExclusion'
    BY DEF MutualExclusion
  <1>6. OwnerAndWaitersAgree'
    BY DEF OwnerAndWaitersAgree, Waiting, TypeOK
  <1>7. HeldCountExact'
    BY DEF HeldCountExact
  <1>8. FloorCoversWaiters'
    BY DEF FloorCoversWaiters
  <1>9. LentFloor'
    BY DEF LentFloor, Lending, Level, TypeOK
  <1>10. StaleFloorRepaired'
    BY DEF StaleFloorRepaired, Lending, TypeOK
  <1>11. OrderInv'
    <2>1. \A x \in Tasks : Boosting(x) => Boosting(x)'
      BY DEF Boosting, TypeOK
    <2>2. QED
      BY <2>1, OrderKept DEF QueueInv
  <1>12. QED
    BY <1>1, <1>2, <1>3, <1>4, <1>5, <1>6, <1>7, <1>8, <1>9, <1>10, <1>11

\* The caller waits: what it lent becomes what a waiter offered.
LEMMA AppendAndBlockStep ==
  ASSUME IInv, NEW t \in Tasks, AppendAndBlock(t)
  PROVE  IInv'
  <1> USE Constants DEF IInv
  <1> USE DEF AppendAndBlock, priovars, rqvars, history
  <1>0. /\ state[t] = "running" /\ want[t] \in Mutexes
        /\ waitq[want[t]] \in Seq(Tasks)
        /\ waitq' = [waitq EXCEPT ![want[t]] = Append(waitq[want[t]], t)]
        /\ Append(waitq[want[t]], t) \in Seq(Tasks)
        /\ InQueue(Append(waitq[want[t]], t)) = InQueue(waitq[want[t]]) \cup {t}
        /\ Distinct(Append(waitq[want[t]], t))
    <2>1. state[t] = "running" /\ want[t] \in Mutexes
      BY DEF ControlInv, Inside
    <2>2. waitq[want[t]] \in Seq(Tasks)
      BY <2>1 DEF TypeOK
    <2>3. Distinct(waitq[want[t]]) /\ t \notin InQueue(waitq[want[t]])
      BY <2>1 DEF OwnerAndWaitersAgree, Waiting, Distinct
    <2>4. QED
      BY <2>1, <2>2, <2>3, AppendFacts
  <1>1. TypeOK'
    <2>1. waitq' \in [Mutexes -> Seq(Tasks)]
      BY <1>0 DEF TypeOK
    <2>2. guard' \in [Mutexes -> Tasks \cup {None}]
      BY DEF TypeOK
    <2>3. state' \in [Tasks -> States] /\ pc' \in [Tasks -> PCs]
      BY DEF TypeOK, PCs, States
    <2>4. QED
      BY <2>1, <2>2, <2>3 DEF TypeOK
  <1>2. ControlInv'
    BY <1>0 DEF ControlInv, Inside, TypeOK
  <1>3. QueueInv'
    BY <1>0 DEF QueueInv, TypeOK
  <1>4. RqopInv'
    BY DEF RqopInv, ControlInv, Inside, TypeOK
  <1>5. MutualExclusion'
    BY DEF MutualExclusion
  <1>6. OwnerAndWaitersAgree'
    <2>1. owner[want[t]] \in Tasks
      BY DEF ControlInv, Inside
    <2>2. \A n \in Mutexes : \A i, j \in 1 .. Len(waitq'[n]) :
            waitq'[n][i] = waitq'[n][j] => i = j
      <3>1. \A n \in Mutexes : waitq'[n] = IF n = want[t] THEN Append(waitq[want[t]], t)
                                                        ELSE waitq[n]
        BY <1>0 DEF TypeOK
      <3>2. QED
        BY <1>0, <3>1 DEF OwnerAndWaitersAgree, Distinct
    <2>3. \A u \in Tasks, n \in Mutexes :
            Waiting(u, n)' <=> (state'[u] = "blocked" /\ want'[u] = n)
      BY <1>0 DEF OwnerAndWaitersAgree, Waiting, TypeOK
    <2>4. QED
      BY SMTT(30), <2>1, <2>2, <2>3 DEF OwnerAndWaitersAgree, TypeOK
  <1>7. HeldCountExact'
    BY DEF HeldCountExact
  <1>8. FloorCoversWaiters'
    BY <1>0 DEF FloorCoversWaiters, LentFloor, Level, TypeOK
  <1>9. LentFloor'
    BY DEF LentFloor, Lending, Level, TypeOK
  <1>10. StaleFloorRepaired'
    BY DEF StaleFloorRepaired, Lending, TypeOK
  <1>11. OrderInv'
    <2>1. \A x \in Tasks : Boosting(x) => Boosting(x)'
      BY DEF Boosting, TypeOK
    <2>2. QED
      BY <2>1, OrderKept DEF QueueInv
  <1>12. QED
    BY <1>1, <1>2, <1>3, <1>4, <1>5, <1>6, <1>7, <1>8, <1>9, <1>10, <1>11

\* try_boost_owner stores without rq_lock: a queued owner is stirred.
LEMMA BoostOwnerStep ==
  ASSUME IInv, NEW t \in Tasks, BoostOwner(t)
  PROVE  IInv'
  <1> USE Constants DEF IInv
  <1> USE DEF BoostOwner, mutexvars, rqvars
  <1>0. want[t] \in Mutexes /\ owner[want[t]] \in Tasks
    BY DEF ControlInv, Inside
  <1>1. TypeOK'
    BY <1>0 DEF TypeOK, PCs, QueueInv, Stir
  <1>2. ControlInv'
    BY <1>0 DEF ControlInv, Inside, TypeOK
  <1>3. QueueInv'
    BY DEF QueueInv, Stir
  <1>4. RqopInv'
    BY DEF RqopInv, ControlInv, Inside, TypeOK
  <1>5. MutualExclusion'
    BY DEF MutualExclusion
  <1>6. OwnerAndWaitersAgree'
    BY DEF OwnerAndWaitersAgree, Waiting, TypeOK
  <1>7. HeldCountExact'
    BY DEF HeldCountExact
  <1>8. FloorCoversWaiters'
    BY DEF FloorCoversWaiters
  <1>9. LentFloor'
    BY DEF LentFloor, Lending, Level, TypeOK
  <1>10. StaleFloorRepaired'
    BY DEF StaleFloorRepaired, Lending, TypeOK
  <1>11. OrderInv'
    <2>1. \A x \in Tasks : Boosting(x) => Boosting(x)'
      BY DEF Boosting, TypeOK
    <2>2. QED
      BY <2>1, OrderStirred DEF QueueInv
  <1>12. QED
    BY <1>1, <1>2, <1>3, <1>4, <1>5, <1>6, <1>7, <1>8, <1>9, <1>10, <1>11

\* task_set_priority stores without rq_lock too.
LEMMA SetPriorityStep ==
  ASSUME IInv, NEW t \in Tasks, NEW p \in Prios, task_set_priority(t, p)
  PROVE  IInv'
  <1> USE Constants DEF IInv
  <1> USE DEF task_set_priority, mutexvars, rqvars
  <1>1. TypeOK'
    <2>1. Higher(effective_priority[t], p) \in Prios
      BY HigherFacts DEF TypeOK
    <2>2. priority' \in [Tasks -> Prios] /\ effective_priority' \in [Tasks -> Prios]
      BY <2>1 DEF TypeOK
    <2>3. stirred' \in SUBSET Tasks /\ disturbed' \in BOOLEAN
      BY DEF TypeOK, QueueInv, Stir
    <2>4. sets' \in 0 .. MaxSets
      <3>1. sets \in 0 .. MaxSets /\ MaxSets \in Nat
        BY PiMutexAssumption DEF TypeOK
      <3>2. QED
        BY <3>1
    <2>5. QED
      BY <2>2, <2>3, <2>4 DEF TypeOK
  <1>2. ControlInv'
    BY DEF ControlInv, Inside
  <1>3. QueueInv'
    BY DEF QueueInv, Stir
  <1>4. RqopInv'
    BY DEF RqopInv
  <1>5. MutualExclusion'
    BY DEF MutualExclusion
  <1>6. OwnerAndWaitersAgree'
    BY DEF OwnerAndWaitersAgree, Waiting, TypeOK
  <1>7. HeldCountExact'
    BY DEF HeldCountExact
  <1>8. FloorCoversWaiters'
    BY DEF FloorCoversWaiters
  <1>9. LentFloor'
    BY DEF LentFloor, Lending, Level, TypeOK
  <1>10. StaleFloorRepaired'
    BY DEF StaleFloorRepaired, Lending, TypeOK
  <1>11. OrderInv'
    <2>1. \A x \in Tasks : Boosting(x) => Boosting(x)'
      BY DEF Boosting, TypeOK
    <2>2. QED
      BY <2>1, OrderStirred DEF QueueInv
  <1>12. QED
    BY <1>1, <1>2, <1>3, <1>4, <1>5, <1>6, <1>7, <1>8, <1>9, <1>10, <1>11

\* A tick takes the task in hand with the base it has.
LEMMA PreemptStartStep ==
  ASSUME IInv, NEW t \in Tasks, PreemptStart(t)
  PROVE  IInv'
  <1> USE Constants DEF IInv
  <1> USE DEF PreemptStart, mutexvars, priovars, history
  <1>1. TypeOK'
    BY DEF TypeOK, States, RqStart
  <1>2. ControlInv'
    BY DEF ControlInv, Inside, TypeOK
  <1>3. QueueInv'
    BY DEF QueueInv, TypeOK
  <1>4. RqopInv'
    BY DEF RqopInv, RqStart, TypeOK
  <1>5. MutualExclusion'
    BY DEF MutualExclusion
  <1>6. OwnerAndWaitersAgree'
    BY DEF OwnerAndWaitersAgree, Waiting, TypeOK
  <1>7. HeldCountExact'
    BY DEF HeldCountExact
  <1>8. FloorCoversWaiters'
    BY DEF FloorCoversWaiters
  <1>9. LentFloor'
    BY DEF LentFloor, Lending, Level, TypeOK
  <1>10. StaleFloorRepaired'
    BY DEF StaleFloorRepaired, RqStart
  <1>11. OrderInv'
    <2>1. \A x \in Tasks : Boosting(x) => Boosting(x)'
      BY DEF Boosting, TypeOK
    <2>2. QED
      BY <2>1, OrderKept DEF QueueInv
  <1>12. QED
    BY <1>1, <1>2, <1>3, <1>4, <1>5, <1>6, <1>7, <1>8, <1>9, <1>10, <1>11

\* The unlocker takes the new owner in hand with the base it has.
LEMMA WakeStartStep ==
  ASSUME IInv, NEW t \in Tasks, WakeStart(t)
  PROVE  IInv'
  <1> USE Constants DEF IInv
  <1> USE DEF WakeStart, mutexvars, priovars, ctlvars, history
  <1>0. wakee[t] \in Tasks
    BY DEF ControlInv
  <1>1. TypeOK'
    BY <1>0 DEF TypeOK, RqStart
  <1>2. ControlInv'
    BY DEF ControlInv, Inside, TypeOK
  <1>3. QueueInv'
    BY DEF QueueInv
  <1>4. RqopInv'
    BY DEF RqopInv, RqStart
  <1>5. MutualExclusion'
    BY DEF MutualExclusion
  <1>6. OwnerAndWaitersAgree'
    BY DEF OwnerAndWaitersAgree, Waiting, TypeOK
  <1>7. HeldCountExact'
    BY DEF HeldCountExact
  <1>8. FloorCoversWaiters'
    BY DEF FloorCoversWaiters
  <1>9. LentFloor'
    BY DEF LentFloor, Lending, Level, TypeOK
  <1>10. StaleFloorRepaired'
    BY DEF StaleFloorRepaired, RqStart
  <1>11. OrderInv'
    <2>1. \A x \in Tasks : Boosting(x) => Boosting(x)'
      BY DEF Boosting, TypeOK
    <2>2. QED
      BY <2>1, OrderKept DEF QueueInv
  <1>12. QED
    BY <1>1, <1>2, <1>3, <1>4, <1>5, <1>6, <1>7, <1>8, <1>9, <1>10, <1>11

\* sched_reposition_task takes a queued owner in hand, or lets one that runs be.
LEMMA ReposStartStep ==
  ASSUME IInv, NEW t \in Tasks, ReposStart(t)
  PROVE  IInv'
  <1> USE Constants DEF IInv
  <1> USE DEF mutexvars, priovars, history
  <1> DEFINE o == owner[want[t]]
             Queued == /\ o \in InQueue(runq) /\ UNCHANGED pc
                       /\ rqop' = RqStart("repos", t, o)
             Gone == /\ o \notin InQueue(runq) /\ UNCHANGED rqop
                     /\ pc' = [pc EXCEPT ![t] = "append"]
  <1>0. want[t] \in Mutexes /\ o \in Tasks
    BY DEF ReposStart, ControlInv, Inside
  <1>01. /\ Queued \/ Gone
         /\ rqop = NoOp /\ pc[t] = "repos"
         /\ UNCHANGED <<mutexvars, priovars, runq, state, want, wakee, holding, offered,
                        locks, sets, history>>
    BY DEF ReposStart
  <1>1. TypeOK'
    <2>1. CASE Queued
      BY <1>0, <1>01, <2>1 DEF TypeOK, RqStart
    <2>2. CASE Gone
      BY <1>0, <1>01, <2>2 DEF TypeOK, PCs
    <2>3. QED
      BY <1>01, <2>1, <2>2
  <1>2. ControlInv'
    <2>1. CASE Queued
      BY <1>01, <2>1 DEF ControlInv, Inside
    <2>2. CASE Gone
      BY <1>01, <2>2 DEF ControlInv, Inside, TypeOK
    <2>3. QED
      BY <1>01, <2>1, <2>2
  <1>3. QueueInv'
    BY <1>01 DEF QueueInv
  <1>4. RqopInv'
    BY <1>0, <1>01 DEF RqopInv, RqStart, TypeOK
  <1>5. MutualExclusion'
    BY <1>01 DEF MutualExclusion
  <1>6. OwnerAndWaitersAgree'
    BY <1>01 DEF OwnerAndWaitersAgree, Waiting
  <1>7. HeldCountExact'
    BY <1>01 DEF HeldCountExact
  <1>8. FloorCoversWaiters'
    BY <1>01 DEF FloorCoversWaiters
  <1>9. LentFloor'
    BY <1>01 DEF LentFloor, Lending, Level, TypeOK
  <1>10. StaleFloorRepaired'
    <2>1. CASE Queued
      BY <1>01, <2>1 DEF StaleFloorRepaired, RqStart
    <2>2. CASE Gone
      BY <1>01, <2>2 DEF StaleFloorRepaired
    <2>3. QED
      BY <1>01, <2>1, <2>2
  <1>11. OrderInv'
    <2>1. \A x \in InQueue(runq) : Boosting(x) => Boosting(x)'
      BY <1>0, <1>01 DEF Boosting, TypeOK
    <2>2. QED
      BY <1>01, <2>1, OrderKept
  <1>12. QED
    BY <1>1, <1>2, <1>3, <1>4, <1>5, <1>6, <1>7, <1>8, <1>9, <1>10, <1>11

\* pi_mutex_unlock without waiters: the floor is dropped with the last mutex only.
LEMMA UnlockFreeStep ==
  ASSUME IInv, NEW t \in Tasks, NEW m \in Mutexes, UnlockFree(t, m)
  PROVE  IInv'
  <1> USE Constants DEF IInv
  <1> USE DEF UnlockFree, MayRelease, rqvars, history
  <1>0. /\ owner[m] = t /\ state[t] = "running" /\ pc[t] = "run"
        /\ waitq[m] = <<>> /\ InQueue(waitq[m]) = {}
    BY DEF MutualExclusion, HasWaiters, InQueue
  <1>01. /\ None # owner[m]
         /\ \A u \in Tasks : Inside(u) => want[u] \in Mutexes /\ want[u] # m
    BY <1>0 DEF ControlInv, TypeOK
  <1>02. /\ \A u \in Tasks : u # t => /\ pi_priority'[u] = pi_priority[u]
                                     /\ effective_priority'[u] = effective_priority[u]
         /\ \/ pi_priority'[t] = pi_priority[t]
            \/ \A n \in Mutexes : owner[n] = t => n = m
    <2>1. DropsFloor(t) => \A n \in Mutexes : owner[n] = t => n = m
      BY <1>0, OnlyOwned DEF DropsFloor
    <2>2. QED
      BY <2>1 DEF TypeOK
  <1>1. TypeOK'
    <2>1. owner' \in [Mutexes -> Tasks \cup {None}] /\ locked' \in [Mutexes -> {0, 1}]
      BY DEF TypeOK
    <2>2. pi_mutexes_held' \in [Tasks -> Nat]
      <3>1. pi_mutexes_held[t] \in Nat /\ pi_mutexes_held[t] >= 1
        BY <1>0, OwnerCounted DEF TypeOK
      <3>2. QED
        BY <3>1 DEF TypeOK
    <2>3. pi_priority' \in [Tasks -> Prios] /\ effective_priority' \in [Tasks -> Prios]
      BY DEF TypeOK
    <2>4. holding' \in [Tasks -> SUBSET Mutexes]
      BY DEF TypeOK
    <2>5. QED
      BY <2>1, <2>2, <2>3, <2>4 DEF TypeOK
  <1>2. ControlInv'
    BY <1>0, <1>01 DEF ControlInv, Inside, TypeOK
  <1>3. QueueInv'
    BY DEF QueueInv
  <1>4. RqopInv'
    BY <1>0, <1>01 DEF RqopInv, Inside, TypeOK
  <1>5. MutualExclusion'
    BY <1>0 DEF MutualExclusion, TypeOK
  <1>6. OwnerAndWaitersAgree'
    BY <1>0 DEF OwnerAndWaitersAgree, Waiting, TypeOK
  <1>7. HeldCountExact'
    <2>0. PICK n \in Tasks \cup {None} : n = None
      OBVIOUS
    <2>01. /\ owner \in [Mutexes -> Tasks \cup {None}] /\ n # owner[m]
           /\ owner' = [owner EXCEPT ![m] = n]
      BY <1>01, <2>0 DEF TypeOK
    <2>1. \A u : Cardinality(Owned(u)') = IF u = n THEN Cardinality(Owned(u)) + 1
                                         ELSE IF u = owner[m] THEN Cardinality(Owned(u)) - 1
                                         ELSE Cardinality(Owned(u))
      BY <2>01, OwnedMoves
    <2>2. \A u \in Tasks : /\ pi_mutexes_held[u] = Cardinality(Owned(u))
                          /\ pi_mutexes_held[u] \in Nat
      BY DEF HeldCountExact, Owned, TypeOK
    <2>3. pi_mutexes_held[t] >= 1
      BY <1>0, OwnerCounted
    <2>4. \A u \in Tasks : pi_mutexes_held'[u] = Cardinality(Owned(u)')
      BY <1>0, <2>0, <2>1, <2>2 DEF TypeOK
    <2>5. \A u \in Tasks : pi_mutexes_held'[u] = 0 => pi_priority'[u] = 0
      <3>1. \A u \in Tasks : pi_mutexes_held[u] = 0 => pi_priority[u] = 0
        BY DEF HeldCountExact
      <3>2. pi_mutexes_held'[t] = 0 => pi_priority'[t] = 0
        BY <2>2, <2>3 DEF DropsFloor, TypeOK
      <3>3. \A u \in Tasks : u # t => pi_mutexes_held'[u] = pi_mutexes_held[u]
        BY DEF TypeOK
      <3>4. QED
        BY <1>02, <3>1, <3>2, <3>3
    <2>6. QED
      BY <2>4, <2>5 DEF HeldCountExact, Owned
  <1>8. FloorCoversWaiters'
    BY <1>0, <1>01, <1>02 DEF FloorCoversWaiters, TypeOK
  <1>9. LentFloor'
    <2>1. SUFFICES ASSUME NEW u \in Tasks, Lending(u) \/ Level(u)
                   PROVE  (pi_priority[owner[want[u]]] >= offered[u])'
      BY DEF LentFloor, Lending, Level
    <2>2. want[u] \in Mutexes /\ want[u] # m /\ owner[want[u]] \in Tasks
      BY <1>01, <2>1 DEF Lending, Level, ControlInv, Inside
    <2>3. owner'[want'[u]] = owner[want[u]] /\ pi_priority'[owner[want[u]]] = pi_priority[owner[want[u]]]
      BY <1>02, <2>2 DEF TypeOK
    <2>4. QED
      BY <2>1, <2>3 DEF LentFloor
  <1>10. StaleFloorRepaired'
    <2>1. rqop # NoOp => rqop.task \in Tasks /\ rqop.task # t
      BY <1>0 DEF RqopInv, ControlInv, QueueInv
    <2>2. QED
      BY <1>0, <1>01, <1>02, <2>1 DEF StaleFloorRepaired, Lending, ControlInv, Inside, TypeOK
  <1>11. OrderInv'
    <2>1. \A x \in Tasks : Boosting(x) => Boosting(x)'
      BY <1>0, <1>01 DEF Boosting, ControlInv, Inside, TypeOK
    <2>2. QED
      BY <1>0, <1>02, <2>1, OrderKept DEF QueueInv
  <1>12. QED
    BY <1>1, <1>2, <1>3, <1>4, <1>5, <1>6, <1>7, <1>8, <1>9, <1>10, <1>11

\* pi_mutex_unlock with waiters: the new owner's floor covers the ones left.
LEMMA UnlockHandOffStep ==
  ASSUME IInv, NEW t \in Tasks, NEW m \in Mutexes, UnlockHandOff(t, m)
  PROVE  IInv'
  <1> USE Constants DEF IInv
  <1> USE DEF MayRelease, rqvars, history
  <1> DEFINE i == BestIndex(waitq[m])
             best == waitq[m][i]
             rest == Unlinked(waitq[m], i)
  <1>0. /\ owner[m] = t /\ state[t] = "running" /\ pc[t] = "run" /\ guard[m] = None
        /\ waitq[m] \in Seq(Tasks) /\ waitq[m] # <<>> /\ Distinct(waitq[m])
    BY DEF UnlockHandOff, MutualExclusion, HasWaiters, TypeOK, OwnerAndWaitersAgree, Distinct
  <1>1b. /\ best \in Tasks /\ best \in InQueue(waitq[m])
         /\ rest \in Seq(Tasks) /\ InQueue(rest) = InQueue(waitq[m]) \ {best} /\ Distinct(rest)
    <2>1. i \in 1 .. Len(waitq[m])
      BY <1>0, BestChosen DEF TypeOK
    <2>2. best \in Tasks
      BY <1>0, <2>1, ElementOfSeq
    <2>3. best \in InQueue(waitq[m])
      BY <2>1 DEF InQueue
    <2> HIDE DEF i
    <2>4. /\ Without(waitq[m], i) \in Seq(Tasks) /\ Distinct(Without(waitq[m], i))
          /\ InQueue(Without(waitq[m], i)) = InQueue(waitq[m]) \ {waitq[m][i]}
      BY <1>0, <2>1, WithoutFacts
    <2>5. QED
      BY <2>2, <2>3, <2>4 DEF Unlinked
  <1>1a. /\ waitq' = [waitq EXCEPT ![m] = rest]
         /\ owner' = [owner EXCEPT ![m] = best]
         /\ pi_mutexes_held' = [pi_mutexes_held EXCEPT ![t] = @ - 1, ![best] = @ + 1]
         /\ pi_priority' = [pi_priority EXCEPT ![t] = IF DropsFloor(t) THEN 0 ELSE @,
                                               ![best] = FloorFrom(best, rest)]
         /\ effective_priority' =
              [effective_priority EXCEPT ![t] = IF DropsFloor(t) THEN priority[t] ELSE @]
         /\ holding' = [holding EXCEPT ![t] = @ \ {m}]
         /\ state' = [state EXCEPT ![best] = "ready"]
         /\ pc' = [pc EXCEPT ![t] = "wake"]
         /\ wakee' = [wakee EXCEPT ![t] = best]
         /\ offered' = [u \in Tasks |-> IF u \in InQueue(rest) THEN effective_priority[u]
                                        ELSE offered[u]]
         /\ UNCHANGED <<locked, guard, priority, want, locks, sets, rqvars, history>>
    BY DEF UnlockHandOff
  <1> HIDE DEF i, best, rest
  <1>1c. /\ best \in Tasks /\ best # t /\ best # owner[m]
         /\ state[best] = "blocked" /\ want[best] = m /\ pc[best] = "blocked"
         /\ rest \in Seq(Tasks) /\ InQueue(rest) = InQueue(waitq[m]) \ {best} /\ Distinct(rest)
    <2>1. state[best] = "blocked" /\ want[best] = m
      BY <1>1b DEF OwnerAndWaitersAgree, Waiting
    <2>2. QED
      BY <1>0, <1>1b, <2>1 DEF ControlInv
  <1>1d. \A u \in Tasks : Inside(u) => want[u] \in Mutexes /\ want[u] # m
    BY <1>0 DEF ControlInv, TypeOK
  <1>1e. /\ \A u \in Tasks : u # t /\ u # best => pi_priority'[u] = pi_priority[u]
         /\ \A u \in Tasks : pi_priority[u] \in Nat /\ pi_priority'[u] \in Nat
         /\ \A u \in InQueue(rest) : /\ pi_priority'[best] >= effective_priority[u]
                                     /\ effective_priority[u] \in Nat
         /\ \A n \in Mutexes : n # m /\ owner[n] \in Tasks =>
              pi_priority'[owner[n]] >= pi_priority[owner[n]]
    <2>1. DropsFloor(t) => \A n \in Mutexes : owner[n] = t => n = m
      BY <1>0, OnlyOwned DEF DropsFloor
    <2>2. /\ FloorFrom(best, rest) \in Prios /\ FloorFrom(best, rest) >= pi_priority[best]
          /\ \A u \in InQueue(rest) : FloorFrom(best, rest) >= effective_priority[u]
      BY <1>1c, FloorFromFacts DEF TypeOK
    <2>3. /\ pi_priority'[best] = FloorFrom(best, rest)
          /\ pi_priority'[t] = IF DropsFloor(t) THEN 0 ELSE pi_priority[t]
          /\ \A u \in Tasks : u # t /\ u # best => pi_priority'[u] = pi_priority[u]
      BY <1>1a, <1>1c DEF TypeOK
    <2>4. \A u \in InQueue(rest) : u \in Tasks
      BY <1>1c, ElementOfSeq DEF InQueue
    <2>5. \A u \in Tasks : pi_priority[u] \in Nat /\ effective_priority[u] \in Nat
      BY DEF TypeOK
    <2>6. \A u \in Tasks : pi_priority'[u] \in Nat
      BY <2>2, <2>3, <2>5
    <2>7. \A n \in Mutexes : n # m /\ owner[n] \in Tasks =>
              pi_priority'[owner[n]] >= pi_priority[owner[n]]
      BY <2>1, <2>2, <2>3, <2>5
    <2>8. QED
      BY <2>2, <2>3, <2>4, <2>5, <2>6, <2>7
  <1>1. TypeOK'
    <2>1. /\ owner' \in [Mutexes -> Tasks \cup {None}]
          /\ waitq' \in [Mutexes -> Seq(Tasks)]
      BY <1>1a, <1>1c DEF TypeOK
    <2>2. pi_mutexes_held' \in [Tasks -> Nat]
      <3>1. pi_mutexes_held[t] \in Nat /\ pi_mutexes_held[t] >= 1
        BY <1>0, OwnerCounted DEF TypeOK
      <3>2. \A u \in Tasks : pi_mutexes_held[u] \in Nat
        BY DEF TypeOK
      <3>3. pi_mutexes_held' = [u \in Tasks |-> IF u = best THEN pi_mutexes_held[u] + 1
                                             ELSE IF u = t THEN pi_mutexes_held[u] - 1
                                             ELSE pi_mutexes_held[u]]
        BY <1>1a, <1>1c DEF TypeOK
      <3>4. QED
        BY <3>1, <3>2, <3>3
    <2>3. pi_priority' \in [Tasks -> Prios] /\ effective_priority' \in [Tasks -> Prios]
      BY <1>1a, <1>1c, FloorFromFacts DEF TypeOK
    <2>4. holding' \in [Tasks -> SUBSET Mutexes] /\ offered' \in [Tasks -> Prios]
      BY <1>1a DEF TypeOK
    <2>5. /\ state' \in [Tasks -> States] /\ pc' \in [Tasks -> PCs]
          /\ wakee' \in [Tasks -> Tasks \cup {None}]
      BY <1>1a, <1>1c DEF TypeOK, States, PCs
    <2>6. QED
      BY <1>1a, <2>1, <2>2, <2>3, <2>4, <2>5 DEF TypeOK
  <1>2. ControlInv'
    <2>1. \A u \in Tasks :
            /\ Inside(u)' => /\ state'[u] = "running" /\ want'[u] \in Mutexes
                             /\ guard'[want'[u]] = u /\ owner'[want'[u]] \in Tasks
            /\ state'[u] = "blocked" => pc'[u] = "blocked"
      BY SMTT(30), <1>0, <1>1a, <1>1c, <1>1d DEF ControlInv, Inside, TypeOK
    <2>2. \A u \in Tasks : pc'[u] = "blocked" =>
            /\ want'[u] \in Mutexes /\ state'[u] # "running"
            /\ state'[u] # "blocked" => owner'[want'[u]] = u
      BY SMTT(30), <1>0, <1>1a, <1>1c, <1>1d DEF ControlInv, TypeOK
    <2>3. \A u \in Tasks : u # t /\ pc[u] = "wake" =>
            /\ pc'[u] = "wake" /\ wakee'[u] = wakee[u] /\ wakee[u] # best
            /\ wakee[u] \in Tasks /\ wakee[u] # t
      <3>1. \A u \in Tasks : pc[u] = "wake" =>
              wakee[u] \in Tasks /\ pc[wakee[u]] = "blocked" /\ state[wakee[u]] = "ready"
        BY DEF ControlInv
      <3>2. \A u \in Tasks : u # t => pc'[u] = pc[u] /\ wakee'[u] = wakee[u]
        BY <1>1a DEF TypeOK
      <3>3. QED
        BY <1>0, <1>1c, <3>1, <3>2
    <2>4. pc'[t] = "wake" /\ wakee'[t] = best /\ pc'[best] = "blocked" /\ state'[best] = "ready"
      BY <1>1a, <1>1c DEF TypeOK
    <2>5. \A u \in Tasks : u # t => pc'[u] = pc[u]
      BY <1>1a DEF TypeOK
    <2>6. \A u \in Tasks : pc'[u] = "wake" =>
            /\ wakee'[u] \in Tasks
            /\ pc'[wakee'[u]] = "blocked" /\ state'[wakee'[u]] = "ready"
      BY SMTT(30), <1>1a, <1>1c, <2>3, <2>4, <2>5 DEF ControlInv, TypeOK
    <2>7. \A u, v \in Tasks :
            pc'[u] = "wake" /\ pc'[v] = "wake" /\ wakee'[u] = wakee'[v] => u = v
      BY <2>3, <2>4, <2>5 DEF ControlInv
    <2>8. QED
      BY <2>1, <2>2, <2>6, <2>7 DEF ControlInv
  <1>3. QueueInv'
    BY <1>1a, <1>1c DEF QueueInv, TypeOK
  <1>4. RqopInv'
    BY SMTT(30), <1>0, <1>1a, <1>1c, <1>1d DEF RqopInv, Inside, TypeOK
  <1>5. MutualExclusion'
    BY <1>0, <1>1a DEF MutualExclusion, TypeOK
  <1>6. OwnerAndWaitersAgree'
    <2>1. \A n \in Mutexes : waitq'[n] = IF n = m THEN rest ELSE waitq[n]
      BY <1>1a DEF TypeOK
    <2>2. \A n \in Mutexes : owner'[n] # None <=> owner[n] # None
      BY <1>0, <1>1a, <1>1c DEF TypeOK
    <2>3. \A n \in Mutexes : \A j, k \in 1 .. Len(waitq'[n]) :
            waitq'[n][j] = waitq'[n][k] => j = k
      BY <1>1c, <2>1 DEF OwnerAndWaitersAgree, Distinct
    <2>4. \A u \in Tasks, n \in Mutexes :
            Waiting(u, n)' <=> (state'[u] = "blocked" /\ want'[u] = n)
      BY SMTT(30), <1>1a, <1>1c, <2>1 DEF OwnerAndWaitersAgree, Waiting, TypeOK
    <2>5. \A n \in Mutexes : waitq'[n] # <<>> => waitq[n] # <<>>
      BY <1>0, <2>1
    <2>6. QED
      BY <1>1a, <2>2, <2>3, <2>4, <2>5 DEF OwnerAndWaitersAgree
  <1>7. HeldCountExact'
    <2>0. PICK n \in Tasks \cup {None} : n = best
      BY <1>1c
    <2>01. /\ owner \in [Mutexes -> Tasks \cup {None}] /\ n # owner[m]
           /\ owner' = [owner EXCEPT ![m] = n]
      BY <1>1a, <1>1c, <2>0 DEF TypeOK
    <2>1. \A u : Cardinality(Owned(u)') = IF u = n THEN Cardinality(Owned(u)) + 1
                                         ELSE IF u = owner[m] THEN Cardinality(Owned(u)) - 1
                                         ELSE Cardinality(Owned(u))
      BY <2>01, OwnedMoves
    <2>2. \A u \in Tasks : /\ pi_mutexes_held[u] = Cardinality(Owned(u))
                          /\ pi_mutexes_held[u] \in Nat
      BY DEF HeldCountExact, Owned, TypeOK
    <2>3. pi_mutexes_held[t] >= 1
      BY <1>0, OwnerCounted
    <2>4. \A u \in Tasks : pi_mutexes_held'[u] = Cardinality(Owned(u)')
      BY ZenonT(40), <1>0, <1>1a, <1>1c, <2>0, <2>1, <2>2 DEF TypeOK
    <2>5. \A u \in Tasks : pi_mutexes_held'[u] = 0 => pi_priority'[u] = 0
      <3>1. \A u \in Tasks : pi_mutexes_held[u] = 0 => pi_priority[u] = 0
        BY DEF HeldCountExact
      <3>2. pi_mutexes_held'[t] = 0 => pi_priority'[t] = 0
        BY <1>1a, <1>1c, <2>2, <2>3 DEF DropsFloor, TypeOK
      <3>3. pi_mutexes_held'[best] # 0
        BY <1>1a, <1>1c, <2>2 DEF TypeOK
      <3>4. \A u \in Tasks : u # t /\ u # best => pi_mutexes_held'[u] = pi_mutexes_held[u]
        BY <1>1a DEF TypeOK
      <3>5. QED
        BY <1>1e, <3>1, <3>2, <3>3, <3>4
    <2>6. QED
      BY <2>4, <2>5 DEF HeldCountExact, Owned
  <1>8. FloorCoversWaiters'
    <2>1. \A n \in Mutexes : \A u \in InQueue(waitq[n]) :
            /\ u \in Tasks /\ owner[n] \in Tasks /\ want[u] = n
            /\ pi_priority[owner[n]] >= offered[u]
      <3>1. \A n \in Mutexes : \A u \in InQueue(waitq[n]) : u \in Tasks /\ waitq[n] # <<>>
        BY ElementOfSeq DEF InQueue, TypeOK
      <3>2. QED
        BY <3>1 DEF FloorCoversWaiters, OwnerAndWaitersAgree, Waiting, TypeOK
    <2>2. \A u \in InQueue(waitq'[m]) : pi_priority'[owner'[m]] >= offered'[u]
      <3>1. waitq'[m] = rest /\ owner'[m] = best
        BY <1>1a DEF TypeOK
      <3>2. \A u \in InQueue(rest) : offered'[u] = effective_priority[u]
        BY <1>0, <1>1a, <1>1c, <2>1
      <3>3. QED
        BY <1>1e, <3>1, <3>2
    <2>3. ASSUME NEW n \in Mutexes, n # m, NEW u \in InQueue(waitq'[n])
          PROVE  pi_priority'[owner'[n]] >= offered'[u]
      <3>1. waitq'[n] = waitq[n] /\ owner'[n] = owner[n]
        BY <1>1a, <2>3 DEF TypeOK
      <3>2. u \in Tasks /\ owner[n] \in Tasks /\ pi_priority[owner[n]] >= offered[u] /\ u \notin InQueue(rest)
        BY <1>1c, <2>1, <2>3, <3>1
      <3>3. offered'[u] = offered[u] /\ offered[u] \in Nat
        BY <1>1a, <3>2 DEF TypeOK
      <3>4. pi_priority'[owner[n]] >= pi_priority[owner[n]]
        BY <1>1e, <2>3, <3>2
      <3>5. QED
        BY <1>1e, <3>1, <3>2, <3>3, <3>4
    <2>4. QED
      BY <2>2, <2>3 DEF FloorCoversWaiters
  <1>9. LentFloor'
    <2>1. SUFFICES ASSUME NEW u \in Tasks, (Lending(u) \/ Level(u))'
                   PROVE  (pi_priority[owner[want[u]]] >= offered[u])'
      BY DEF LentFloor
    <2>2. u # t /\ (Lending(u) \/ Level(u))
      BY <1>1a, <2>1 DEF Lending, Level, TypeOK
    <2>3. /\ want[u] \in Mutexes /\ want[u] # m /\ owner[want[u]] \in Tasks
          /\ state[u] = "running"
      BY <1>1d, <2>2 DEF Lending, Level, ControlInv, Inside
    <2>4. u \notin InQueue(rest)
      BY <1>1c, <2>3 DEF OwnerAndWaitersAgree, Waiting
    <2>5. /\ offered'[u] = offered[u] /\ offered[u] \in Nat
          /\ owner'[want'[u]] = owner[want[u]]
      BY <1>1a, <2>3, <2>4 DEF TypeOK
    <2>6. pi_priority[owner[want[u]]] >= offered[u]
      BY <2>2 DEF LentFloor
    <2>7. pi_priority'[owner[want[u]]] >= pi_priority[owner[want[u]]]
      BY <1>1e, <2>3
    <2>8. QED
      BY <1>1e, <2>3, <2>5, <2>6, <2>7
  <1>10. StaleFloorRepaired'
    <2>1. rqop # NoOp => rqop.task \in Tasks /\ rqop.task # t /\ rqop.task # best
      BY <1>0, <1>1c DEF RqopInv, ControlInv, QueueInv
    <2>2. rqop # NoOp => pi_priority'[rqop.task] = pi_priority[rqop.task]
      BY <1>1e, <2>1
    <2>3. \A u \in Tasks : Lending(u) =>
            Lending(u)' /\ owner'[want'[u]] = owner[want[u]]
      BY <1>0, <1>1a, <1>1d DEF Lending, Inside, TypeOK
    <2>4. QED
      BY <1>1a, <2>2, <2>3 DEF StaleFloorRepaired
  <1>11. OrderInv'
    <2>1. \A x \in Tasks : Boosting(x) => Boosting(x)'
      BY <1>0, <1>1a, <1>1d DEF Boosting, Inside, TypeOK
    <2>2. \A x \in InQueue(runq) : x \in Tasks /\ x # t /\ x # best
      BY <1>0, <1>1c DEF QueueInv
    <2>3. \A x \in InQueue(runq) : /\ pi_priority'[x] = pi_priority[x]
                                   /\ effective_priority'[x] = effective_priority[x]
      BY <1>1a, <1>1e, <2>2 DEF TypeOK
    <2>4. runq' = runq /\ UNCHANGED history
      BY <1>1a
    <2>5. QED
      BY <2>1, <2>2, <2>3, <2>4, OrderKept
  <1>12. QED
    BY <1>1, <1>2, <1>3, <1>4, <1>5, <1>6, <1>7, <1>8, <1>9, <1>10, <1>11

\* The floor is read when nothing of it is stale yet.
LEMMA RqReadFloorStep ==
  ASSUME IInv, RqReadFloor
  PROVE  IInv'
  <1> USE Constants DEF IInv
  <1> USE DEF RqReadFloor, mutexvars, priovars, ctlvars, history
  <1>0. rqop.task \in Tasks /\ pi_priority[rqop.task] \in Prios
    BY DEF RqopInv, ControlInv, QueueInv, TypeOK
  <1>00. /\ rqop'.kind = rqop.kind /\ rqop'.by = rqop.by /\ rqop'.task = rqop.task
         /\ rqop'.base = rqop.base /\ rqop'.floor = pi_priority[rqop.task]
    BY DEF TypeOK
  <1>1. TypeOK'
    BY <1>0 DEF TypeOK
  <1>2. ControlInv' /\ QueueInv'
    BY DEF ControlInv, Inside, QueueInv
  <1>3. RqopInv'
    BY <1>00 DEF RqopInv
  <1>4. MutualExclusion' /\ HeldCountExact' /\ FloorCoversWaiters' /\ LentFloor'
    BY DEF MutualExclusion, HeldCountExact, FloorCoversWaiters, LentFloor, Lending, Level
  <1>5. OwnerAndWaitersAgree'
    BY DEF OwnerAndWaitersAgree, Waiting
  <1>6. StaleFloorRepaired'
    BY <1>0, <1>00 DEF StaleFloorRepaired
  <1>7. OrderInv'
    BY DEF OrderInv, InOrder, AheadOfFloor, AtFloor, Boosting
  <1>8. QED
    BY <1>1, <1>2, <1>3, <1>4, <1>5, <1>6, <1>7

\* A task is put in its place by a re-queue, a wake-up or a reposition.
LEMMA RqFinishStep ==
  ASSUME IInv, NEW kind \in {"requeue", "wake", "repos"}, RqFinish(kind)
  PROVE  IInv'
  <1> USE Constants DEF IInv
  <1> USE DEF mutexvars
  <1>0. PICK x \in Tasks : x = rqop.task
    BY DEF RqFinish, RqopInv, ControlInv, QueueInv, NoOp
  <1> DEFINE by == rqop.by
             eff == [effective_priority EXCEPT ![x] = Higher(rqop.floor, rqop.base)]
  <1>1. /\ rqop.kind = kind /\ rqop.floor # Unread
        /\ effective_priority' = eff /\ rqop' = NoOp
        /\ state' = [state EXCEPT ![x] = "queued"]
        /\ kind = "requeue" => pc' = pc /\ wakee' = wakee
        /\ kind = "wake" => /\ pc' = [pc EXCEPT ![by] = "run"]
                            /\ wakee' = [wakee EXCEPT ![by] = None]
        /\ kind = "repos" => pc' = [pc EXCEPT ![by] = "append"] /\ wakee' = wakee
        /\ stirred' = stirred \ {x} /\ disturbed' = (disturbed \/ stirred' # {})
        /\ UNCHANGED <<mutexvars, priority, pi_priority, pi_mutexes_held, want, holding,
                       offered, locks, sets>>
    BY <1>0 DEF RqFinish
  <1>2. /\ rqop # NoOp /\ x = rqop.task /\ by \in Tasks
        /\ rqop.floor \in Prios /\ rqop.floor # Unread /\ rqop.base \in Prios
        /\ state[x] # "blocked"
        /\ kind = "repos" => /\ pc[by] = "repos" /\ x = owner[want[by]]
                             /\ x \in InQueue(runq) /\ state[x] = "queued"
        /\ kind = "wake" => /\ pc[by] = "wake" /\ x = wakee[by] /\ state[x] = "ready"
                            /\ state[by] = "running" /\ pc[x] = "blocked"
        /\ kind = "requeue" => state[x] = "ready" /\ pc[x] \in {"run", "wake"}
        /\ kind # "repos" => x \notin InQueue(runq)
    <2>1. /\ rqop # NoOp /\ rqop.floor \in Prios
          /\ rqop.floor # Unread /\ rqop.base \in Prios
      BY <1>1 DEF NoOp, TypeOK
    <2>2. QED
      BY <1>0, <1>1, <2>1 DEF RqopInv, ControlInv, QueueInv
  <1>3. /\ eff \in [Tasks -> Prios] /\ eff \in [Tasks -> Int]
        /\ eff[x] >= rqop.floor
        /\ \A u \in Tasks : u # x => eff[u] = effective_priority[u]
    <2>1. Higher(rqop.floor, rqop.base) \in Prios /\ Higher(rqop.floor, rqop.base) >= rqop.floor
      BY <1>2, HigherFacts DEF TypeOK
    <2>2. eff \in [Tasks -> Prios]
      BY <2>1 DEF TypeOK
    <2>3. eff[x] = Higher(rqop.floor, rqop.base) /\ \A u \in Tasks : u # x => eff[u] = effective_priority[u]
      BY <1>2 DEF TypeOK
    <2> HIDE DEF eff
    <2>4. eff \in [Tasks -> Int]
      BY <2>2 DEF Prios
    <2>5. QED
      BY <2>1, <2>2, <2>3, <2>4
  <1>4. /\ runq' \in Seq(Tasks) /\ InQueue(runq') = InQueue(runq) \cup {x} /\ Distinct(runq')
        /\ ~ disturbed' => Falling(runq', eff)
    <2>1. runq' = IF kind = "repos" THEN Reposition(runq, x, eff) ELSE Insert(runq, x, eff)
      BY <1>0 DEF RqFinish
    <2> HIDE DEF eff
    <2>2. runq \in Seq(Tasks) /\ Distinct(runq) /\ \A j \in 1 .. Len(runq) : runq[j] \in Tasks /\ runq[j] \in InQueue(runq)
      BY SMTT(30), ElementOfSeq DEF TypeOK, QueueInv, InQueue
    <2>3. ~ disturbed' => \A j, k \in 1 .. Len(runq) :
            j < k /\ runq[j] # x /\ runq[k] # x => eff[runq[j]] >= eff[runq[k]]
      <3>1. SUFFICES ASSUME ~ disturbed', NEW j \in 1 .. Len(runq), NEW k \in 1 .. Len(runq),
                            j < k, runq[j] # x, runq[k] # x
                     PROVE  eff[runq[j]] >= eff[runq[k]]
        OBVIOUS
      <3>2. InOrder /\ runq[j] \notin stirred /\ runq[k] \notin stirred
        BY <1>1, <2>2, <3>1 DEF OrderInv
      <3>3. effective_priority[runq[j]] >= effective_priority[runq[k]]
        BY <3>1, <3>2 DEF InOrder
      <3>4. QED
        BY <1>3, <2>2, <3>1, <3>3
    <2>4. CASE kind = "repos"
      <3>1. runq' = Reposition(runq, x, eff) /\ x \in InQueue(runq)
        BY <1>2, <2>1, <2>4
      <3>2. QED
        BY ZenonT(40), <1>3, <2>2, <2>3, <3>1, RepositionFacts
    <2>5. CASE kind # "repos"
      <3>1. runq' = Insert(runq, x, eff) /\ x \notin InQueue(runq)
        BY <1>2, <2>1, <2>5
      <3>2. ~ disturbed' => Falling(runq, eff)
        BY <2>2, <2>3, <3>1 DEF Falling
      <3>3. QED
        BY <1>2, <1>3, <2>2, <3>1, <3>2, InsertFacts
    <2>6. QED
      BY <2>4, <2>5
  <1> HIDE DEF eff
  <1>5. TypeOK'
    <2>1. pc' \in [Tasks -> PCs] /\ wakee' \in [Tasks -> Tasks \cup {None}]
      BY ZenonT(40), <1>1, <1>2 DEF TypeOK, PCs
    <2>2. state' \in [Tasks -> States] /\ effective_priority' \in [Tasks -> Prios]
      BY <1>1, <1>3 DEF TypeOK, States
    <2>3. NoOp \in [kind : {"none", "requeue", "wake", "repos"},
                   by : Tasks \cup {None}, task : Tasks \cup {None},
                   base : Prios, floor : Prios \cup {Unread}]
      BY DEF NoOp
    <2>4. stirred' \in SUBSET Tasks /\ disturbed' \in BOOLEAN
      BY <1>1 DEF TypeOK
    <2>5. QED
      BY <1>1, <1>4, <2>1, <2>2, <2>3, <2>4 DEF TypeOK
  <1>6. ControlInv'
    <2>0. /\ guard' = guard /\ owner' = owner /\ want' = want
          /\ \A u \in Tasks : state'[u] = IF u = x THEN "queued" ELSE state[u]
      BY <1>1 DEF TypeOK
    <2>1. CASE kind = "requeue"
      <3>1. pc' = pc /\ wakee' = wakee /\ state[x] = "ready" /\ pc[x] \in {"run", "wake"}
        BY <1>1, <1>2, <2>1
      <3>2. QED
        BY <2>0, <3>1 DEF ControlInv, Inside
    <2>2. CASE kind = "wake"
      <3>1. /\ by \in Tasks /\ x = wakee[by] /\ pc[by] = "wake" /\ pc[x] = "blocked"
            /\ state[x] = "ready" /\ state[by] = "running" /\ by # x
            /\ pc' = [pc EXCEPT ![by] = "run"] /\ wakee' = [wakee EXCEPT ![by] = None]
            /\ state' = [state EXCEPT ![x] = "queued"]
        BY <1>1, <1>2, <2>2 DEF ControlInv
      <3>11. \A u \in Tasks : pc'[u] = IF u = by THEN "run" ELSE pc[u]
        BY <3>1 DEF TypeOK
      <3>2. \A u \in Tasks :
              /\ Inside(u)' => /\ state'[u] = "running" /\ want'[u] \in Mutexes
                               /\ guard'[want'[u]] = u /\ owner'[want'[u]] \in Tasks
              /\ state'[u] = "blocked" => pc'[u] = "blocked"
        BY <2>0, <3>1, <3>11 DEF ControlInv, Inside
      <3>3. \A u \in Tasks : pc'[u] = "blocked" =>
              /\ want'[u] \in Mutexes /\ state'[u] # "running"
              /\ state'[u] # "blocked" => owner'[want'[u]] = u
        BY <2>0, <3>1, <3>11 DEF ControlInv
      <3>4. \A u \in Tasks : pc'[u] = "wake" =>
              /\ pc[u] = "wake" /\ u # by /\ wakee'[u] = wakee[u] /\ wakee[u] # x
              /\ wakee[u] # by /\ wakee[u] \in Tasks
        BY <3>1 DEF ControlInv, TypeOK
      <3>5. \A u \in Tasks : u # by => pc'[u] = pc[u]
        BY <3>1 DEF TypeOK
      <3>6. \A u \in Tasks : u # x => state'[u] = state[u]
        BY <3>1 DEF TypeOK
      <3>7. \A u \in Tasks : pc'[u] = "wake" =>
              /\ wakee'[u] \in Tasks
              /\ pc'[wakee'[u]] = "blocked" /\ state'[wakee'[u]] = "ready"
        BY <3>4, <3>5, <3>6 DEF ControlInv
      <3>8. \A u, v \in Tasks :
              pc'[u] = "wake" /\ pc'[v] = "wake" /\ wakee'[u] = wakee'[v] => u = v
        BY <3>4 DEF ControlInv
      <3>9. QED
        BY <3>2, <3>3, <3>7, <3>8 DEF ControlInv
    <2>3. CASE kind = "repos"
      <3>1. /\ state[x] = "queued" /\ wakee' = wakee
            /\ \A u \in Tasks : pc'[u] = IF u = by THEN "append" ELSE pc[u]
            /\ by \in Tasks /\ pc[by] = "repos"
        BY <1>1, <1>2, <2>3 DEF TypeOK
      <3>2. QED
        BY <2>0, <3>1 DEF ControlInv, Inside
    <2>4. QED
      BY <2>1, <2>2, <2>3
  <1>7. QueueInv'
    <2>1. \A u \in Tasks : state'[u] = IF u = x THEN "queued" ELSE state[u]
      BY <1>1 DEF TypeOK
    <2>2. QED
      BY <1>1, <1>2, <1>4, <2>1 DEF QueueInv
  <1>8. RqopInv'
    BY <1>1 DEF RqopInv
  <1>9. MutualExclusion'
    BY <1>1 DEF MutualExclusion
  <1>10. OwnerAndWaitersAgree'
    <2>1. \A u \in Tasks : state'[u] = "blocked" <=> state[u] = "blocked"
      BY <1>1, <1>2 DEF TypeOK
    <2>2. QED
      BY <1>1, <2>1 DEF OwnerAndWaitersAgree, Waiting
  <1>11. HeldCountExact'
    BY <1>1 DEF HeldCountExact
  <1>12. FloorCoversWaiters'
    BY <1>1 DEF FloorCoversWaiters
  <1>13. LentFloor'
    <2>1. \A u \in Tasks : (Lending(u) \/ Level(u))' => Lending(u) \/ Level(u)
      BY SMTT(60), <1>1, <1>2 DEF Lending, Level, TypeOK
    <2>2. QED
      BY <1>1, <2>1 DEF LentFloor
  <1>14. StaleFloorRepaired'
    BY <1>1 DEF StaleFloorRepaired
  <1>15. OrderInv'
    <2>1. SUFFICES ASSUME ~ disturbed' PROVE InOrder' /\ AheadOfFloor' /\ AtFloor'
      BY DEF OrderInv
    <2>2. ~ disturbed /\ AtFloor /\ stirred' = {} /\ Falling(runq', eff)
      BY <1>1, <1>4, <2>1 DEF OrderInv
    <2>3. /\ Len(runq') \in Nat
          /\ \A j \in 1 .. Len(runq') : /\ runq'[j] \in Tasks /\ runq'[j] \in InQueue(runq')
                                        /\ eff[runq'[j]] \in Nat /\ pi_priority[runq'[j]] \in Nat
      <3>1. \A j \in 1 .. Len(runq') : runq'[j] \in Tasks
        BY <1>4, ElementOfSeq
      <3>2. \A u \in Tasks : eff[u] \in Nat /\ pi_priority[u] \in Nat
        BY <1>3 DEF TypeOK
      <3>3. QED
        BY <1>4, <3>1, <3>2, LenProperties DEF InQueue
    <2>4. \A y \in InQueue(runq) : y # x /\ ~ Boosting(y)' => eff[y] >= pi_priority[y]
      <3>1. SUFFICES ASSUME NEW y \in InQueue(runq), y # x, ~ Boosting(y)'
                     PROVE  eff[y] >= pi_priority[y]
        OBVIOUS
      <3>2. ~ Boosting(y)
        BY <1>1, <1>2, <3>1 DEF Boosting, TypeOK
      <3>3. y \notin stirred /\ y \in Tasks
        BY <1>1, <2>2, <3>1 DEF QueueInv
      <3>4. PICK j \in 1 .. Len(runq) : runq[j] = y
        BY DEF InQueue
      <3>5. effective_priority[y] >= pi_priority[y]
        BY <2>2, <3>2, <3>3, <3>4 DEF AtFloor
      <3>6. QED
        BY <1>3, <3>1, <3>3, <3>5
    <2>5. ~ Boosting(x)' => eff[x] >= pi_priority[x]
      <3>1. HAVE ~ Boosting(x)'
      <3>2. \A u \in Tasks : u # by /\ Lending(u) => Lending(u)' /\ owner'[want'[u]] = owner[want[u]]
        BY SMTT(60), <1>1, <1>2 DEF Lending, TypeOK
      <3>3. \A u \in Tasks : Lending(u)' => owner'[want'[u]] # x
        BY <3>1 DEF Boosting, Lending
      <3>31. ~ \E u \in Tasks : u # by /\ Lending(u) /\ owner[want[u]] = x
        BY <3>2, <3>3
      <3>32. rqop.floor >= pi_priority[x]
        BY <1>2, <3>31 DEF StaleFloorRepaired
      <3>4. eff[x] >= rqop.floor /\ eff[x] \in Nat /\ rqop.floor \in Nat /\ pi_priority[x] \in Nat
        BY <1>2, <1>3 DEF TypeOK
      <3>5. QED
        BY <3>32, <3>4
    <2>6. \A j \in 1 .. Len(runq') : ~ Boosting(runq[j])' => eff[runq'[j]] >= pi_priority[runq'[j]]
      <3>1. SUFFICES ASSUME NEW j \in 1 .. Len(runq'), ~ Boosting(runq[j])'
                     PROVE  eff[runq'[j]] >= pi_priority[runq'[j]]
        OBVIOUS
      <3>2. PICK y \in InQueue(runq') : y = runq'[j]
        BY <2>3
      <3>3. ~ Boosting(y)'
        BY <3>1, <3>2 DEF Boosting
      <3>4. QED
        BY <1>4, <2>4, <2>5, <3>2, <3>3
    <2>7. InOrder'
      BY <1>1, <2>2 DEF InOrder, Falling
    <2>8. AtFloor'
      BY <1>1, <2>6 DEF AtFloor
    <2>9. AheadOfFloor'
      <3>1. SUFFICES ASSUME NEW i \in 1 .. Len(runq'), NEW j \in 1 .. Len(runq'), i < j,
                            ~ Boosting(runq[j])'
                     PROVE  effective_priority'[runq'[i]] >= pi_priority'[runq'[j]]
        BY DEF AheadOfFloor
      <3>2. eff[runq'[i]] >= eff[runq'[j]] /\ eff[runq'[j]] >= pi_priority[runq'[j]]
        BY <2>2, <2>6, <3>1 DEF Falling
      <3>3. eff[runq'[i]] \in Nat /\ eff[runq'[j]] \in Nat /\ pi_priority[runq'[j]] \in Nat
        BY <2>3
      <3>4. QED
        BY <1>1, <3>2, <3>3
    <2>10. QED
      BY <2>7, <2>8, <2>9
  <1>16. QED
    BY <1>5, <1>6, <1>7, <1>8, <1>9, <1>10, <1>11, <1>12, <1>13, <1>14, <1>15

\* The head leaves the queue, and the order of the others stays.
LEMMA DispatchStep ==
  ASSUME IInv, Dispatch
  PROVE  IInv'
  <1> USE Constants DEF IInv
  <1> USE DEF mutexvars, priovars
  <1>0. runq \in Seq(Tasks) /\ Distinct(runq) /\ runq # <<>>
    BY DEF Dispatch, TypeOK, QueueInv
  <1>01. PICK t \in Tasks : t = Head(runq) /\ t \in InQueue(runq)
    BY <1>0, TailFacts
  <1>1. /\ rqop = NoOp /\ runq' = Tail(runq)
        /\ state' = [state EXCEPT ![t] = "running"]
        /\ holding' = [holding EXCEPT ![t] = IF pc[t] = "blocked" THEN @ \cup {want[t]} ELSE @]
        /\ want' = [want EXCEPT ![t] = IF pc[t] = "blocked" THEN NoMutex ELSE @]
        /\ pc' = [pc EXCEPT ![t] = IF @ = "blocked" THEN "run" ELSE @]
        /\ stirred' = stirred \ {t}
        /\ UNCHANGED <<mutexvars, priovars, rqop, wakee, offered, locks, sets, disturbed>>
    BY <1>01 DEF Dispatch
  <1>2. /\ runq' \in Seq(Tasks) /\ Len(runq) \in Nat /\ Len(runq') = Len(runq) - 1
        /\ \A i \in 1 .. Len(runq') : runq'[i] = runq[i + 1] /\ i + 1 \in 1 .. Len(runq)
        /\ InQueue(runq') = InQueue(runq) \ {t} /\ Distinct(runq')
    BY <1>0, <1>01, <1>1, TailFacts
  <1>3. /\ state[t] = "queued"
        /\ pc[t] = "blocked" => want[t] \in Mutexes /\ owner[want[t]] = t
    BY <1>01 DEF QueueInv, ControlInv
  <1>4. \A u \in Tasks :
          /\ Lending(u) => Lending(u)' /\ want'[u] = want[u]
          /\ (Lending(u) \/ Level(u))' =>
               want'[u] = want[u] /\ (Lending(u) \/ Level(u))
    <2>1. ~ Inside(t)
      BY <1>3 DEF ControlInv
    <2>2. QED
      BY <1>1, <2>1 DEF Inside, Lending, Level, TypeOK
  <1>5. TypeOK'
    <2>1. pc' \in [Tasks -> PCs] /\ state' \in [Tasks -> States]
      BY <1>1 DEF TypeOK, PCs, States
    <2>2. want' \in [Tasks -> Mutexes \cup {NoMutex}]
      BY <1>1 DEF TypeOK
    <2>3. holding' \in [Tasks -> SUBSET Mutexes]
      BY <1>1, <1>3 DEF TypeOK
    <2>4. stirred' \in SUBSET Tasks
      BY <1>1 DEF TypeOK
    <2>5. QED
      BY <1>1, <1>2, <2>1, <2>2, <2>3, <2>4 DEF TypeOK
  <1>6. ControlInv'
    <2>1. \A u \in Tasks : u # t => /\ pc'[u] = pc[u] /\ want'[u] = want[u]
                                   /\ state'[u] = state[u]
      BY <1>1 DEF TypeOK
    <2>2. /\ state'[t] = "running" /\ pc'[t] = IF pc[t] = "blocked" THEN "run" ELSE pc[t]
          /\ guard' = guard /\ owner' = owner /\ wakee' = wakee
      BY <1>1 DEF TypeOK
    <2>3. ~ Inside(t) /\ \A u \in Tasks : pc[u] = "wake" => wakee[u] # t
      BY <1>3 DEF ControlInv
    <2>4. QED
      BY <1>3, <2>1, <2>2, <2>3 DEF ControlInv, Inside
  <1>7. QueueInv'
    <2>1. \A u \in Tasks : state'[u] = IF u = t THEN "running" ELSE state[u]
      BY <1>1 DEF TypeOK
    <2>2. InQueue(runq') = InQueue(runq) \ {t} /\ Distinct(runq') /\ stirred' = stirred \ {t}
      BY <1>1, <1>2
    <2>3. QED
      BY <2>1, <2>2 DEF QueueInv
  <1>8. RqopInv'
    BY <1>1 DEF RqopInv
  <1>9. MutualExclusion'
    <2>1. pc[t] = "blocked" => owner[want[t]] = t /\ locked[want[t]] = 1
      <3>1. \A n \in Mutexes : owner[n] # None => locked[n] = 1
        BY DEF OwnerAndWaitersAgree
      <3>2. t # None
        OBVIOUS
      <3>3. QED
        BY <1>3, <3>1, <3>2
    <2>2. \A u \in Tasks : holding'[u] = IF u = t /\ pc[t] = "blocked" THEN holding[u] \cup {want[t]}
                                        ELSE holding[u]
      BY <1>1 DEF TypeOK
    <2>3. owner' = owner /\ locked' = locked
      BY <1>1
    <2>4. SUFFICES ASSUME NEW u \in Tasks, NEW n \in holding'[u]
                   PROVE  owner[n] = u /\ locked[n] = 1
      BY <2>3 DEF MutualExclusion
    <2>5. n \in holding[u] \/ (u = t /\ n = want[t] /\ pc[t] = "blocked")
      BY <2>2
    <2>6. QED
      BY <2>1, <2>5 DEF MutualExclusion
  <1>10. OwnerAndWaitersAgree'
    <2>1. \A u \in Tasks, n \in Mutexes :
            (state'[u] = "blocked" /\ want'[u] = n) <=> (state[u] = "blocked" /\ want[u] = n)
      BY <1>1, <1>3 DEF TypeOK
    <2>2. waitq' = waitq /\ owner' = owner /\ locked' = locked
      BY <1>1
    <2>3. \A u \in Tasks, n \in Mutexes : Waiting(u, n)' <=> Waiting(u, n)
      BY <2>2 DEF Waiting
    <2>4. \A u \in Tasks, n \in Mutexes : Waiting(u, n) <=> (state[u] = "blocked" /\ want[u] = n)
      BY DEF OwnerAndWaitersAgree
    <2>5. \A u \in Tasks, n \in Mutexes :
            Waiting(u, n)' <=> (state'[u] = "blocked" /\ want'[u] = n)
      BY <2>1, <2>3, <2>4
    <2>6. \A n \in Mutexes :
            /\ (locked'[n] = 1) <=> (owner'[n] # None)
            /\ waitq'[n] # <<>> => owner'[n] # None
            /\ \A i, j \in 1 .. Len(waitq'[n]) : waitq'[n][i] = waitq'[n][j] => i = j
      BY <2>2 DEF OwnerAndWaitersAgree
    <2>7. QED
      BY <2>5, <2>6, Zenon DEF OwnerAndWaitersAgree
  <1>11. HeldCountExact'
    BY <1>1 DEF HeldCountExact
  <1>12. FloorCoversWaiters'
    BY <1>1 DEF FloorCoversWaiters
  <1>13. LentFloor'
    BY <1>1, <1>4 DEF LentFloor
  <1>14. StaleFloorRepaired'
    BY <1>1 DEF StaleFloorRepaired
  <1>15. OrderInv'
    <2>1. SUFFICES ASSUME ~ disturbed, InOrder, AheadOfFloor, AtFloor
                   PROVE  InOrder' /\ AheadOfFloor' /\ AtFloor'
      BY <1>1 DEF OrderInv
    <2>2. /\ effective_priority' = effective_priority /\ pi_priority' = pi_priority
          /\ \A j \in 1 .. Len(runq') : /\ j \in Nat /\ runq'[j] = runq[j + 1]
                                        /\ j + 1 \in 1 .. Len(runq)
                                        /\ runq'[j] \in Tasks /\ runq'[j] # t
      <3>1. \A j \in 1 .. Len(runq') : runq'[j] \in InQueue(runq')
        BY DEF InQueue
      <3>2. QED
        BY <1>1, <1>2, <3>1 DEF QueueInv
    <2>3. \A x \in Tasks : Boosting(x) => Boosting(x)'
      BY <1>1, <1>4 DEF Boosting, Lending
    <2>4. \A j \in 1 .. Len(runq') : /\ runq'[j] \notin stirred' => runq[j + 1] \notin stirred
                                     /\ ~ Boosting(runq[j])' => ~ Boosting(runq[j + 1])
      <3>1. SUFFICES ASSUME NEW j \in 1 .. Len(runq')
                     PROVE  /\ runq'[j] \notin stirred' => runq[j + 1] \notin stirred
                            /\ ~ Boosting(runq[j])' => ~ Boosting(runq[j + 1])
        OBVIOUS
      <3>2. PICK x \in Tasks : x = runq'[j] /\ x = runq[j + 1] /\ x # t
        BY <2>2
      <3>3. Boosting(runq[j + 1]) => Boosting(runq[j])'
        <4>1. Boosting(x) <=> Boosting(runq[j + 1])
          BY <3>2
        <4>2. Boosting(x)' => Boosting(runq[j])'
          BY <3>2 DEF Boosting
        <4>3. QED
          BY <2>3, <4>1, <4>2
      <3>4. QED
        BY <1>1, <3>2, <3>3
    <2>5. InOrder'
      <3>1. SUFFICES ASSUME NEW i \in 1 .. Len(runq'), NEW j \in 1 .. Len(runq'), i < j,
                            runq'[i] \notin stirred', runq'[j] \notin stirred'
                     PROVE  effective_priority'[runq'[i]] >= effective_priority'[runq'[j]]
        BY DEF InOrder
      <3>2. i + 1 < j + 1 /\ runq[i + 1] \notin stirred /\ runq[j + 1] \notin stirred
        BY <2>2, <2>4, <3>1
      <3>3. QED
        BY <2>1, <2>2, <3>2 DEF InOrder
    <2>6. AheadOfFloor'
      <3>1. SUFFICES ASSUME NEW i \in 1 .. Len(runq'), NEW j \in 1 .. Len(runq'), i < j,
                            runq'[i] \notin stirred', ~ Boosting(runq[j])'
                     PROVE  effective_priority'[runq'[i]] >= pi_priority'[runq'[j]]
        BY DEF AheadOfFloor
      <3>2. i + 1 < j + 1 /\ runq[i + 1] \notin stirred /\ ~ Boosting(runq[j + 1])
        BY <2>2, <2>4, <3>1
      <3>3. QED
        BY <2>1, <2>2, <3>2 DEF AheadOfFloor
    <2>7. AtFloor'
      BY <2>1, <2>2, <2>4 DEF AtFloor
    <2>8. QED
      BY <2>5, <2>6, <2>7
  <1>16. QED
    BY <1>5, <1>6, <1>7, <1>8, <1>9, <1>10, <1>11, <1>12, <1>13, <1>14, <1>15

\* The mutexes are free and every task runs.
LEMMA InitIInv ==
  ASSUME Init
  PROVE  IInv
  <1> USE Constants DEF Init
  <1>1. TypeOK
    <2>1. NoOp \in [kind : {"none", "requeue", "wake", "repos"},
                    by : Tasks \cup {None}, task : Tasks \cup {None},
                   base : Prios, floor : Prios \cup {Unread}]
      BY DEF NoOp
    <2>2. 0 \in 0 .. MaxLocks /\ 0 \in 0 .. MaxSets
      BY PiMutexAssumption
    <2>3. priority \in [Tasks -> Prios]
      BY DEF Prios
    <2>4. /\ owner \in [Mutexes -> Tasks \cup {None}] /\ guard \in [Mutexes -> Tasks \cup {None}]
          /\ locked \in [Mutexes -> {0, 1}] /\ waitq \in [Mutexes -> Seq(Tasks)]
          /\ runq \in Seq(Tasks) /\ holding \in [Tasks -> SUBSET Mutexes]
      OBVIOUS
    <2>5. /\ state \in [Tasks -> States] /\ pc \in [Tasks -> PCs]
          /\ want \in [Tasks -> Mutexes \cup {NoMutex}] /\ wakee \in [Tasks -> Tasks \cup {None}]
      BY DEF States, PCs
    <2>6. /\ effective_priority \in [Tasks -> Prios] /\ pi_priority \in [Tasks -> Prios]
          /\ pi_mutexes_held \in [Tasks -> Nat] /\ offered \in [Tasks -> Prios]
          /\ locks \in [Tasks -> 0 .. MaxLocks] /\ sets \in 0 .. MaxSets
      BY <2>2, <2>3
    <2>7. stirred \in SUBSET Tasks /\ disturbed \in BOOLEAN
      OBVIOUS
    <2>8. rqop \in [kind : {"none", "requeue", "wake", "repos"},
                     by : Tasks \cup {None}, task : Tasks \cup {None},
                     base : Prios, floor : Prios \cup {Unread}]
      BY <2>1
    <2>9. QED
      BY <2>3, <2>4, <2>5, <2>6, <2>7, <2>8 DEF TypeOK
  <1>2. InQueue(<<>>) = {} /\ Distinct(<<>>)
    BY DEF InQueue, Distinct
  <1>3. ControlInv /\ QueueInv /\ RqopInv
    BY <1>2 DEF ControlInv, Inside, QueueInv, RqopInv
  <1>4. MutualExclusion /\ FloorCoversWaiters
    BY <1>2 DEF MutualExclusion, FloorCoversWaiters
  <1>5. OwnerAndWaitersAgree
    BY <1>2 DEF OwnerAndWaitersAgree, Waiting, Distinct
  <1>6. HeldCountExact
    <2>1. \A t \in Tasks : {m \in Mutexes : owner[m] = t} = {}
      OBVIOUS
    <2>2. QED
      BY <2>1, FS_EmptySet DEF HeldCountExact
  <1>7. LentFloor /\ StaleFloorRepaired
    BY DEF LentFloor, Lending, Level, StaleFloorRepaired
  <1>8. OrderInv
    BY DEF OrderInv, InOrder, AheadOfFloor, AtFloor
  <1>9. QED
    BY <1>1, <1>3, <1>4, <1>5, <1>6, <1>7, <1>8 DEF IInv

\* A step of nobody changes nothing.
LEMMA StutterKeepsIInv ==
  ASSUME IInv, UNCHANGED vars
  PROVE  IInv'
  <1> USE DEF vars, mutexvars, priovars, ctlvars, rqvars, history
  <1>0. TypeOK'
    BY DEF IInv, TypeOK
  <1>1. MutualExclusion' /\ HeldCountExact' /\ FloorCoversWaiters'
    BY DEF IInv, MutualExclusion, HeldCountExact, FloorCoversWaiters
  <1>2. OwnerAndWaitersAgree' /\ ControlInv' /\ QueueInv' /\ RqopInv'
    BY DEF IInv, OwnerAndWaitersAgree, Waiting, ControlInv, Inside, QueueInv, RqopInv
  <1>3. LentFloor' /\ StaleFloorRepaired'
    BY DEF IInv, LentFloor, StaleFloorRepaired, Lending, Level
  <1>4. OrderInv'
    BY DEF IInv, OrderInv, InOrder, AheadOfFloor, AtFloor, Boosting
  <1>5. QED
    BY <1>0, <1>1, <1>2, <1>3, <1>4 DEF IInv

\* Every step keeps the invariant.
LEMMA NextKeepsIInv ==
  ASSUME IInv, [Next]_vars
  PROVE  IInv'
  <1>1. CASE UNCHANGED vars
    BY <1>1, StutterKeepsIInv
  <1>2. ASSUME NEW t \in Tasks, NEW m \in Mutexes, LockFree(t, m) \/ LockHeld(t, m)
        PROVE  IInv'
    BY <1>2, LockFreeStep, LockHeldStep
  <1>3. ASSUME NEW t \in Tasks, LockStep(t)
        PROVE  IInv'
    BY <1>3, RaiseFloorStep, CompareOwnerStep, BoostOwnerStep, ReposStartStep,
       AppendAndBlockStep DEF LockStep
  <1>4. ASSUME NEW t \in Tasks, NEW m \in Mutexes, UnlockFree(t, m) \/ UnlockHandOff(t, m)
        PROVE  IInv'
    BY <1>4, UnlockFreeStep, UnlockHandOffStep
  <1>5. ASSUME NEW t \in Tasks, PreemptStart(t) \/ WakeStart(t)
        PROVE  IInv'
    BY <1>5, PreemptStartStep, WakeStartStep
  <1>6. ASSUME NEW t \in Tasks, NEW p \in Prios, task_set_priority(t, p)
        PROVE  IInv'
    BY <1>6, SetPriorityStep
  <1>7. CASE QueueStep
    BY <1>7, RqReadFloorStep, RqFinishStep, DispatchStep DEF QueueStep
  <1>8. QED
    BY <1>1, <1>2, <1>3, <1>4, <1>5, <1>6, <1>7 DEF Next, UnlockStep

-----------------------------------------------------------------------------
(***************************************************************************)
(* The theorems.                                                           *)
(***************************************************************************)
\* The inductive invariant holds in every reachable state of pi_mutex.c and the
\* run queue, for any number of tasks, mutexes and priorities.
THEOREM InductiveInvariant == Spec => []IInv
  <1>1. Init => IInv
    BY InitIInv
  <1>2. IInv /\ [Next]_vars => IInv'
    BY NextKeepsIInv
  <1>3. QED
    BY <1>1, <1>2, PTL DEF Spec

\* Every field keeps its type: no priority leaves 0 .. TASK_PRIORITY_MAX, and
\* pi_mutexes_held is never decremented below zero by an unlock.
THEOREM TypeCorrect == Spec => []TypeOK
  <1>1. IInv => TypeOK
    BY DEF IInv
  <1>2. QED
    BY <1>1, InductiveInvariant, PTL

\* pi_mutex_lock excludes: a task whose lock call has returned is the owner,
\* also where the mutex was handed to it by another task's unlock while it was
\* still in schedule() and never looked again.
THEOREM MutexExcludes == Spec => []MutualExclusion
  <1>1. IInv => MutualExclusion
    BY DEF IInv
  <1>2. QED
    BY <1>1, InductiveInvariant, PTL

\* owner, locked, the wait queues and the states of the waiters agree between
\* any two sections of pi_mutex.c.
THEOREM OwnersAndWaiters == Spec => []OwnerAndWaitersAgree
  <1>1. IInv => OwnerAndWaitersAgree
    BY DEF IInv
  <1>2. QED
    BY <1>1, InductiveInvariant, PTL

\* pi_mutexes_held is the number of mutexes the task owns, and a task that owns
\* none has nothing of an inherited priority left.
THEOREM HeldCountIsExact == Spec => []HeldCountExact
  <1>1. IInv => HeldCountExact
    BY DEF IInv
  <1>2. QED
    BY <1>1, InductiveInvariant, PTL

\* pi_priority of an owner is at least what each of its waiters offered, through
\* any number of hand-offs and unlocks of other mutexes.
THEOREM FloorsCover == Spec => []FloorCoversWaiters
  <1>1. IInv => FloorCoversWaiters
    BY DEF IInv
  <1>2. QED
    BY <1>1, InductiveInvariant, PTL

\* A queued owner is behind no undisturbed task of lower priority than one of
\* its waiters once sched_reposition_task is over, as long as no task was placed
\* in a queue that a store without rq_lock had left out of order.
THEOREM OwnerRunsFirst == Spec => []QueuedOwnerNotOvertaken
  <1>1. ASSUME IInv PROVE QueuedOwnerNotOvertaken
    <2>1. SUFFICES ASSUME ~ disturbed,
                          NEW m \in Mutexes, NEW t \in InQueue(waitq[m]),
                          NEW j \in 1 .. Len(runq), runq[j] = owner[m],
                          ~ Boosting(owner[m]),
                          NEW i \in 1 .. j - 1, runq[i] \notin stirred
                   PROVE  effective_priority[runq[i]] >= offered[t]
      BY DEF QueuedOwnerNotOvertaken, OwnerNotOvertaken
    <2>2. Len(runq) \in Nat /\ i \in 1 .. Len(runq) /\ i < j
      BY <1>1 DEF IInv, TypeOK
    <2>3. effective_priority[runq[i]] >= pi_priority[runq[j]]
      BY <1>1, <2>1, <2>2 DEF IInv, OrderInv, AheadOfFloor
    <2>4. pi_priority[runq[j]] >= offered[t]
      BY <1>1, <2>1 DEF IInv, FloorCoversWaiters
    <2>5. runq[i] \in Tasks /\ runq[j] \in Tasks /\ t \in Tasks
      BY ZenonT(40), <1>1, <2>2, ElementOfSeq DEF IInv, TypeOK, InQueue
    <2>6. /\ effective_priority[runq[i]] \in Nat /\ pi_priority[runq[j]] \in Nat
          /\ offered[t] \in Nat
      BY <1>1, <2>5, Constants DEF IInv, TypeOK
    <2>7. QED
      BY <2>3, <2>4, <2>6
  <1>2. QED
    BY <1>1, InductiveInvariant, PTL

\* Where owner is stored: the fast path, and the two ways out of pi_mutex_unlock.
LEMMA OwnerChanges ==
  ASSUME IInv, [Next]_vars, NEW m \in Mutexes, owner[m] # None, owner'[m] # owner[m]
  PROVE  IF waitq[m] = <<>> THEN owner'[m] = None ELSE owner'[m] \in InQueue(waitq[m])
  <1> USE DEF IInv
  <1>0. owner \in [Mutexes -> Tasks \cup {None}]
    BY DEF TypeOK
  <1>1. CASE UNCHANGED owner
    BY <1>1
  <1>2. ASSUME NEW t \in Tasks, NEW n \in Mutexes, LockFree(t, n)
        PROVE  FALSE
    <2>1. owner[n] = None
      BY <1>0, <1>2 DEF LockFree, OwnerAndWaitersAgree
    <2>2. owner' = [owner EXCEPT ![n] = t]
      BY <1>2 DEF LockFree, Acquire
    <2>3. QED
      BY <1>0, <2>1, <2>2
  <1>3. ASSUME NEW t \in Tasks, NEW n \in Mutexes, UnlockFree(t, n)
        PROVE  waitq[m] = <<>> /\ owner'[m] = None
    BY <1>0, <1>3 DEF UnlockFree, HasWaiters
  <1>4. ASSUME NEW t \in Tasks, NEW n \in Mutexes, UnlockHandOff(t, n)
        PROVE  waitq[m] # <<>> /\ owner'[m] \in InQueue(waitq[m])
    <2>1. n = m /\ owner'[n] = waitq[n][BestIndex(waitq[n])] /\ waitq[n] # <<>>
      BY <1>0, <1>4 DEF UnlockHandOff, HasWaiters
    <2>2. BestIndex(waitq[n]) \in 1 .. Len(waitq[n])
      BY <2>1, BestChosen DEF TypeOK
    <2>3. QED
      BY <2>1, <2>2 DEF InQueue
  <1>5. \/ UNCHANGED owner
        \/ \E t \in Tasks, n \in Mutexes :
             LockFree(t, n) \/ UnlockFree(t, n) \/ UnlockHandOff(t, n)
    <2> USE DEF mutexvars
    <2>1. CASE UNCHANGED vars
      BY <2>1 DEF vars
    <2>2. ASSUME NEW t \in Tasks, LockStep(t) PROVE UNCHANGED owner
      BY <2>2 DEF LockStep, RaiseFloor, CompareOwner, BoostOwner, ReposStart, AppendAndBlock
    <2>3. ASSUME NEW t \in Tasks, PreemptStart(t) \/ WakeStart(t) PROVE UNCHANGED owner
      BY <2>3 DEF PreemptStart, WakeStart
    <2>4. ASSUME NEW t \in Tasks, NEW p \in Prios, task_set_priority(t, p) PROVE UNCHANGED owner
      BY <2>4 DEF task_set_priority
    <2>5. ASSUME QueueStep PROVE UNCHANGED owner
      BY <2>5 DEF QueueStep, RqReadFloor, RqFinish, Dispatch
    <2>6. ASSUME NEW t \in Tasks, NEW n \in Mutexes, LockHeld(t, n) PROVE UNCHANGED owner
      BY <2>6 DEF LockHeld
    <2>7. QED
      BY <2>1, <2>2, <2>3, <2>4, <2>5, <2>6 DEF Next, UnlockStep
  <1>6. QED
    BY <1>1, <1>2, <1>3, <1>4, <1>5

\* A mutex passes from an owner to one of its waiters, or to nobody if there is
\* none: no other task can take it between the unlock and the wake-up.
THEOREM HandOffs == Spec => HandOffToWaiter
  <1>1. IInv /\ [Next]_vars =>
          [\A m \in Mutexes :
             /\ (owner[m] # None /\ owner'[m] # owner[m]) =>
                  IF waitq[m] = <<>> THEN owner'[m] = None
                  ELSE owner'[m] \in InQueue(waitq[m])]_vars
    BY OwnerChanges
  <1>2. QED
    BY <1>1, InductiveInvariant, PTL DEF Spec, HandOffToWaiter
=============================================================================
