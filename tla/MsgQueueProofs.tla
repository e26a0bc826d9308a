---------------------------- MODULE MsgQueueProofs ----------------------------
(***************************************************************************)
(* Proofs about MsgQueue, for every number of tasks, levels and slots.     *)
(*                                                                         *)
(* The invariants need each other: a receive finds a message at the level  *)
(* it selects only because total_count is exact (TotalIsSum), and a wake-  *)
(* up is not lost only because the head of a wait list is a blocked task   *)
(* (WaitListsAreTheBlocked).  ReliefBound is what makes LowLevelNotStarved *)
(* inductive.                                                              *)
(***************************************************************************)
EXTENDS MCMsgQueue, FiniteSetTheorems, OrderLemmas, TLAPS

\* select_recv_priority counts the receives that passed LOW over, and gives up
\* counting at the threshold.
ReliefBound ==
  /\ passed[LowPrio] <= high_prio_recv_count
  /\ high_prio_recv_count <= Threshold

IInv == /\ TypeOK
        /\ RingsHoldWhatIsUnread
        /\ WaitListsAreTheBlocked
        /\ NoLostRecvWakeup
        /\ ReliefBound

-----------------------------------------------------------------------------
(***************************************************************************)
(* Arithmetic of the rings.                                                *)
(***************************************************************************)
\* An index that has gone round at most once, as the subtraction it amounts to.
LEMMA WrapOnce ==
  ASSUME NEW c \in Nat \ {0}, NEW x \in 0 .. 2 * c - 1
  PROVE  x % c = IF x < c THEN x ELSE x - c
  OBVIOUS

-----------------------------------------------------------------------------
(***************************************************************************)
(* The wait lists as sets.                                                 *)
(***************************************************************************)
Elems(list) == {list[i] : i \in 1 .. Len(list)}

\* block_on_queue links a task that is on neither list.
LEMMA PushFront ==
  ASSUME NEW list \in Seq(Tasks), NEW t \in Tasks
  PROVE  /\ <<t>> \o list \in Seq(Tasks)
         /\ Elems(<<t>> \o list) = Elems(list) \cup {t}
         /\ (OnceEach(list) /\ t \notin Elems(list)) => OnceEach(<<t>> \o list)
  <1> DEFINE new == <<t>> \o list
  <1>1. /\ new \in Seq(Tasks)
        /\ Len(new) = Len(list) + 1
        /\ new[1] = t
        /\ \A i \in 2 .. Len(list) + 1 : new[i] = list[i - 1]
    OBVIOUS
  <1>2. \A i \in 1 .. Len(list) : new[i + 1] = list[i] /\ i + 1 \in 1 .. Len(new)
    BY <1>1
  <1> HIDE DEF new
  <1>3. Elems(new) = Elems(list) \cup {t}
    <2>1. \A x \in Elems(new) : x \in Elems(list) \cup {t}
      BY <1>1 DEF Elems
    <2>2. \A x \in Elems(list) \cup {t} : x \in Elems(new)
      BY <1>1, <1>2 DEF Elems
    <2>3. QED
      BY <2>1, <2>2
  <1>4. ASSUME OnceEach(list), t \notin Elems(list) PROVE OnceEach(new)
    <2>1. \A i \in 1 .. Len(list) : list[i] # t
      BY <1>4 DEF Elems
    <2>2. SUFFICES ASSUME NEW i \in 1 .. Len(new), NEW j \in 1 .. Len(new), new[i] = new[j]
                   PROVE  i = j
      BY DEF OnceEach
    <2>3. CASE i = 1 \/ j = 1
      <3>1. \A k \in 2 .. Len(new) : new[k] # t
        <4>1. ASSUME NEW k \in 2 .. Len(new)
              PROVE  k - 1 \in 1 .. Len(list) /\ new[k] = list[k - 1]
          BY <1>1
        <4>2. QED
          BY <2>1, <4>1
      <3>2. (i \in 2 .. Len(new) \/ i = 1) /\ (j \in 2 .. Len(new) \/ j = 1)
        BY <1>1
      <3>3. QED
        BY <1>1, <2>2, <2>3, <3>1, <3>2
    <2>4. CASE i # 1 /\ j # 1
      <3>1. /\ i - 1 \in 1 .. Len(list) /\ j - 1 \in 1 .. Len(list)
            /\ list[i - 1] = list[j - 1]
        BY <1>1, <2>2, <2>4
      <3>2. QED
        BY <1>4, <3>1 DEF OnceEach
    <2>5. QED
      BY <2>3, <2>4
  <1>5. QED
    BY <1>1, <1>3, <1>4 DEF new

\* wake_one unlinks the head.
LEMMA PopFront ==
  ASSUME NEW list \in Seq(Tasks), list # <<>>
  PROVE  /\ Head(list) \in Elems(list) /\ Head(list) \in Tasks
         /\ AfterWake(list) \in Seq(Tasks)
         /\ OnceEach(list) => /\ Elems(AfterWake(list)) = Elems(list) \ {Head(list)}
                              /\ OnceEach(AfterWake(list))
  <1> DEFINE new == Tail(list)
  <1>1. /\ new \in Seq(Tasks)
        /\ Len(new) = Len(list) - 1
        /\ Len(list) >= 1
        /\ Head(list) = list[1]
        /\ \A i \in 1 .. Len(list) - 1 : new[i] = list[i + 1]
    OBVIOUS
  <1>2. AfterWake(list) = new
    BY DEF AfterWake
  <1>3. Head(list) \in Elems(list) /\ Head(list) \in Tasks
    BY <1>1 DEF Elems
  <1> HIDE DEF new
  <1>4. ASSUME OnceEach(list) PROVE Elems(new) = Elems(list) \ {Head(list)}
    <2>1. ASSUME NEW x \in Elems(new) PROVE x \in Elems(list) \ {Head(list)}
      <3>1. PICK i \in 1 .. Len(new) : new[i] = x
        BY <2>1 DEF Elems
      <3>2. i + 1 \in 1 .. Len(list) /\ list[i + 1] = x
        BY <1>1, <3>1
      <3>3. x # list[1]
        BY <1>1, <1>4, <3>2 DEF OnceEach
      <3>4. QED
        BY <1>1, <3>2, <3>3 DEF Elems
    <2>2. ASSUME NEW x \in Elems(list) \ {Head(list)} PROVE x \in Elems(new)
      <3>1. PICK i \in 1 .. Len(list) : list[i] = x
        BY <2>2 DEF Elems
      <3>2. i - 1 \in 1 .. Len(new) /\ new[i - 1] = x
        BY <1>1, <2>2, <3>1
      <3>3. QED
        BY <3>2 DEF Elems
    <2>3. QED
      BY <2>1, <2>2
  <1>5. OnceEach(list) => OnceEach(new)
    BY <1>1 DEF OnceEach
  <1>6. QED
    BY <1>1, <1>2, <1>3, <1>4, <1>5

\* What WaitListsAreTheBlocked says, in those terms.
LEMMA WaitListsAsSets ==
  WaitListsAreTheBlocked <=>
    /\ OnceEach(send_waiters) /\ OnceEach(recv_waiters)
    /\ Elems(send_waiters) = At({"send_blocked"})
    /\ Elems(recv_waiters) = At({"recv_blocked"})
    /\ \A t \in Tasks : pc[t] \in {"send_blocked", "recv_blocked"} =>
                           arg[t].wait = "forever"
  BY DEF WaitListsAreTheBlocked, Elems, At

-----------------------------------------------------------------------------
(***************************************************************************)
(* Occupied slots and the choice of select_recv_priority.                  *)
(***************************************************************************)
\* The levels and the slots are finite ranges of natural numbers.
LEMMA Sizes == /\ Prios \subseteq Nat /\ Slots \subseteq Nat /\ LowPrio \in Prios
               /\ IsFiniteSet(Prios \X Slots)
  <1>1. IsFiniteSet(Prios) /\ IsFiniteSet(Slots)
    BY MsgQueueAssumption, FS_Interval DEF Prios, Slots
  <1>2. IsFiniteSet(Prios \X Slots)
    BY <1>1, FS_Product
  <1>3. QED
    BY <1>2, MsgQueueAssumption DEF Prios, Slots, LowPrio

\* Only finitely many slots are occupied.
LEMMA OccupiedFinite == IsFiniteSet(Occupied)
  BY Sizes, FS_Subset DEF Occupied

\* One more, or one less, message at level p occupies, or frees, one slot.
LEMMA OccupiedStep ==
  ASSUME TypeOK, NEW p \in Prios,
         \A q \in Prios \ {p} : prio'[q] = prio[q]
  PROVE  /\ (prio[p].count < Capacity /\ prio'[p].count = prio[p].count + 1) =>
              /\ Occupied' = Occupied \cup {<<p, prio[p].count>>}
              /\ <<p, prio[p].count>> \notin Occupied
         /\ (prio[p].count > 0 /\ prio'[p].count = prio[p].count - 1) =>
              /\ Occupied' = Occupied \ {<<p, prio[p].count - 1>>}
              /\ <<p, prio[p].count - 1>> \in Occupied
  <1> DEFINE c == prio[p].count
  <1>1. c \in 0 .. Capacity /\ c \in Nat
    BY MsgQueueAssumption DEF TypeOK
  <1>2. \A x : x \in Occupied <=> x \in Prios \X Slots /\ x[2] < prio[x[1]].count
    BY DEF Occupied
  <1>3. \A x : x \in Occupied' <=> x \in Prios \X Slots /\ x[2] < prio'[x[1]].count
    BY DEF Occupied, Prios, Slots
  <1>4. \A x \in Prios \X Slots : /\ x = <<x[1], x[2]>> /\ x[1] \in Prios
                                  /\ x[2] \in Slots /\ x[2] \in Int
    BY MsgQueueAssumption DEF Slots
  <1>5. ASSUME c < Capacity, prio'[p].count = c + 1
        PROVE  Occupied' = Occupied \cup {<<p, c>>} /\ <<p, c>> \notin Occupied
    <2>1. <<p, c>> \in Prios \X Slots /\ <<p, c>>[1] = p /\ <<p, c>>[2] = c
      BY <1>1, <1>5, MsgQueueAssumption DEF Slots
    <2>2. <<p, c>> \notin Occupied
      BY <1>1, <1>2, <2>1
    <2>3. ASSUME NEW x \in Prios \X Slots
          PROVE  (x[2] < prio'[x[1]].count) <=> (x[2] < prio[x[1]].count \/ x = <<p, c>>)
      <3>1. CASE x[1] = p
        <4>1. x[2] < c + 1 <=> (x[2] < c \/ x[2] = c)
          BY <1>1, <1>4
        <4>2. x[2] = c <=> x = <<p, c>>
          BY <1>4, <2>1, <3>1
        <4>3. QED
          BY <1>5, <3>1, <4>1, <4>2
      <3>2. CASE x[1] # p
        BY <1>4, <2>1, <3>2
      <3>3. QED
        BY <3>1, <3>2
    <2>4. QED
      BY <1>2, <1>3, <2>1, <2>2, <2>3
  <1>6. ASSUME c > 0, prio'[p].count = c - 1
        PROVE  Occupied' = Occupied \ {<<p, c - 1>>} /\ <<p, c - 1>> \in Occupied
    <2>1. <<p, c - 1>> \in Prios \X Slots /\ <<p, c - 1>>[1] = p /\ <<p, c - 1>>[2] = c - 1
      BY <1>1, <1>6, MsgQueueAssumption DEF Slots
    <2>2. <<p, c - 1>> \in Occupied
      BY <1>1, <1>2, <2>1
    <2>3. ASSUME NEW x \in Prios \X Slots
          PROVE  (x[2] < prio'[x[1]].count) <=> (x[2] < prio[x[1]].count /\ x # <<p, c - 1>>)
      <3>1. CASE x[1] = p
        <4>1. x[2] < c - 1 <=> (x[2] < c /\ x[2] # c - 1)
          BY <1>1, <1>4
        <4>2. x[2] = c - 1 <=> x = <<p, c - 1>>
          BY <1>4, <2>1, <3>1
        <4>3. QED
          BY <1>6, <3>1, <4>1, <4>2
      <3>2. CASE x[1] # p
        BY <1>4, <2>1, <3>2
      <3>3. QED
        BY <3>1, <3>2
    <2>4. QED
      BY <1>2, <1>3, <2>1, <2>2, <2>3
  <1>7. QED
    BY <1>5, <1>6

\* A positive total means that some level holds a message, so the level that
\* select_recv_priority returns holds one.
LEMMA SelectedHoldsMessage ==
  ASSUME TypeOK, TotalIsSum, total_count # 0
  PROVE  /\ select_recv_priority \in Prios
         /\ prio[select_recv_priority].count > 0
         /\ (StarvationRelief /\ prio[LowPrio].count > 0) => select_recv_priority = LowPrio
  <1>1. Nonempty # {}
    <2>1. Occupied # {}
      BY OccupiedFinite, FS_EmptySet DEF TotalIsSum
    <2>2. PICK s \in Prios \X Slots : s[2] < prio[s[1]].count
      BY <2>1 DEF Occupied
    <2>3. s[1] \in Prios /\ s[2] \in Nat /\ prio[s[1]].count \in Nat
      <3>1. s[1] \in Prios /\ s[2] \in Slots
        BY <2>2
      <3>2. QED
        BY <3>1, MsgQueueAssumption DEF TypeOK, Slots
    <2>4. s[1] \in Nonempty
      BY <2>2, <2>3 DEF Nonempty
    <2>5. QED
      BY <2>4
  <1>2. Nonempty \in SUBSET Nat /\ Nonempty \in SUBSET (0 .. PrioCount - 1)
    BY Sizes DEF Nonempty, Prios
  <1>3. Min(Nonempty) \in Nonempty /\ \A r \in Nonempty : Min(Nonempty) <= r
    <2>1. \E s \in Nonempty : \A r \in Nonempty : s <= r
      BY <1>1, <1>2, LeastElement
    <2>2. QED
      BY <2>1 DEF Min
  <1>4. Max(Nonempty) \in Nonempty
    <2>1. \E s \in Nonempty : \A r \in Nonempty : s >= r
      <3>1. PrioCount - 1 \in Nat
        BY MsgQueueAssumption
      <3>2. QED
        BY <1>1, <1>2, <3>1, GreatestElement
    <2>2. QED
      BY <2>1 DEF Max
  <1>5. select_recv_priority \in Nonempty
    BY <1>3, <1>4 DEF select_recv_priority
  <1>6. ASSUME StarvationRelief, prio[LowPrio].count > 0
        PROVE  select_recv_priority = LowPrio
    <2>1. LowPrio \in Nonempty
      BY <1>6, Sizes DEF Nonempty
    <2>2. Min(Nonempty) <= LowPrio /\ Min(Nonempty) \in Nat
      BY <1>2, <1>3, <2>1
    <2>3. QED
      BY <1>6, <2>2 DEF select_recv_priority, LowPrio
  <1>7. QED
    BY <1>5, <1>6 DEF Nonempty

-----------------------------------------------------------------------------
\* msg_queue_create leaves the queue in a state of the invariant.
LEMMA InitIInv == Init => IInv
  <1> SUFFICES ASSUME Init PROVE IInv
    OBVIOUS
  <1>1. TypeOK
    BY MsgQueueAssumption DEF Init, TypeOK, Prios, Slots, PCs, NoArg, Waits, LowPrio
  <1>2. RingsHoldWhatIsUnread
    <2>1. Occupied = {}
      <3>1. ASSUME NEW s \in Prios \X Slots PROVE ~ (s[2] < prio[s[1]].count)
        <4>1. s[1] \in Prios /\ s[2] \in Slots
          BY <3>1
        <4>2. s[2] \in Nat /\ prio[s[1]].count = 0
          BY <4>1, Sizes DEF Init
        <4>3. QED
          BY <4>2
      <3>2. QED
        BY <3>1 DEF Occupied
    <2>2. TotalIsSum
      BY <2>1, FS_EmptySet DEF Init, TotalIsSum
    <2>3. 0 % Capacity = 0
      BY WrapOnce, MsgQueueAssumption
    <2>4. QED
      BY <2>2, <2>3 DEF Init, RingsHoldWhatIsUnread
  <1>3. WaitListsAreTheBlocked
    BY WaitListsAsSets DEF Init, OnceEach, Elems, At
  <1>4. NoLostRecvWakeup /\ ReliefBound
    BY Sizes, MsgQueueAssumption DEF Init, NoLostRecvWakeup, ReliefBound
  <1>5. QED
    BY <1>1, <1>2, <1>3, <1>4 DEF IInv

-----------------------------------------------------------------------------
(***************************************************************************)
(* Steps that touch neither the rings nor the lists.                       *)
(***************************************************************************)
\* A step of one task between control points that are neither blocked nor woken
\* for a message keeps the invariant, whatever else it does to pc and arg.
LEMMA ControlStep ==
  ASSUME IInv, NEW t \in Tasks,
         UNCHANGED <<ring, stats, lists, got, passed>>,
         alive' \in BOOLEAN,
         pc' \in [Tasks -> PCs], arg' \in [Tasks -> [prio : Prios, wait : Waits, expired : BOOLEAN]],
         \A u \in Tasks \ {t} : pc'[u] = pc[u] /\ arg'[u] = arg[u],
         pc[t] \notin {"send_blocked", "recv_blocked"},
         pc'[t] \notin {"send_blocked", "recv_blocked"},
         (pc[t] = "recv_woken" /\ pc'[t] # "recv_woken") => total_count = 0,
         pc'[t] = "recv_woken" => pc[t] = "recv_woken"
  PROVE  IInv'
  <1> USE DEF ring, stats, lists
  <1>1. TypeOK'
    BY DEF IInv, TypeOK
  <1>2. RingsHoldWhatIsUnread'
    BY DEF IInv, RingsHoldWhatIsUnread, TotalIsSum, Occupied
  <1>3. WaitListsAreTheBlocked'
    BY DEF IInv, WaitListsAreTheBlocked, At, OnceEach
  <1>4. NoLostRecvWakeup'
    <2>1. CASE At({"recv_woken"})' = At({"recv_woken"})
      BY <2>1 DEF IInv, NoLostRecvWakeup
    <2>2. CASE At({"recv_woken"})' # At({"recv_woken"})
      <3>1. total_count' = 0
        BY <2>2 DEF At
      <3>2. IsFiniteSet(At({"recv_woken"})')
        BY MsgQueueAssumption, FS_Subset DEF At
      <3>3. QED
        BY <3>1, <3>2, FS_CardinalityType DEF NoLostRecvWakeup
    <2>3. QED
      BY <2>1, <2>2
  <1>5. ReliefBound'
    BY DEF IInv, ReliefBound
  <1>6. QED
    BY <1>1, <1>2, <1>3, <1>4, <1>5 DEF IInv

\* The actions of that kind.
Quiet(t) == \/ \E p \in -1 .. PrioCount, w \in Waits : CallSend(t, p, w)
            \/ \E w \in Waits : CallRecv(t, w)
            \/ TimerExpires(t)
            \/ SendRefused(t)
            \/ RecvRefused(t)
            \/ CallDestroy(t)
            \/ DestroyStep(t)

\* Entering a call, an error return, the timer and destroy preserve the invariant.
LEMMA QuietIInv ==
  ASSUME IInv, NEW t \in Tasks, Quiet(t)
  PROVE  IInv'
  <1> USE DEF IInv, TypeOK, PCs, SendReady, RecvReady
  <1>0. NoArg \in [prio : Prios, wait : Waits, expired : BOOLEAN]
    BY Sizes DEF NoArg, Waits
  <1>1. ASSUME NEW p \in -1 .. PrioCount, NEW w \in Waits, CallSend(t, p, w) PROVE IInv'
    <2>1. Clamp(p) \in Prios
      BY MsgQueueAssumption DEF Clamp, Prios, LowPrio
    <2>2. QED
      BY <1>1, <2>1, ControlStep DEF CallSend
  <1>2. ASSUME NEW w \in Waits, CallRecv(t, w) PROVE IInv'
    BY <1>2, Sizes, ControlStep DEF CallRecv
  <1>3. CASE TimerExpires(t)
    <2>1. /\ arg' \in [Tasks -> [prio : Prios, wait : Waits, expired : BOOLEAN]]
          /\ \A u \in Tasks \ {t} : arg'[u] = arg[u]
      BY <1>3 DEF TimerExpires
    <2>2. QED
      BY <1>3, <2>1, ControlStep DEF TimerExpires
  <1>4. CASE SendRefused(t)
    BY <1>0, <1>4, ControlStep DEF SendRefused, ReturnError
  <1>5. CASE RecvRefused(t)
    BY <1>0, <1>5, ControlStep DEF RecvRefused, ReturnError
  <1>6. CASE CallDestroy(t)
    BY <1>6, ControlStep DEF CallDestroy
  <1>7. CASE DestroyStep(t)
    <2>1. CASE DestroyChecks(t)
      <3>1. pc'[t] \in {"idle", "free"} /\ pc' \in [Tasks -> PCs]
        BY <2>1 DEF DestroyChecks
      <3>2. QED
        BY <2>1, <3>1, ControlStep DEF DestroyChecks
    <2>2. CASE DestroyFrees(t)
      BY <2>2, ControlStep DEF DestroyFrees
    <2>3. QED
      BY <1>7, <2>1, <2>2 DEF DestroyStep
  <1>8. QED
    BY <1>1, <1>2, <1>3, <1>4, <1>5, <1>6, <1>7 DEF Quiet

-----------------------------------------------------------------------------
(***************************************************************************)
(* Blocking.                                                               *)
(***************************************************************************)
\* A sender that blocks on a full level preserves the invariant.
LEMMA SendBlocksIInv ==
  ASSUME IInv, NEW t \in Tasks, SendBlocks(t)
  PROVE  IInv'
  <1> USE DEF IInv, SendBlocks, ring, stats
  <1>1. t \notin Elems(send_waiters)
    BY WaitListsAsSets DEF At, SendReady
  <1>2. /\ send_waiters' \in Seq(Tasks)
        /\ Elems(send_waiters)' = Elems(send_waiters) \cup {t}
        /\ OnceEach(send_waiters)'
    BY <1>1, PushFront, WaitListsAsSets DEF TypeOK
  <1>3. TypeOK'
    BY <1>2 DEF TypeOK, PCs
  <1>4. RingsHoldWhatIsUnread'
    BY DEF RingsHoldWhatIsUnread, TotalIsSum, Occupied
  <1>5. WaitListsAreTheBlocked'
    <2>1. At({"send_blocked"})' = At({"send_blocked"}) \cup {t}
      BY DEF At, TypeOK
    <2>2. At({"recv_blocked"})' = At({"recv_blocked"})
      BY DEF At, TypeOK, SendReady
    <2>3. OnceEach(recv_waiters)' /\ Elems(recv_waiters)' = At({"recv_blocked"})
      BY WaitListsAsSets DEF OnceEach, Elems
    <2>4. \A u \in Tasks : pc'[u] \in {"send_blocked", "recv_blocked"} =>
                            arg'[u].wait = "forever"
      BY WaitListsAsSets DEF TypeOK
    <2>5. QED
      BY <1>2, <2>1, <2>2, <2>3, <2>4, WaitListsAsSets
         DEF WaitListsAreTheBlocked, Elems, At
  <1>6. NoLostRecvWakeup'
    BY DEF NoLostRecvWakeup, At, TypeOK, SendReady
  <1>7. ReliefBound'
    BY DEF ReliefBound
  <1>8. QED
    BY <1>3, <1>4, <1>5, <1>6, <1>7

\* A receiver that blocks on an empty queue preserves the invariant.
LEMMA RecvBlocksIInv ==
  ASSUME IInv, NEW t \in Tasks, RecvBlocks(t)
  PROVE  IInv'
  <1> USE DEF IInv, RecvBlocks, ring, stats
  <1>1. t \notin Elems(recv_waiters)
    BY WaitListsAsSets DEF At, RecvReady
  <1>2. /\ recv_waiters' \in Seq(Tasks)
        /\ Elems(recv_waiters)' = Elems(recv_waiters) \cup {t}
        /\ OnceEach(recv_waiters)'
    BY <1>1, PushFront, WaitListsAsSets DEF TypeOK
  <1>3. TypeOK'
    BY <1>2 DEF TypeOK, PCs
  <1>4. RingsHoldWhatIsUnread'
    BY DEF RingsHoldWhatIsUnread, TotalIsSum, Occupied
  <1>5. WaitListsAreTheBlocked'
    <2>1. At({"recv_blocked"})' = At({"recv_blocked"}) \cup {t}
      BY DEF At, TypeOK
    <2>2. At({"send_blocked"})' = At({"send_blocked"})
      BY DEF At, TypeOK, RecvReady
    <2>3. OnceEach(send_waiters)' /\ Elems(send_waiters)' = At({"send_blocked"})
      BY WaitListsAsSets DEF OnceEach, Elems
    <2>4. \A u \in Tasks : pc'[u] \in {"send_blocked", "recv_blocked"} =>
                            arg'[u].wait = "forever"
      BY WaitListsAsSets DEF TypeOK
    <2>5. QED
      BY <1>2, <2>1, <2>2, <2>3, <2>4, WaitListsAsSets
         DEF WaitListsAreTheBlocked, Elems, At
  <1>6. NoLostRecvWakeup'
    <2>1. IsFiniteSet(At({"recv_woken"})')
      BY MsgQueueAssumption, FS_Subset DEF At
    <2>2. QED
      BY <2>1, FS_CardinalityType DEF NoLostRecvWakeup
  <1>7. ReliefBound'
    BY DEF ReliefBound
  <1>8. QED
    BY <1>3, <1>4, <1>5, <1>6, <1>7

-----------------------------------------------------------------------------
(***************************************************************************)
(* Waking: what AfterWake and PcAfterWake do to the lists and the tasks.   *)
(***************************************************************************)
\* A task that completes a send wakes the head of recv_waiters, if any.
LEMMA SendWakes ==
  ASSUME IInv, NEW t \in Tasks, pc[t] \in SendReady,
         recv_waiters' = AfterWake(recv_waiters),
         pc' = PcAfterWake(t, "idle", recv_waiters, "recv_woken"),
         arg' = [arg EXCEPT ![t] = NoArg],
         UNCHANGED send_waiters
  PROVE  /\ recv_waiters' \in Seq(Tasks)
         /\ pc' \in [Tasks -> PCs]
         /\ WaitListsAreTheBlocked'
         /\ recv_waiters = <<>> => recv_waiters' = <<>>
         /\ recv_waiters # <<>> =>
              Cardinality(At({"recv_woken"}))' = Cardinality(At({"recv_woken"})) + 1
  <1> USE DEF IInv, SendReady
  <1>2. CASE recv_waiters = <<>>
    <2>1. recv_waiters' = <<>> /\ pc' = [pc EXCEPT ![t] = "idle"]
      BY <1>2 DEF AfterWake, PcAfterWake, TypeOK
    <2>2. WaitListsAreTheBlocked'
      <3>1. /\ At({"send_blocked"})' = At({"send_blocked"})
            /\ At({"recv_blocked"})' = At({"recv_blocked"})
        BY <2>1 DEF At, TypeOK
      <3>2. UNCHANGED <<send_waiters, recv_waiters>>
        BY <1>2, <2>1
      <3>3. \A u \in Tasks : pc'[u] \in {"send_blocked", "recv_blocked"} =>
                              arg'[u].wait = "forever"
        BY <2>1, WaitListsAsSets DEF TypeOK
      <3>4. QED
        BY <3>1, <3>2, <3>3 DEF WaitListsAreTheBlocked, OnceEach, At
    <2>3. QED
      BY <1>2, <2>1, <2>2 DEF TypeOK, PCs
  <1>3. CASE recv_waiters # <<>>
    <2> DEFINE h == Head(recv_waiters)
    <2>1. /\ h \in Elems(recv_waiters) /\ h \in Tasks
          /\ recv_waiters' \in Seq(Tasks)
          /\ Elems(recv_waiters') = Elems(recv_waiters) \ {h}
          /\ OnceEach(recv_waiters')
      BY <1>3, PopFront, WaitListsAsSets DEF TypeOK
    <2>2. pc[h] = "recv_blocked" /\ h # t
      BY <2>1, WaitListsAsSets DEF At
    <2>3. pc' = [u \in Tasks |-> IF u = t THEN "idle"
                                 ELSE IF u = h THEN "recv_woken" ELSE pc[u]]
      BY <1>3 DEF PcAfterWake
    <2> HIDE DEF h
    <2>4. At({"recv_blocked"})' = At({"recv_blocked"}) \ {h}
      BY <2>1, <2>2, <2>3 DEF At
    <2>5. At({"send_blocked"})' = At({"send_blocked"})
      BY <2>1, <2>2, <2>3 DEF At
    <2>6. At({"recv_woken"})' = At({"recv_woken"}) \cup {h} /\ h \notin At({"recv_woken"})
      BY <2>1, <2>2, <2>3 DEF At
    <2>7. \A u \in Tasks : pc'[u] \in {"send_blocked", "recv_blocked"} =>
                            arg'[u].wait = "forever"
      BY <2>3, WaitListsAsSets DEF TypeOK
    <2>8. WaitListsAreTheBlocked'
      <3>1. OnceEach(send_waiters)' /\ Elems(send_waiters)' = At({"send_blocked"})
        BY WaitListsAsSets DEF OnceEach, Elems
      <3>2. QED
        BY <2>1, <2>4, <2>5, <2>7, <3>1, WaitListsAsSets
           DEF WaitListsAreTheBlocked, Elems, At
    <2>9. Cardinality(At({"recv_woken"}))' = Cardinality(At({"recv_woken"})) + 1
      <3>1. IsFiniteSet(At({"recv_woken"}))
        BY MsgQueueAssumption, FS_Subset DEF At
      <3>2. QED
        BY <2>6, <3>1, FS_AddElement
    <2>10. QED
      BY <1>3, <2>1, <2>3, <2>8, <2>9 DEF TypeOK, PCs
  <1>4. QED
    BY <1>2, <1>3

\* A task that completes a receive wakes the head of send_waiters, if any, and
\* stops being a woken receiver.
LEMMA RecvWakes ==
  ASSUME IInv, NEW t \in Tasks, pc[t] \in RecvReady,
         send_waiters' = AfterWake(send_waiters),
         pc' = PcAfterWake(t, "idle", send_waiters, "send_woken"),
         arg' = [arg EXCEPT ![t] = NoArg],
         UNCHANGED recv_waiters
  PROVE  /\ send_waiters' \in Seq(Tasks)
         /\ pc' \in [Tasks -> PCs]
         /\ WaitListsAreTheBlocked'
         /\ Cardinality(At({"recv_woken"}))' >= Cardinality(At({"recv_woken"})) - 1
  <1> USE DEF IInv, RecvReady
  <1>1. ASSUME At({"recv_woken"})' = At({"recv_woken"}) \ {t}
        PROVE  Cardinality(At({"recv_woken"}))' >= Cardinality(At({"recv_woken"})) - 1
    <2>1. IsFiniteSet(At({"recv_woken"}))
      BY MsgQueueAssumption, FS_Subset DEF At
    <2>2. Cardinality(At({"recv_woken"})) \in Nat
      BY <2>1, FS_CardinalityType
    <2>3. Cardinality(At({"recv_woken"}) \ {t}) >= Cardinality(At({"recv_woken"})) - 1
      <3>1. Cardinality(At({"recv_woken"}) \ {t}) =
              IF t \in At({"recv_woken"}) THEN Cardinality(At({"recv_woken"})) - 1
              ELSE Cardinality(At({"recv_woken"}))
        BY <2>1, FS_RemoveElement
      <3>2. QED
        BY <2>2, <3>1
    <2>4. QED
      BY <1>1, <2>3
  <1>2. CASE send_waiters = <<>>
    <2>1. send_waiters' = <<>> /\ pc' = [pc EXCEPT ![t] = "idle"]
      BY <1>2 DEF AfterWake, PcAfterWake, TypeOK
    <2>2. WaitListsAreTheBlocked'
      <3>1. /\ At({"send_blocked"})' = At({"send_blocked"})
            /\ At({"recv_blocked"})' = At({"recv_blocked"})
        BY <2>1 DEF At, TypeOK
      <3>2. UNCHANGED <<send_waiters, recv_waiters>>
        BY <1>2, <2>1
      <3>3. \A u \in Tasks : pc'[u] \in {"send_blocked", "recv_blocked"} =>
                              arg'[u].wait = "forever"
        BY <2>1, WaitListsAsSets DEF TypeOK
      <3>4. QED
        BY <3>1, <3>2, <3>3 DEF WaitListsAreTheBlocked, OnceEach, At
    <2>3. At({"recv_woken"})' = At({"recv_woken"}) \ {t}
      BY <2>1 DEF At, TypeOK
    <2>4. QED
      BY <1>1, <1>2, <2>1, <2>2, <2>3 DEF TypeOK, PCs
  <1>3. CASE send_waiters # <<>>
    <2> DEFINE h == Head(send_waiters)
    <2>1. /\ h \in Elems(send_waiters) /\ h \in Tasks
          /\ send_waiters' \in Seq(Tasks)
          /\ Elems(send_waiters') = Elems(send_waiters) \ {h}
          /\ OnceEach(send_waiters')
      BY <1>3, PopFront, WaitListsAsSets DEF TypeOK
    <2>2. pc[h] = "send_blocked" /\ h # t
      BY <2>1, WaitListsAsSets DEF At
    <2>3. pc' = [u \in Tasks |-> IF u = t THEN "idle"
                                 ELSE IF u = h THEN "send_woken" ELSE pc[u]]
      BY <1>3 DEF PcAfterWake
    <2> HIDE DEF h
    <2>4. At({"send_blocked"})' = At({"send_blocked"}) \ {h}
      BY <2>1, <2>2, <2>3 DEF At
    <2>5. At({"recv_blocked"})' = At({"recv_blocked"})
      BY <2>1, <2>2, <2>3 DEF At
    <2>6. At({"recv_woken"})' = At({"recv_woken"}) \ {t}
      BY <2>1, <2>2, <2>3 DEF At
    <2>7. \A u \in Tasks : pc'[u] \in {"send_blocked", "recv_blocked"} =>
                            arg'[u].wait = "forever"
      BY <2>3, WaitListsAsSets DEF TypeOK
    <2>8. WaitListsAreTheBlocked'
      <3>1. OnceEach(recv_waiters)' /\ Elems(recv_waiters)' = At({"recv_blocked"})
        BY WaitListsAsSets DEF OnceEach, Elems
      <3>2. QED
        BY <2>1, <2>4, <2>5, <2>7, <3>1, WaitListsAsSets
           DEF WaitListsAreTheBlocked, Elems, At
    <2>9. QED
      BY <1>1, <1>3, <2>1, <2>3, <2>6, <2>8 DEF TypeOK, PCs
  <1>4. QED
    BY <1>2, <1>3

-----------------------------------------------------------------------------
(***************************************************************************)
(* The ring of one level, its fields taken apart: `slot' holds the c oldest*)
(* unread of the n messages sent, from tl on, and hd is the next to fill.  *)
(***************************************************************************)
RingOK(slot, hd, tl, c, n) ==
  /\ (tl + c) % Capacity = hd
  /\ \A i \in 0 .. c - 1 : slot[(tl + i) % Capacity] = n - c + i

\* What RingsHoldWhatIsUnread says, in those terms.
LEMMA RingsByLevel ==
  RingsHoldWhatIsUnread <=>
    /\ TotalIsSum
    /\ msgs_sent = msgs_recv + total_count
    /\ \A p \in Prios : RingOK(buffer[p], prio[p].head, prio[p].tail, prio[p].count,
                                prio_msgs_sent[p])
  BY DEF RingsHoldWhatIsUnread, RingOK

\* Storing message n at hd and moving hd on keeps the ring in order.
LEMMA RingPush ==
  ASSUME NEW slot \in [Slots -> Nat], NEW hd \in Slots, NEW tl \in Slots,
         NEW c \in 0 .. Capacity - 1, NEW n \in Nat, RingOK(slot, hd, tl, c, n)
  PROVE  /\ (hd + 1) % Capacity \in Slots
         /\ RingOK([slot EXCEPT ![hd] = n], (hd + 1) % Capacity, tl, c + 1, n + 1)
  <1> USE MsgQueueAssumption DEF Slots
  <1> DEFINE Wrap(x) == IF x < Capacity THEN x ELSE x - Capacity
  <1>1. \A x \in 0 .. 2 * Capacity - 1 : x % Capacity = Wrap(x)
    BY WrapOnce
  <1>2. tl + c \in 0 .. 2 * Capacity - 1 /\ tl + (c + 1) \in 0 .. 2 * Capacity - 1
        /\ hd + 1 \in 0 .. 2 * Capacity - 1
    OBVIOUS
  <1>3. hd = Wrap(tl + c)
    BY <1>1, <1>2 DEF RingOK
  <1>4. (hd + 1) % Capacity = Wrap(hd + 1)
    BY <1>1, <1>2
  <1>5. (tl + (c + 1)) % Capacity = (hd + 1) % Capacity
    <2>1. (tl + (c + 1)) % Capacity = Wrap(tl + (c + 1))
      BY <1>1, <1>2
    <2>2. Wrap(tl + (c + 1)) = Wrap(hd + 1)
      BY <1>3
    <2>3. QED
      BY <1>4, <2>1, <2>2
  <1>6. ASSUME NEW i \in 0 .. (c + 1) - 1
        PROVE  [slot EXCEPT ![hd] = n][(tl + i) % Capacity] = (n + 1) - (c + 1) + i
    <2>1. tl + i \in 0 .. 2 * Capacity - 1 /\ (tl + i) % Capacity = Wrap(tl + i)
      <3>1. tl + i \in 0 .. 2 * Capacity - 1
        OBVIOUS
      <3>2. QED
        BY <1>1, <3>1
    <2>2. Wrap(tl + i) \in Slots
      BY <2>1
    <2>3. CASE i = c
      BY <1>3, <2>1, <2>2, <2>3
    <2>4. CASE i # c
      <3>1. Wrap(tl + i) # hd
        BY <1>3, <2>4
      <3>2. slot[(tl + i) % Capacity] = n - c + i
        <4>1. i \in 0 .. c - 1
          BY <2>4
        <4>2. QED
          BY <4>1 DEF RingOK
      <3>3. [slot EXCEPT ![hd] = n][(tl + i) % Capacity] = slot[(tl + i) % Capacity]
        BY <2>1, <2>2, <3>1
      <3>4. n - c + i = (n + 1) - (c + 1) + i
        OBVIOUS
      <3>5. QED
        BY <3>2, <3>3, <3>4
    <2>5. QED
      BY <2>3, <2>4
  <1>7. Wrap(hd + 1) \in Slots
    OBVIOUS
  <1>8. QED
    BY <1>4, <1>5, <1>6, <1>7 DEF RingOK

\* Taking the message at tl away and moving tl on keeps the ring in order.
LEMMA RingPop ==
  ASSUME NEW slot \in [Slots -> Nat], NEW hd \in Slots, NEW tl \in Slots,
         NEW c \in 1 .. Capacity, NEW n \in Nat, RingOK(slot, hd, tl, c, n)
  PROVE  /\ (tl + 1) % Capacity \in Slots
         /\ RingOK(slot, hd, (tl + 1) % Capacity, c - 1, n)
  <1> USE MsgQueueAssumption DEF Slots
  <1> DEFINE Wrap(x) == IF x < Capacity THEN x ELSE x - Capacity
  <1>1. \A x \in 0 .. 2 * Capacity - 1 : x % Capacity = Wrap(x)
    BY WrapOnce
  <1>2. (tl + 1) % Capacity = Wrap(tl + 1) /\ Wrap(tl + 1) \in Slots
    <2>1. tl + 1 \in 0 .. 2 * Capacity - 1
      OBVIOUS
    <2>2. (tl + 1) % Capacity = Wrap(tl + 1)
      BY <1>1, <2>1
    <2>3. Wrap(tl + 1) \in Slots
      OBVIOUS
    <2>4. QED
      BY <2>2, <2>3
  <1>3. ASSUME NEW i \in 0 .. c - 1
        PROVE  (Wrap(tl + 1) + i) % Capacity = (tl + (i + 1)) % Capacity
    <2>1. /\ tl + (i + 1) \in 0 .. 2 * Capacity - 1
          /\ Wrap(tl + 1) + i \in 0 .. 2 * Capacity - 1
      OBVIOUS
    <2>2. Wrap(Wrap(tl + 1) + i) = Wrap(tl + (i + 1))
      OBVIOUS
    <2>3. QED
      BY <1>1, <2>1, <2>2
  <1>4. (Wrap(tl + 1) + (c - 1)) % Capacity = hd
    BY <1>3 DEF RingOK
  <1>5. ASSUME NEW i \in 0 .. (c - 1) - 1
        PROVE  slot[(Wrap(tl + 1) + i) % Capacity] = n - (c - 1) + i
    <2>1. i \in 0 .. c - 1 /\ i + 1 \in 0 .. c - 1
      OBVIOUS
    <2>2. slot[(tl + (i + 1)) % Capacity] = n - c + (i + 1)
      BY <2>1 DEF RingOK
    <2>3. n - c + (i + 1) = n - (c - 1) + i
      OBVIOUS
    <2>4. QED
      BY <1>3, <2>1, <2>2, <2>3
  <1>6. QED
    BY <1>2, <1>4, <1>5 DEF RingOK

-----------------------------------------------------------------------------
(***************************************************************************)
(* A message goes in, a message comes out.                                 *)
(***************************************************************************)
\* A send that finds room preserves the invariant.
LEMMA SendCompletesIInv ==
  ASSUME IInv, NEW t \in Tasks, SendCompletes(t)
  PROVE  IInv'
  <1> DEFINE p == arg[t].prio
             b == prio[p]
  <1> USE MsgQueueAssumption DEF IInv
  <1>1. /\ p \in Prios
        /\ b.head \in Slots /\ b.tail \in Slots /\ b.count \in 0 .. Capacity - 1
        /\ buffer[p] \in [Slots -> Nat] /\ prio_msgs_sent[p] \in Nat
    <2>1. p \in Prios
      BY DEF TypeOK
    <2>2. /\ b \in [head : Slots, tail : Slots, count : 0 .. Capacity]
          /\ buffer[p] \in [Slots -> Nat] /\ prio_msgs_sent[p] \in Nat
      BY <2>1 DEF TypeOK
    <2>3. ~ (b.count >= Capacity)
      BY DEF SendCompletes, LevelFull
    <2>4. QED
      BY <2>1, <2>2, <2>3
  <1>2. /\ (b.head + 1) % Capacity \in Slots
        /\ RingOK([buffer[p] EXCEPT ![b.head] = prio_msgs_sent[p]],
                  (b.head + 1) % Capacity, b.tail, b.count + 1, prio_msgs_sent[p] + 1)
    BY <1>1, RingPush, RingsByLevel
  <1>3. /\ buffer' \in [Prios -> [Slots -> Nat]]
        /\ buffer'[p] = [buffer[p] EXCEPT ![b.head] = prio_msgs_sent[p]]
        /\ \A q \in Prios \ {p} : buffer'[q] = buffer[q]
    BY <1>1 DEF SendCompletes, TypeOK
  <1>4. /\ prio' \in [Prios -> [head : Slots, tail : Slots, count : 0 .. Capacity]]
        /\ prio'[p].head = (b.head + 1) % Capacity
        /\ prio'[p].tail = b.tail
        /\ prio'[p].count = b.count + 1
        /\ \A q \in Prios \ {p} : prio'[q] = prio[q]
    <2>1. prio' = [prio EXCEPT ![p].head = (prio[p].head + 1) % Capacity,
                                ![p].count = prio[p].count + 1]
      BY DEF SendCompletes
    <2>2. prio \in [Prios -> [head : Slots, tail : Slots, count : 0 .. Capacity]]
      BY DEF TypeOK
    <2>3. b.count + 1 \in 0 .. Capacity
      BY <1>1
    <2> HIDE DEF p
    <2>4. QED
      BY <1>1, <1>2, <2>1, <2>2, <2>3
  <1>5. /\ prio_msgs_sent' \in [Prios -> Nat]
        /\ prio_msgs_sent'[p] = prio_msgs_sent[p] + 1
        /\ \A q \in Prios \ {p} : prio_msgs_sent'[q] = prio_msgs_sent[q]
    <2>1. prio_msgs_sent' = [prio_msgs_sent EXCEPT ![p] = prio_msgs_sent[p] + 1]
      BY DEF SendCompletes
    <2>2. prio_msgs_sent \in [Prios -> Nat]
      BY DEF TypeOK
    <2> HIDE DEF p
    <2>3. QED
      BY <1>1, <2>1, <2>2
  <1>6. /\ recv_waiters' \in Seq(Tasks)
        /\ pc' \in [Tasks -> PCs]
        /\ WaitListsAreTheBlocked'
        /\ recv_waiters = <<>> => recv_waiters' = <<>>
        /\ recv_waiters # <<>> =>
             Cardinality(At({"recv_woken"}))' = Cardinality(At({"recv_woken"})) + 1
    BY SendWakes DEF SendCompletes
  <1>7. TypeOK'
    <2>1. arg' \in [Tasks -> [prio : Prios, wait : Waits, expired : BOOLEAN]]
      BY Sizes DEF SendCompletes, TypeOK, NoArg, Waits
    <2>2. total_count' \in Nat /\ msgs_sent' \in Nat /\ high_water' \in Nat
      <3>1. /\ total_count' = total_count + 1 /\ msgs_sent' = msgs_sent + 1
            /\ high_water' \in {total_count + 1, high_water}
        BY DEF SendCompletes
      <3>2. total_count \in Nat /\ msgs_sent \in Nat /\ high_water \in Nat
        BY DEF TypeOK
      <3>3. QED
        BY <3>1, <3>2
    <2>3. UNCHANGED <<high_prio_recv_count, msgs_recv, send_waiters, alive, got, passed>>
      BY DEF SendCompletes
    <2>4. QED
      BY <1>3, <1>4, <1>5, <1>6, <2>1, <2>2, <2>3 DEF TypeOK
  <1>8. RingsHoldWhatIsUnread'
    <2>1. TotalIsSum'
      <3>1. Occupied' = Occupied \cup {<<p, b.count>>} /\ <<p, b.count>> \notin Occupied
        <4>1. prio[p].count < Capacity
          BY <1>1
        <4>2. QED
          BY <1>1, <1>4, <4>1, OccupiedStep
      <3>2. Cardinality(Occupied') = Cardinality(Occupied) + 1
        <4>1. Cardinality(Occupied \cup {<<p, b.count>>}) =
                IF <<p, b.count>> \in Occupied THEN Cardinality(Occupied)
                ELSE Cardinality(Occupied) + 1
          BY OccupiedFinite, FS_AddElement
        <4>2. QED
          BY <3>1, <4>1
      <3>3. QED
        <4>1. total_count = Cardinality(Occupied) /\ total_count' = total_count + 1
          BY RingsByLevel DEF TotalIsSum, SendCompletes
        <4>2. QED
          BY <3>2, <4>1 DEF TotalIsSum
    <2>2. msgs_sent' = msgs_recv' + total_count'
      BY RingsByLevel DEF SendCompletes, TypeOK
    <2>3. ASSUME NEW q \in Prios
          PROVE  RingOK(buffer'[q], prio'[q].head, prio'[q].tail, prio'[q].count,
                        prio_msgs_sent'[q])
      <3>1. CASE q = p
        BY <1>2, <1>3, <1>4, <1>5, <3>1
      <3>2. CASE q # p
        BY <1>3, <1>4, <1>5, <3>2, RingsByLevel
      <3>3. QED
        BY <3>1, <3>2
    <2>4. QED
      BY <2>1, <2>2, <2>3 DEF RingsHoldWhatIsUnread, RingOK
  <1>9. NoLostRecvWakeup'
    <2>1. total_count' = total_count + 1 /\ total_count \in Nat
      BY DEF SendCompletes, TypeOK
    <2>2. CASE recv_waiters = <<>>
      BY <1>6, <2>2 DEF NoLostRecvWakeup
    <2>3. CASE recv_waiters # <<>>
      <3>1. IsFiniteSet(At({"recv_woken"}))
        BY FS_Subset DEF At
      <3>2. Cardinality(At({"recv_woken"})) \in Nat
        BY <3>1, FS_CardinalityType
      <3>3. total_count <= Cardinality(At({"recv_woken"}))
        BY <2>3 DEF NoLostRecvWakeup
      <3>4. total_count' <= Cardinality(At({"recv_woken"}))'
        BY <1>6, <2>1, <2>3, <3>2, <3>3
      <3>5. QED
        BY <3>4 DEF NoLostRecvWakeup
    <2>4. QED
      BY <2>2, <2>3
  <1>10. ReliefBound'
    BY DEF ReliefBound, SendCompletes
  <1>11. QED
    BY <1>6, <1>7, <1>8, <1>9, <1>10

\* A receive that finds a message preserves the invariant.
LEMMA RecvCompletesIInv ==
  ASSUME IInv, NEW t \in Tasks, RecvCompletes(t)
  PROVE  IInv'
  <1> DEFINE p == select_recv_priority
             b == prio[p]
  <1> USE MsgQueueAssumption DEF IInv
  <1>1. /\ p \in Prios /\ b.count > 0
        /\ (StarvationRelief /\ prio[LowPrio].count > 0) => p = LowPrio
    BY SelectedHoldsMessage, RingsByLevel DEF RecvCompletes
  <1> HIDE DEF p
  <1>2. /\ b.head \in Slots /\ b.tail \in Slots /\ b.count \in 1 .. Capacity
        /\ buffer[p] \in [Slots -> Nat] /\ prio_msgs_sent[p] \in Nat
    <2>1. /\ b \in [head : Slots, tail : Slots, count : 0 .. Capacity]
          /\ buffer[p] \in [Slots -> Nat] /\ prio_msgs_sent[p] \in Nat
      BY <1>1 DEF TypeOK
    <2>2. QED
      BY <1>1, <2>1
  <1>3. /\ (b.tail + 1) % Capacity \in Slots
        /\ RingOK(buffer[p], b.head, (b.tail + 1) % Capacity, b.count - 1, prio_msgs_sent[p])
    BY <1>1, <1>2, RingPop, RingsByLevel
  <1>4. /\ prio' \in [Prios -> [head : Slots, tail : Slots, count : 0 .. Capacity]]
        /\ prio'[p].head = b.head
        /\ prio'[p].tail = (b.tail + 1) % Capacity
        /\ prio'[p].count = b.count - 1
        /\ \A q \in Prios \ {p} : prio'[q] = prio[q]
    <2>1. prio' = [prio EXCEPT ![p].tail = (prio[p].tail + 1) % Capacity,
                                ![p].count = prio[p].count - 1]
      BY DEF RecvCompletes, p
    <2>2. prio \in [Prios -> [head : Slots, tail : Slots, count : 0 .. Capacity]]
      BY DEF TypeOK
    <2>3. b.count - 1 \in 0 .. Capacity
      BY <1>2
    <2>4. QED
      BY <1>1, <1>3, <2>1, <2>2, <2>3
  <1>5. /\ send_waiters' \in Seq(Tasks)
        /\ pc' \in [Tasks -> PCs]
        /\ WaitListsAreTheBlocked'
        /\ Cardinality(At({"recv_woken"}))' >= Cardinality(At({"recv_woken"})) - 1
    BY RecvWakes DEF RecvCompletes
  <1>6. total_count \in Nat /\ total_count' = total_count - 1 /\ total_count' \in Nat
    <2>1. total_count # 0 /\ total_count' = total_count - 1
      BY DEF RecvCompletes
    <2>2. QED
      BY <2>1 DEF TypeOK
  <1>7. TypeOK'
    <2>1. arg' \in [Tasks -> [prio : Prios, wait : Waits, expired : BOOLEAN]]
      BY Sizes DEF RecvCompletes, TypeOK, NoArg, Waits
    <2>2. got' \in [Tasks -> {NoMsg} \cup (Prios \X Nat)]
      <3>1. <<p, buffer[p][b.tail]>> \in Prios \X Nat
        BY <1>1, <1>2
      <3>2. QED
        BY <3>1 DEF RecvCompletes, TypeOK, p
    <2>3. passed' \in [Prios -> Nat] /\ msgs_recv' \in Nat /\ high_prio_recv_count' \in Nat
      <3>1. /\ msgs_recv' = msgs_recv + 1
            /\ high_prio_recv_count' \in {0, high_prio_recv_count + 1}
        BY DEF RecvCompletes, RecvCountAfter
      <3>2. passed' = [l \in Prios |-> IF l # p /\ prio[l].count > 0
                                       THEN passed[l] + 1 ELSE 0]
        BY DEF RecvCompletes, p
      <3>3. msgs_recv \in Nat /\ high_prio_recv_count \in Nat /\ passed \in [Prios -> Nat]
        BY DEF TypeOK
      <3>4. QED
        BY <3>1, <3>2, <3>3
    <2>4. UNCHANGED <<buffer, msgs_sent, high_water, prio_msgs_sent, recv_waiters, alive>>
      BY DEF RecvCompletes
    <2>5. QED
      BY <1>4, <1>5, <1>6, <2>1, <2>2, <2>3, <2>4 DEF TypeOK
  <1>8. RingsHoldWhatIsUnread'
    <2>1. TotalIsSum'
      <3>1. Occupied' = Occupied \ {<<p, b.count - 1>>} /\ <<p, b.count - 1>> \in Occupied
        BY <1>1, <1>2, <1>4, OccupiedStep
      <3>2. Cardinality(Occupied') = Cardinality(Occupied) - 1
        <4>1. Cardinality(Occupied \ {<<p, b.count - 1>>}) =
                IF <<p, b.count - 1>> \in Occupied THEN Cardinality(Occupied) - 1
                ELSE Cardinality(Occupied)
          BY OccupiedFinite, FS_RemoveElement
        <4>2. QED
          BY <3>1, <4>1
      <3>3. QED
        <4>1. total_count = Cardinality(Occupied)
          BY RingsByLevel DEF TotalIsSum
        <4>2. QED
          BY <1>6, <3>2, <4>1 DEF TotalIsSum
    <2>2. msgs_sent' = msgs_recv' + total_count'
      BY <1>6, RingsByLevel DEF RecvCompletes, TypeOK
    <2>3. ASSUME NEW q \in Prios
          PROVE  RingOK(buffer'[q], prio'[q].head, prio'[q].tail, prio'[q].count,
                        prio_msgs_sent'[q])
      <3>1. UNCHANGED <<buffer, prio_msgs_sent>>
        BY DEF RecvCompletes
      <3>2. CASE q = p
        BY <1>3, <1>4, <3>1, <3>2
      <3>3. CASE q # p
        BY <1>4, <3>1, <3>3, RingsByLevel
      <3>4. QED
        BY <3>2, <3>3
    <2>4. QED
      BY <2>1, <2>2, <2>3 DEF RingsHoldWhatIsUnread, RingOK
  <1>9. NoLostRecvWakeup'
    <2>1. UNCHANGED recv_waiters
      BY DEF RecvCompletes
    <2>2. Cardinality(At({"recv_woken"})) \in Nat /\ Cardinality(At({"recv_woken"}))' \in Nat
      <3>1. IsFiniteSet(At({"recv_woken"})) /\ IsFiniteSet(At({"recv_woken"})')
        BY FS_Subset DEF At
      <3>2. QED
        BY <3>1, FS_CardinalityType
    <2>3. ASSUME recv_waiters # <<>> PROVE total_count' <= Cardinality(At({"recv_woken"}))'
      <3>1. total_count <= Cardinality(At({"recv_woken"}))
        BY <2>3 DEF NoLostRecvWakeup
      <3>2. QED
        BY <1>5, <1>6, <2>2, <3>1
    <2>4. QED
      BY <2>1, <2>3 DEF NoLostRecvWakeup
  <1>10. ReliefBound'
    <2>1. /\ high_prio_recv_count' = IF StarvationRelief \/ p = LowPrio THEN 0
                                     ELSE high_prio_recv_count + 1
          /\ passed'[LowPrio] = IF LowPrio # p /\ prio[LowPrio].count > 0
                                THEN passed[LowPrio] + 1 ELSE 0
      BY Sizes DEF RecvCompletes, RecvCountAfter, p
    <2>2. passed[LowPrio] \in Nat /\ high_prio_recv_count \in Nat
      BY Sizes DEF TypeOK
    <2>3. QED
      BY <1>1, <2>1, <2>2 DEF ReliefBound, StarvationRelief
  <1>11. QED
    BY <1>5, <1>7, <1>8, <1>9, <1>10

-----------------------------------------------------------------------------
\* Every step preserves the invariant.
LEMMA NextIInv == IInv /\ [Next]_vars => IInv'
  <1> SUFFICES ASSUME IInv, [Next]_vars PROVE IInv'
    OBVIOUS
  <1>1. CASE UNCHANGED vars
    <2> USE <1>1 DEF vars, ring, stats, lists, IInv
    <2>1. TypeOK' /\ ReliefBound'
      BY DEF TypeOK, ReliefBound
    <2>2. RingsHoldWhatIsUnread'
      BY DEF RingsHoldWhatIsUnread, TotalIsSum, Occupied
    <2>3. WaitListsAreTheBlocked' /\ NoLostRecvWakeup'
      BY DEF WaitListsAreTheBlocked, OnceEach, At, NoLostRecvWakeup
    <2>4. QED
      BY <2>1, <2>2, <2>3
  <1>2. ASSUME NEW t \in Tasks, Quiet(t) PROVE IInv'
    BY <1>2, QuietIInv
  <1>3. ASSUME NEW t \in Tasks, SendBlocks(t) PROVE IInv'
    BY <1>3, SendBlocksIInv
  <1>4. ASSUME NEW t \in Tasks, RecvBlocks(t) PROVE IInv'
    BY <1>4, RecvBlocksIInv
  <1>5. ASSUME NEW t \in Tasks, SendCompletes(t) PROVE IInv'
    BY <1>5, SendCompletesIInv
  <1>6. ASSUME NEW t \in Tasks, RecvCompletes(t) PROVE IInv'
    BY <1>6, RecvCompletesIInv
  <1>7. QED
    BY <1>1, <1>2, <1>3, <1>4, <1>5, <1>6 DEF Next, SendStep, RecvStep, Quiet

\* The inductive invariant holds in every reachable state.
THEOREM Invariance == Spec => []IInv
  BY InitIInv, NextIInv, PTL DEF Spec

\* The rings, lists, counters and calls keep their types: head and tail stay
\* inside the section of their level and count never passes the capacity.
THEOREM TypeCorrect == Spec => []TypeOK
  <1>1. IInv => TypeOK
    BY DEF IInv
  <1>2. QED
    BY <1>1, Invariance, PTL

\* msg_send_priority and msg_recv neither lose, duplicate nor reorder a message
\* of a level, and total_count is the number of messages in the rings.
THEOREM RingsCorrect == Spec => []RingsHoldWhatIsUnread
  <1>1. IInv => RingsHoldWhatIsUnread
    BY DEF IInv
  <1>2. QED
    BY <1>1, Invariance, PTL

\* block_on_queue and wake_one keep the wait lists equal to the blocked tasks.
THEOREM WaitListsCorrect == Spec => []WaitListsAreTheBlocked
  <1>1. IInv => WaitListsAreTheBlocked
    BY DEF IInv
  <1>2. QED
    BY <1>1, Invariance, PTL

\* Waking one receiver per message is enough: while a receiver is blocked every
\* queued message has a woken receiver of its own.
THEOREM NoLostWakeup == Spec => []NoLostRecvWakeup
  <1>1. IInv => NoLostRecvWakeup
    BY DEF IInv
  <1>2. QED
    BY <1>1, Invariance, PTL

\* Starvation relief of select_recv_priority bounds how long LOW is passed over.
THEOREM LowServed == Spec => []LowLevelNotStarved
  <1>1. IInv => LowLevelNotStarved
    BY Sizes, MsgQueueAssumption DEF IInv, TypeOK, ReliefBound, LowLevelNotStarved
  <1>2. QED
    BY <1>1, Invariance, PTL

-----------------------------------------------------------------------------
(***************************************************************************)
(* The rings implement one bounded FIFO per level.  By the ring invariant  *)
(* the fifo of a level is a window of consecutive numbers that ends with   *)
(* the last message sent at that level; a send moves its end, a receive    *)
(* its start.                                                              *)
(***************************************************************************)
\* The last c of the n messages sent at a level.
Window(n, c) == [i \in 1 .. c |-> n - c + i - 1]

\* The operations of MsgQueueAbs on such a window.
LEMMA WindowFacts ==
  ASSUME NEW n \in Nat, NEW c \in Nat
  PROVE  /\ Window(n, c) \in Seq(Int) /\ Len(Window(n, c)) = c
         /\ Window(n, c) = <<>> <=> c = 0
         /\ Append(Window(n, c), n) = Window(n + 1, c + 1)
         /\ c > 0 => /\ Head(Window(n, c)) = n - c
                     /\ Tail(Window(n, c)) = Window(n, c - 1)
  <1> DEFINE W(k, d) == [i \in 1 .. d |-> k - d + i - 1]
  <1>1. \A k \in Nat, d \in Nat : /\ W(k, d) \in Seq(Int) /\ Len(W(k, d)) = d
                                  /\ \A i \in 1 .. d : W(k, d)[i] = k - d + i - 1
    OBVIOUS
  <1>2. \A k \in Nat, d \in Nat : Window(k, d) = W(k, d)
    BY DEF Window
  <1> HIDE DEF W
  <1>3. Append(W(n, c), n) = W(n + 1, c + 1)
    <2>1. /\ Append(W(n, c), n) \in Seq(Int)
          /\ Len(Append(W(n, c), n)) = c + 1
          /\ \A i \in 1 .. c + 1 : Append(W(n, c), n)[i] = IF i = c + 1 THEN n ELSE W(n, c)[i]
      <3>1. W(n, c) \in Seq(Int) /\ Len(W(n, c)) = c /\ n \in Int
        BY <1>1
      <3>2. QED
        BY <3>1, AppendProperties
    <2>2. ASSUME NEW i \in 1 .. c + 1
          PROVE  Append(W(n, c), n)[i] = W(n + 1, c + 1)[i]
      <3>1. n + 1 \in Nat /\ c + 1 \in Nat
        OBVIOUS
      <3>2. W(n + 1, c + 1)[i] = n + 1 - (c + 1) + i - 1
        BY <1>1, <3>1
      <3>3. CASE i = c + 1
        BY <2>1, <3>2, <3>3
      <3>4. CASE i # c + 1
        <4>1. i \in 1 .. c
          BY <3>4
        <4>2. W(n, c)[i] = n - c + i - 1
          BY <1>1, <4>1
        <4>3. QED
          BY <2>1, <3>2, <3>4, <4>2
      <3>5. QED
        BY <3>3, <3>4
    <2>3. n + 1 \in Nat /\ c + 1 \in Nat
      OBVIOUS
    <2>4. W(n + 1, c + 1) \in Seq(Int) /\ Len(W(n + 1, c + 1)) = c + 1
      BY <1>1, <2>3
    <2>5. QED
      BY <2>1, <2>2, <2>4, SeqEqual
  <1>4. W(n, c) = <<>> <=> c = 0
    <2>1. W(n, c) \in Seq(Int) /\ Len(W(n, c)) = c
      BY <1>1
    <2>2. QED
      BY <2>1, EmptySeq
  <1>5. ASSUME c > 0
        PROVE  Head(W(n, c)) = n - c /\ Tail(W(n, c)) = W(n, c - 1)
    <2>1. W(n, c) \in Seq(Int) /\ W(n, c) # <<>> /\ Len(W(n, c)) = c
      BY <1>1, <1>4, <1>5
    <2>2. Head(W(n, c)) = n - c
      <3>1. Head(W(n, c)) = W(n, c)[1]
        BY <2>1
      <3>2. W(n, c)[1] = n - c + 1 - 1
        BY <1>1, <1>5
      <3>3. QED
        BY <3>1, <3>2
    <2>3. /\ Tail(W(n, c)) \in Seq(Int) /\ Len(Tail(W(n, c))) = c - 1
          /\ \A i \in 1 .. c - 1 : Tail(W(n, c))[i] = W(n, c)[i + 1]
      BY <2>1, HeadTailProperties
    <2>4. c - 1 \in Nat
      BY <1>5
    <2>5. W(n, c - 1) \in Seq(Int) /\ Len(W(n, c - 1)) = c - 1
      BY <1>1, <2>4
    <2>6. ASSUME NEW i \in 1 .. c - 1
          PROVE  Tail(W(n, c))[i] = W(n, c - 1)[i]
      <3>1. W(n, c - 1)[i] = n - (c - 1) + i - 1
        BY <1>1, <2>4
      <3>2. i + 1 \in 1 .. c
        OBVIOUS
      <3>3. W(n, c)[i + 1] = n - c + (i + 1) - 1
        BY <1>1, <3>2
      <3>4. QED
        BY <2>3, <3>1, <3>3
    <2>7. QED
      BY <2>2, <2>3, <2>5, <2>6, SeqEqual
  <1>6. c > 0 => Window(n, c - 1) = W(n, c - 1)
    BY <1>2
  <1>7. Window(n, c) = W(n, c) /\ Window(n + 1, c + 1) = W(n + 1, c + 1)
    BY <1>2
  <1>8. QED
    BY ZenonT(40), <1>1, <1>3, <1>4, <1>5, <1>6, <1>7

\* The fifo of a level is the window of its unread messages, and the slot at
\* tail holds the first of them.
FifosAreWindows ==
  /\ \A p \in Prios : /\ FifoOf(p) = Window(prio_msgs_sent[p], prio[p].count)
                      /\ prio_msgs_sent[p] \in Nat /\ prio[p].count \in 0 .. Capacity
                      /\ prio[p].count > 0 =>
                           buffer[p][prio[p].tail] = prio_msgs_sent[p] - prio[p].count
  /\ prio_msgs_sent = [p \in Prios |-> prio_msgs_sent[p]]
  /\ got = [t \in Tasks |-> got[t]]

\* It follows from the ring invariant.
LEMMA WindowsFromIInv == IInv => FifosAreWindows
  <1> SUFFICES ASSUME IInv PROVE FifosAreWindows
    OBVIOUS
  <1> USE MsgQueueAssumption
  <1>1. ASSUME NEW p \in Prios
        PROVE  /\ FifoOf(p) = Window(prio_msgs_sent[p], prio[p].count)
               /\ prio_msgs_sent[p] \in Nat /\ prio[p].count \in 0 .. Capacity
               /\ prio[p].count > 0 =>
                    buffer[p][prio[p].tail] = prio_msgs_sent[p] - prio[p].count
    <2> DEFINE n == prio_msgs_sent[p]
               c == prio[p].count
               tl == prio[p].tail
    <2>1. n \in Nat /\ c \in 0 .. Capacity /\ tl \in Slots
      <3>1. prio[p] \in [head : Slots, tail : Slots, count : 0 .. Capacity] /\ n \in Nat
        BY DEF IInv, TypeOK
      <3>2. QED
        BY <3>1
    <2>2. \A i \in 0 .. c - 1 : buffer[p][(tl + i) % Capacity] = n - c + i
      BY DEF IInv, RingsHoldWhatIsUnread
    <2>3. FifoOf(p) = [i \in 1 .. c |-> buffer[p][(tl + i - 1) % Capacity]]
      BY DEF FifoOf
    <2> HIDE DEF n, c, tl
    <2>4. ASSUME NEW i \in 1 .. c
          PROVE  buffer[p][(tl + i - 1) % Capacity] = n - c + i - 1
      <3>1. i - 1 \in 0 .. c - 1 /\ tl + i - 1 = tl + (i - 1) /\ n - c + i - 1 = n - c + (i - 1)
        BY <2>1 DEF Slots
      <3>2. buffer[p][(tl + (i - 1)) % Capacity] = n - c + (i - 1)
        BY <2>2, <3>1
      <3>3. QED
        BY <3>1, <3>2
    <2>5. FifoOf(p) = Window(n, c)
      BY <2>3, <2>4 DEF Window
    <2>6. ASSUME c > 0 PROVE buffer[p][tl] = n - c
      <3>1. tl + 0 = tl /\ n - c + 0 = n - c /\ 0 \in 0 .. c - 1
        BY <2>1, <2>6 DEF Slots
      <3>2. tl % Capacity = tl
        BY <2>1, WrapOnce DEF Slots
      <3>3. buffer[p][(tl + 0) % Capacity] = n - c + 0
        BY <2>2, <3>1
      <3>4. QED
        BY <3>1, <3>2, <3>3
    <2>7. QED
      BY <2>1, <2>5, <2>6 DEF n, c, tl
  <1>2. prio_msgs_sent = [p \in Prios |-> prio_msgs_sent[p]] /\ got = [t \in Tasks |-> got[t]]
    BY DEF IInv, TypeOK
  <1>3. QED
    BY <1>1, <1>2 DEF FifosAreWindows

\* An empty queue is an empty abstract queue.
LEMMA InitMaps == Init => Abs!Init
  <1> SUFFICES ASSUME Init PROVE Abs!Init
    OBVIOUS
  <1>1. ASSUME NEW p \in Prios PROVE FifoOf(p) = <<>>
    BY DEF Init, FifoOf
  <1>2. QED
    BY <1>1 DEF Init, Abs!Init, NoMsg

\* The two points of msg_send_priority and msg_recv that touch the rings are
\* the two steps of the abstract queue; every other step changes none of it.
LEMMA SendMaps ==
  ASSUME FifosAreWindows, FifosAreWindows', TypeOK, NEW t \in Tasks, SendCompletes(t)
  PROVE  \E p \in Prios : Abs!Put(p)
  <1>1. PICK p \in Prios : p = arg[t].prio
    BY DEF TypeOK
  <1>2. PICK n \in Nat, c \in 0 .. Capacity : n = prio_msgs_sent[p] /\ c = prio[p].count
    BY DEF FifosAreWindows
  <1> USE MsgQueueAssumption
  <1>3. c < Capacity /\ UNCHANGED got
    BY <1>1, <1>2 DEF SendCompletes, LevelFull
  <1>4. /\ prio'[p].count = c + 1
        /\ \A q \in Prios \ {p} : prio'[q] = prio[q]
    <2>1. prio' = [prio EXCEPT ![p].head = (prio[p].head + 1) % Capacity,
                                ![p].count = prio[p].count + 1]
      BY <1>1 DEF SendCompletes
    <2>2. prio \in [Prios -> [head : Slots, tail : Slots, count : 0 .. Capacity]]
      BY DEF TypeOK
    <2>3. QED
      BY <1>2, <2>1, <2>2
  <1>5. /\ prio_msgs_sent' = [prio_msgs_sent EXCEPT ![p] = n + 1]
        /\ prio_msgs_sent'[p] = n + 1
        /\ \A q \in Prios \ {p} : prio_msgs_sent'[q] = prio_msgs_sent[q]
    BY <1>1, <1>2 DEF SendCompletes, TypeOK
  <1>6. /\ FifoOf(p) = Window(n, c)
        /\ FifoOf(p)' = Window(n + 1, c + 1)
        /\ \A q \in Prios \ {p} : FifoOf(q)' = FifoOf(q)
    BY <1>2, <1>4, <1>5 DEF FifosAreWindows
  <1>7. Len(FifoOf(p)) = c /\ FifoOf(p)' = Append(FifoOf(p), n)
    <2>1. c \in Nat
      BY <1>2
    <2>2. Len(Window(n, c)) = c /\ Append(Window(n, c), n) = Window(n + 1, c + 1)
      BY <2>1, WindowFacts
    <2>3. QED
      BY <1>6, <2>2
  <1>8. [q \in Prios |-> FifoOf(q)]' = [[q \in Prios |-> FifoOf(q)] EXCEPT ![p] = Append(@, n)]
    BY <1>6, <1>7
  <1>9. Abs!Put(p)
    BY <1>2, <1>3, <1>5, <1>7, <1>8 DEF Abs!Put
  <1>10. QED
    BY <1>9

\* The receive takes the head of the highest or of the lowest fifo that has one.
LEMMA RecvMaps ==
  ASSUME FifosAreWindows, FifosAreWindows', TypeOK, TotalIsSum,
         NEW t \in Tasks, RecvCompletes(t)
  PROVE  Abs!Take(t)
  <1> DEFINE Full == {q \in Prios : [r \in Prios |-> FifoOf(r)][q] # <<>>}
  <1>1. PICK p \in Prios : p = select_recv_priority
    BY SelectedHoldsMessage DEF RecvCompletes
  <1>2. PICK n \in Nat, c \in 0 .. Capacity : n = prio_msgs_sent[p] /\ c = prio[p].count
    BY DEF FifosAreWindows
  <1> USE MsgQueueAssumption
  <1>3. c > 0 /\ UNCHANGED prio_msgs_sent
    BY <1>1, <1>2, SelectedHoldsMessage DEF RecvCompletes
  <1>4. /\ prio'[p].count = c - 1
        /\ \A q \in Prios \ {p} : prio'[q] = prio[q]
    <2>1. prio' = [prio EXCEPT ![p].tail = (prio[p].tail + 1) % Capacity,
                                ![p].count = prio[p].count - 1]
      BY <1>1 DEF RecvCompletes
    <2>2. prio \in [Prios -> [head : Slots, tail : Slots, count : 0 .. Capacity]]
      BY DEF TypeOK
    <2>3. QED
      BY <1>2, <2>1, <2>2
  <1>5. Full = Nonempty
    <2>1. ASSUME NEW q \in Prios PROVE FifoOf(q) # <<>> <=> prio[q].count > 0
      <3>1. PICK m \in Nat, d \in 0 .. Capacity : m = prio_msgs_sent[q] /\ d = prio[q].count
        BY DEF FifosAreWindows
      <3>2. FifoOf(q) = Window(m, d) /\ d \in Nat
        BY <3>1 DEF FifosAreWindows
      <3>3. Window(m, d) = <<>> <=> d = 0
        BY <3>2, WindowFacts
      <3>4. QED
        BY <3>1, <3>2, <3>3
    <2>2. QED
      BY <2>1 DEF Nonempty
  <1>6. p \in {Max(Nonempty), Min(Nonempty)} /\ Nonempty # {}
    <2>1. p \in Nonempty
      BY <1>2, <1>3 DEF Nonempty
    <2>2. QED
      BY <1>1, <2>1 DEF select_recv_priority
  <1>7. /\ FifoOf(p) = Window(n, c)
        /\ FifoOf(p)' = Window(n, c - 1)
        /\ \A q \in Prios \ {p} : FifoOf(q)' = FifoOf(q)
    BY <1>2, <1>3, <1>4 DEF FifosAreWindows
  <1>8. FifoOf(p)' = Tail(FifoOf(p)) /\ Head(FifoOf(p)) = n - c
    <2>1. c \in Nat
      BY <1>2
    <2>2. Head(Window(n, c)) = n - c /\ Tail(Window(n, c)) = Window(n, c - 1)
      BY <1>3, <2>1, WindowFacts
    <2>3. QED
      BY <1>7, <2>2
  <1>9. [q \in Prios |-> FifoOf(q)]' = [[q \in Prios |-> FifoOf(q)] EXCEPT ![p] = Tail(@)]
    BY <1>7, <1>8
  <1>10. got' = [got EXCEPT ![t] = <<p, Head([q \in Prios |-> FifoOf(q)][p])>>]
    <2>1. buffer[p][prio[p].tail] = n - c
      BY <1>2, <1>3 DEF FifosAreWindows
    <2>2. got' = [got EXCEPT ![t] = <<p, buffer[p][prio[p].tail]>>]
      BY <1>1 DEF RecvCompletes
    <2>3. QED
      BY <1>8, <2>1, <2>2
  <1>11. Full # {} /\ p \in {Abs!Max(Full), Abs!Min(Full)}
    <2>1. Abs!Max(Full) = Max(Full) /\ Abs!Min(Full) = Min(Full)
      BY DEF Max, Min, Abs!Max, Abs!Min
    <2>2. QED
      BY <1>5, <1>6, <2>1
  <1>12. \E q \in {Abs!Max(Full), Abs!Min(Full)} :
           /\ got' = [got EXCEPT ![t] = <<q, Head([r \in Prios |-> FifoOf(r)][q])>>]
           /\ [r \in Prios |-> FifoOf(r)]' = [[r \in Prios |-> FifoOf(r)] EXCEPT ![q] = Tail(@)]
    BY <1>9, <1>10, <1>11, Zenon
  <1>13. QED
    BY <1>3, <1>11, <1>12, Zenon DEF Abs!Take

\* Every step of the detailed queue is a step of the abstract one or a stutter.
LEMMA NextMaps ==
  ASSUME IInv, IInv', FifosAreWindows, FifosAreWindows', [Next]_vars
  PROVE  [Abs!Next]_Abs!absvars
  <1> DEFINE Same == UNCHANGED <<buffer, prio, prio_msgs_sent, got>>
  <1>1. ASSUME Same PROVE [Abs!Next]_Abs!absvars
    <2>1. \A p \in Prios : FifoOf(p)' = FifoOf(p)
      BY <1>1 DEF FifoOf
    <2>2. [p \in Prios |-> FifoOf(p)]' = [p \in Prios |-> FifoOf(p)]
      BY <2>1
    <2>3. QED
      BY <1>1, <2>2 DEF Abs!absvars
  <1>2. ASSUME NEW t \in Tasks, Quiet(t) \/ SendBlocks(t) \/ RecvBlocks(t) PROVE Same
    BY <1>2 DEF Quiet, CallSend, CallRecv, TimerExpires, SendRefused, RecvRefused, ReturnError,
       CallDestroy, DestroyStep, DestroyChecks, DestroyFrees, SendBlocks, RecvBlocks, ring, stats
  <1>3. ASSUME NEW t \in Tasks, SendCompletes(t) PROVE Abs!Next
    <2>1. \E p \in Prios : Abs!Put(p)
      BY <1>3, SendMaps DEF IInv
    <2>2. QED
      BY <2>1 DEF Abs!Next
  <1>4. ASSUME NEW t \in Tasks, RecvCompletes(t) PROVE Abs!Next
    <2>1. Abs!Take(t)
      BY <1>4, RecvMaps, RingsByLevel DEF IInv
    <2>2. QED
      BY <2>1 DEF Abs!Next
  <1>5. UNCHANGED vars => Same
    BY DEF vars, ring, stats
  <1> HIDE DEF Same
  <1>6. QED
    BY <1>1, <1>2, <1>3, <1>4, <1>5 DEF Next, SendStep, RecvStep, Quiet

\* msg_send_priority and msg_recv implement one bounded FIFO per level, served
\* from the highest or, for relief, the lowest level: MsgQueueAbs, for every
\* number of tasks, levels and slots.
THEOREM QueueIsFifos == Spec => ImplementsFifos
  BY Invariance, InitMaps, WindowsFromIInv, NextMaps, PTL DEF Spec, ImplementsFifos, Abs!Spec
=============================================================================
