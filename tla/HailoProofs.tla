------------------------------ MODULE HailoProofs ------------------------------
(***************************************************************************)
(* The safety invariants of HailoControl, for any number of tasks, tickers,*)
(* opcodes, slices and requests.                                           *)
(***************************************************************************)
EXTENDS HailoControl, TaskSleepProofs

-----------------------------------------------------------------------------
(***************************************************************************)
(* The inductive invariant.                                                *)
(***************************************************************************)
Waits  == {"poll", "publish", "slice"}
Locked == {"status", "pending", "ring", "check", "read", "unlock"} \cup Waits

(* Who is inside holds control_lock, and its request has a number.         *)
InsideHolds ==
  \A t \in Tasks : /\ pc[t] \in Locked => control_lock = t
                   /\ pc[t] \notin {"idle", "nap"} => rpc[t] \in Requests

(* A wait goes on only while a slice is left.                              *)
SliceLeft == \A t \in Tasks : pc[t] \in Waits => elapsed[t] < Slices

(* The handler has a waiter when it is to wake one; who sleeps in a slice  *)
(* is the published waiter.                                                *)
WaiterKnown ==
  /\ handler = "wake" => found \in Tasks
  /\ \A t \in Tasks : pc[t] = "slice" => control_waiter = t

(* While the flag is set and a task is between its test of it and the end  *)
(* of its slice, the handler missed it, is about to look, is about to wake *)
(* it, or has woken it.                                                    *)
Woken(t) == t \notin sleep_queue /\ (call[t] = "enter" => t \in wakeup_pending)

SignalOnItsWay ==
  \A t \in Tasks : pc[t] \in Waits /\ control_msi_pending =>
    \/ missed \/ handler = "look"
    \/ pc[t] = "slice" /\ ((handler = "wake" /\ found = t) \/ Woken(t))

(* A call that began clean has the wire to itself: nothing is under way    *)
(* until it rings; then its request waits, is worked on, or is answered.   *)
Silent == ~ istatus /\ ~ control_msi_pending /\ handler \notin {"ack", "flag"}

OwnWire(t) ==
  \/ Silent /\ doorbell /\ request = rpc[t] /\ firmware = NoRequest
  \/ Silent /\ ~ doorbell /\ firmware = rpc[t]
  \/ ~ doorbell /\ firmware = NoRequest /\ response = rpc[t]

CleanCalls ==
  \A t \in Tasks :
    /\ clean[t] => pc[t] \in Locked \ {"status"}
    /\ clean[t] /\ pc[t] = "pending" => Quiet /\ ~ istatus
    /\ clean[t] /\ pc[t] = "ring" => Quiet /\ Silent
    /\ clean[t] /\ pc[t] \in {"check"} \cup Waits => OwnWire(t)
    /\ clean[t] /\ pc[t] = "read" => ~ doorbell /\ firmware = NoRequest /\ response = rpc[t]
    /\ pc[t] # "unlock" => answer[t] = NoRequest

IInv ==
  /\ TypeOK /\ SleepInv
  /\ InsideHolds /\ SliceLeft /\ WaiterKnown /\ WaiterHoldsLock
  /\ SignalOnItsWay
  /\ CleanCalls /\ AnswerIsOwn

(* The types of what is not TaskSleep's, the Boolean ones apart: they are for *)
(* another prover.                                                            *)
FlagsOK ==
  /\ control_msi_pending \in BOOLEAN /\ istatus \in BOOLEAN /\ msi \in BOOLEAN
  /\ doorbell \in BOOLEAN /\ missed \in BOOLEAN

RpcTypeOK ==
  /\ control_lock \in Tasks \cup {None} /\ control_waiter \in Tasks \cup {None}
  /\ pc \in [Tasks -> PCs] /\ elapsed \in [Tasks -> 0 .. Slices]
  /\ rpc \in [Tasks -> Requests \cup {NoRequest}]
  /\ handler \in {"idle", "ack", "flag", "look", "wake"}
  /\ found \in Tasks \cup {None}
  /\ request \in Requests \cup {NoRequest}
  /\ firmware \in Requests \cup {NoRequest}
  /\ response \in Requests \cup {NoRequest, Torn}
  /\ sent \in 0 .. MaxRpcs /\ clean \in [Tasks -> BOOLEAN]
  /\ answer \in [Tasks -> Requests \cup {NoRequest}]

RpcInv ==
  /\ FlagsOK /\ RpcTypeOK
  /\ InsideHolds /\ SliceLeft /\ WaiterKnown /\ WaiterHoldsLock
  /\ SignalOnItsWay
  /\ CleanCalls /\ AnswerIsOwn

-----------------------------------------------------------------------------
(* NoRequest is no request, and Torn is neither. *)
LEMMA NotRequests == NoRequest \notin Requests /\ Torn \notin Requests /\ Torn # NoRequest
BY DEF NoRequest, Torn, Requests, None

(* The first state satisfies the invariant. *)
LEMMA InitInv == Init => IInv
<1> SUFFICES ASSUME Init PROVE IInv
  OBVIOUS
<1>1. SleepInv
  BY SleepInitInv DEF Init
<1>2. FlagsOK
  BY Zenon DEF Init, FlagsOK
<1>5. RpcTypeOK
  BY HailoAssumption DEF Init, RpcTypeOK, PCs
<1>6. TypeOK
  BY <1>1, <1>2, <1>5 DEF TypeOK, FlagsOK, RpcTypeOK, SleepInv
<1>3. InsideHolds /\ SliceLeft /\ WaiterKnown /\ WaiterHoldsLock
  BY DEF Init, InsideHolds, SliceLeft, WaiterKnown, WaiterHoldsLock, Waits, Locked
<1>4. SignalOnItsWay /\ CleanCalls /\ AnswerIsOwn
  BY DEF Init, SignalOnItsWay, CleanCalls, AnswerIsOwn, Waits
<1> QED
  BY <1>1, <1>3, <1>4, <1>6 DEF IInv

(* What a step of the RPC does to the sleep queue is a step of TaskSleep.  *)
LEMMA SleepPart == ASSUME IInv, [Next]_vars PROVE [SleepNext]_sleepvars
<1>1. handler = "wake" => found \in Tasks
  BY DEF IInv, WaiterKnown
<1> QED
  BY <1>1 DEF Next, vars, RpcStep, HandlerStep, SleepNext, Call, Nap, Lock, ClearStatus,
     ClearPending, Ring, Read, Unlock, TimesOut, CheckFlag, PollStatus, PublishAndSleep,
     Unpublish, NapEnds, ReadStatus, Ack, SetFlag, LookForWaiter, Wake, FwTakes, FwWrites,
     FwAnswers

(***************************************************************************)
(* The steps, by who takes them.                                           *)
(***************************************************************************)
(* The steps of hailo_control_send_recv and wait_for_response keep the invariant. *)
LEMMA RpcPart == ASSUME IInv, NEW t \in Tasks, RpcStep(t) PROVE RpcInv'
<1> USE NotRequests, HailoAssumption
    DEF IInv, RpcStep, Go, Lock, ClearStatus, Quiet, ClearPending, Cleared, Ring, Read,
        Accepts, Unlock, TimesOut, CheckFlag, Expired, PollStatus, PublishAndSleep,
        Unpublish, NoWaiter, Counted, NapEnds, irqvars, fwvars, history
<1>0. FlagsOK /\ RpcTypeOK
  BY DEF TypeOK, FlagsOK, RpcTypeOK
<1>1. FlagsOK'
  BY <1>0, Zenon DEF FlagsOK
<1>2. RpcTypeOK'
  <2>1. (/\ control_lock \in Tasks \cup {None} /\ control_waiter \in Tasks \cup {None}
         /\ pc \in [Tasks -> PCs] /\ elapsed \in [Tasks -> 0 .. Slices])'
    BY <1>0 DEF RpcTypeOK, PCs, SliceLeft, Waits
  <2>2. (clean \in [Tasks -> BOOLEAN] /\ answer \in [Tasks -> Requests \cup {NoRequest}])'
    BY ZenonT(40), <1>0 DEF RpcTypeOK
  <2> QED
    BY <1>0, <2>1, <2>2 DEF RpcTypeOK
<1>3. (InsideHolds /\ SliceLeft)'
  BY <1>0 DEF RpcTypeOK, InsideHolds, SliceLeft, Waits, Locked
<1>4. (WaiterKnown /\ WaiterHoldsLock)'
  BY <1>0 DEF RpcTypeOK, WaiterKnown, WaiterHoldsLock, InsideHolds, Waits, Locked
<1>5. SignalOnItsWay'
  <2>1. CASE Lock(t)
    BY <1>0, <2>1 DEF RpcTypeOK, sleepvars, Woken, SignalOnItsWay, InsideHolds, Waits, Locked
  <2>2. CASE ClearStatus(t)
    BY <1>0, <2>2 DEF RpcTypeOK, sleepvars, Woken, SignalOnItsWay, InsideHolds, Waits, Locked
  <2>3. CASE ClearPending(t)
    BY <1>0, <2>3 DEF RpcTypeOK, sleepvars, Woken, SignalOnItsWay, InsideHolds, Waits, Locked
  <2>4. CASE Ring(t)
    BY <1>0, <2>4 DEF RpcTypeOK, sleepvars, Woken, SignalOnItsWay, InsideHolds, Waits, Locked
  <2>5. CASE Read(t)
    BY <1>0, <2>5 DEF RpcTypeOK, sleepvars, Woken, SignalOnItsWay, InsideHolds, Waits, Locked
  <2>6. CASE Unlock(t)
    BY <1>0, <2>6 DEF RpcTypeOK, sleepvars, Woken, SignalOnItsWay, InsideHolds, Waits, Locked
  <2>7. CASE TimesOut(t)
    BY <1>0, <2>7 DEF RpcTypeOK, sleepvars, Woken, SignalOnItsWay, InsideHolds, Waits, Locked
  <2>8. CASE CheckFlag(t)
    BY <1>0, <2>8 DEF RpcTypeOK, sleepvars, Woken, SignalOnItsWay, InsideHolds, Waits, Locked
  <2>9. CASE PollStatus(t)
    BY <1>0, <2>9 DEF RpcTypeOK, sleepvars, Woken, SignalOnItsWay, InsideHolds, Waits, Locked
  <2>10. CASE PublishAndSleep(t)
    BY <1>0, <2>10 DEF RpcTypeOK, SignalOnItsWay, InsideHolds, Waits, Locked
  <2>11. CASE Unpublish(t)
    BY <1>0, <2>11 DEF RpcTypeOK, sleepvars, Woken, SignalOnItsWay, InsideHolds, Waits, Locked
  <2>12. CASE NapEnds(t)
    BY <1>0, <2>12 DEF RpcTypeOK, sleepvars, Woken, SignalOnItsWay, InsideHolds, Waits, Locked
  <2> QED
    BY <2>1, <2>2, <2>3, <2>4, <2>5, <2>6, <2>7, <2>8,
       <2>9, <2>10, <2>11, <2>12
<1>6. (CleanCalls /\ AnswerIsOwn)'
  BY <1>0 DEF RpcTypeOK, CleanCalls, AnswerIsOwn, OwnWire, Silent, Quiet, InsideHolds,
     Waits, Locked
<1> QED
  BY <1>1, <1>2, <1>3, <1>4, <1>5, <1>6 DEF RpcInv

(* The beginning of a call, and any other sleep, keeps the invariant. *)
LEMMA CallPart ==
  ASSUME IInv, NEW t \in Tasks, Nap(t) \/ \E op \in Opcodes : Call(t, op) PROVE RpcInv'
<1> USE NotRequests, HailoAssumption DEF IInv, Nap, Call, Go, irqvars, fwvars, history
<1>0. FlagsOK /\ RpcTypeOK
  BY DEF TypeOK, FlagsOK, RpcTypeOK
<1>1. FlagsOK'
  BY <1>0, Zenon DEF FlagsOK
<1>2. RpcTypeOK'
  BY <1>0 DEF RpcTypeOK, PCs, Requests
<1>3. (InsideHolds /\ SliceLeft)'
  BY <1>0 DEF RpcTypeOK, InsideHolds, SliceLeft, Waits, Locked, Requests
<1>4. (WaiterKnown /\ WaiterHoldsLock)'
  BY <1>0 DEF RpcTypeOK, WaiterKnown, WaiterHoldsLock, InsideHolds, Waits, Locked
<1>5. SignalOnItsWay'
  <2>1. CASE Nap(t)
    BY <1>0, <2>1 DEF RpcTypeOK, SignalOnItsWay, SleepCall, Woken, Waits
  <2>2. ASSUME NEW op \in Opcodes, Call(t, op) PROVE SignalOnItsWay'
    BY <1>0, <2>2 DEF RpcTypeOK, sleepvars, Woken, SignalOnItsWay, Waits
  <2> QED
    BY <2>1, <2>2
<1>6. (CleanCalls /\ AnswerIsOwn)'
  BY <1>0 DEF RpcTypeOK, CleanCalls, AnswerIsOwn, OwnWire, Silent, Quiet, InsideHolds,
     Waits, Locked
<1> QED
  BY <1>1, <1>2, <1>3, <1>4, <1>5, <1>6 DEF RpcInv

(* The interrupt handler keeps the invariant. *)
LEMMA HandlerPart == ASSUME IInv, HandlerStep PROVE RpcInv'
<1> USE NotRequests, HailoAssumption
    DEF IInv, HandlerStep, ReadStatus, Ack, SetFlag, LookForWaiter, Wake, rpcvars, fwvars,
        history
<1>0. FlagsOK /\ RpcTypeOK
  BY DEF TypeOK, FlagsOK, RpcTypeOK
<1>1. FlagsOK'
  BY <1>0, Zenon DEF FlagsOK
<1>2. RpcTypeOK'
  BY <1>0 DEF RpcTypeOK, PCs
<1>3. (InsideHolds /\ SliceLeft)'
  BY <1>0 DEF RpcTypeOK, InsideHolds, SliceLeft, Waits, Locked
<1>4. (WaiterKnown /\ WaiterHoldsLock)'
  BY <1>0 DEF RpcTypeOK, WaiterKnown, WaiterHoldsLock, InsideHolds, Waits, Locked
<1>5. SignalOnItsWay'
  <2>1. CASE Wake
    <3>1. \A t \in Tasks : t \in sleep_queue => call[t] = "asleep"
      BY DEF SleepInv, SleepTypeOK, SleeperInOnePlace
    <3>2. wakeup_pending \subseteq wakeup_pending' /\ sleep_queue' \subseteq sleep_queue
          /\ call' = call
      BY <2>1 DEF task_sleep_wake, KeepWakeup
    <3>3. \A t \in Tasks : Woken(t) => Woken(t)'
      BY <3>2 DEF Woken
    <3>4. \A t \in Tasks : t = found => Woken(t)'
      BY <2>1, <3>1 DEF task_sleep_wake, KeepWakeup, Woken, SleepInv, SleepTypeOK
    <3> QED
      BY <1>0, <2>1, <3>3, <3>4 DEF RpcTypeOK, SignalOnItsWay, Waits
  <2>2. CASE ReadStatus
    BY <1>0, <2>2 DEF RpcTypeOK, sleepvars, Woken, SignalOnItsWay, WaiterKnown,
       WaiterHoldsLock, InsideHolds, Waits, Locked
  <2>3. CASE Ack
    BY <1>0, <2>3 DEF RpcTypeOK, sleepvars, Woken, SignalOnItsWay, WaiterKnown,
       WaiterHoldsLock, InsideHolds, Waits, Locked
  <2>4. CASE SetFlag
    BY <1>0, <2>4 DEF RpcTypeOK, sleepvars, Woken, SignalOnItsWay, WaiterKnown,
       WaiterHoldsLock, InsideHolds, Waits, Locked
  <2>5. CASE LookForWaiter
    BY <1>0, <2>5 DEF RpcTypeOK, sleepvars, Woken, SignalOnItsWay, WaiterKnown,
       WaiterHoldsLock, InsideHolds, Waits, Locked
  <2> QED
    BY <2>1, <2>2, <2>3, <2>4, <2>5
<1>6. (CleanCalls /\ AnswerIsOwn)'
  BY <1>0 DEF RpcTypeOK, CleanCalls, AnswerIsOwn, OwnWire, Silent, Quiet, InsideHolds,
     Waits, Locked
<1> QED
  BY <1>1, <1>2, <1>3, <1>4, <1>5, <1>6 DEF RpcInv

(* The firmware keeps the invariant. *)
LEMMA FirmwarePart == ASSUME IInv, FwTakes \/ FwWrites \/ FwAnswers PROVE RpcInv'
<1> USE NotRequests, HailoAssumption
    DEF IInv, FwTakes, FwWrites, FwAnswers, rpcvars, irqvars, history
<1>0. FlagsOK /\ RpcTypeOK
  BY DEF TypeOK, FlagsOK, RpcTypeOK
<1>1. FlagsOK'
  BY <1>0, Zenon DEF FlagsOK
<1>2. RpcTypeOK'
  BY <1>0 DEF RpcTypeOK, PCs
<1>3. (InsideHolds /\ SliceLeft)'
  BY <1>0 DEF RpcTypeOK, InsideHolds, SliceLeft, Waits, Locked
<1>4. (WaiterKnown /\ WaiterHoldsLock)'
  BY <1>0 DEF RpcTypeOK, WaiterKnown, WaiterHoldsLock, InsideHolds, Waits, Locked
<1>5. SignalOnItsWay'
  <2>1. CASE FwTakes
    BY <1>0, <2>1 DEF RpcTypeOK, sleepvars, Woken, SignalOnItsWay, Waits
  <2>2. CASE FwWrites
    BY <1>0, <2>2 DEF RpcTypeOK, sleepvars, Woken, SignalOnItsWay, Waits
  <2>3. CASE FwAnswers
    BY <1>0, <2>3 DEF RpcTypeOK, sleepvars, Woken, SignalOnItsWay, Waits
  <2> QED
    BY <2>1, <2>2, <2>3
<1>6. (CleanCalls /\ AnswerIsOwn)'
  BY <1>0 DEF RpcTypeOK, CleanCalls, AnswerIsOwn, OwnWire, Silent, Quiet, InsideHolds,
     Waits, Locked
<1> QED
  BY <1>1, <1>2, <1>3, <1>4, <1>5, <1>6 DEF RpcInv

(* Sleeping and waking by themselves change the RPC's part of the invariant *)
(* only in who is woken, and a task that was stays so.                      *)
LEMMA SleepAlonePart ==
  ASSUME IInv, Alone,
         (\E t \in Tasks : SleepStep(t)) \/ (\E c \in Tickers : TickStep(c))
  PROVE  RpcInv'
<1> USE DEF Alone, rpcvars, irqvars, fwvars, history
<1>1. \A u \in Tasks : Woken(u) => Woken(u)'
  BY DEF Woken, SleepStep, TickStep, SleepSkipped, SleepBlocks, Dispatched, DeadlinePasses,
     ReadClock, Collect, WakeCollected, ConsumePending, Detach, IInv, SleepInv, SleepTypeOK
<1>2. SignalOnItsWay'
  BY <1>1 DEF IInv, SignalOnItsWay
<1>3. (FlagsOK /\ RpcTypeOK)'
  BY DEF IInv, TypeOK, FlagsOK, RpcTypeOK
<1>4. (InsideHolds /\ SliceLeft /\ WaiterKnown /\ WaiterHoldsLock)'
  BY DEF IInv, InsideHolds, SliceLeft, WaiterKnown, WaiterHoldsLock
<1>5. (CleanCalls /\ AnswerIsOwn)'
  BY DEF IInv, CleanCalls, AnswerIsOwn, OwnWire, Silent, Quiet
<1> QED
  BY <1>2, <1>3, <1>4, <1>5 DEF RpcInv

(* Every step keeps the invariant. *)
LEMMA NextInv == IInv /\ [Next]_vars => IInv'
<1> SUFFICES ASSUME IInv, [Next]_vars PROVE IInv'
  OBVIOUS
<1>1. SleepInv'
  BY SleepPart, SleepStepInv DEF IInv
<1>2. RpcInv'
  <2>1. CASE UNCHANGED vars
    <3>1. \A t \in Tasks : Woken(t)' = Woken(t)
      BY <2>1 DEF vars, sleepvars, Woken
    <3> QED
      BY <2>1, <3>1 DEF vars, rpcvars, irqvars, fwvars, history, IInv, TypeOK, RpcInv,
         FlagsOK, RpcTypeOK, InsideHolds, SliceLeft, WaiterKnown, WaiterHoldsLock,
         SignalOnItsWay, CleanCalls, AnswerIsOwn, OwnWire, Silent, Quiet
  <2>2. CASE Next
    BY <2>2, RpcPart, CallPart, HandlerPart, FirmwarePart, SleepAlonePart DEF Next
  <2> QED
    BY <2>1, <2>2
<1> QED
  BY <1>1, <1>2 DEF IInv, RpcInv, TypeOK, FlagsOK, RpcTypeOK, SleepInv

-----------------------------------------------------------------------------
(* The invariant holds throughout. *)
THEOREM Invariance == Spec => []IInv
BY InitInv, NextInv, PTL DEF Spec

(* TypeOK: among the rest, elapsed_us never exceeds the timeout of a call. *)
THEOREM TypeCorrect == Spec => []TypeOK
<1>1. IInv => TypeOK
  BY DEF IInv
<1> QED
  BY <1>1, Invariance, PTL

(* SleeperInOnePlace: whatever ticks and wake-ups meet in task_sleep.c, a sleeper *)
(* is linked in one list and comes back once.                                     *)
THEOREM SleepersPlaced == Spec => []SleeperInOnePlace
<1>1. IInv => SleeperInOnePlace
  BY DEF IInv, SleepInv
<1> QED
  BY <1>1, Invariance, PTL

(* EarlyEndIsPaid: no wake-up left in the flag by task_sleep_wake ends two sleeps. *)
THEOREM EarlyEndsPaid == Spec => []EarlyEndIsPaid
<1>1. IInv => EarlyEndIsPaid
  BY DEF IInv, SleepInv
<1> QED
  BY <1>1, Invariance, PTL

(* WaiterHoldsLock: the waiter control_msi_handler finds is the task that waits *)
(* in wait_for_response with control_lock held.                                 *)
THEOREM WaiterIsHolder == Spec => []WaiterHoldsLock
<1>1. IInv => WaiterHoldsLock
  BY DEF IInv
<1> QED
  BY <1>1, Invariance, PTL

(* SignalFindsSleeper: the handler leaves a waiter of wait_for_response asleep only *)
(* if it looked before that waiter had published itself.                            *)
THEOREM SignalsFindSleepers == Spec => []SignalFindsSleeper
<1>1. IInv => SignalFindsSleeper
  BY DEF IInv, TypeOK, SleepTypeOK, SignalOnItsWay, SignalFindsSleeper, Woken, Waits
<1> QED
  BY <1>1, Invariance, PTL

(* AnswerIsOwn: a call of hailo_control_send_recv that began clean returns the *)
(* answer to its own request or none.                                          *)
THEOREM AnswersOwn == Spec => []AnswerIsOwn
<1>1. IInv => AnswerIsOwn
  BY DEF IInv
<1> QED
  BY <1>1, Invariance, PTL
=============================================================================
