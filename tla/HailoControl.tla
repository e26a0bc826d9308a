------------------------------ MODULE HailoControl ------------------------------
(***************************************************************************)
(* The control RPC to the Hailo firmware (hailo_control.c) over TaskSleep: *)
(* hailo_control_send_recv under control_lock, wait_for_response, which    *)
(* sleeps in slices, and the MSI handler, which ends a slice early.        *)
(*                                                                         *)
(* The handler runs on a CPU of its own, in parallel with the caller.  A   *)
(* request is its number: what is on the wire is the opcode, for the       *)
(* sequence number is always 0.  A response that is being written does not *)
(* match its MD5.  control_lock is a mutex; PiMutex has its insides.  Left *)
(* out: the FW_NOTIFICATION bit, the per-channel interrupt registers,      *)
(* tracing, the one-time set-up and callers outside a task, who poll.      *)
(***************************************************************************)
EXTENDS TaskSleep

CONSTANTS
  Opcodes,    \* the commands the tasks send
  Slices,     \* timeout_us in units of HAILO_CONTROL_BLOCKING_POLL_MS
  Nappers,    \* the tasks that call task_sleep_ms for other reasons too
  MaxRpcs     \* bound on the number of requests

None == "none"

ASSUME HailoAssumption ==
  /\ None \notin Tasks
  /\ IsFiniteSet(Opcodes) /\ Slices \in Nat \ {0} /\ MaxRpcs \in Nat

VARIABLES
  control_lock,          \* its owner
  control_waiter,
  control_msi_pending,
  istatus,               \* the FW_CONTROL bit of BCS_ISTATUS_HOST
  pc,                    \* where each task is in hailo_control_send_recv
  elapsed,               \* elapsed_us, in slices
  rpc,                   \* rpc[t]: the request t is making
  handler, found,        \* where the MSI handler is, and the waiter it found
  msi,                   \* an interrupt is on its way to the handler
  request, doorbell,     \* the request buffer and the doorbell
  firmware,              \* the request the firmware works on
  response,              \* the response buffer
  sent,                  \* number of requests
  clean,                 \* history: clean[t], nothing was under way when rpc[t] began
  answer,                \* answer[t]: what the call of t is about to return
  missed                 \* history: the handler looked before a waiter was there

rpcvars == <<control_lock, control_waiter, control_msi_pending, istatus, pc, elapsed, rpc>>
irqvars == <<handler, found, msi>>
fwvars  == <<request, doorbell, firmware, response>>
history == <<sent, clean, answer, missed>>
vars    == <<sleepvars, rpcvars, irqvars, fwvars, history>>

Requests == [id : 1 .. MaxRpcs, op : Opcodes]
NoRequest == [id |-> 0, op |-> None]
Torn      == [id |-> 0, op |-> "torn"]

PCs == {"idle", "nap", "mutex", "status", "pending", "ring", "check", "poll", "publish",
        "slice", "read", "unlock"}

TypeOK ==
  /\ SleepTypeOK
  /\ control_lock \in Tasks \cup {None} /\ control_waiter \in Tasks \cup {None}
  /\ control_msi_pending \in BOOLEAN /\ istatus \in BOOLEAN
  /\ pc \in [Tasks -> PCs] /\ elapsed \in [Tasks -> 0 .. Slices]
  /\ rpc \in [Tasks -> Requests \cup {NoRequest}]
  /\ handler \in {"idle", "ack", "flag", "look", "wake"}
  /\ found \in Tasks \cup {None} /\ msi \in BOOLEAN
  /\ request \in Requests \cup {NoRequest} /\ doorbell \in BOOLEAN
  /\ firmware \in Requests \cup {NoRequest}
  /\ response \in Requests \cup {NoRequest, Torn}
  /\ sent \in 0 .. MaxRpcs /\ clean \in [Tasks -> BOOLEAN] /\ missed \in BOOLEAN
  /\ answer \in [Tasks -> Requests \cup {NoRequest}]

Init ==
  /\ SleepInit
  /\ control_lock = None /\ control_waiter = None
  /\ control_msi_pending = FALSE /\ istatus = FALSE
  /\ pc = [t \in Tasks |-> "idle"] /\ elapsed = [t \in Tasks |-> 0]
  /\ rpc = [t \in Tasks |-> NoRequest]
  /\ handler = "idle" /\ found = None /\ msi = FALSE
  /\ request = NoRequest /\ doorbell = FALSE
  /\ firmware = NoRequest /\ response = NoRequest
  /\ sent = 0 /\ clean = [t \in Tasks |-> FALSE]
  /\ answer = [t \in Tasks |-> NoRequest] /\ missed = FALSE

Go(t, from, to) == pc[t] = from /\ pc' = [pc EXCEPT ![t] = to]

-----------------------------------------------------------------------------
(***************************************************************************)
(* hailo_control_send_recv, by task t.                                     *)
(***************************************************************************)
Call(t, op) ==
  /\ sent < MaxRpcs
  /\ Go(t, "idle", "mutex")
  /\ sent' = sent + 1
  /\ rpc' = [rpc EXCEPT ![t] = [id |-> sent + 1, op |-> op]]
  /\ UNCHANGED <<sleepvars, control_lock, control_waiter, control_msi_pending, istatus,
                 elapsed, irqvars, fwvars, clean, answer, missed>>

Lock(t) ==
  /\ control_lock = None
  /\ Go(t, "mutex", "status")
  /\ control_lock' = t
  /\ UNCHANGED <<sleepvars, control_waiter, control_msi_pending, istatus, elapsed, rpc,
                 irqvars, fwvars, history>>

\* Nothing is under way: the firmware owes no answer, and no handler is between
\* its reading of ISTATUS and its store to the flag.
Quiet == firmware = NoRequest /\ ~ doorbell /\ handler \notin {"ack", "flag"}

\* First the stale ISTATUS bits are written back, then the flag is cleared.
ClearStatus(t) ==
  /\ Go(t, "status", "pending")
  /\ istatus' = FALSE
  /\ clean' = [clean EXCEPT ![t] = Quiet]
  /\ UNCHANGED <<sleepvars, control_lock, control_waiter, control_msi_pending, elapsed,
                 rpc, irqvars, fwvars, sent, answer, missed>>

\* Mutant: what an earlier call's response left in the flag stays.
LeftOver == control_msi_pending

Cleared == FALSE

ClearPending(t) ==
  /\ Go(t, "pending", "ring")
  /\ control_msi_pending' = Cleared
  /\ UNCHANGED <<sleepvars, control_lock, control_waiter, istatus, elapsed, rpc, irqvars,
                 fwvars, history>>

Ring(t) ==
  /\ Go(t, "ring", "check")
  /\ request' = rpc[t] /\ doorbell' = TRUE
  /\ UNCHANGED <<sleepvars, control_lock, control_waiter, control_msi_pending, istatus,
                 elapsed, rpc, irqvars, firmware, response, history>>

\* The response is read and its MD5 verified; the caller compares the opcode.
Accepts(t) == response # Torn /\ response.op = rpc[t].op

Read(t) ==
  /\ Go(t, "read", "unlock")
  /\ answer' = [answer EXCEPT ![t] = IF Accepts(t) THEN response ELSE NoRequest]
  /\ UNCHANGED <<sleepvars, control_lock, control_waiter, control_msi_pending, istatus,
                 elapsed, rpc, irqvars, fwvars, sent, clean, missed>>

Unlock(t) ==
  /\ Go(t, "unlock", "idle")
  /\ control_lock' = None
  /\ rpc' = [rpc EXCEPT ![t] = NoRequest]
  /\ elapsed' = [elapsed EXCEPT ![t] = 0]
  /\ answer' = [answer EXCEPT ![t] = NoRequest]
  /\ clean' = [clean EXCEPT ![t] = FALSE]
  /\ UNCHANGED <<sleepvars, control_waiter, control_msi_pending, istatus, irqvars, fwvars,
                 sent, missed>>

-----------------------------------------------------------------------------
(***************************************************************************)
(* wait_for_response: HAILO_ERR_TIMEOUT, the flag, the register, a slice.  *)
(***************************************************************************)
\* Mutant: one slice more.
ExpiredLate(t) == elapsed[t] > Slices

Expired(t) == elapsed[t] >= Slices

TimesOut(t) ==
  /\ Expired(t)
  /\ Go(t, "check", "unlock")
  /\ UNCHANGED <<sleepvars, control_lock, control_waiter, control_msi_pending, istatus,
                 elapsed, rpc, irqvars, fwvars, history>>

CheckFlag(t) ==
  /\ ~ Expired(t)
  /\ Go(t, "check", IF control_msi_pending THEN "read" ELSE "poll")
  /\ control_msi_pending' = FALSE
  /\ UNCHANGED <<sleepvars, control_lock, control_waiter, istatus, elapsed, rpc, irqvars,
                 fwvars, history>>

PollStatus(t) ==
  /\ Go(t, "poll", IF istatus THEN "read" ELSE "publish")
  /\ istatus' = FALSE
  /\ UNCHANGED <<sleepvars, control_lock, control_waiter, control_msi_pending, elapsed,
                 rpc, irqvars, fwvars, history>>

\* The waiter is published and task_sleep_ms called.
PublishAndSleep(t) ==
  /\ Go(t, "publish", "slice")
  /\ control_waiter' = t
  /\ SleepCall(t)
  /\ UNCHANGED <<control_lock, control_msi_pending, istatus, elapsed, rpc, irqvars, fwvars,
                 history>>

\* A slice counts in full even if it was cut short.
\* Mutants: it does not count; the slot keeps the waiter.
NotCounted(t) == elapsed[t]

Counted(t) == elapsed[t] + 1

StaleWaiter == control_waiter

NoWaiter == None

Unpublish(t) ==
  /\ call[t] = "none"
  /\ Go(t, "slice", "check")
  /\ control_waiter' = NoWaiter
  /\ elapsed' = [elapsed EXCEPT ![t] = Counted(t)]
  /\ missed' = FALSE
  /\ UNCHANGED <<sleepvars, control_lock, control_msi_pending, istatus, rpc, irqvars,
                 fwvars, sent, clean, answer>>

\* Any other call of task_sleep_ms.
Nap(t) ==
  /\ t \in Nappers
  /\ Go(t, "idle", "nap")
  /\ SleepCall(t)
  /\ UNCHANGED <<control_lock, control_waiter, control_msi_pending, istatus, elapsed, rpc,
                 irqvars, fwvars, history>>

NapEnds(t) ==
  /\ call[t] = "none"
  /\ Go(t, "nap", "idle")
  /\ UNCHANGED <<sleepvars, control_lock, control_waiter, control_msi_pending, istatus,
                 elapsed, rpc, irqvars, fwvars, history>>

-----------------------------------------------------------------------------
(***************************************************************************)
(* control_msi_handler.                                                    *)
(***************************************************************************)
ReadStatus ==
  /\ handler = "idle" /\ msi
  /\ msi' = FALSE
  /\ handler' = IF istatus THEN "ack" ELSE "idle"
  /\ UNCHANGED <<sleepvars, rpcvars, found, fwvars, history>>

Ack ==
  /\ handler = "ack"
  /\ istatus' = FALSE
  /\ handler' = "flag"
  /\ UNCHANGED <<sleepvars, control_lock, control_waiter, control_msi_pending, pc, elapsed,
                 rpc, found, msi, fwvars, history>>

SetFlag ==
  /\ handler = "flag"
  /\ control_msi_pending' = TRUE
  /\ handler' = "look"
  /\ UNCHANGED <<sleepvars, control_lock, control_waiter, istatus, pc, elapsed, rpc, found,
                 msi, fwvars, history>>

LookForWaiter ==
  /\ handler = "look"
  /\ found' = control_waiter
  /\ handler' = IF control_waiter = None THEN "idle" ELSE "wake"
  /\ missed' = (control_waiter = None)
  /\ UNCHANGED <<sleepvars, rpcvars, msi, fwvars, sent, clean, answer>>

Wake ==
  /\ handler = "wake"
  /\ task_sleep_wake(found)
  /\ handler' = "idle" /\ found' = None
  /\ UNCHANGED <<rpcvars, msi, fwvars, history>>

HandlerStep == ReadStatus \/ Ack \/ SetFlag \/ LookForWaiter \/ Wake

-----------------------------------------------------------------------------
(***************************************************************************)
(* The firmware: one request at a time, the answer when it likes.          *)
(***************************************************************************)
FwTakes ==
  /\ doorbell /\ firmware = NoRequest
  /\ firmware' = request /\ doorbell' = FALSE
  /\ UNCHANGED <<sleepvars, rpcvars, irqvars, request, response, history>>

FwWrites ==
  /\ firmware # NoRequest /\ response # Torn
  /\ response' = Torn
  /\ UNCHANGED <<sleepvars, rpcvars, irqvars, request, doorbell, firmware, history>>

FwAnswers ==
  /\ firmware # NoRequest /\ response = Torn
  /\ response' = firmware /\ firmware' = NoRequest
  /\ istatus' = TRUE /\ msi' = TRUE
  /\ UNCHANGED <<sleepvars, control_lock, control_waiter, control_msi_pending, pc, elapsed,
                 rpc, handler, found, request, doorbell, history>>

-----------------------------------------------------------------------------
RpcStep(t) ==
  \/ Lock(t) \/ ClearStatus(t) \/ ClearPending(t) \/ Ring(t) \/ Read(t) \/ Unlock(t)
  \/ TimesOut(t) \/ CheckFlag(t) \/ PollStatus(t) \/ PublishAndSleep(t) \/ Unpublish(t)
  \/ NapEnds(t)

Alone == UNCHANGED <<rpcvars, irqvars, fwvars, history>>

Next ==
  \/ \E t \in Tasks : \/ \E op \in Opcodes : Call(t, op)
                      \/ Nap(t) \/ RpcStep(t) \/ (SleepStep(t) /\ Alone)
  \/ \E c \in Tickers : TickStep(c) /\ Alone
  \/ HandlerStep
  \/ FwTakes \/ FwWrites \/ FwAnswers

Spec == Init /\ [][Next]_vars

\* Tasks that can run do, ticks come and deadlines pass; the mutex is handed to
\* its waiters (PiMutex).  The firmware need not answer.
FairSpec ==
  /\ Spec
  /\ \A t \in Tasks : SF_vars(Lock(t)) /\ WF_vars(RpcStep(t) \/ (SleepStep(t) /\ Alone))
  /\ \A c \in Tickers : WF_vars(TickStep(c) /\ Alone)

-----------------------------------------------------------------------------
(***************************************************************************)
(* Properties.                                                             *)
(***************************************************************************)
\* "any pending=1 observed here reflects firmware's response to THIS RPC": the
\* response a call returns is the answer to its own request, if nothing of an
\* earlier request was under way when it wrote ISTATUS back.  (A late answer of a
\* call that timed out, or a handler that had read ISTATUS already, is taken for
\* the answer: no sequence number tells them apart.)
AnswerIsOwn ==
  \A t \in Tasks : clean[t] /\ answer[t] # NoRequest => answer[t] = rpc[t]

\* The single waiter slot: what is published is the task that holds control_lock
\* and waits, so no wake-up of a response is handed to another task by way of
\* the slot.
WaiterHoldsLock ==
  control_waiter # None => /\ control_lock = control_waiter
                           /\ pc[control_waiter] = "slice"

\* A task is left asleep with its response signalled only if the handler looked
\* for a waiter before the task had published itself; any later signal finds it
\* in the queue, or leaves the flag its task_sleep_ms returns on.
SignalFindsSleeper ==
  \A t \in sleep_queue :
    pc[t] = "slice" /\ control_msi_pending /\ handler \in {"idle", "ack"} => missed

\* Every call returns, answered or not, and so does every other sleep.
CallsReturn == \A t \in Tasks : pc[t] # "idle" ~> pc[t] = "idle"
=============================================================================
