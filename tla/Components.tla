------------------------------- MODULE Components ------------------------------
(***************************************************************************)
(* The component runtime over MsgRouter: the registry                      *)
(* (component/registry.rs), component_run and component_hot_swap           *)
(* (component_runtime.c), the tasks of the built-in components, their      *)
(* cleanup, and the telemetry feed, a subscriber outside the registry.     *)
(*                                                                         *)
(* Each registry and each router call is a critical section and one step;  *)
(* between two of them everybody else may run.  One operator (shell or     *)
(* Lua) gives commands.  A built-in component is a listener: it subscribes *)
(* to its topic, receives, acknowledges and times out.  Left out: models   *)
(* to preload, the state that component_hot_swap_stateful carries over,    *)
(* the direct channels, the echo mailbox, the registry's count.            *)
(***************************************************************************)
EXTENDS MsgRouter

CONSTANTS
  Builtins, TopicOf(_),   \* the built-in components and what they subscribe to
  NumSlots,               \* MAX_COMPONENTS of the registry
  FeedPattern,            \* what the telemetry feed subscribes to
  Tasks,
  MaxCommands             \* bound on the operator's commands

Indexes == 1 .. NumSlots
Feed    == NumSlots + 1   \* TELEMETRY_COMPONENT_IDX

ASSUME ComponentsAssumption ==
  /\ NumSlots \in Nat /\ MaxCommands \in Nat
  /\ Components = Indexes \cup {Feed} /\ FeedPattern \in Patterns
  /\ None \notin Builtins /\ \A n \in Builtins : TopicOf(n) \in Names

VARIABLES
  registry,     \* registry[i]: name and state
  task,         \* task[t]: where it is, its component_idx and its component
  op,           \* where the operator is, and its locals
  feed,         \* the telemetry server, and where its drain is
  commands,
  outlived,     \* history: the indexes whose task lived on when the slot was unregistered
  orphaned      \* history: those hot swap subscribed for after their task had unsubscribed

ghosts   == <<outlived, orphaned>>
compvars == <<registry, task, op, feed, commands, ghosts>>
vars     == <<routervars, compvars>>

States  == {"unloaded", "loaded", "initializing", "running", "updating", "terminating"}
Free    == [name |-> None, state |-> "unloaded"]
NoTask  == [pc |-> "free", idx |-> 0, name |-> None]
NoOp    == [pc |-> "idle", new |-> None, idx |-> 0, saved |-> {}]

TypeOK ==
  /\ RouterTypeOK
  /\ registry \in [Indexes -> [name : Builtins \cup {None}, state : States]]
  /\ task \in [Tasks -> [pc : {"free", "start", "subscribe", "poll", "ack", "store", "exit",
                               "unsubscribe", "unload"},
                         idx : Indexes \cup {0}, name : Builtins \cup {None}]]
  /\ op \in [pc : {"idle", "save", "updating", "unsubscribe", "unregister", "find", "drop",
                   "register", "initializing", "create", "rollback", "resubscribe",
                   "listen", "close"},
             new : Builtins \cup {None}, idx : Indexes \cup {0}, saved : SUBSET Names]
  /\ feed \in [on : BOOLEAN, pc : {"poll", "ack", "store", "drain"}]
  /\ commands \in 0 .. MaxCommands
  /\ outlived \subseteq Indexes /\ orphaned \subseteq Indexes

Init ==
  /\ RouterInit
  /\ registry = [i \in Indexes |-> Free]
  /\ task = [t \in Tasks |-> NoTask]
  /\ op = NoOp /\ feed = [on |-> FALSE, pc |-> "poll"] /\ commands = 0
  /\ outlived = {} /\ orphaned = {}

-----------------------------------------------------------------------------
(***************************************************************************)
(* The registry.                                                           *)
(***************************************************************************)
is_active(i) == registry[i].state # "unloaded" /\ registry[i].name # None

Named(n) == {i \in Indexes : is_active(i) /\ registry[i].name = n}

set_state(i, s) ==
  registry' = IF is_active(i) THEN [registry EXCEPT ![i].state = s] ELSE registry

Live(i) == {t \in Tasks : task[t].pc # "free" /\ task[t].idx = i}

unregister(i) ==
  /\ registry' = [registry EXCEPT ![i] = IF is_active(i) THEN Free ELSE @]
  /\ outlived' = outlived \cup {j \in {i} : Live(j) # {}}
  /\ UNCHANGED orphaned

-----------------------------------------------------------------------------
(***************************************************************************)
(* component_run(new), and component_hot_swap, which ends in it.           *)
(***************************************************************************)
OpGo(pc) == op' = [op EXCEPT !.pc = pc]
NewCommand == op.pc = "idle" /\ commands < MaxCommands /\ commands' = commands + 1
OnlyOp   == UNCHANGED <<routervars, task, feed, commands>>

RunCommand(n) ==
  /\ NewCommand
  /\ op' = [NoOp EXCEPT !.pc = "find", !.new = n]
  /\ UNCHANGED <<routervars, registry, task, feed, ghosts>>

SwapCommand(old, n) ==
  /\ NewCommand /\ Named(old) # {}
  /\ op' = [NoOp EXCEPT !.pc = "save", !.new = n, !.idx = First(Named(old))]
  /\ UNCHANGED <<routervars, registry, task, feed, ghosts>>

\* component_get_info failed, or the topics are saved.
SaveTopics ==
  /\ op.pc = "save" /\ LockFree
  /\ op' = IF is_active(op.idx)
           THEN [op EXCEPT !.pc = "updating", !.saved = Subscriptions(op.idx)]
           ELSE NoOp
  /\ UNCHANGED <<registry, ghosts>> /\ OnlyOp

MarkUpdating ==
  /\ op.pc = "updating"
  /\ set_state(op.idx, "updating")
  /\ OpGo("unsubscribe")
  /\ UNCHANGED ghosts /\ OnlyOp

SwapUnsubscribes ==
  /\ op.pc = "unsubscribe"
  /\ msg_router_unsubscribe_all(op.idx)
  /\ OpGo("unregister")
  /\ orphaned' = orphaned \ {op.idx}
  /\ UNCHANGED <<registry, task, feed, commands, outlived>>

SwapUnregisters ==
  /\ op.pc = "unregister"
  /\ unregister(op.idx)
  /\ op' = [op EXCEPT !.pc = "find", !.idx = 0]
  /\ OnlyOp

FindExisting ==
  LET found == Named(op.new)  i == First(found) IN
  /\ op.pc = "find"
  /\ op' = CASE found = {} -> [op EXCEPT !.pc = "register"]
             [] found # {} /\ registry[i].state = "running" -> NoOp
             [] OTHER -> [op EXCEPT !.pc = "drop", !.idx = i]
  /\ UNCHANGED <<registry, ghosts>> /\ OnlyOp

DropStale ==
  /\ op.pc = "drop"
  /\ unregister(op.idx)
  /\ op' = [op EXCEPT !.pc = "register", !.idx = 0]
  /\ OnlyOp

Register ==
  LET free == {i \in Indexes : ~ is_active(i)} IN
  /\ op.pc = "register"
  /\ IF free = {}
     THEN op' = NoOp /\ UNCHANGED registry
     ELSE /\ registry' = [registry EXCEPT ![First(free)] = [name |-> op.new, state |-> "loaded"]]
          /\ op' = [op EXCEPT !.pc = "initializing", !.idx = First(free)]
  /\ UNCHANGED ghosts /\ OnlyOp

MarkInitializing ==
  /\ op.pc = "initializing"
  /\ set_state(op.idx, "initializing")
  /\ OpGo("create")
  /\ UNCHANGED ghosts /\ OnlyOp

Started == IF op.saved = {} THEN NoOp ELSE [op EXCEPT !.pc = "resubscribe"]

CreateTask(t) ==
  /\ op.pc = "create" /\ task[t].pc = "free"
  /\ task' = [task EXCEPT ![t] = [pc |-> "start", idx |-> op.idx, name |-> op.new]]
  /\ op' = Started
  /\ UNCHANGED <<routervars, registry, feed, commands, ghosts>>

\* No task, or no page for its cleanup context: the entry is taken back.
\* Mutant: it stays.
KeepsEntry == "idle"

TakesBack == "rollback"

CreateFails ==
  /\ op.pc = "create"
  /\ OpGo(TakesBack)
  /\ UNCHANGED <<registry, ghosts>> /\ OnlyOp

RollBack ==
  /\ op.pc = "rollback"
  /\ unregister(op.idx)
  /\ op' = NoOp
  /\ OnlyOp

Resubscribe(n) ==
  /\ op.pc = "resubscribe" /\ n \in op.saved
  /\ msg_router_subscribe(n, op.idx)
  /\ op' = IF op.saved = {n} THEN NoOp ELSE [op EXCEPT !.saved = @ \ {n}]
  /\ orphaned' = orphaned \cup {i \in {op.idx} : \A t \in Live(i) : task[t].pc = "unload"}
  /\ UNCHANGED <<registry, task, feed, commands, outlived>>

OperatorStep ==
  \/ SaveTopics \/ MarkUpdating \/ SwapUnsubscribes \/ SwapUnregisters \/ FindExisting
  \/ DropStale \/ Register \/ MarkInitializing \/ (\E t \in Tasks : CreateTask(t))
  \/ CreateFails \/ RollBack \/ \E n \in Names : Resubscribe(n)

-----------------------------------------------------------------------------
(***************************************************************************)
(* The task of a component, and component_task_cleanup.                    *)
(***************************************************************************)
TaskGo(t, from, to) == task[t].pc = from /\ task' = [task EXCEPT ![t].pc = to]
OnlyTask == UNCHANGED <<op, feed, commands, ghosts>>

Start(t) ==
  /\ TaskGo(t, "start", "subscribe")
  /\ set_state(task[t].idx, "running")
  /\ UNCHANGED routervars /\ OnlyTask

Subscribe(t) ==
  LET n == TopicOf(task[t].name)  i == task[t].idx IN
  /\ Accepted(n, i)
  /\ TaskGo(t, "subscribe", "poll")
  /\ msg_router_subscribe(n, i)
  /\ UNCHANGED registry /\ OnlyTask

\* No room for the subscription, or nothing received for 30 seconds.
Terminate(t) ==
  /\ \/ task[t].pc = "poll"
     \/ task[t].pc = "subscribe" /\ LockFree /\ ~ Accepted(TopicOf(task[t].name), task[t].idx)
  /\ task' = [task EXCEPT ![t].pc = "exit"]
  /\ set_state(task[t].idx, "terminating")
  /\ UNCHANGED routervars /\ OnlyTask

Receive(t) ==
  /\ TaskGo(t, "poll", IF Full(task[t].idx) = {} THEN "poll" ELSE "ack")
  /\ msg_router_receive(task[t].idx)
  /\ UNCHANGED registry /\ OnlyTask

\* If there is nothing to acknowledge the call ends here.
Acknowledge(t) ==
  LET b == last_received[task[t].idx] IN
  /\ TaskGo(t, "ack", IF b # 0 /\ ready[b] = "full" THEN "store" ELSE "poll")
  /\ AckIdle(task[t].idx)
  /\ UNCHANGED registry /\ OnlyTask

AcknowledgeEnds(t) ==
  /\ TaskGo(t, "store", "poll")
  /\ AckStore
  /\ UNCHANGED registry /\ OnlyTask

\* component_get_info in the cleanup.
OwnsSlot(t) ==
  is_active(task[t].idx) /\ registry[task[t].idx].state \in {"terminating", "running"}

CleanupLooks(t) ==
  /\ task[t].pc = "exit"
  /\ task' = [task EXCEPT ![t] = IF OwnsSlot(t) THEN [@ EXCEPT !.pc = "unsubscribe"] ELSE NoTask]
  /\ UNCHANGED <<routervars, registry>> /\ OnlyTask

CleanupUnsubscribes(t) ==
  /\ TaskGo(t, "unsubscribe", "unload")
  /\ msg_router_unsubscribe_all(task[t].idx)
  /\ orphaned' = orphaned \ {task[t].idx}
  /\ UNCHANGED <<registry, op, feed, commands, outlived>>

CleanupUnloads(t) ==
  /\ task[t].pc = "unload"
  /\ set_state(task[t].idx, "unloaded")
  /\ task' = [task EXCEPT ![t] = NoTask]
  /\ UNCHANGED routervars /\ OnlyTask

TaskStep(t) ==
  \/ Start(t) \/ Subscribe(t) \/ Terminate(t) \/ Receive(t) \/ Acknowledge(t)
  \/ AcknowledgeEnds(t) \/ CleanupLooks(t) \/ CleanupUnsubscribes(t) \/ CleanupUnloads(t)

-----------------------------------------------------------------------------
(***************************************************************************)
(* The telemetry feed: started and stopped by the operator, drained by the *)
(* network pump.                                                           *)
(***************************************************************************)
OnlyFeed == UNCHANGED <<registry, task, ghosts>>

FeedStart ==
  /\ NewCommand /\ ~ feed.on
  /\ Accepted(FeedPattern, Feed) /\ msg_router_subscribe(FeedPattern, Feed)
  /\ op' = [NoOp EXCEPT !.pc = "listen"]
  /\ UNCHANGED feed /\ OnlyFeed

FeedListens ==
  /\ op.pc = "listen"
  /\ feed' = [feed EXCEPT !.on = TRUE]
  /\ op' = NoOp
  /\ UNCHANGED <<routervars, commands>> /\ OnlyFeed

FeedStop ==
  /\ NewCommand /\ feed.on
  /\ feed' = [feed EXCEPT !.on = FALSE]
  /\ op' = [NoOp EXCEPT !.pc = "close"]
  /\ UNCHANGED routervars /\ OnlyFeed

\* The listener is closed, or there is no pcb or port for one.
FeedUnsubscribes ==
  /\ op.pc \in {"listen", "close"}
  /\ msg_router_unsubscribe_all(Feed)
  /\ op' = NoOp
  /\ UNCHANGED <<feed, commands>> /\ OnlyFeed

\* The listener is looked at once, then the mailboxes are drained.
FeedReceive ==
  /\ feed.pc = "drain" \/ (feed.on /\ feed.pc = "poll")
  /\ msg_router_receive(Feed)
  /\ feed' = [feed EXCEPT !.pc = IF Full(Feed) = {} THEN "poll" ELSE "ack"]
  /\ UNCHANGED <<op, commands>> /\ OnlyFeed

FeedAcks ==
  LET b == last_received[Feed] IN
  /\ feed.pc = "ack"
  /\ AckIdle(Feed)
  /\ feed' = [feed EXCEPT !.pc = IF b # 0 /\ ready[b] = "full" THEN "store" ELSE "drain"]
  /\ UNCHANGED <<op, commands>> /\ OnlyFeed

FeedAckEnds ==
  /\ feed.pc = "store"
  /\ AckStore
  /\ feed' = [feed EXCEPT !.pc = "drain"]
  /\ UNCHANGED <<op, commands>> /\ OnlyFeed

FeedStep ==
  \/ FeedStart \/ FeedListens \/ FeedStop \/ FeedUnsubscribes
  \/ FeedReceive \/ FeedAcks \/ FeedAckEnds

-----------------------------------------------------------------------------
Command ==
  \E n \in Builtins : RunCommand(n) \/ \E old \in Builtins : SwapCommand(old, n)

Next ==
  \/ Command \/ OperatorStep
  \/ \E t \in Tasks : TaskStep(t)
  \/ FeedStep
  \/ \E p \in Publishers : Publish(p) /\ UNCHANGED compvars

Spec == Init /\ [][Next]_vars

-----------------------------------------------------------------------------
(***************************************************************************)
(* Properties.                                                             *)
(***************************************************************************)
\* Where no task outlived the registration of its component, an entry of the
\* registry is carried by its one task or by the command at work on it, and who
\* holds a subscription is registered, so that a task drains it or the entry's
\* owner removes it.  No path of start-up, failure and exit leaks a slot or a
\* subscription, and of a swap only one: component_hot_swap subscribes for the
\* new task without looking whether it still lives, and if its cleanup has
\* unsubscribed by then the subscription stays (an orphaned index).
\* A task outlives its registration in a hot swap, which never stops the old
\* task, and when component_run comes again before the task has set RUNNING or
\* after it has given it up.  The cleanup of such a survivor knows only the
\* index and unloads whoever has it, where component_runtime.c:62-68 and 613-617
\* claim it cannot.
EntriesCarried ==
  \A i \in Indexes \ outlived :
    /\ is_active(i) => Live(i) # {} \/ op.idx = i
    /\ \A t, u \in Live(i) : t = u
    /\ i \notin orphaned => \A b \in Boxes : owner[b] = i => is_active(i)

\* What component_runtime.c:62-68 says of the cleanup of a surviving task: it
\* does not unsubscribe or unload a component that has reused its slot.  (Not
\* so; ComponentsSurvivor.cfg shows the steps.)
CleanupSparesOthers ==
  \A t \in Tasks : task[t].pc \in {"unsubscribe", "unload"} =>
    \A u \in Live(task[t].idx) : u = t
=============================================================================
