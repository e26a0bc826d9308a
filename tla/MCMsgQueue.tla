------------------------------ MODULE MCMsgQueue ------------------------------
(***************************************************************************)
(* MsgQueue for TLC, and the refinement to MsgQueueAbs.                    *)
(***************************************************************************)
EXTENDS MsgQueue

\* The unread messages of level p, oldest first, as the ring stores them.
FifoOf(p) == [i \in 1 .. prio[p].count |-> buffer[p][(prio[p].tail + i - 1) % Capacity]]

Abs == INSTANCE MsgQueueAbs WITH
         Levels <- Prios, Bound <- Capacity,
         fifo <- [p \in Prios |-> FifoOf(p)], sent <- prio_msgs_sent, taken <- got

\* msg_send_priority and msg_recv implement a bounded FIFO per level, served
\* from the highest level or, for starvation relief, the lowest.
ImplementsFifos == Abs!Spec
=============================================================================
