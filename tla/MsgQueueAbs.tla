------------------------------ MODULE MsgQueueAbs ------------------------------
(***************************************************************************)
(* What a message queue promises its users: one bounded FIFO per priority  *)
(* level; a receive takes the oldest message of the highest level that has *)
(* one, or of the lowest when starvation relief is due.  No rings, locks   *)
(* or wait lists.                                                          *)
(***************************************************************************)
EXTENDS Integers, Sequences, FiniteSetsExt

CONSTANTS Tasks, Levels, Bound

VARIABLES fifo,   \* fifo[p]: the unread messages of level p, oldest first
          sent,   \* sent[p]: how many messages were sent at level p
          taken   \* taken[t]: the message task t received last

absvars == <<fifo, sent, taken>>

Init == /\ fifo = [p \in Levels |-> <<>>]
        /\ sent = [p \in Levels |-> 0]
        /\ taken = [t \in Tasks |-> <<>>]

Put(p) == /\ Len(fifo[p]) < Bound
          /\ fifo' = [fifo EXCEPT ![p] = Append(@, sent[p])]
          /\ sent' = [sent EXCEPT ![p] = @ + 1]
          /\ UNCHANGED taken

Take(t) == LET Full == {p \in Levels : fifo[p] # <<>>} IN
           /\ Full # {}
           /\ \E p \in {Max(Full), Min(Full)} :
                /\ taken' = [taken EXCEPT ![t] = <<p, Head(fifo[p])>>]
                /\ fifo' = [fifo EXCEPT ![p] = Tail(@)]
           /\ UNCHANGED sent

Next == (\E p \in Levels : Put(p)) \/ (\E t \in Tasks : Take(t))

Spec == Init /\ [][Next]_absvars
=============================================================================
