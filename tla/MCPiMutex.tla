------------------------------- MODULE MCPiMutex -------------------------------
(***************************************************************************)
(* PiMutex for TLC.                                                        *)
(***************************************************************************)
EXTENDS PiMutex

CONSTANTS t1, t2, t3, t4

\* Three different base priorities.
StartThree == {[t \in {t1, t2, t3} |-> CASE t = t1 -> 0 [] t = t2 -> 1 [] t = t3 -> 2]}

\* A locker that outranks three tasks of lower priority.
StartFour == {[t \in {t1, t2, t3, t4} |-> CASE t = t3 -> 1 [] t = t4 -> 2 [] OTHER -> 0]}
=============================================================================
