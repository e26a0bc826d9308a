------------------------------ MODULE MCComponents ------------------------------
(* Two built-in components on one topic each, and the feed's pattern.          *)
EXTENDS Components, TLC

CONSTANTS x, y, tel, compA, compB

MCTopicOf(n) == IF n = compA THEN x ELSE y

MCPublications == {[topic |-> x, prio |-> 0, nowait |-> FALSE],
                   [topic |-> y, prio |-> 1, nowait |-> TRUE]}

MCMatches(p, n) == n = x

\* Neither tasks nor publishers are told apart.
Symmetry == Permutations(Tasks) \cup Permutations(Publishers)
=============================================================================
