---------------------------- MODULE MCSharedBuffer ----------------------------
(***************************************************************************)
(* SharedBuffer for TLC.                                                   *)
(***************************************************************************)
EXTENDS SharedBuffer, TLC

Symmetric == Permutations(Tasks) \cup Permutations(Pages)
=============================================================================
