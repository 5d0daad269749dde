----------------------------- MODULE MCSlotCommit -----------------------------
(* Instances of SlotCommit for TLC: processes are interchangeable, and so are  *)
(* records where none is in Short.                                             *)
EXTENDS SlotCommit, TLC

Symmetry == Permutations(Proc) \cup Permutations(Data)
=============================================================================
