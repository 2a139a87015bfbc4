-------------------------- MODULE MCFamilyExecLock ---------------------------
(***************************************************************************)
(* Small instances of FamilyExecLock for TLC.                              *)
(***************************************************************************)
EXTENDS FamilyExecLock, TLC

Sym == Permutations(Drains) \cup Permutations(Families)
=============================================================================
