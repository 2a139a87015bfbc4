-------------------------- MODULE MCFamilySequencer --------------------------
(***************************************************************************)
(* Small instances of FamilySequencer for TLC.                             *)
(***************************************************************************)
EXTENDS FamilySequencer, TLC

\* Only for runs in which the sets of Killable roots and of Children are all
\* of Roots or empty.
Sym == Permutations(Roots) \cup Permutations(Checkpoints) \cup Permutations(Families)
=============================================================================
