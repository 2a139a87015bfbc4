---------------------------- MODULE MCRefCursor ----------------------------
(***************************************************************************)
(* Small instances of RefCursor for TLC.                                   *)
(***************************************************************************)
EXTENDS RefCursor, TLC

Sym == Permutations(Subjects)
=============================================================================
