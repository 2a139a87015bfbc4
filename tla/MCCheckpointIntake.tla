------------------------- MODULE MCCheckpointIntake -------------------------
(***************************************************************************)
(* Instances of CheckpointIntake for TLC.                                  *)
(***************************************************************************)
EXTENDS CheckpointIntake

(* Bodies of one unit of bytes each: two fill a quota of two.              *)
UnitBodies == {[c \in Clients |-> 1]}

(* Bodies of one or of two units: two fit into a quota of three or do not. *)
MCBodies == {[c \in Clients |-> n] : n \in 1 .. 2}
=============================================================================
