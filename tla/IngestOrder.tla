----------------------------- MODULE IngestOrder -----------------------------
(***************************************************************************)
(* What the trace ingest queue promises to the rest of the daemon: frames  *)
(* are applied one at a time in the order in which they were accepted, and *)
(* a fence set at some moment is released only when every frame accepted   *)
(* by then has been applied. A daemon that shuts down abandons its fences. *)
(***************************************************************************)
EXTENDS Naturals, Sequences

CONSTANTS Frames,   \* what may be accepted
          Fences    \* checkpoint admissions that wait for the ingest worker

VARIABLES accepted, applied, fence, target

vars == <<accepted, applied, fence, target>>

Init ==
  /\ accepted = <<>>
  /\ applied = <<>>
  /\ fence = [w \in Fences |-> "unset"]
  /\ target = [w \in Fences |-> 0]

Accept ==
  /\ \E f \in Frames : accepted' = Append(accepted, f)
  /\ UNCHANGED <<applied, fence, target>>

Apply ==
  /\ Len(applied) < Len(accepted)
  /\ applied' = Append(applied, accepted[Len(applied) + 1])
  /\ UNCHANGED <<accepted, fence, target>>

Set(w) ==
  /\ fence[w] = "unset"
  /\ fence' = [fence EXCEPT ![w] = "set"]
  /\ target' = [target EXCEPT ![w] = Len(accepted)]
  /\ UNCHANGED <<accepted, applied>>

Release(w) ==
  /\ fence[w] = "set"
  /\ target[w] <= Len(applied)
  /\ fence' = [fence EXCEPT ![w] = "released"]
  /\ UNCHANGED <<accepted, applied, target>>

Abandon(w) ==
  /\ fence[w] = "set"
  /\ fence' = [fence EXCEPT ![w] = "abandoned"]
  /\ UNCHANGED <<accepted, applied, target>>

Next ==
  \/ Accept
  \/ Apply
  \/ \E w \in Fences : Set(w) \/ Release(w) \/ Abandon(w)

Spec == Init /\ [][Next]_vars
=============================================================================
