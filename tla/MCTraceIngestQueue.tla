------------------------- MODULE MCTraceIngestQueue --------------------------
(***************************************************************************)
(* Small instances of TraceIngestQueue for TLC.                            *)
(***************************************************************************)
EXTENDS TraceIngestQueue, TLC

Sym == Permutations(Readers) \cup Permutations(Fences)
=============================================================================
