------------------------- MODULE MCBatchLifecycle -------------------------
(* BatchLifecycle for TLC.                                                 *)
EXTENDS BatchLifecycle, TLC

\* Workers are interchangeable, and so are the recordings of each kind.
Symmetry == Permutations(Workers) \cup Permutations(Direct) \cup Permutations(Zipped)
=============================================================================
