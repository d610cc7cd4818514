---------------------------- MODULE MCSttStage ----------------------------
(* SttStage for TLC.                                                       *)
EXTENDS SttStage, TLC

\* Recordings, workers and instants are interchangeable.
Symmetry == Permutations(Recordings) \cup Permutations(Workers) \cup Permutations(Stamps)
=============================================================================
