---------------------------- MODULE MCEvalStage ----------------------------
(* EvalStage for TLC.                                                      *)
EXTENDS EvalStage, TLC

\* Workers are interchangeable (recordings too when all or none are expired).
Symmetry == Permutations(Workers)
=============================================================================
