-------------------------- MODULE MCRecordingDesk --------------------------
(* RecordingDesk for TLC: two criteria of different types, an answer that    *)
(* leaves one out and scores the other outside the scale.                   *)
EXTENDS RecordingDesk, TLC

CONSTANTS greeting, tone

Types   == greeting :> "pass_fail" @@ tone :> "scale_1_5"
Weights == greeting :> 2 @@ tone :> 1
Partly  == greeting :> [passed |-> "null", score |-> Unknown] @@ tone :> [passed |-> "false", score |-> 7]
LLM     == {Partly}
=============================================================================
