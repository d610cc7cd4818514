---------------------------- MODULE MCTradeDesk ----------------------------
(* TradeDesk for TLC: one trade and one call, that the engine pairs in one   *)
(* run and not in another.                                                   *)
EXTENDS TradeDesk, TLC

CONSTANTS t1, r1

Marks   == t1 :> "no_matching_recording" @@ r1 :> "suspicious"
Paired  == t1 :> [rec |-> r1, status |-> "needs_review"]
Apart   == t1 :> [rec |-> None, status |-> "needs_review"]
Outcome == {Paired, Apart}
=============================================================================
