---------------------------- MODULE MCBatchDesk ----------------------------
(* BatchDesk for TLC.                                                      *)
EXTENDS BatchDesk, TLC

CONSTANTS f1, f2

Contents == [f \in Files |-> IF f = f2 THEN 2 ELSE 1]
=============================================================================
