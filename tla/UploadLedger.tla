---------------------------- MODULE UploadLedger ----------------------------
(***************************************************************************)
(* What an upload client promises: a file that was offered waits until one *)
(* of its client's slots is free, is sent once and settles; no client ever *)
(* sends more than its limit, nor lets a slot idle while a file waits.     *)
(* BatchDesk implements it.                                                *)
(***************************************************************************)
EXTENDS Naturals, FiniteSets

CONSTANTS Files,    \* finitely many
          Clients,
          Limit     \* at least one

VARIABLES stage,  \* of each file: "none", "waiting", "sending" or "settled"
          client  \* the client each file was offered to

ledger == <<stage, client>>

At(c, s) == {f \in Files : client[f] = c /\ stage[f] = s}

\* No slot too many, no slot idle.
Balanced == \A c \in Clients :
    /\ Cardinality(At(c, "sending")) <= Limit
    /\ At(c, "waiting") # {} => Cardinality(At(c, "sending")) = Limit

Init == /\ stage = [f \in Files |-> "none"]
        /\ client \in [Files -> Clients \cup {0}]

\* Waiting files that a free slot takes.
Sends(before, after) == before = "waiting" /\ after = "sending"

Offer == \E c \in Clients, S \in (SUBSET Files) \ {{}} :
    /\ \A f \in S : stage[f] = "none" /\ stage'[f] \in {"waiting", "sending"} /\ client'[f] = c
    /\ \A f \in Files \ S : stage'[f] = stage[f] \/ (client[f] = c /\ Sends(stage[f], stage'[f]))
    /\ \A f \in Files \ S : client'[f] = client[f]

Settle == \E f \in Files :
    /\ stage[f] = "sending" /\ stage'[f] = "settled"
    /\ \A g \in Files \ {f} : stage'[g] = stage[g]
                                \/ (client[g] = client[f] /\ Sends(stage[g], stage'[g]))
    /\ client' = client

Next == (Offer \/ Settle) /\ Balanced'

Safety == Init /\ [][Next]_ledger

AllSettle == \A f \in Files : (stage[f] = "waiting" ~> stage[f] = "settled")

Spec == Safety /\ AllSettle
=============================================================================
