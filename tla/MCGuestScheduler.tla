--------------------------- MODULE MCGuestScheduler ---------------------------
(* Two guest threads, the first of them with windows of its own.            *)
EXTENDS GuestScheduler, FiniteSets

MCWorkers == {1, 2}
MCOwners == {Main, 1}

(* Bounds: messages and procedures of destroyed windows at a time, and      *)
(* messages and procedures of any kind once a sender waits in vain.         *)
MaxStrays    == 1
MaxAfterLoss == 2

Strays(list) == {i \in DOMAIN list : list[i].owner = Nobody}

Explored ==
  /\ Cardinality(Strays(queue)) + Cardinality(Strays(transfers)) <= MaxStrays
  /\ unheard # {} => Len(queue) + Len(transfers) <= MaxAfterLoss
=============================================================================
