--------------------------- MODULE MCWorkerFleet ----------------------------
(* Small fleets for TLC.                                                   *)
EXTENDS WorkerFleet, TLC

CONSTANTS w1, w2, a, b, j1, j2, ws

OneMachine == [s \in {a, b} |-> w1]
TwoMachines == a :> w1 @@ b :> w2
OneSlot == [s \in {a} |-> w1]
OneWallet == [j \in {j1, j2} |-> ws]
OneJobWallet == [j \in {j1} |-> ws]
=============================================================================
