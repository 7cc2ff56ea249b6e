------------------------------ MODULE MCWorker ------------------------------
(* A small instance of Worker for TLC.                                      *)
EXTENDS Worker, TLC

CONSTANTS w1, c1, c2

(* One fault, or one deploy or outage. Only steps that no fairness asks for *)
(* are cut off.                                                             *)
OneTrouble == faults + deploys <= 1

(* Two calls of the alerts race each other, with no worker up; or a worker  *)
(* keeps up with what is due, and nobody calls.                             *)
Called ==
    \/ \E c \in Calls : ~At(c, "idle")
    \/ success[<<"alerts", 0>>] > 0 \/ running[<<"alerts", 0>>] > 0
CallsRace ==
    Called => /\ \A w \in Workers : proc[w].phase = "down"
              /\ deploys = 0 /\ period = 0 /\ registered = {}
              /\ <<"sweep", 0>> \notin due
=============================================================================
