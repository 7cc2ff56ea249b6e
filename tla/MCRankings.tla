----------------------------- MODULE MCRankings -----------------------------
(* Small instances of Rankings for TLC. The month and the Mesa both run     *)
(* from 2 to 3; the first round closes before them, the second at their     *)
(* last moment and the third after them.                                    *)
EXTENDS Rankings, TLC

CONSTANTS p1, p2, a, b

ProcessSymmetry == Permutations(Processes)

Created == [u \in Users |-> IF u = a THEN -2 ELSE -1]
Closing == [r \in Rounds |-> CASE r = 1 -> 1 [] r = 2 -> 3 [] OTHER -> 4]
From == [w \in Periods \cup Mesas |-> 2]
To == [w \in Periods \cup Mesas |-> 3]

(* Two matches: a hits a Super Dupla and misses a Dupla, hits a Dupla, loses *)
(* a Dupla; b plays without multipliers and not in the first round.         *)
(* A match of the second round is cancelled.                                *)
Ask(x, y, m, n) == [prediction |-> <<x, y>>, multipliers |-> <<m, n>>]
Played == [r \in Rounds |-> [u \in Users |->
    CASE u = a /\ r = 1 -> Ask("1", "X", 4, 2)
      [] u = a /\ r = 2 -> Ask("1", "2", 2, 2)
      [] u = a /\ r = 3 -> Ask("2", "2", 2, 1)
      [] u = b /\ r = 1 -> None
      [] OTHER -> Ask("1", "1", 1, 1)]]
Outcome == [r \in Rounds |-> CASE r = 1 -> <<"1", "2">>
                               [] r = 2 -> <<"1", "C">>
                               [] OTHER -> <<"1", "X">>]

(* Rounds close in order, at most one moment early and as late as can be;   *)
(* the instance looks at the month or at the Mesa, and at what two          *)
(* processes do to the scores before anybody is in a ranking. One           *)
(* recomputation runs at a time (the job runner admits one a day).          *)
Nobody == \A k \in Rankings :
    /\ In(k) = {}
    /\ ranking[k] = IF k \in Monthly THEN "ABSENT" ELSE "ACTIVE"
RoundsInOrder ==
    /\ \A r \in Rounds : status[r] # "OPEN" => now >= CloseAt[r] - 1
    /\ \A r, q \in Rounds : status[r] # "OPEN" /\ q < r => status[q] # "OPEN"
Focus ==
    /\ \/ \A k \in Monthly : ranking[k] = "ABSENT"
       \/ \A k \in Rankings \ Monthly : In(k) = {} /\ ranking[k] = "ACTIVE"
    /\ torn => Nobody
    /\ (\E p \in Processes : Rebuilding(p)) => now = LastMoment
    /\ (\E p \in Processes : proc[p].at = "backfill") =>
          now = LastMoment /\ Nobody /\ status[2] # "SCORED"
    /\ scoreTotal[a] <= 4 /\ scoreTotal[b] <= 2
    /\ (\E p \in Processes : proc[p].at \in {"repairRead", "repairWrite"}) =>
          now = LastMoment /\ ~torn
    /\ (\A p \in Processes : proc[p].at # "idle") => now = LastMoment /\ Nobody
    /\ torn \/ (\A p \in Processes : proc[p].at # "idle") => status[3] = "OPEN"
    /\ \E p \in Processes : ~Rebuilding(p)
=============================================================================
