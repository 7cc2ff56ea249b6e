--------------------------- MODULE MesaPayoutLoop ---------------------------
(***************************************************************************)
(* BolaoPrizeService.calculatePayouts as the code runs it: the loop over   *)
(* the groups of tied rows, the floors, and the loop that hands out what   *)
(* flooring left over. MesaPrize!Payouts is the closed form that the       *)
(* specification of the Mesas uses; this module shows that the loops       *)
(* compute it and stop. Fractions are exact here; the code's are doubles.  *)
(* Its names are none of Mesa's: MesaProofs extends both.                  *)
(***************************************************************************)
EXTENDS MesaPrize

CONSTANTS
    PrizeRows,        \* possible rows, with their technical order
    TechnicalOrder,
    Pools,            \* the pools, standings and distributions tried
    Standings,
    Distributions

ASSUME DivisionAssumption ==
    /\ IsFiniteSet(PrizeRows) /\ TechnicalOrder \in [PrizeRows -> Nat]
    /\ \A u, v \in PrizeRows : TechnicalOrder[u] = TechnicalOrder[v] => u = v
    /\ Pools \subseteq Int
    /\ Standings \subseteq [PrizeRows -> Nat]
    /\ \A d \in Distributions : d \in Seq(Nat) /\ IsDistribution(d)

VARIABLES
    prizePool, percentages, metrics, prizeRows,   \* the arguments
    groups,        \* positions of the groups not yet weighed
    weightedRows,  \* rows with a weight
    totalWeight,
    allocated,     \* what each row has so far
    remaining,     \* coins not handed out yet
    turn,          \* next place in the remainder order
    loopAt

arguments == <<prizePool, percentages, metrics, prizeRows>>
loopVars == <<arguments, groups, weightedRows, totalWeight, allocated, remaining,
              turn, loopAt>>

RowsAt(p) == {u \in prizeRows : Position(prizeRows, metrics, u) = p}
Percentage(i) ==
    IF i > Len(percentages) THEN 0
    ELSE percentages[i] - (IF i = 1 THEN 0 ELSE percentages[i - 1])

(* The sum of the percentages of the places a group occupies.               *)
GroupPercentage(p) ==
    SumFunction([i \in p..(p + Cardinality(RowsAt(p)) - 1) |-> Percentage(i)])

LoopInit ==
    /\ prizePool \in Pools
    /\ percentages \in Distributions
    /\ metrics \in Standings
    /\ prizeRows \in SUBSET PrizeRows
    /\ groups = {Position(prizeRows, metrics, u) : u \in prizeRows}
    /\ weightedRows = {}
    /\ totalWeight = 0
    /\ allocated = [u \in prizeRows |-> 0]
    /\ remaining = 0
    /\ turn = 1
    /\ loopAt = IF prizePool <= 0 \/ prizeRows = {} THEN "done" ELSE "weigh"

(* The groups come in the order of the ranking.                             *)
IsNextGroup(p) == p \in groups /\ \A q \in groups : p <= q

WeighGroup_SkipStays(p) ==
    /\ loopAt = "weigh" /\ IsNextGroup(p)
    /\ GroupPercentage(p) # 0
    /\ groups' = groups \ {p}
    /\ weightedRows' = weightedRows \cup RowsAt(p)
    /\ totalWeight' = totalWeight + GroupPercentage(p)
    /\ UNCHANGED <<arguments, allocated, remaining, turn, loopAt>>
(* One turn of the loop over the groups; a group without a prize is skipped. *)
WeighGroup(p) ==
    /\ loopAt = "weigh" /\ IsNextGroup(p)
    /\ groups' = groups \ {p}
    /\ IF GroupPercentage(p) = 0
       THEN UNCHANGED <<weightedRows, totalWeight>>
       ELSE /\ weightedRows' = weightedRows \cup RowsAt(p)
            /\ totalWeight' = totalWeight + GroupPercentage(p)
    /\ UNCHANGED <<arguments, allocated, remaining, turn, loopAt>>

(* weight / totalWeight of a row, as a fraction.                            *)
WeightOf(u) == GroupPercentage(Position(prizeRows, metrics, u))
Divisor(u) == Cardinality(Tied(prizeRows, metrics, u)) * totalWeight
Floor(u) == (prizePool * WeightOf(u)) \div Divisor(u)
Remainder(u) == (prizePool * WeightOf(u)) % Divisor(u)

(* Without weights nothing is allocated.                                    *)
Allocate ==
    /\ loopAt = "weigh" /\ groups = {}
    /\ allocated' = [u \in weightedRows |-> Floor(u)]
    /\ remaining' = prizePool - SumFunction(allocated')
    /\ loopAt' = IF weightedRows = {} \/ totalWeight = 0 THEN "done" ELSE "handOut"
    /\ UNCHANGED <<arguments, groups, weightedRows, totalWeight, turn>>

RemainderAhead(u, v) ==
    LET left  == Remainder(u) * Divisor(v)
        right == Remainder(v) * Divisor(u)
    IN  \/ left > right
        \/ left = right /\ RankedBefore(metrics, TechnicalOrder, u, v)

(* The row at a place of the remainder order.                               *)
IsAtPlace(u, i) ==
    Cardinality({v \in weightedRows : RemainderAhead(v, u)}) = i - 1

HandOut_KeepsFirst ==
    /\ loopAt = "handOut" /\ remaining > 0
    /\ \E u \in weightedRows :
          /\ \A v \in weightedRows \ {u} : RankedBefore(metrics, TechnicalOrder, u, v)
          /\ allocated' = [allocated EXCEPT ![u] = @ + 1]
    /\ remaining' = remaining - 1
    /\ UNCHANGED <<arguments, groups, weightedRows, totalWeight, turn, loopAt>>
(* One turn of the loop over the remainder order.                           *)
HandOut ==
    /\ loopAt = "handOut" /\ remaining > 0
    /\ \E u \in weightedRows :
          IsAtPlace(u, turn) /\ allocated' = [allocated EXCEPT ![u] = @ + 1]
    /\ remaining' = remaining - 1
    /\ turn' = (turn % Cardinality(weightedRows)) + 1
    /\ UNCHANGED <<arguments, groups, weightedRows, totalWeight, loopAt>>

Finish ==
    /\ loopAt = "handOut" /\ remaining <= 0
    /\ loopAt' = "done"
    /\ UNCHANGED <<arguments, groups, weightedRows, totalWeight, allocated, remaining,
                   turn>>

LoopNext == (\E p \in groups : WeighGroup(p)) \/ Allocate \/ HandOut \/ Finish

LoopSpec == LoopInit /\ [][LoopNext]_loopVars /\ WF_loopVars(LoopNext)

-----------------------------------------------------------------------------
(* Nothing is divided when there is no pool or nobody in it.                *)
Divides == prizePool > 0 /\ prizeRows # {}

(* No coin of the pool is lost or invented while it is divided, and in the  *)
(* end all are handed out ("maiores restos distribuem todas as tampinhas"). *)
PoolIsDivided ==
    /\ loopAt = "handOut" => TotalOf(allocated) + remaining = prizePool
    /\ loopAt = "done" /\ Divides => TotalOf(allocated) = prizePool

(* Tied rows get the same, or one coin apart when it cannot be split.       *)
TiesAreFair ==
    loopAt = "done" => \A u, v \in DOMAIN allocated :
        metrics[u] = metrics[v] => allocated[u] - allocated[v] <= 1

(* Both at once: the division is complete, and fair to the tied             *)
(* (bolao-prize.service.ts :106-113).                                       *)
DividedFairly == PoolIsDivided /\ TiesAreFair

(* The loops compute the closed form the Mesas are specified with           *)
(* (bolao-prize.service.ts :82-120).                                        *)
ComputesPayouts ==
    loopAt = "done" /\ prizePool > 0 =>
        allocated = Payouts(prizePool, percentages, prizeRows, metrics, TechnicalOrder)

(* The loops stop for every valid distribution.                             *)
Terminates == <>(loopAt = "done")
=============================================================================
