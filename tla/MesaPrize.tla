----------------------------- MODULE MesaPrize -----------------------------
(***************************************************************************)
(* How the pool of a Mesa (a private pool, "bolão") is formed from what    *)
(* its participants paid and divided among them when it is settled:        *)
(* BolaoPrizeService and the positions RankingTiebreakService.rank gives.  *)
(*                                                                         *)
(* Two abstractions of data. The metrics a row is compared by (score,      *)
(* Super Dupla hits, Dupla hits, account age) are one number, standing[u]: *)
(* lower is better and equal numbers are a tie; order[u] is the technical  *)
(* order by user id inside a tie. A prize distribution is its sequence of  *)
(* cumulative percentages, <<50, 80, 100>> for 50%, 30% and 20%.           *)
(***************************************************************************)
EXTENDS Integers, FiniteSets, Sequences, Functions

-----------------------------------------------------------------------------
(* A distribution validateDistribution accepts: positive percentages, one   *)
(* for each position from the first, that add up to 100.                    *)
IsDistribution(shares) ==
    /\ Len(shares) > 0
    /\ shares[Len(shares)] = 100
    /\ \A i \in 1..Len(shares) :
          shares[i] > (IF i = 1 THEN 0 ELSE shares[i - 1])

(* The fee is a tenth rounded down; whatever cannot be split stays in the   *)
(* pool.                                                                    *)
PlatformFee(gross) == gross \div 10
PrizePool(gross) == gross - PlatformFee(gross)

-----------------------------------------------------------------------------
(* Rows in the order of the sort: by the official metrics, then by user id. *)
RankedBefore(standing, order, u, v) ==
    \/ standing[u] < standing[v]
    \/ standing[u] = standing[v] /\ order[u] < order[v]

Tied(rows, standing, u) == {v \in rows : standing[v] = standing[u]}

(* Standard competition ranking: a tie shares the position of its first row *)
(* and the next row's position is its index.                                *)
Position(rows, standing, u) ==
    1 + Cardinality({v \in rows : standing[v] < standing[u]})

-----------------------------------------------------------------------------
(* The sum of the percentages of positions 1..n (0 past the last one).      *)
ShareUpTo(shares, n) ==
    IF n = 0 THEN 0 ELSE shares[IF n > Len(shares) THEN Len(shares) ELSE n]

(* The percentages of the positions that the tie of row u occupies.         *)
GroupShare(shares, rows, standing, u) ==
    LET first == Position(rows, standing, u)
        n     == Cardinality(Tied(rows, standing, u))
    IN  ShareUpTo(shares, first + n - 1) - ShareUpTo(shares, first - 1)

Winners(shares, rows, standing) ==
    {u \in rows : GroupShare(shares, rows, standing, u) > 0}

(* u's exact amount is the fraction Numerator / Denominator: the group's    *)
(* share split over its rows, scaled by the weight of the occupied places.  *)
Numerator(pool, shares, rows, standing, u) ==
    pool * GroupShare(shares, rows, standing, u)
Denominator(shares, rows, standing, u) ==
    Cardinality(Tied(rows, standing, u)) * ShareUpTo(shares, Cardinality(rows))

FloorAmount(pool, shares, rows, standing, u) ==
    Numerator(pool, shares, rows, standing, u)
        \div Denominator(shares, rows, standing, u)

(* What flooring left over, given out one by one by largest remainder, ties *)
(* of remainders in ranking order.                                          *)
Remaining(pool, shares, rows, standing) ==
    pool - SumFunction([u \in Winners(shares, rows, standing) |->
                           FloorAmount(pool, shares, rows, standing, u)])

RemainderBefore(pool, shares, rows, standing, order, u, v) ==
    LET remainder(w) == Numerator(pool, shares, rows, standing, w)
                            % Denominator(shares, rows, standing, w)
        left  == remainder(u) * Cardinality(Tied(rows, standing, v))
        right == remainder(v) * Cardinality(Tied(rows, standing, u))
    IN  \/ left > right
        \/ left = right /\ RankedBefore(standing, order, u, v)

ExtraCoin_Dropped(pool, shares, rows, standing, order, u) == 0
(* One coin for each of the first rows in that order.                       *)
ExtraCoin(pool, shares, rows, standing, order, u) ==
    LET ahead == {v \in Winners(shares, rows, standing) :
                     RemainderBefore(pool, shares, rows, standing, order, v, u)}
    IN  IF Cardinality(ahead) < Remaining(pool, shares, rows, standing)
        THEN 1 ELSE 0

(* calculatePayouts: what each row is paid, as a function on the winners.   *)
Payouts(pool, shares, rows, standing, order) ==
    [u \in {w \in Winners(shares, rows, standing) : pool > 0} |->
        FloorAmount(pool, shares, rows, standing, u)
            + ExtraCoin(pool, shares, rows, standing, order, u)]

(* The coins of an allocation, all together.                                *)
TotalOf(amounts) == SumFunction(amounts)
=============================================================================
