----------------------------- MODULE MesaProofs -----------------------------
(***************************************************************************)
(* Proofs about the Mesas for every number of Mesas, users and concurrent  *)
(* transactions and every terms that satisfy TermsAssumption: the division *)
(* of a prize, the types, the life of a Mesa, its seats and invites, what  *)
(* it collects and pays, and that the Mesas implement the wallet.          *)
(***************************************************************************)
EXTENDS Mesa, MesaPayoutLoop, SumProofs

-----------------------------------------------------------------------------
(* Arithmetic of the prizes.                                                *)

(* The pool that remains after the fee is a number of coins.                *)
LEMMA PoolIsNat ==
    ASSUME NEW gross \in Nat
    PROVE  PlatformFee(gross) \in Nat /\ PrizePool(gross) \in Nat
  BY DEF PlatformFee, PrizePool

(* The cumulative percentages of a distribution are numbers, and positive   *)
(* from the first position on.                                              *)
LEMMA SharesArePositive ==
    ASSUME NEW shares \in Seq(Nat), IsDistribution(shares), NEW n \in Nat
    PROVE  /\ ShareUpTo(shares, n) \in Nat
           /\ n > 0 => ShareUpTo(shares, n) > 0
  <1>1. ASSUME NEW i \in 1..Len(shares) PROVE shares[i] \in Nat /\ shares[i] > 0
    <2>1. shares[i] \in Nat
      BY <1>1
    <2>2. shares[i] > (IF i = 1 THEN 0 ELSE shares[i - 1])
      BY <1>1 DEF IsDistribution
    <2>3. i # 1 => i - 1 \in 1..Len(shares)
      BY <1>1
    <2>4. i # 1 => shares[i - 1] \in Nat
      BY <2>3
    <2> QED BY <2>1, <2>2, <2>4
  <1>2. Len(shares) \in Nat /\ Len(shares) > 0
    BY DEF IsDistribution
  <1>3. CASE n = 0
    BY <1>3 DEF ShareUpTo
  <1>4. CASE n > 0
    <2> DEFINE i == IF n > Len(shares) THEN Len(shares) ELSE n
    <2>1. i \in 1..Len(shares)
      BY <1>2, <1>4
    <2>2. ShareUpTo(shares, n) = shares[i]
      BY <1>4 DEF ShareUpTo
    <2> QED BY <1>1, <2>1, <2>2
  <1> QED BY <1>3, <1>4

(* Rows that each have a standing, and a technical order among them.        *)
Ranked(rows, standing) == IsFiniteSet(rows) /\ \A u \in rows : standing[u] \in Nat
Ordered(rows, order) ==
    /\ \A u \in rows : order[u] \in Nat
    /\ \A u, v \in rows : order[u] = order[v] => u = v

(* A position is one more than the number of better rows.                   *)
LEMMA PositionIsPositive ==
    ASSUME NEW rows, NEW standing, NEW u, IsFiniteSet(rows)
    PROVE  Position(rows, standing, u) \in Nat \ {0}
  <1> DEFINE better == {v \in rows : standing[v] < standing[u]}
  <1>1. IsFiniteSet(better)
    BY FS_Subset
  <1>2. Cardinality(better) \in Nat
    BY <1>1, FS_CardinalityType
  <1> QED BY <1>2 DEF Position

(* What calculatePayouts gives a row is a number of coins.                  *)
LEMMA PayoutIsNat ==
    ASSUME NEW shares \in Seq(Nat), IsDistribution(shares), NEW pool \in Nat,
           NEW rows, NEW standing, Ranked(rows, standing),
           NEW order,
           NEW u \in DOMAIN Payouts(pool, shares, rows, standing, order)
    PROVE  /\ u \in rows
           /\ Payouts(pool, shares, rows, standing, order)[u] \in Nat
  <1> DEFINE n == Cardinality(Tied(rows, standing, u))
             first == Position(rows, standing, u)
             weight == GroupShare(shares, rows, standing, u)
             all == ShareUpTo(shares, Cardinality(rows))
  <1>1. u \in Winners(shares, rows, standing)
    BY DEF Payouts
  <1>2. u \in rows /\ weight > 0
    BY <1>1 DEF Winners
  <1>3. n \in Nat /\ n > 0
    <2>1. IsFiniteSet(Tied(rows, standing, u))
      BY FS_Subset DEF Ranked, Tied
    <2>2. u \in Tied(rows, standing, u)
      BY <1>2 DEF Tied
    <2> QED BY <2>1, <2>2, FS_CardinalityType, FS_EmptySet
  <1>4. Cardinality(rows) \in Nat /\ Cardinality(rows) > 0
    <2>1. IsFiniteSet(rows)
      BY DEF Ranked
    <2> QED BY <1>2, <2>1, FS_CardinalityType, FS_EmptySet
  <1>5. first \in Nat \ {0}
    BY PositionIsPositive DEF Ranked
  <1>6. weight \in Int
    <2> DEFINE last == first + n - 1
               before == first - 1
    <2>1. last \in Nat /\ before \in Nat
      BY <1>3, <1>5
    <2> HIDE DEF last, before
    <2>2. ShareUpTo(shares, last) \in Nat /\ ShareUpTo(shares, before) \in Nat
      BY <2>1, SharesArePositive
    <2>3. weight = ShareUpTo(shares, last) - ShareUpTo(shares, before)
      BY DEF GroupShare, last, before
    <2> QED BY <2>2, <2>3
  <1>7. all \in Nat /\ all > 0
    BY <1>4, SharesArePositive
  <1>8. FloorAmount(pool, shares, rows, standing, u) \in Nat
    <2>1. pool * weight \in Nat
      BY <1>2, <1>6
    <2>2. n * all \in Nat /\ n * all > 0
      BY <1>3, <1>7
    <2>3. \A a, b \in Nat : b > 0 => a \div b \in Nat
      OBVIOUS
    <2> QED BY <2>1, <2>2, <2>3 DEF FloorAmount, Numerator, Denominator
  <1>9. ExtraCoin(pool, shares, rows, standing, order, u) \in Nat
    BY DEF ExtraCoin
  <1> QED BY <1>2, <1>8, <1>9 DEF Payouts

-----------------------------------------------------------------------------
(* The division of a prize.                                                 *)

(* A distribution never gives less to more places.                          *)
LEMMA SharesGrow ==
    ASSUME NEW shares \in Seq(Nat), IsDistribution(shares), NEW k \in Nat, NEW n \in Nat
    PROVE  ShareUpTo(shares, k) <= ShareUpTo(shares, k + n)
  <1> DEFINE G == {j \in Nat : ShareUpTo(shares, k) <= ShareUpTo(shares, k + j)}
  <1>0. /\ Len(shares) \in Nat /\ Len(shares) > 0
        /\ \A i \in 1..Len(shares) : shares[i] \in Nat
        /\ \A i \in 1..Len(shares) : shares[i] > (IF i = 1 THEN 0 ELSE shares[i - 1])
    BY DEF IsDistribution
  <1>1. ASSUME NEW j \in Nat PROVE ShareUpTo(shares, j) \in Nat
    BY <1>0 DEF ShareUpTo
  <1>2. ASSUME NEW j \in Nat PROVE ShareUpTo(shares, j) <= ShareUpTo(shares, j + 1)
    <2>1. CASE j = 0
      BY <1>1, <2>1 DEF ShareUpTo
    <2>2. CASE j > 0 /\ j >= Len(shares)
      <3>1. ShareUpTo(shares, j) = ShareUpTo(shares, j + 1)
        BY <1>0, <2>2 DEF ShareUpTo
      <3> QED BY <1>1, <3>1
    <2>3. CASE j > 0 /\ j < Len(shares)
      <3>1. ShareUpTo(shares, j) = shares[j] /\ ShareUpTo(shares, j + 1) = shares[j + 1]
        BY <1>0, <2>3 DEF ShareUpTo
      <3>2. j + 1 \in 1..Len(shares) /\ j \in 1..Len(shares) /\ j + 1 # 1 /\ (j + 1) - 1 = j
        BY <1>0, <2>3
      <3>3. shares[j + 1] > shares[(j + 1) - 1]
        BY <1>0, <3>2
      <3> QED BY <1>0, <3>1, <3>2, <3>3
    <2> QED BY <1>0, <2>1, <2>2, <2>3
  <1>3. 0 \in G
    BY <1>1
  <1>4. ASSUME NEW j \in Nat, j \in G PROVE j + 1 \in G
    <2>1. ShareUpTo(shares, k + j) <= ShareUpTo(shares, k + j + 1)
      BY <1>2
    <2>2. /\ ShareUpTo(shares, k) \in Nat /\ ShareUpTo(shares, k + j) \in Nat
          /\ ShareUpTo(shares, k + (j + 1)) \in Nat
          /\ k + j + 1 = k + (j + 1)
      BY <1>1
    <2>3. ShareUpTo(shares, k) <= ShareUpTo(shares, k + (j + 1))
      BY <1>4, <2>1, <2>2
    <2> QED BY <2>3
  <1> HIDE DEF G
  <1>5. Nat \subseteq G
    BY <1>3, <1>4, NatSetInduction
  <1> QED BY <1>5 DEF G

(* The rows ahead of a standing, and those that have it.                    *)
Ahead(rows, standing, s) == {v \in rows : standing[v] < s}
(* The rows of one standing.                                               *)
Group(rows, standing, s) == {v \in rows : standing[v] = s}

LEMMA GroupsOfRows ==
    ASSUME NEW rows, NEW standing, Ranked(rows, standing), NEW s \in Nat
    PROVE  /\ IsFiniteSet(rows) /\ Cardinality(rows) \in Nat
           /\ IsFiniteSet(Ahead(rows, standing, s)) /\ Cardinality(Ahead(rows, standing, s)) \in Nat
           /\ IsFiniteSet(Group(rows, standing, s)) /\ Cardinality(Group(rows, standing, s)) \in Nat
           /\ Ahead(rows, standing, s) \cap Group(rows, standing, s) = {}
           /\ Ahead(rows, standing, s + 1) = Ahead(rows, standing, s) \cup Group(rows, standing, s)
           /\ Cardinality(Ahead(rows, standing, s + 1)) =
                 Cardinality(Ahead(rows, standing, s)) + Cardinality(Group(rows, standing, s))
  <1>1. IsFiniteSet(rows) /\ IsFiniteSet(Ahead(rows, standing, s)) /\ IsFiniteSet(Group(rows, standing, s))
    BY FS_Subset DEF Ranked, Ahead, Group
  <1>2. /\ Cardinality(rows) \in Nat /\ Cardinality(Ahead(rows, standing, s)) \in Nat
        /\ Cardinality(Group(rows, standing, s)) \in Nat
    BY <1>1, FS_CardinalityType
  <1>3. Ahead(rows, standing, s) \cap Group(rows, standing, s) = {}
    BY DEF Ranked, Ahead, Group
  <1>4. Ahead(rows, standing, s + 1) = Ahead(rows, standing, s) \cup Group(rows, standing, s)
    BY DEF Ranked, Ahead, Group
  <1>5. Cardinality(Ahead(rows, standing, s) \cup Group(rows, standing, s)) =
           Cardinality(Ahead(rows, standing, s)) + Cardinality(Group(rows, standing, s))
             - Cardinality(Ahead(rows, standing, s) \cap Group(rows, standing, s))
    BY <1>1, FS_Union
  <1>6. Cardinality(Ahead(rows, standing, s) \cap Group(rows, standing, s)) = 0
    BY <1>3, FS_EmptySet
  <1>7. Cardinality(Ahead(rows, standing, s) \cup Group(rows, standing, s)) =
           Cardinality(Ahead(rows, standing, s)) + Cardinality(Group(rows, standing, s))
    <2> DEFINE a == Cardinality(Ahead(rows, standing, s))
               g == Cardinality(Group(rows, standing, s))
               z == Cardinality(Ahead(rows, standing, s) \cap Group(rows, standing, s))
               c == Cardinality(Ahead(rows, standing, s) \cup Group(rows, standing, s))
    <2>1. a \in Nat /\ g \in Nat /\ z = 0 /\ c = a + g - z
      BY <1>2, <1>5, <1>6
    <2> HIDE DEF a, g, z, c
    <2>2. c = a + g
      BY <2>1
    <2> QED BY <2>2 DEF a, g, c
  <1> QED BY <1>1, <1>2, <1>3, <1>4, <1>7

(* Flooring n equal shares of a fraction gives at most the fraction.        *)
LEMMA FloorsBelow ==
    ASSUME NEW x \in Nat, NEW n \in Nat \ {0}, NEW T \in Nat \ {0}
    PROVE  /\ x \div (n * T) \in Nat
           /\ T * (n * (x \div (n * T))) <= x
  <1>1. PICK d \in Nat \ {0} : d = n * T
    OBVIOUS
  <1>2. PICK q \in Nat : q = x \div d
    OBVIOUS
  <1>3. d * q <= x
    BY <1>2
  <1>4. T * (n * q) = d * q
    BY <1>1
  <1> QED BY <1>1, <1>2, <1>3, <1>4

(* What a row of standing s gets before the remainders: its group's share,  *)
(* rounded down.                                                            *)
LEMMA FloorOfGroup ==
    ASSUME NEW shares \in Seq(Nat), IsDistribution(shares), NEW pool \in Nat,
           NEW rows, NEW standing, Ranked(rows, standing), NEW u \in rows, NEW s, s = standing[u],
           NEW n, n = Cardinality(Group(rows, standing, s)),
           NEW a, a = Cardinality(Ahead(rows, standing, s)),
           NEW T, T = ShareUpTo(shares, Cardinality(rows)),
           NEW w, w = ShareUpTo(shares, a + n) - ShareUpTo(shares, a)
    PROVE  /\ n \in Nat \ {0} /\ T \in Nat \ {0} /\ w \in Nat
           /\ Cardinality(Tied(rows, standing, u)) = n
           /\ GroupShare(shares, rows, standing, u) = w
           /\ Numerator(pool, shares, rows, standing, u) = pool * w
           /\ Denominator(shares, rows, standing, u) = n * T
           /\ FloorAmount(pool, shares, rows, standing, u) = (pool * w) \div (n * T)
           /\ FloorAmount(pool, shares, rows, standing, u) \in Nat
  <1>1. s \in Nat
    BY DEF Ranked
  <1>2. u \in Group(rows, standing, s) /\ Group(rows, standing, s) = Tied(rows, standing, u)
    BY DEF Group, Tied
  <1>3. /\ n \in Nat /\ a \in Nat /\ IsFiniteSet(Group(rows, standing, s))
        /\ IsFiniteSet(rows) /\ Cardinality(rows) \in Nat
    BY <1>1, GroupsOfRows
  <1>4. n # 0 /\ Cardinality(rows) # 0
    BY <1>2, <1>3, FS_EmptySet
  <1>5. T \in Nat /\ T # 0
    <2>1. PICK c \in Nat : c = Cardinality(rows)
      BY <1>3
    <2>2. ShareUpTo(shares, c) \in Nat /\ (c > 0 => ShareUpTo(shares, c) > 0)
      BY SharesArePositive
    <2> QED BY <1>4, <2>1, <2>2
  <1>6. w \in Nat
    <2>1. ShareUpTo(shares, a) <= ShareUpTo(shares, a + n)
      BY <1>3, SharesGrow
    <2>2. a + n \in Nat
      BY <1>3
    <2>3. ShareUpTo(shares, a) \in Nat /\ ShareUpTo(shares, a + n) \in Nat
      BY <1>3, <2>2, SharesArePositive
    <2> QED BY <2>1, <2>3
  <1>7. Position(rows, standing, u) = 1 + a
    BY DEF Position, Ahead
  <1>8. GroupShare(shares, rows, standing, u) = w
    <2>1. (1 + a) + n - 1 = a + n /\ (1 + a) - 1 = a
      BY <1>3
    <2> QED BY <1>2, <1>7, <2>1 DEF GroupShare
  <1>9. /\ Numerator(pool, shares, rows, standing, u) = pool * w
        /\ Denominator(shares, rows, standing, u) = n * T
        /\ FloorAmount(pool, shares, rows, standing, u) = (pool * w) \div (n * T)
        /\ Cardinality(Tied(rows, standing, u)) = n
    BY <1>2, <1>8 DEF Numerator, Denominator, FloorAmount
  <1>10. (pool * w) \div (n * T) \in Nat
    <2>1. pool * w \in Nat /\ n \in Nat \ {0} /\ T \in Nat \ {0}
      BY <1>3, <1>4, <1>5, <1>6
    <2> QED BY <2>1, FloorsBelow
  <1> QED BY <1>3, <1>4, <1>5, <1>6, <1>8, <1>9, <1>10

(* The floors of a group are covered by the share of its places.            *)
LEMMA FloorsOfGroup ==
    ASSUME NEW shares \in Seq(Nat), IsDistribution(shares), NEW pool \in Nat,
           NEW rows, NEW standing, Ranked(rows, standing), NEW s \in Nat,
           NEW f, \A u \in rows : f[u] = FloorAmount(pool, shares, rows, standing, u),
           NEW n, n = Cardinality(Group(rows, standing, s)),
           NEW a, a = Cardinality(Ahead(rows, standing, s)),
           NEW T, T = ShareUpTo(shares, Cardinality(rows)),
           NEW w, w = ShareUpTo(shares, a + n) - ShareUpTo(shares, a)
    PROVE  T * SumFunctionOnSet(f, Group(rows, standing, s)) <= pool * w
  <1>1. CASE Group(rows, standing, s) = {}
    <2>1. SumFunctionOnSet(f, Group(rows, standing, s)) = 0 /\ n = 0
      BY <1>1, SumEmpty, FS_EmptySet
    <2>2. a \in Nat /\ Cardinality(rows) \in Nat
      BY GroupsOfRows
    <2>3. w = 0 /\ T \in Nat
      BY <2>1, <2>2, SharesArePositive
    <2> QED BY <2>1, <2>3
  <1>2. CASE Group(rows, standing, s) # {}
    <2>1. ASSUME NEW v \in Group(rows, standing, s)
          PROVE  /\ n \in Nat \ {0} /\ T \in Nat \ {0} /\ w \in Nat
                 /\ f[v] = (pool * w) \div (n * T)
      <3>1. v \in rows /\ s = standing[v]
        BY DEF Group
      <3>2. /\ n \in Nat \ {0} /\ T \in Nat \ {0} /\ w \in Nat
            /\ FloorAmount(pool, shares, rows, standing, v) = (pool * w) \div (n * T)
        BY <3>1, FloorOfGroup
      <3>3. f[v] = FloorAmount(pool, shares, rows, standing, v)
        BY <3>1
      <3> QED BY <3>2, <3>3
    <2>2. n \in Nat \ {0} /\ T \in Nat \ {0} /\ w \in Nat
      BY <1>2, <2>1
    <2>3. PICK x : x \in Nat /\ x = pool * w
      BY <2>2
    <2>4. PICK q : q = x \div (n * T)
      OBVIOUS
    <2>5. q \in Nat /\ T * (n * q) <= x
      BY <2>2, <2>3, <2>4, FloorsBelow
    <2>6. \A v \in Group(rows, standing, s) : f[v] = q
      BY <2>1, <2>3, <2>4
    <2>7. q \in Int /\ IsFiniteSet(Group(rows, standing, s))
      BY <2>5, GroupsOfRows
    <2>8. SumFunctionOnSet(f, Group(rows, standing, s)) = Cardinality(Group(rows, standing, s)) * q
      BY <2>6, <2>7, SumConstant
    <2> QED BY <2>3, <2>5, <2>8
  <1> QED BY <1>1, <1>2

LEMMA FloorsNat ==
    ASSUME NEW shares \in Seq(Nat), IsDistribution(shares), NEW pool \in Nat,
           NEW rows, NEW standing, Ranked(rows, standing), NEW u \in rows
    PROVE  /\ ShareUpTo(shares, Cardinality(rows)) \in Nat \ {0}
           /\ FloorAmount(pool, shares, rows, standing, u) \in Nat
  <1>1. PICK s, n, a, t, w :
           /\ s = standing[u]
           /\ n = Cardinality(Group(rows, standing, s))
           /\ a = Cardinality(Ahead(rows, standing, s))
           /\ t = ShareUpTo(shares, Cardinality(rows))
           /\ w = ShareUpTo(shares, a + n) - ShareUpTo(shares, a)
    OBVIOUS
  <1>2. t \in Nat \ {0} /\ FloorAmount(pool, shares, rows, standing, u) \in Nat
    BY <1>1, FloorOfGroup
  <1> QED BY <1>1, <1>2

(* The floors of the rows ahead of a standing are covered by the share of   *)
(* their places: one step.                                                  *)
LEMMA FloorsOneMore ==
    ASSUME NEW shares \in Seq(Nat), IsDistribution(shares), NEW pool \in Nat,
           NEW rows, NEW standing, Ranked(rows, standing), NEW s \in Nat,
           NEW f, \A u \in rows : f[u] = FloorAmount(pool, shares, rows, standing, u),
           NEW T, T = ShareUpTo(shares, Cardinality(rows)),
           T * SumFunctionOnSet(f, Ahead(rows, standing, s))
              <= pool * ShareUpTo(shares, Cardinality(Ahead(rows, standing, s)))
    PROVE  T * SumFunctionOnSet(f, Ahead(rows, standing, s + 1))
              <= pool * ShareUpTo(shares, Cardinality(Ahead(rows, standing, s + 1)))
  <1>1. PICK n, a : n = Cardinality(Group(rows, standing, s)) /\ a = Cardinality(Ahead(rows, standing, s))
    OBVIOUS
  <1>2. /\ n \in Nat /\ a \in Nat /\ Cardinality(rows) \in Nat
        /\ Cardinality(Ahead(rows, standing, s + 1)) = a + n
        /\ IsFiniteSet(Ahead(rows, standing, s)) /\ IsFiniteSet(Group(rows, standing, s))
        /\ Ahead(rows, standing, s) \cap Group(rows, standing, s) = {}
        /\ Ahead(rows, standing, s + 1) = Ahead(rows, standing, s) \cup Group(rows, standing, s)
    BY <1>1, GroupsOfRows
  <1>3. PICK b : b \in Nat /\ b = a + n
    BY <1>2
  <1>4. PICK x, y : x = ShareUpTo(shares, a) /\ y = ShareUpTo(shares, b)
    OBVIOUS
  <1>5. x \in Nat /\ y \in Nat /\ T \in Nat
    BY <1>2, <1>3, <1>4, SharesArePositive
  <1>6. PICK A, B : /\ A = SumFunctionOnSet(f, Ahead(rows, standing, s))
                    /\ B = SumFunctionOnSet(f, Group(rows, standing, s))
    OBVIOUS
  <1>7. \A u \in Ahead(rows, standing, s) \cup Group(rows, standing, s) : f[u] \in Nat
    BY FloorsNat DEF Ahead, Group
  <1>8. SumFunctionOnSet(f, Ahead(rows, standing, s + 1)) = A + B
    BY <1>2, <1>6, <1>7, SumUnion
  <1>9. A \in Nat /\ B \in Nat
    BY <1>2, <1>6, <1>7, SumNat
  <1>10. T * B <= pool * (y - x)
    BY <1>1, <1>3, <1>4, <1>6, FloorsOfGroup
  <1>11. T * A <= pool * x
    BY <1>1, <1>4, <1>6
  <1>12. T * (A + B) <= pool * y
    <2>1. T * (A + B) = T * A + T * B /\ pool * (y - x) = pool * y - pool * x
      BY <1>5, <1>9
    <2>2. T * A \in Nat /\ T * B \in Nat /\ pool * x \in Nat /\ pool * y \in Nat
      BY <1>5, <1>9
    <2> QED BY <1>10, <1>11, <2>1, <2>2
  <1> QED BY <1>2, <1>3, <1>4, <1>8, <1>12

LEMMA FloorsUpTo ==
    ASSUME NEW shares \in Seq(Nat), IsDistribution(shares), NEW pool \in Nat,
           NEW rows, NEW standing, Ranked(rows, standing), NEW s \in Nat,
           NEW f, \A u \in rows : f[u] = FloorAmount(pool, shares, rows, standing, u),
           NEW T, T = ShareUpTo(shares, Cardinality(rows))
    PROVE  T * SumFunctionOnSet(f, Ahead(rows, standing, s))
              <= pool * ShareUpTo(shares, Cardinality(Ahead(rows, standing, s)))
  <1> DEFINE G == {k \in Nat : T * SumFunctionOnSet(f, Ahead(rows, standing, k))
                     <= pool * ShareUpTo(shares, Cardinality(Ahead(rows, standing, k)))}
  <1>1. 0 \in G
    <2>1. Ahead(rows, standing, 0) = {}
      BY DEF Ranked, Ahead
    <2>2. SumFunctionOnSet(f, Ahead(rows, standing, 0)) = 0 /\ Cardinality(Ahead(rows, standing, 0)) = 0
      BY <2>1, SumEmpty, FS_EmptySet
    <2>3. ShareUpTo(shares, 0) = 0
      BY DEF ShareUpTo
    <2>4. Cardinality(rows) \in Nat
      BY GroupsOfRows
    <2>5. T \in Nat
      BY <2>4, SharesArePositive
    <2> QED BY <2>2, <2>3, <2>5
  <1>2. ASSUME NEW k \in Nat, k \in G PROVE k + 1 \in G
    BY <1>2, FloorsOneMore
  <1> HIDE DEF G
  <1>3. Nat \subseteq G
    BY <1>1, <1>2, NatSetInduction
  <1> QED BY <1>3 DEF G

(* The floors never exceed the pool.                                        *)
LEMMA FloorsCovered ==
    ASSUME NEW shares \in Seq(Nat), IsDistribution(shares), NEW pool \in Nat,
           NEW rows, NEW standing, Ranked(rows, standing),
           NEW f, \A u \in rows : f[u] = FloorAmount(pool, shares, rows, standing, u)
    PROVE  SumFunctionOnSet(f, rows) \in Nat /\ SumFunctionOnSet(f, rows) <= pool
  <1>1. IsFiniteSet(rows) /\ Cardinality(rows) \in Nat
    BY FS_CardinalityType DEF Ranked
  <1>2. PICK T, x : T = ShareUpTo(shares, Cardinality(rows)) /\ x = SumFunctionOnSet(f, rows)
    OBVIOUS
  <1>3. x \in Nat
    BY <1>1, <1>2, FloorsNat, SumNat
  <1>4. CASE rows = {}
    BY <1>2, <1>3, <1>4, SumEmpty
  <1>5. CASE rows # {}
    <2>1. PICK s \in Nat : \A u \in rows : standing[u] < s
      BY <1>1, NumbersBounded DEF Ranked
    <2>2. Ahead(rows, standing, s) = rows
      BY <2>1 DEF Ahead
    <2>3. T * x <= pool * T
      BY <1>2, <2>2, FloorsUpTo
    <2>4. T \in Nat \ {0}
      BY <1>2, <1>5, FloorsNat
    <2>5. x <= pool
      <3>1. SUFFICES ASSUME x >= pool + 1 PROVE FALSE
        BY <1>3
      <3>2. T * x >= T * (pool + 1)
        BY <1>3, <2>4, <3>1
      <3>3. T * (pool + 1) = T * pool + T /\ pool * T = T * pool
        BY <2>4
      <3>4. T * x \in Nat /\ T * pool \in Nat
        BY <1>3, <2>4
      <3> QED BY <2>3, <2>4, <3>2, <3>3, <3>4
    <2> QED BY <1>2, <1>3, <2>5
  <1> QED BY <1>4, <1>5

-----------------------------------------------------------------------------
(* The order in which the coins that remain are given out.                  *)

(* a / p >= b / q, cross-multiplied, is transitive, strictly if one of the  *)
(* two comparisons is strict.                                               *)
LEMMA FractionsOrdered ==
    ASSUME NEW a \in Nat, NEW b \in Nat, NEW c \in Nat,
           NEW p \in Nat \ {0}, NEW q \in Nat \ {0}, NEW r \in Nat \ {0},
           a * q >= b * p, b * r >= c * q
    PROVE  /\ a * r >= c * p
           /\ a * q > b * p \/ b * r > c * q => a * r > c * p
           /\ a * r = c * p => a * q = b * p /\ b * r = c * q
  <1> DEFINE x == a * r
             y == c * p
  <1>1. x \in Nat /\ y \in Nat
    OBVIOUS
  <1>2. (a * q) * r = q * x /\ (c * q) * p = q * y
    OBVIOUS
  <1>3. (b * p) * r = (b * r) * p
    OBVIOUS
  <1>4. (a * q) * r >= (b * p) * r /\ (a * q > b * p => (a * q) * r > (b * p) * r)
    <2>1. PICK u, v : u = a * q /\ v = b * p /\ u \in Nat /\ v \in Nat
      OBVIOUS
    <2>2. u >= v => u * r >= v * r
      BY <2>1
    <2>3. u > v => u * r > v * r
      BY <2>1
    <2> QED BY <2>1, <2>2, <2>3
  <1>5. (b * r) * p >= (c * q) * p /\ (b * r > c * q => (b * r) * p > (c * q) * p)
    <2>1. PICK u, v : u = b * r /\ v = c * q /\ u \in Nat /\ v \in Nat
      OBVIOUS
    <2>2. u >= v => u * p >= v * p
      BY <2>1
    <2>3. u > v => u * p > v * p
      BY <2>1
    <2> QED BY <2>1, <2>2, <2>3
  <1>6. PICK s, t, k : /\ s = (a * q) * r /\ t = (b * p) * r /\ k = (c * q) * p
                       /\ s \in Nat /\ t \in Nat /\ k \in Nat
    OBVIOUS
  <1>7. /\ q * x >= q * y
        /\ a * q > b * p \/ b * r > c * q => q * x > q * y
    BY <1>2, <1>3, <1>4, <1>5, <1>6
  <1> HIDE DEF x, y
  <1>8. /\ q * x >= q * y => x >= y
        /\ q * x > q * y => x > y
    BY <1>1
  <1>9. x >= y /\ (a * q > b * p \/ b * r > c * q => x > y)
    BY <1>7, <1>8
  <1>10. x = y => a * q = b * p /\ b * r = c * q
    <2>1. a * q \in Nat /\ b * p \in Nat /\ b * r \in Nat /\ c * q \in Nat
      OBVIOUS
    <2> QED BY <1>1, <1>9, <2>1
  <1> QED BY <1>9, <1>10 DEF x, y

(* What flooring leaves of a row's exact amount.                           *)
RemainderOf(pool, shares, rows, standing, u) ==
    Numerator(pool, shares, rows, standing, u) % Denominator(shares, rows, standing, u)

LEMMA RemaindersNat ==
    ASSUME NEW shares \in Seq(Nat), IsDistribution(shares), NEW pool \in Nat,
           NEW rows, NEW standing, Ranked(rows, standing), NEW u \in rows
    PROVE  /\ RemainderOf(pool, shares, rows, standing, u) \in Nat
           /\ Cardinality(Tied(rows, standing, u)) \in Nat \ {0}
  <1>1. PICK s, n, a, t, w :
           /\ s = standing[u]
           /\ n = Cardinality(Group(rows, standing, s))
           /\ a = Cardinality(Ahead(rows, standing, s))
           /\ t = ShareUpTo(shares, Cardinality(rows))
           /\ w = ShareUpTo(shares, a + n) - ShareUpTo(shares, a)
    OBVIOUS
  <1>2. /\ t \in Nat \ {0} /\ n \in Nat \ {0} /\ w \in Nat
        /\ Cardinality(Tied(rows, standing, u)) = n
        /\ Numerator(pool, shares, rows, standing, u) = pool * w
        /\ Denominator(shares, rows, standing, u) = n * t
    BY <1>1, FloorOfGroup
  <1>3. pool * w \in Nat /\ n * t \in Nat \ {0}
    BY <1>2
  <1>4. \A x \in Nat, d \in Nat \ {0} : x % d \in Nat
    OBVIOUS
  <1>5. (pool * w) % (n * t) \in Nat
    BY <1>3, <1>4
  <1> QED BY <1>2, <1>5 DEF RemainderOf

(* The order of the remainders is total and transitive.                     *)
LEMMA RemainderOrder ==
    ASSUME NEW shares \in Seq(Nat), IsDistribution(shares), NEW pool \in Nat,
           NEW rows, NEW standing, Ranked(rows, standing),
           NEW order, Ordered(rows, order), NEW u \in rows, NEW v \in rows, NEW w \in rows
    PROVE  /\ u # v => \/ RemainderBefore(pool, shares, rows, standing, order, u, v)
                       \/ RemainderBefore(pool, shares, rows, standing, order, v, u)
           /\ /\ RemainderBefore(pool, shares, rows, standing, order, u, v)
              /\ RemainderBefore(pool, shares, rows, standing, order, v, w)
              => RemainderBefore(pool, shares, rows, standing, order, u, w)
  <1>1. PICK a, b, c, p, q, r :
           /\ a = RemainderOf(pool, shares, rows, standing, u)
           /\ b = RemainderOf(pool, shares, rows, standing, v)
           /\ c = RemainderOf(pool, shares, rows, standing, w)
           /\ p = Cardinality(Tied(rows, standing, u))
           /\ q = Cardinality(Tied(rows, standing, v))
           /\ r = Cardinality(Tied(rows, standing, w))
    OBVIOUS
  <1>2. /\ a \in Nat /\ b \in Nat /\ c \in Nat
        /\ p \in Nat \ {0} /\ q \in Nat \ {0} /\ r \in Nat \ {0}
    BY <1>1, RemaindersNat
  <1>3. /\ RemainderBefore(pool, shares, rows, standing, order, u, v) <=>
              a * q > b * p \/ (a * q = b * p /\ RankedBefore(standing, order, u, v))
        /\ RemainderBefore(pool, shares, rows, standing, order, v, u) <=>
              b * p > a * q \/ (b * p = a * q /\ RankedBefore(standing, order, v, u))
        /\ RemainderBefore(pool, shares, rows, standing, order, v, w) <=>
              b * r > c * q \/ (b * r = c * q /\ RankedBefore(standing, order, v, w))
        /\ RemainderBefore(pool, shares, rows, standing, order, u, w) <=>
              a * r > c * p \/ (a * r = c * p /\ RankedBefore(standing, order, u, w))
    BY <1>1 DEF RemainderBefore, RemainderOf
  <1>4. /\ u # v => RankedBefore(standing, order, u, v) \/ RankedBefore(standing, order, v, u)
        /\ RankedBefore(standing, order, u, v) /\ RankedBefore(standing, order, v, w)
              => RankedBefore(standing, order, u, w)
    <2>1. /\ \A x \in {u, v, w} : standing[x] \in Nat /\ order[x] \in Nat
          /\ order[u] = order[v] => u = v
      BY DEF Ranked, Ordered
    <2> QED BY <2>1 DEF RankedBefore
  <1>5. /\ a * q \in Nat /\ b * p \in Nat /\ b * r \in Nat /\ c * q \in Nat
        /\ a * r \in Nat /\ c * p \in Nat
    BY <1>2
  <1>6. ASSUME RemainderBefore(pool, shares, rows, standing, order, u, v),
               RemainderBefore(pool, shares, rows, standing, order, v, w)
        PROVE  RemainderBefore(pool, shares, rows, standing, order, u, w)
    <2>1. a * q >= b * p /\ b * r >= c * q
      BY <1>3, <1>5, <1>6
    <2>2. /\ a * r >= c * p
          /\ a * q > b * p \/ b * r > c * q => a * r > c * p
      BY <1>2, <2>1, FractionsOrdered
    <2>3. CASE a * q > b * p \/ b * r > c * q
      BY <1>3, <2>2, <2>3
    <2>4. CASE a * q = b * p /\ b * r = c * q
      BY <1>3, <1>4, <1>5, <1>6, <2>2, <2>4
    <2> QED BY <1>5, <2>1, <2>3, <2>4
  <1>7. u # v => \/ RemainderBefore(pool, shares, rows, standing, order, u, v)
                 \/ RemainderBefore(pool, shares, rows, standing, order, v, u)
    BY <1>3, <1>4, <1>5
  <1> QED BY <1>6, <1>7

(* The coins given out one by one are not more than remained.               *)
LEMMA ExtraCoinsCovered ==
    ASSUME NEW shares \in Seq(Nat), IsDistribution(shares), NEW pool \in Nat,
           NEW rows, NEW standing, Ranked(rows, standing),
           NEW order, Ordered(rows, order),
           NEW W, W = Winners(shares, rows, standing),
           NEW R \in Nat, R = Remaining(pool, shares, rows, standing),
           NEW f, \A u \in W :
                     f[u] = ExtraCoin(pool, shares, rows, standing, order, u)
    PROVE  SumFunctionOnSet(f, W) <= R
  <1> DEFINE before == {e \in W \X W :
                 RemainderBefore(pool, shares, rows, standing, order, e[1], e[2])}
             ahead(u) == {v \in W :
                 RemainderBefore(pool, shares, rows, standing, order, v, u)}
             E == {u \in W : Cardinality(ahead(u)) < R}
  <1>1. W \subseteq rows /\ IsFiniteSet(W)
    BY FS_Subset DEF Ranked, Winners
  <1>2. IsFiniteSet(E) /\ Cardinality(E) \in Nat /\ E \subseteq W
    BY <1>1, FS_Subset, FS_CardinalityType
  <1>3. \A u \in W : f[u] = IF u \in E THEN 1 ELSE 0
    BY DEF ExtraCoin
  <1>4. SumFunctionOnSet(f, W) = Cardinality(E)
    <2> HIDE DEF E
    <2>1. SumFunctionOnSet(f, E) = SumFunctionOnSet(f, W)
      BY <1>1, <1>2, <1>3, SumExtend
    <2>2. \A u \in E : f[u] = 1
      BY <1>2, <1>3
    <2>3. SumFunctionOnSet(f, E) = Cardinality(E) * 1
      BY <1>2, <2>2, SumConstant
    <2> QED BY <1>2, <2>1, <2>3
  <1>5. CASE E = {}
    <2>1. Cardinality(E) = 0
      BY <1>5, FS_EmptySet
    <2> QED BY <1>4, <2>1
  <1>6. CASE E # {}
    <2>1. \A x, y, z \in E :
             <<x, y>> \in before /\ <<y, z>> \in before => <<x, z>> \in before
      <3> TAKE x, y, z \in E
      <3>1. x \in W /\ y \in W /\ z \in W /\ x \in rows /\ y \in rows /\ z \in rows
        BY <1>1, <1>2
      <3> HIDE DEF E
      <3>2. /\ RemainderBefore(pool, shares, rows, standing, order, x, y)
            /\ RemainderBefore(pool, shares, rows, standing, order, y, z)
            => RemainderBefore(pool, shares, rows, standing, order, x, z)
        BY <3>1, RemainderOrder
      <3> QED BY <3>1, <3>2
    <2>2. \A x, y \in E : x # y => <<x, y>> \in before \/ <<y, x>> \in before
      <3> TAKE x, y \in E
      <3>1. x \in W /\ y \in W /\ x \in rows /\ y \in rows
        BY <1>1, <1>2
      <3> HIDE DEF E
      <3>2. x # y => \/ RemainderBefore(pool, shares, rows, standing, order, x, y)
                     \/ RemainderBefore(pool, shares, rows, standing, order, y, x)
        BY <3>1, RemainderOrder
      <3> QED BY <3>1, <3>2
    <2>3. PICK x \in E : \A y \in E \ {x} : <<y, x>> \in before
      <3>1. IsFiniteSet(E)
        BY <1>2
      <3> HIDE DEF E, before
      <3> QED BY <1>6, <2>1, <2>2, <3>1, LastElement
    <2>4. E \ {x} \subseteq ahead(x)
      BY <2>3
    <2>5. IsFiniteSet(ahead(x)) /\ Cardinality(ahead(x)) \in Nat
      BY <1>1, FS_Subset, FS_CardinalityType
    <2>6. Cardinality(ahead(x)) < R
      BY <2>3
    <2> HIDE DEF E, ahead
    <2>7. Cardinality(E \ {x}) <= Cardinality(ahead(x))
      BY <2>4, <2>5, FS_Subset
    <2>8. Cardinality(E \ {x}) = Cardinality(E) - 1
      BY <1>2, <2>3, FS_RemoveElement
    <2>9. Cardinality(E) <= R
      BY <1>2, <2>5, <2>6, <2>7, <2>8
    <2> QED BY <1>4, <2>9
  <1> QED BY <1>5, <1>6

(* What calculatePayouts gives is at most the pool, all together.           *)
LEMMA DivisionCovered ==
    ASSUME NEW shares \in Seq(Nat), IsDistribution(shares), NEW pool \in Nat,
           NEW rows, NEW standing, Ranked(rows, standing),
           NEW order, Ordered(rows, order),
           NEW payout, payout = Payouts(pool, shares, rows, standing, order)
    PROVE  /\ IsFiniteSet(DOMAIN payout)
           /\ \A u \in DOMAIN payout : payout[u] \in Nat
           /\ SumFunction(payout) <= pool
  <1> DEFINE W == Winners(shares, rows, standing)
             F(u) == FloorAmount(pool, shares, rows, standing, u)
             X(u) == ExtraCoin(pool, shares, rows, standing, order, u)
             f == [u \in rows |-> F(u)]
             g == [u \in W |-> F(u)]
             x == [u \in W |-> X(u)]
             R == Remaining(pool, shares, rows, standing)
  <1>1. W \subseteq rows /\ IsFiniteSet(rows) /\ IsFiniteSet(W)
    BY FS_Subset DEF Ranked, Winners
  <1>2. \A u \in rows : F(u) \in Nat
    BY FloorsNat
  <1>3. \A u \in W : X(u) \in Nat
    BY DEF ExtraCoin
  <1>4. DOMAIN payout = (IF pool > 0 THEN W ELSE {})
        /\ \A u \in DOMAIN payout : payout[u] = F(u) + X(u)
    BY DEF Payouts
  <1>5. IsFiniteSet(DOMAIN payout) /\ \A u \in DOMAIN payout : payout[u] \in Nat
    BY <1>1, <1>2, <1>3, <1>4, FS_EmptySet
  <1>6. /\ \A u \in rows : f[u] = FloorAmount(pool, shares, rows, standing, u)
        /\ \A u \in rows : f[u] \in Nat
        /\ \A u \in W : g[u] = f[u] /\ g[u] = F(u) /\ g[u] \in Nat
        /\ \A u \in W : x[u] = X(u) /\ x[u] \in Nat
        /\ \A u \in W : x[u] = ExtraCoin(pool, shares, rows, standing, order, u)
    BY <1>1, <1>2, <1>3
  <1>7. R = pool - SumFunctionOnSet(g, W)
    BY DEF Remaining, SumFunction
  <1> HIDE DEF f, g, x, F, X
  <1>8. SumFunctionOnSet(f, rows) \in Nat /\ SumFunctionOnSet(f, rows) <= pool
    BY <1>6, FloorsCovered
  <1>9. /\ SumFunctionOnSet(g, W) = SumFunctionOnSet(f, W)
        /\ SumFunctionOnSet(f, W) <= SumFunctionOnSet(f, rows)
        /\ SumFunctionOnSet(g, W) \in Nat
    <2> HIDE DEF W
    <2> QED BY <1>1, <1>6, SumSame, SumPart, SumNat
  <1>10. R \in Nat
    BY <1>7, <1>8, <1>9
  <1>11. SumFunctionOnSet(x, W) <= R
    BY <1>6, <1>10, ExtraCoinsCovered
  <1>12. SumFunctionOnSet(x, W) \in Nat
    <2> HIDE DEF W
    <2> QED BY <1>1, <1>6, SumNat
  <1>13. SumFunction(payout) <= pool
    <2>1. CASE pool > 0
      <3>1. SumFunction(payout) = SumFunctionOnSet(payout, W)
        BY <1>4, <2>1 DEF SumFunction
      <3>2. \A u \in W : g[u] \in Int /\ x[u] \in Int /\ payout[u] = g[u] + x[u]
        BY <1>4, <1>6, <2>1
      <3>3. SumFunctionOnSet(payout, W) = SumFunctionOnSet(g, W) + SumFunctionOnSet(x, W)
        <4> HIDE DEF W
        <4> QED BY <1>1, <3>2, SumPlus
      <3> HIDE DEF R
      <3> QED BY <1>7, <1>9, <1>10, <1>11, <1>12, <3>1, <3>3
    <2>2. CASE ~(pool > 0)
      <3>1. SumFunction(payout) = 0
        BY <1>4, <2>2, SumEmpty DEF SumFunction
      <3> QED BY <3>1
    <2> QED BY <2>1, <2>2
  <1> QED BY <1>5, <1>13

-----------------------------------------------------------------------------
(* What the loops of calculatePayouts rest on.                              *)

(* A row in front has a lower position; tied rows share theirs.             *)
LEMMA PositionsFollow ==
    ASSUME NEW rows, NEW standing, Ranked(rows, standing), NEW u \in rows, NEW v \in rows
    PROVE  /\ standing[u] < standing[v] =>
                 Position(rows, standing, u) < Position(rows, standing, v)
           /\ Position(rows, standing, u) = Position(rows, standing, v)
                 <=> standing[u] = standing[v]
  <1> DEFINE ahead(w) == {x \in rows : standing[x] < standing[w]}
  <1>1. \A w \in rows : IsFiniteSet(ahead(w)) /\ Cardinality(ahead(w)) \in Nat
    BY FS_Subset, FS_CardinalityType DEF Ranked
  <1>2. \A w \in rows : Position(rows, standing, w) = 1 + Cardinality(ahead(w))
    BY DEF Position
  <1>3. ASSUME NEW x \in rows, NEW y \in rows, standing[x] < standing[y]
        PROVE  Cardinality(ahead(x)) < Cardinality(ahead(y))
    <2>1. /\ ahead(x) \subseteq ahead(y) \ {x}
          /\ x \in ahead(y)
      BY <1>3 DEF Ranked
    <2>2. Cardinality(ahead(y) \ {x}) = Cardinality(ahead(y)) - 1 /\ IsFiniteSet(ahead(y) \ {x})
      BY <1>1, <2>1, FS_RemoveElement
    <2> HIDE DEF ahead
    <2>3. Cardinality(ahead(x)) <= Cardinality(ahead(y) \ {x})
      BY <2>1, <2>2, FS_Subset
    <2> QED BY <1>1, <2>2, <2>3
  <1>4. standing[u] = standing[v] => ahead(u) = ahead(v)
    OBVIOUS
  <1>5. standing[u] \in Nat /\ standing[v] \in Nat
    BY DEF Ranked
  <1> HIDE DEF ahead
  <1> QED BY <1>1, <1>2, <1>3, <1>4, <1>5

(* The percentages of the places from p on add up to what they take of the  *)
(* whole.                                                                   *)
LEMMA PlacesAddUp ==
    ASSUME NEW shares \in Seq(Nat), IsDistribution(shares),
           NEW p \in Nat \ {0}, NEW n \in Nat, NEW f,
           \A i \in p..(p + n - 1) : f[i] = ShareUpTo(shares, i) - ShareUpTo(shares, i - 1)
    PROVE  SumFunctionOnSet(f, p..(p + n - 1)) =
              ShareUpTo(shares, p + n - 1) - ShareUpTo(shares, p - 1)
  <1> DEFINE upTo(k) == ShareUpTo(shares, k)
             places(k) == p..(p + k - 1)
             G == {k \in Nat : k <= n =>
                      SumFunctionOnSet(f, places(k)) = upTo(p + k - 1) - upTo(p - 1)}
  <1>1. \A k \in Nat : upTo(k) \in Nat
    BY SharesArePositive
  <1>2. 0 \in G
    <2>1. places(0) = {} /\ p + 0 - 1 = p - 1 /\ p - 1 \in Nat
      OBVIOUS
    <2>2. SumFunctionOnSet(f, places(0)) = 0
      BY <2>1, SumEmpty
    <2> HIDE DEF upTo, places
    <2> QED BY <1>1, <2>1, <2>2
  <1>3. ASSUME NEW k \in Nat, k \in G PROVE k + 1 \in G
    <2>1. ASSUME k + 1 <= n
          PROVE  SumFunctionOnSet(f, places(k + 1)) = upTo(p + (k + 1) - 1) - upTo(p - 1)
      <3>1. p + (k + 1) - 1 = p + k
        OBVIOUS
      <3>2. /\ places(k + 1) = places(k) \cup {p + k} /\ p + k \notin places(k)
            /\ IsFiniteSet(places(k))
        <4>1. p \in Int /\ p + k - 1 \in Int
          OBVIOUS
        <4>2. IsFiniteSet(places(k))
          BY <4>1, FS_Interval
        <4>3. places(k + 1) = places(k) \cup {p + k} /\ p + k \notin places(k)
          OBVIOUS
        <4> QED BY <4>2, <4>3
      <3>3. f[p + k] = upTo(p + k) - upTo(p + k - 1)
        BY <2>1
      <3>4. ASSUME NEW i \in places(k + 1) PROVE f[i] \in Int
        <4>1. /\ i \in Nat /\ i - 1 \in Nat /\ i \in p..(p + n - 1)
              /\ f[i] = upTo(i) - upTo(i - 1)
          BY <2>1, <3>4
        <4> HIDE DEF upTo
        <4> QED BY <1>1, <4>1
      <3>5. SumFunctionOnSet(f, places(k)) = upTo(p + k - 1) - upTo(p - 1)
        BY <1>3, <2>1
      <3>6. p + k \in Nat /\ p + k - 1 \in Nat /\ p - 1 \in Nat
        OBVIOUS
      <3> HIDE DEF upTo, places
      <3>7. SumFunctionOnSet(f, places(k + 1)) = SumFunctionOnSet(f, places(k)) + f[p + k]
        BY <3>2, <3>4, SumAdd
      <3> QED BY <1>1, <3>1, <3>3, <3>5, <3>6, <3>7
    <2> HIDE DEF upTo, places
    <2> QED BY <2>1
  <1> HIDE DEF G
  <1>4. Nat \subseteq G
    BY <1>2, <1>3, NatSetInduction
  <1> HIDE DEF upTo, places
  <1>5. SumFunctionOnSet(f, places(n)) = upTo(p + n - 1) - upTo(p - 1)
    BY <1>4 DEF G
  <1> QED BY <1>5 DEF upTo, places

(* Rounding n equal shares up by a whole each gives at least the fraction.  *)
LEMMA FloorsAboveFraction ==
    ASSUME NEW x \in Nat, NEW n \in Nat \ {0}, NEW T \in Nat \ {0}
    PROVE  T * (n * (x \div (n * T) + 1)) >= x
  <1>1. PICK d \in Nat \ {0} : d = n * T
    OBVIOUS
  <1>2. PICK q \in Nat : q = x \div d
    OBVIOUS
  <1>3. d * (q + 1) >= x
    BY <1>2
  <1>4. T * (n * (q + 1)) = d * (q + 1)
    BY <1>1
  <1> QED BY <1>1, <1>2, <1>3, <1>4

(* What the rows of a group get when every floor is raised by one coin.     *)
LEMMA RaisedFloorsOfGroup ==
    ASSUME NEW shares \in Seq(Nat), IsDistribution(shares), NEW pool \in Nat,
           NEW rows, NEW standing, Ranked(rows, standing), NEW s \in Nat,
           NEW f, \A u \in rows : f[u] =
              FloorAmount(pool, shares, rows, standing, u)
                + (IF u \in Winners(shares, rows, standing) THEN 1 ELSE 0),
           NEW n, n = Cardinality(Group(rows, standing, s)),
           NEW a, a = Cardinality(Ahead(rows, standing, s)),
           NEW T, T = ShareUpTo(shares, Cardinality(rows)),
           NEW w, w = ShareUpTo(shares, a + n) - ShareUpTo(shares, a)
    PROVE  T * SumFunctionOnSet(f, Group(rows, standing, s)) >= pool * w
  <1>1. CASE Group(rows, standing, s) = {}
    <2>1. SumFunctionOnSet(f, Group(rows, standing, s)) = 0 /\ n = 0
      BY <1>1, SumEmpty, FS_EmptySet
    <2>2. a \in Nat /\ Cardinality(rows) \in Nat
      BY GroupsOfRows
    <2>3. w = 0 /\ T \in Nat
      BY <2>1, <2>2, SharesArePositive
    <2> QED BY <2>1, <2>3
  <1>2. CASE Group(rows, standing, s) # {}
    <2>1. ASSUME NEW v \in Group(rows, standing, s)
          PROVE  /\ n \in Nat \ {0} /\ T \in Nat \ {0} /\ w \in Nat
                 /\ f[v] = (pool * w) \div (n * T) + (IF w > 0 THEN 1 ELSE 0)
      <3>1. v \in rows /\ s = standing[v]
        BY DEF Group
      <3>2. /\ n \in Nat \ {0} /\ T \in Nat \ {0} /\ w \in Nat
            /\ FloorAmount(pool, shares, rows, standing, v) = (pool * w) \div (n * T)
            /\ GroupShare(shares, rows, standing, v) = w
        BY <3>1, FloorOfGroup
      <3>3. v \in Winners(shares, rows, standing) <=> w > 0
        BY <3>1, <3>2 DEF Winners
      <3>4. f[v] = FloorAmount(pool, shares, rows, standing, v)
                     + (IF v \in Winners(shares, rows, standing) THEN 1 ELSE 0)
        BY <3>1
      <3> QED BY <3>2, <3>3, <3>4
    <2>2. n \in Nat \ {0} /\ T \in Nat \ {0} /\ w \in Nat
      BY <1>2, <2>1
    <2>3. PICK x : x \in Nat /\ x = pool * w
      BY <2>2
    <2>4. PICK r, q : r = x \div (n * T) /\ q = r + (IF w > 0 THEN 1 ELSE 0)
      OBVIOUS
    <2>5. r \in Nat /\ T * (n * (r + 1)) >= x
      BY <2>2, <2>3, <2>4, FloorsBelow, FloorsAboveFraction
    <2>6. q \in Nat /\ T * (n * q) >= x
      <3>1. CASE w > 0
        <4>1. q = r + 1
          BY <2>4, <3>1
        <4> QED BY <2>5, <4>1
      <3>2. CASE w = 0
        <4>1. x = 0 /\ q = r
          BY <2>3, <2>4, <3>2
        <4>2. q \in Nat
          BY <2>5, <4>1
        <4>3. T * (n * q) \in Nat
          BY <2>2, <4>2
        <4> QED BY <4>1, <4>2, <4>3
      <3> QED BY <2>2, <3>1, <3>2
    <2>7. \A v \in Group(rows, standing, s) : f[v] = q
      BY <2>1, <2>3, <2>4
    <2>8. q \in Int /\ IsFiniteSet(Group(rows, standing, s))
      BY <2>6, GroupsOfRows
    <2>9. SumFunctionOnSet(f, Group(rows, standing, s)) =
             Cardinality(Group(rows, standing, s)) * q
      BY <2>7, <2>8, SumConstant
    <2> QED BY <2>3, <2>6, <2>9
  <1> QED BY <1>1, <1>2

(* One coin more for each winner ahead of a standing covers their share of  *)
(* the pool, by induction over the standings.                               *)
LEMMA RaisedFloorsUpTo ==
    ASSUME NEW shares \in Seq(Nat), IsDistribution(shares), NEW pool \in Nat,
           NEW rows, NEW standing, Ranked(rows, standing), NEW s \in Nat,
           NEW f, \A u \in rows : f[u] =
              FloorAmount(pool, shares, rows, standing, u)
                + (IF u \in Winners(shares, rows, standing) THEN 1 ELSE 0),
           NEW T, T = ShareUpTo(shares, Cardinality(rows))
    PROVE  T * SumFunctionOnSet(f, Ahead(rows, standing, s))
              >= pool * ShareUpTo(shares, Cardinality(Ahead(rows, standing, s)))
  <1> DEFINE G == {k \in Nat : T * SumFunctionOnSet(f, Ahead(rows, standing, k))
                     >= pool * ShareUpTo(shares, Cardinality(Ahead(rows, standing, k)))}
  <1>1. 0 \in G
    <2>1. Ahead(rows, standing, 0) = {}
      BY DEF Ranked, Ahead
    <2>2. /\ SumFunctionOnSet(f, Ahead(rows, standing, 0)) = 0
          /\ Cardinality(Ahead(rows, standing, 0)) = 0
      BY <2>1, SumEmpty, FS_EmptySet
    <2>3. ShareUpTo(shares, 0) = 0
      BY DEF ShareUpTo
    <2>4. Cardinality(rows) \in Nat
      BY GroupsOfRows
    <2>5. T \in Nat
      BY <2>4, SharesArePositive
    <2> QED BY <2>2, <2>3, <2>5
  <1>2. ASSUME NEW k \in Nat, k \in G PROVE k + 1 \in G
    <2>1. PICK n, a : /\ n = Cardinality(Group(rows, standing, k))
                      /\ a = Cardinality(Ahead(rows, standing, k))
      OBVIOUS
    <2>2. /\ n \in Nat /\ a \in Nat /\ Cardinality(rows) \in Nat
          /\ Cardinality(Ahead(rows, standing, k + 1)) = a + n
          /\ IsFiniteSet(Ahead(rows, standing, k)) /\ IsFiniteSet(Group(rows, standing, k))
          /\ Ahead(rows, standing, k) \cap Group(rows, standing, k) = {}
          /\ Ahead(rows, standing, k + 1) = Ahead(rows, standing, k) \cup Group(rows, standing, k)
      BY <2>1, GroupsOfRows
    <2>3. PICK b : b \in Nat /\ b = a + n
      BY <2>2
    <2>4. PICK x, y : x = ShareUpTo(shares, a) /\ y = ShareUpTo(shares, b)
      OBVIOUS
    <2>5. x \in Nat /\ y \in Nat /\ T \in Nat
      BY <2>2, <2>3, <2>4, SharesArePositive
    <2>6. PICK A, B : /\ A = SumFunctionOnSet(f, Ahead(rows, standing, k))
                      /\ B = SumFunctionOnSet(f, Group(rows, standing, k))
      OBVIOUS
    <2>7. \A u \in Ahead(rows, standing, k) \cup Group(rows, standing, k) : f[u] \in Nat
      <3>1. \A u \in rows : FloorAmount(pool, shares, rows, standing, u) \in Nat
        BY FloorsNat
      <3> QED BY <3>1 DEF Ahead, Group
    <2>8. SumFunctionOnSet(f, Ahead(rows, standing, k + 1)) = A + B
      BY <2>2, <2>6, <2>7, SumUnion
    <2>9. A \in Nat /\ B \in Nat
      BY <2>2, <2>6, <2>7, SumNat
    <2>10. T * B >= pool * (y - x)
      BY <2>1, <2>3, <2>4, <2>6, RaisedFloorsOfGroup
    <2>11. T * A >= pool * x
      BY <1>2, <2>1, <2>4, <2>6
    <2>12. T * (A + B) >= pool * y
      <3>1. T * (A + B) = T * A + T * B /\ pool * (y - x) = pool * y - pool * x
        BY <2>5, <2>9
      <3>2. T * A \in Nat /\ T * B \in Nat /\ pool * x \in Nat /\ pool * y \in Nat
        BY <2>5, <2>9
      <3> QED BY <2>10, <2>11, <3>1, <3>2
    <2> QED BY <2>2, <2>3, <2>4, <2>8, <2>12
  <1> HIDE DEF G
  <1>3. Nat \subseteq G
    BY <1>1, <1>2, NatSetInduction
  <1> QED BY <1>3 DEF G

(* Flooring leaves at most a coin for each winner.                          *)
LEMMA RemainingIsFew ==
    ASSUME NEW shares \in Seq(Nat), IsDistribution(shares), NEW pool \in Nat,
           NEW rows, NEW standing, Ranked(rows, standing), rows # {},
           NEW W, W = Winners(shares, rows, standing)
    PROVE  /\ Remaining(pool, shares, rows, standing) \in Nat
           /\ Remaining(pool, shares, rows, standing) <= Cardinality(W)
  <1> DEFINE F(u) == FloorAmount(pool, shares, rows, standing, u)
             f == [u \in rows |-> F(u)]
             g == [u \in W |-> F(u)]
             one == [u \in rows |-> IF u \in W THEN 1 ELSE 0]
             h == [u \in rows |-> F(u) + (IF u \in W THEN 1 ELSE 0)]
             R == Remaining(pool, shares, rows, standing)
  <1>1. W \subseteq rows /\ IsFiniteSet(rows) /\ IsFiniteSet(W) /\ Cardinality(W) \in Nat
    BY FS_Subset, FS_CardinalityType DEF Ranked, Winners
  <1>2. \A u \in rows : F(u) \in Nat
    BY FloorsNat
  <1>3. \A u \in rows \ W : F(u) = 0
    <2>1. ASSUME NEW u \in rows \ W PROVE F(u) = 0
      <3>1. PICK s, n, a, t, w :
               /\ s = standing[u]
               /\ n = Cardinality(Group(rows, standing, s))
               /\ a = Cardinality(Ahead(rows, standing, s))
               /\ t = ShareUpTo(shares, Cardinality(rows))
               /\ w = ShareUpTo(shares, a + n) - ShareUpTo(shares, a)
        OBVIOUS
      <3>2. /\ n \in Nat \ {0} /\ t \in Nat \ {0} /\ w \in Nat
            /\ GroupShare(shares, rows, standing, u) = w
            /\ F(u) = (pool * w) \div (n * t)
        BY <2>1, <3>1, FloorOfGroup
      <3>3. w = 0
        BY <2>1, <3>2 DEF Winners
      <3>4. F(u) = 0 \div (n * t)
        BY <3>2, <3>3
      <3>5. n * t \in Nat \ {0}
        BY <3>2
      <3>6. \A d \in Nat \ {0} : 0 \div d = 0
        OBVIOUS
      <3> HIDE DEF F
      <3> QED BY <3>4, <3>5, <3>6
    <2> QED BY <2>1
  <1>4. R = pool - SumFunctionOnSet(g, W)
    BY DEF Remaining, SumFunction
  <1>5. /\ \A u \in rows : f[u] = FloorAmount(pool, shares, rows, standing, u)
        /\ \A u \in rows : f[u] \in Nat
        /\ \A u \in rows \ W : f[u] = 0
        /\ \A u \in W : g[u] = f[u]
        /\ \A u \in rows : one[u] \in Int /\ h[u] = f[u] + one[u] /\ h[u] \in Nat
        /\ \A u \in rows : h[u] = F(u) + (IF u \in W THEN 1 ELSE 0)
        /\ \A u \in rows \ W : one[u] = 0
        /\ \A u \in W : one[u] = 1
    BY <1>1, <1>2, <1>3
  <1> HIDE DEF f, g, h, one
  <1>6. SumFunctionOnSet(f, rows) \in Nat /\ SumFunctionOnSet(f, rows) <= pool
    <2>1. \A u \in rows : f[u] = FloorAmount(pool, shares, rows, standing, u)
      BY <1>5
    <2> HIDE DEF F, R
    <2> QED BY <2>1, FloorsCovered
  <1>7. SumFunctionOnSet(g, W) = SumFunctionOnSet(f, rows)
    <2>1. SumFunctionOnSet(g, W) = SumFunctionOnSet(f, W)
      BY <1>1, <1>5, SumSame
    <2>2. \A u \in rows : f[u] \in Int
      BY <1>5
    <2>3. SumFunctionOnSet(f, W) = SumFunctionOnSet(f, rows)
      BY <1>1, <1>5, <2>2, SumExtend
    <2> QED BY <2>1, <2>3
  <1>8. SumFunctionOnSet(one, rows) = Cardinality(W)
    <2>1. SumFunctionOnSet(one, W) = SumFunctionOnSet(one, rows)
      BY <1>1, <1>5, SumExtend
    <2>2. SumFunctionOnSet(one, W) = Cardinality(W) * 1
      BY <1>1, <1>5, SumConstant
    <2> QED BY <1>1, <2>1, <2>2
  <1>9. SumFunctionOnSet(h, rows) = SumFunctionOnSet(f, rows) + Cardinality(W)
    <2>1. \A u \in rows : f[u] \in Int /\ one[u] \in Int /\ h[u] = f[u] + one[u]
      BY <1>5
    <2> QED BY <1>1, <1>8, <2>1, SumPlus
  <1>10. SumFunctionOnSet(h, rows) >= pool
    <2>1. PICK s \in Nat : \A u \in rows : standing[u] < s
      BY <1>1, NumbersBounded DEF Ranked
    <2>2. Ahead(rows, standing, s) = rows
      BY <2>1 DEF Ahead
    <2>3. PICK T, x : T = ShareUpTo(shares, Cardinality(rows)) /\ x = SumFunctionOnSet(h, rows)
      OBVIOUS
    <2>4. T * x >= pool * T
      <3>1. \A u \in rows : h[u] = FloorAmount(pool, shares, rows, standing, u)
                 + (IF u \in Winners(shares, rows, standing) THEN 1 ELSE 0)
        BY <1>5
      <3> HIDE DEF F
      <3>2. T * SumFunctionOnSet(h, Ahead(rows, standing, s))
              >= pool * ShareUpTo(shares, Cardinality(Ahead(rows, standing, s)))
        BY <2>3, <3>1, RaisedFloorsUpTo
      <3> QED BY <2>2, <2>3, <3>2
    <2>5. T \in Nat \ {0}
      BY <2>3, FloorsNat
    <2>6. x \in Nat
      BY <1>1, <1>5, <2>3, SumNat
    <2>7. x >= pool
      <3>1. SUFFICES ASSUME x + 1 <= pool PROVE FALSE
        BY <2>6
      <3>2. T * pool >= T * (x + 1)
        BY <2>5, <2>6, <3>1
      <3>3. T * (x + 1) = T * x + T /\ pool * T = T * pool
        BY <2>5, <2>6
      <3>4. T * x \in Nat /\ T * pool \in Nat
        BY <2>5, <2>6
      <3> QED BY <2>4, <2>5, <3>2, <3>3, <3>4
    <2> QED BY <2>3, <2>7
  <1> HIDE DEF R
  <1>11. R \in Nat /\ R <= Cardinality(W)
    BY <1>1, <1>4, <1>6, <1>7, <1>9, <1>10
  <1> QED BY <1>11 DEF R

(* The places of the winners in the order of the remainders.                *)
PlacedWinners(place, pool, shares, rows, standing, order) ==
    \A u \in Winners(shares, rows, standing) :
        place[u] = Cardinality({v \in Winners(shares, rows, standing) :
                       RemainderBefore(pool, shares, rows, standing, order, v, u)})

LEMMA WinnersHavePlaces ==
    ASSUME NEW shares \in Seq(Nat), IsDistribution(shares), NEW pool \in Nat,
           NEW rows, NEW standing, Ranked(rows, standing),
           NEW order, Ordered(rows, order),
           NEW W, W = Winners(shares, rows, standing), NEW place,
           PlacedWinners(place, pool, shares, rows, standing, order)
    PROVE  /\ IsFiniteSet(W) /\ Cardinality(W) \in Nat
           /\ PlacesTaken(place, W)
  <1> DEFINE before == {e \in W \X W :
                 RemainderBefore(pool, shares, rows, standing, order, e[1], e[2])}
  <1>1. W \subseteq rows /\ IsFiniteSet(W) /\ Cardinality(W) \in Nat
    BY FS_Subset, FS_CardinalityType DEF Ranked, Winners
  <1>2. \A u, v \in W : <<u, v>> \in before
           <=> RemainderBefore(pool, shares, rows, standing, order, u, v)
    OBVIOUS
  <1> HIDE DEF before
  <1>3. ASSUME NEW x \in W, NEW y \in W, NEW z \in W,
               <<x, y>> \in before, <<y, z>> \in before
        PROVE  <<x, z>> \in before
    <2>1. x \in rows /\ y \in rows /\ z \in rows
      BY <1>1
    <2>2. /\ RemainderBefore(pool, shares, rows, standing, order, x, y)
          /\ RemainderBefore(pool, shares, rows, standing, order, y, z)
      BY <1>2, <1>3
    <2>3. RemainderBefore(pool, shares, rows, standing, order, x, z)
      BY <2>1, <2>2, RemainderOrder
    <2> QED BY <1>2, <2>3
  <1>4. ASSUME NEW x \in W, NEW y \in W, x # y
        PROVE  <<x, y>> \in before \/ <<y, x>> \in before
    <2>1. x \in rows /\ y \in rows
      BY <1>1
    <2>2. \/ RemainderBefore(pool, shares, rows, standing, order, x, y)
          \/ RemainderBefore(pool, shares, rows, standing, order, y, x)
      BY <1>4, <2>1, RemainderOrder
    <2> QED BY <1>2, <2>2
  <1>5. ASSUME NEW x \in W PROVE <<x, x>> \notin before
    <2>1. PICK a, p : /\ a = RemainderOf(pool, shares, rows, standing, x)
                      /\ p = Cardinality(Tied(rows, standing, x))
      OBVIOUS
    <2>2. a \in Nat /\ p \in Nat \ {0}
      BY <1>1, <2>1, RemaindersNat
    <2>3. RemainderBefore(pool, shares, rows, standing, order, x, x) <=>
             a * p > a * p \/ (a * p = a * p /\ RankedBefore(standing, order, x, x))
      BY <2>1 DEF RemainderBefore, RemainderOf
    <2>4. a * p \in Nat
      BY <2>2
    <2>5. standing[x] \in Nat /\ order[x] \in Nat
      BY <1>1 DEF Ranked, Ordered
    <2>6. ~RankedBefore(standing, order, x, x)
      BY <2>5 DEF RankedBefore
    <2>7. ~RemainderBefore(pool, shares, rows, standing, order, x, x)
      BY <2>3, <2>4, <2>6
    <2> QED BY <1>2, <2>7
  <1>6. ASSUME NEW u \in W PROVE place[u] = Cardinality({v \in W : <<v, u>> \in before})
    <2>1. {v \in W : <<v, u>> \in before} =
             {v \in W : RemainderBefore(pool, shares, rows, standing, order, v, u)}
      BY <1>2
    <2> QED BY <2>1 DEF PlacedWinners
  <1>7. StrictlyOrders(before, W)
    BY <1>3, <1>5, <1>4 DEF StrictlyOrders
  <1>8. PlacedBy(place, before, W)
    BY <1>6 DEF PlacedBy
  <1> QED BY <1>1, <1>7, <1>8, PlacesOfOrder

(* Every coin of a prize is paid: the floors and the coins handed out one   *)
(* by one add up to the pool (calculatePayouts, bolao-prize.service.ts      *)
(* :57-122; "maiores restos distribuem todas as tampinhas").                *)
THEOREM PrizeIsPaidInFull ==
    ASSUME NEW shares \in Seq(Nat), IsDistribution(shares), NEW pool \in Nat, pool > 0,
           NEW rows, NEW standing, Ranked(rows, standing), rows # {},
           NEW order, Ordered(rows, order)
    PROVE  TotalOf(Payouts(pool, shares, rows, standing, order)) = pool
  <1> DEFINE W == Winners(shares, rows, standing)
             R == Remaining(pool, shares, rows, standing)
             payout == Payouts(pool, shares, rows, standing, order)
             F(u) == FloorAmount(pool, shares, rows, standing, u)
             X(u) == ExtraCoin(pool, shares, rows, standing, order, u)
             ahead(u) == {v \in W :
                 RemainderBefore(pool, shares, rows, standing, order, v, u)}
             place == [u \in W |-> Cardinality(ahead(u))]
             g == [u \in W |-> F(u)]
             x == [u \in W |-> X(u)]
             E == {u \in W : place[u] < R}
  <1>1. W \subseteq rows /\ IsFiniteSet(W) /\ Cardinality(W) \in Nat
    BY FS_Subset, FS_CardinalityType DEF Ranked, Winners
  <1>2. R \in Nat /\ R <= Cardinality(W)
    BY RemainingIsFew
  <1>3. \A u \in rows : F(u) \in Nat
    BY FloorsNat
  <1>4. R = pool - SumFunctionOnSet(g, W)
    BY DEF Remaining, SumFunction
  <1>5. payout = [u \in W |-> g[u] + x[u]]
    BY DEF Payouts
  <1>6. \A u \in W : g[u] \in Nat /\ x[u] = IF u \in E THEN 1 ELSE 0
    BY <1>1, <1>3 DEF ExtraCoin
  <1>7. PlacedWinners(place, pool, shares, rows, standing, order)
    BY DEF PlacedWinners
  <1>8. E = {u \in W : place[u] < R}
    OBVIOUS
  <1> HIDE DEF place, g, x, E, R
  <1>9. PlacesTaken(place, W)
    BY <1>7, WinnersHavePlaces
  <1> HIDE DEF W
  <1>10. Cardinality(E) = R
    <2> DEFINE b == [u \in E |-> place[u]]
               places == 0..(R - 1)
    <2>1. /\ \A u \in W : place[u] \in 0..(Cardinality(W) - 1)
          /\ \A u, v \in W : place[u] = place[v] => u = v
          /\ \A i \in 0..(Cardinality(W) - 1) : \E u \in W : place[u] = i
      BY <1>9 DEF PlacesTaken
    <2>2. ASSUME NEW u \in E PROVE place[u] \in places
      BY <1>1, <1>2, <1>8, <2>1
    <2>3. ASSUME NEW i \in places PROVE \E u \in E : place[u] = i
      <3>1. i \in 0..(Cardinality(W) - 1) /\ i < R
        BY <1>1, <1>2
      <3> QED BY <1>8, <2>1, <3>1
    <2>4. \A u, v \in E : place[u] = place[v] => u = v
      BY <1>8, <2>1
    <2>5. IsFiniteSet(E)
      BY <1>1, <1>8, FS_Subset
    <2>6. Cardinality(places) = R
      <3>1. 0 \in Int /\ R - 1 \in Int
        BY <1>2
      <3>2. Cardinality(places) = IF 0 > R - 1 THEN 0 ELSE (R - 1) - 0 + 1
        BY <3>1, FS_Interval
      <3> QED BY <1>2, <3>2
    <2> HIDE DEF places
    <2>7. b \in Bijection(E, places)
      BY <2>2, <2>3, <2>4 DEF Bijection, Injection, Surjection, IsInjective
    <2> HIDE DEF b
    <2>8. Cardinality(E) = Cardinality(places)
      BY <2>5, <2>7, FS_Bijection DEF ExistsBijection
    <2> QED BY <2>6, <2>8
  <1>11. SumFunctionOnSet(x, W) = R
    <2>1. E \subseteq W /\ IsFiniteSet(E)
      BY <1>1, <1>8, FS_Subset
    <2>2. SumFunctionOnSet(x, E) = SumFunctionOnSet(x, W)
      BY <1>1, <1>6, <2>1, SumExtend
    <2>3. \A u \in E : x[u] = 1
      BY <1>6, <2>1
    <2>4. SumFunctionOnSet(x, E) = Cardinality(E) * 1
      BY <2>1, <2>3, SumConstant
    <2> QED BY <1>2, <1>10, <2>2, <2>4
  <1>12. \A u \in W : g[u] \in Int /\ x[u] \in Int /\ payout[u] = g[u] + x[u]
    BY <1>5, <1>6
  <1>13. SumFunctionOnSet(payout, W) = SumFunctionOnSet(g, W) + SumFunctionOnSet(x, W)
    BY <1>1, <1>12, SumPlus
  <1>14. SumFunctionOnSet(g, W) \in Int
    BY <1>1, <1>12, SumInt
  <1>15. DOMAIN payout = W
    BY <1>5
  <1> HIDE DEF payout
  <1> QED BY <1>4, <1>11, <1>13, <1>14, <1>15 DEF TotalOf, SumFunction, payout

-----------------------------------------------------------------------------
(* The loops of calculatePayouts compute the closed form.                   *)

(* What the closed form says of the arguments of the loops.                 *)
Winning == Winners(percentages, prizeRows, metrics)
Whole == ShareUpTo(percentages, Cardinality(prizeRows))
FloorOf(u) == FloorAmount(prizePool, percentages, prizeRows, metrics, u)
Leftover == Remaining(prizePool, percentages, prizeRows, metrics)
Precedes(u, v) ==
    RemainderBefore(prizePool, percentages, prizeRows, metrics, TechnicalOrder, u, v)
PlaceOf(u) == Cardinality({v \in Winning : Precedes(v, u)})

(* The rows of the groups that the first loop is done with.                 *)
Weighed == {u \in prizeRows : Position(prizeRows, metrics, u) \notin groups}

ArgumentsOK ==
    /\ prizePool \in Int
    /\ percentages \in Seq(Nat) /\ IsDistribution(percentages)
    /\ prizeRows \in SUBSET PrizeRows
    /\ metrics \in [PrizeRows -> Nat]

(* The first loop has been through the rows ahead of some standing, and     *)
(* their weights add up to the share of their places.                       *)
Weighing == loopAt = "weigh" =>
    /\ Divides /\ turn = 1
    /\ groups \subseteq {Position(prizeRows, metrics, u) : u \in prizeRows}
    /\ \E s \in Nat : Weighed = Ahead(prizeRows, metrics, s)
    /\ weightedRows = Weighed \cap Winning
    /\ totalWeight = ShareUpTo(percentages, Cardinality(Weighed))

(* The second loop has given a coin to the rows at the first places of the  *)
(* remainder order, one for each coin that is gone.                         *)
HandingOut == loopAt # "weigh" /\ Divides =>
    /\ weightedRows = Winning /\ totalWeight = Whole
    /\ remaining \in Nat /\ remaining <= Leftover
    /\ remaining > 0 => turn = Leftover - remaining + 1
    /\ loopAt = "done" => remaining = 0
    /\ allocated = [u \in Winning |->
          FloorOf(u) + (IF PlaceOf(u) < Leftover - remaining THEN 1 ELSE 0)]
    /\ SumFunction(allocated) + remaining = prizePool

NothingDivided == ~Divides =>
    loopAt = "done" /\ allocated = [u \in prizeRows |-> 0]

LoopInv ==
    /\ loopAt \in {"weigh", "handOut", "done"}
    /\ ArgumentsOK /\ Weighing /\ HandingOut /\ NothingDivided

(* The rows are ranked, as the lemmas on the closed form ask.               *)
LEMMA LoopRows ==
    ASSUME ArgumentsOK
    PROVE  /\ Ranked(prizeRows, metrics) /\ Ordered(prizeRows, TechnicalOrder)
           /\ IsFiniteSet(prizeRows) /\ Cardinality(prizeRows) \in Nat
  <1>1. IsFiniteSet(prizeRows)
    BY DivisionAssumption, FS_Subset DEF ArgumentsOK
  <1>2. Cardinality(prizeRows) \in Nat
    BY <1>1, FS_CardinalityType
  <1> QED BY <1>1, <1>2, DivisionAssumption DEF ArgumentsOK, Ranked, Ordered

(* What the first loop adds for a group is the share of the closed form.    *)
LEMMA GroupPercentageIs ==
    ASSUME ArgumentsOK, NEW u \in prizeRows
    PROVE  /\ RowsAt(Position(prizeRows, metrics, u)) = Tied(prizeRows, metrics, u)
           /\ GroupPercentage(Position(prizeRows, metrics, u)) =
                 GroupShare(percentages, prizeRows, metrics, u)
  <1>1. PICK p : p = Position(prizeRows, metrics, u)
    OBVIOUS
  <1>2. p \in Nat \ {0}
    BY <1>1, LoopRows, PositionIsPositive
  <1>3. RowsAt(p) = Tied(prizeRows, metrics, u)
    <2>1. \A v \in prizeRows : Position(prizeRows, metrics, v) = p <=> metrics[v] = metrics[u]
      BY <1>1, LoopRows, PositionsFollow
    <2> QED BY <2>1 DEF RowsAt, Tied
  <1>4. PICK n : n = Cardinality(RowsAt(p))
    OBVIOUS
  <1>5. n \in Nat
    <2>1. IsFiniteSet(RowsAt(p))
      BY LoopRows, FS_Subset DEF RowsAt
    <2> QED BY <1>4, <2>1, FS_CardinalityType
  <1> DEFINE f == [i \in p..(p + n - 1) |-> Percentage(i)]
  <1>6. ASSUME NEW i \in p..(p + n - 1)
        PROVE  f[i] = ShareUpTo(percentages, i) - ShareUpTo(percentages, i - 1)
    <2>1. /\ i \in Nat /\ i > 0 /\ i - 1 \in Nat /\ f[i] = Percentage(i)
      BY <1>2, <1>5
    <2>2. /\ Len(percentages) \in Nat /\ Len(percentages) > 0
          /\ \A j \in 1..Len(percentages) : percentages[j] \in Nat
      BY DEF ArgumentsOK, IsDistribution
    <2>3. CASE i > Len(percentages)
      <3>1. /\ ShareUpTo(percentages, i) = percentages[Len(percentages)]
            /\ ShareUpTo(percentages, i - 1) = percentages[Len(percentages)]
        BY <2>1, <2>2, <2>3 DEF ShareUpTo
      <3>2. percentages[Len(percentages)] \in Nat
        BY <2>2
      <3> QED BY <2>1, <2>3, <3>1, <3>2 DEF Percentage
    <2>4. CASE i <= Len(percentages) /\ i # 1
      <3>1. /\ ShareUpTo(percentages, i) = percentages[i]
            /\ ShareUpTo(percentages, i - 1) = percentages[i - 1]
        BY <2>1, <2>2, <2>4 DEF ShareUpTo
      <3> QED BY <2>1, <2>2, <2>4, <3>1 DEF Percentage
    <2>5. CASE i = 1 /\ 1 <= Len(percentages)
      <3>1. /\ ShareUpTo(percentages, i) = percentages[1]
            /\ ShareUpTo(percentages, i - 1) = 0
        BY <2>1, <2>2, <2>5 DEF ShareUpTo
      <3> QED BY <2>1, <2>2, <2>5, <3>1 DEF Percentage
    <2> QED BY <2>1, <2>2, <2>3, <2>4, <2>5
  <1>7. GroupPercentage(p) = SumFunctionOnSet(f, p..(p + n - 1))
    BY <1>4 DEF GroupPercentage, SumFunction
  <1> HIDE DEF f
  <1>8. SumFunctionOnSet(f, p..(p + n - 1)) =
           ShareUpTo(percentages, p + n - 1) - ShareUpTo(percentages, p - 1)
    <2>1. percentages \in Seq(Nat) /\ IsDistribution(percentages)
      BY DEF ArgumentsOK
    <2> QED BY <1>2, <1>5, <1>6, <2>1, PlacesAddUp
  <1>9. GroupShare(percentages, prizeRows, metrics, u) =
           ShareUpTo(percentages, p + n - 1) - ShareUpTo(percentages, p - 1)
    BY <1>1, <1>3, <1>4 DEF GroupShare
  <1> QED BY <1>1, <1>3, <1>7, <1>8, <1>9

(* What the lemmas on the closed form ask of a pool that is divided.        *)
LEMMA DividedArguments ==
    ASSUME ArgumentsOK, Divides
    PROVE  /\ prizePool \in Nat /\ prizePool > 0 /\ prizeRows # {}
           /\ percentages \in Seq(Nat) /\ IsDistribution(percentages)
           /\ Ranked(prizeRows, metrics) /\ Ordered(prizeRows, TechnicalOrder)
           /\ Whole \in Nat \ {0}
           /\ \A u \in prizeRows : FloorOf(u) \in Nat /\ metrics[u] \in Nat
           /\ Winning \subseteq prizeRows
           /\ IsFiniteSet(Winning) /\ Cardinality(Winning) \in Nat
           /\ Leftover \in Nat /\ Leftover <= Cardinality(Winning)
           /\ Leftover = prizePool - SumFunction([u \in Winning |-> FloorOf(u)])
  <1>1. /\ prizePool \in Nat /\ prizePool > 0 /\ prizeRows # {}
        /\ percentages \in Seq(Nat) /\ IsDistribution(percentages)
        /\ Ranked(prizeRows, metrics) /\ Ordered(prizeRows, TechnicalOrder)
    BY LoopRows DEF ArgumentsOK, Divides
  <1>2. \A u \in prizeRows : /\ ShareUpTo(percentages, Cardinality(prizeRows)) \in Nat \ {0}
                             /\ FloorAmount(prizePool, percentages, prizeRows, metrics, u) \in Nat
    BY <1>1, FloorsNat
  <1>3. Whole \in Nat \ {0} /\ \A u \in prizeRows : FloorOf(u) \in Nat /\ metrics[u] \in Nat
    BY <1>1, <1>2 DEF Whole, FloorOf, Ranked
  <1>4. Winning \subseteq prizeRows
    BY DEF Winning, Winners
  <1>5. IsFiniteSet(Winning) /\ Cardinality(Winning) \in Nat
    BY <1>1, <1>4, FS_Subset, FS_CardinalityType DEF Ranked
  <1>6. Leftover \in Nat /\ Leftover <= Cardinality(Winning)
    BY <1>1, RemainingIsFew DEF Leftover, Winning
  <1>7. Leftover = prizePool - SumFunction([u \in Winning |-> FloorOf(u)])
    BY DEF Leftover, Remaining, Winning, FloorOf
  <1> QED BY <1>1, <1>3, <1>4, <1>5, <1>6, <1>7

(* While the arguments stay, so does what the closed form says of them.     *)
LEMMA ArgumentsStay ==
    ASSUME UNCHANGED arguments
    PROVE  /\ Winning' = Winning /\ Whole' = Whole /\ Leftover' = Leftover
           /\ \A u : FloorOf(u)' = FloorOf(u) /\ PlaceOf(u)' = PlaceOf(u)
           /\ Divides' = Divides /\ ArgumentsOK' = ArgumentsOK
  <1>1. /\ prizePool' = prizePool /\ percentages' = percentages
        /\ metrics' = metrics /\ prizeRows' = prizeRows
    BY DEF arguments
  <1>2. Winning' = Winning /\ Whole' = Whole /\ Leftover' = Leftover
    BY <1>1 DEF Winning, Whole, Leftover
  <1>3. \A u : FloorOf(u)' = FloorOf(u)
    BY <1>1 DEF FloorOf
  <1>4. \A u : PlaceOf(u)' = PlaceOf(u)
    BY <1>1, <1>2 DEF PlaceOf, Precedes
  <1>5. Divides' = Divides /\ ArgumentsOK' = ArgumentsOK
    BY <1>1 DEF Divides, ArgumentsOK
  <1> QED BY <1>2, <1>3, <1>4, <1>5

LEMMA LoopInitOK == LoopInit => LoopInv
  <1> SUFFICES ASSUME LoopInit PROVE LoopInv
    OBVIOUS
  <1>1. ArgumentsOK
    BY DivisionAssumption DEF LoopInit, ArgumentsOK
  <1>2. /\ Divides <=> loopAt = "weigh"
        /\ ~Divides => loopAt = "done"
    BY <1>1 DEF LoopInit, Divides, ArgumentsOK
  <1>3. Weighed = {}
    BY DEF Weighed, LoopInit
  <1>4. Weighed = Ahead(prizeRows, metrics, 0)
    BY <1>1, <1>3, LoopRows DEF Ranked, Ahead
  <1>5. totalWeight = ShareUpTo(percentages, Cardinality(Weighed))
    <2>1. Cardinality(Weighed) = 0
      BY <1>3, FS_EmptySet
    <2> QED BY <2>1 DEF ShareUpTo, LoopInit
  <1>6. weightedRows = Weighed \cap Winning
    BY <1>3 DEF LoopInit
  <1>7. Weighing
    BY <1>2, <1>4, <1>5, <1>6 DEF Weighing, LoopInit
  <1>8. HandingOut /\ NothingDivided
    BY <1>2 DEF HandingOut, NothingDivided, LoopInit
  <1> QED BY <1>1, <1>2, <1>7, <1>8 DEF LoopInv

(* A group is weighed: the rows ahead of the next standing are done.        *)
LEMMA WeighGroupOK == ASSUME LoopInv, NEW p \in groups, WeighGroup(p) PROVE LoopInv'
  <1>1. /\ ArgumentsOK /\ Divides /\ turn = 1 /\ loopAt = "weigh"
        /\ groups \subseteq {Position(prizeRows, metrics, u) : u \in prizeRows}
        /\ weightedRows = Weighed \cap Winning
        /\ totalWeight = ShareUpTo(percentages, Cardinality(Weighed))
    BY DEF LoopInv, Weighing, WeighGroup
  <1>2. /\ UNCHANGED arguments /\ turn' = turn /\ loopAt' = loopAt
        /\ prizeRows' = prizeRows /\ metrics' = metrics /\ percentages' = percentages
        /\ groups' = groups \ {p} /\ \A q \in groups : p <= q
    BY DEF WeighGroup, IsNextGroup, arguments
  <1>3. PICK u \in prizeRows : Position(prizeRows, metrics, u) = p
    BY <1>1
  <1>4. PICK s \in Nat : s = metrics[u]
    BY <1>1, DividedArguments
  <1>5. \A v \in prizeRows : /\ Position(prizeRows, metrics, v) \in Nat
                             /\ metrics[v] \in Nat
    BY <1>1, LoopRows, PositionIsPositive DEF Ranked
  <1>6. \A v, w \in prizeRows :
           /\ metrics[v] < metrics[w] =>
                 Position(prizeRows, metrics, v) < Position(prizeRows, metrics, w)
           /\ Position(prizeRows, metrics, v) = Position(prizeRows, metrics, w)
                 <=> metrics[v] = metrics[w]
    BY <1>1, LoopRows, PositionsFollow
  <1>7. Weighed = Ahead(prizeRows, metrics, s)
    <2>1. PICK k \in Nat : Weighed = Ahead(prizeRows, metrics, k)
      BY <1>1 DEF LoopInv, Weighing
    <2>2. ~(s < k)
      BY <1>3, <1>4, <2>1 DEF Weighed, Ahead
    <2>3. ASSUME NEW v \in prizeRows, metrics[v] < s PROVE v \in Weighed
      <3>1. Position(prizeRows, metrics, v) < p
        BY <1>3, <1>4, <1>6, <2>3
      <3>2. Position(prizeRows, metrics, v) \notin groups
        BY <1>2, <1>3, <1>5, <3>1
      <3> QED BY <3>2 DEF Weighed
    <2>4. ASSUME NEW v \in Weighed PROVE v \in prizeRows /\ metrics[v] < s
      <3>1. v \in prizeRows /\ metrics[v] < k
        BY <2>1 DEF Ahead
      <3> QED BY <1>5, <2>2, <3>1
    <2> QED BY <2>3, <2>4 DEF Ahead
  <1>8. /\ RowsAt(p) = Group(prizeRows, metrics, s)
        /\ GroupPercentage(p) = GroupShare(percentages, prizeRows, metrics, u)
    <2>1. Tied(prizeRows, metrics, u) = Group(prizeRows, metrics, s)
      BY <1>4 DEF Tied, Group
    <2> QED BY <1>1, <1>3, <2>1, GroupPercentageIs
  <1>9. Weighed' = Weighed \cup Group(prizeRows, metrics, s)
    <2>1. Weighed' = {v \in prizeRows : Position(prizeRows, metrics, v) \notin groups \ {p}}
      BY <1>2 DEF Weighed
    <2>2. \A v \in prizeRows : Position(prizeRows, metrics, v) = p
             <=> v \in Group(prizeRows, metrics, s)
      BY <1>8 DEF RowsAt
    <2>3. Group(prizeRows, metrics, s) \subseteq prizeRows
      BY DEF Group
    <2> QED BY <2>1, <2>2, <2>3 DEF Weighed
  <1>10. PICK n, a, w : /\ n = Cardinality(Group(prizeRows, metrics, s))
                        /\ a = Cardinality(Ahead(prizeRows, metrics, s))
                        /\ w = ShareUpTo(percentages, a + n) - ShareUpTo(percentages, a)
    OBVIOUS
  <1>11. ASSUME NEW v \in Group(prizeRows, metrics, s)
         PROVE  /\ w \in Nat /\ v \in prizeRows
                /\ GroupShare(percentages, prizeRows, metrics, v) = w
    <2>1. v \in prizeRows /\ s = metrics[v]
      BY DEF Group
    <2>2. /\ prizePool \in Nat /\ percentages \in Seq(Nat) /\ IsDistribution(percentages)
          /\ Ranked(prizeRows, metrics)
      BY <1>1, DividedArguments
    <2>3. w \in Nat /\ GroupShare(percentages, prizeRows, metrics, v) = w
      BY <1>10, <2>1, <2>2, FloorOfGroup
    <2> QED BY <2>1, <2>3
  <1>12. GroupPercentage(p) = w /\ w \in Nat
    <2>1. u \in Group(prizeRows, metrics, s)
      BY <1>4 DEF Group
    <2> QED BY <1>8, <1>11, <2>1
  <1>13. totalWeight' = ShareUpTo(percentages', Cardinality(Weighed'))
    <2>1. /\ a \in Nat /\ n \in Nat
          /\ Cardinality(Ahead(prizeRows, metrics, s + 1)) = a + n
          /\ Ahead(prizeRows, metrics, s + 1) =
                Ahead(prizeRows, metrics, s) \cup Group(prizeRows, metrics, s)
      BY <1>1, <1>10, LoopRows, GroupsOfRows
    <2>2. Cardinality(Weighed') = a + n /\ Cardinality(Weighed) = a
      BY <1>7, <1>9, <1>10, <2>1
    <2>3. totalWeight' = totalWeight + w
      <3>1. totalWeight \in Int
        <4>1. percentages \in Seq(Nat) /\ IsDistribution(percentages)
          BY <1>1, DividedArguments
        <4>2. ShareUpTo(percentages, a) \in Nat
          BY <2>1, <4>1, SharesArePositive
        <4> QED BY <1>1, <2>2, <4>2
      <3> QED BY <1>12, <3>1 DEF WeighGroup
    <2>4. ShareUpTo(percentages, a) \in Nat /\ ShareUpTo(percentages, a + n) \in Nat
      <3>1. percentages \in Seq(Nat) /\ IsDistribution(percentages)
        BY <1>1, DividedArguments
      <3>2. a + n \in Nat
        BY <2>1
      <3>3. \A i \in Nat : ShareUpTo(percentages, i) \in Nat
        BY <3>1, SharesArePositive
      <3> QED BY <2>1, <3>2, <3>3
    <2> QED BY <1>1, <1>2, <1>10, <2>2, <2>3, <2>4
  <1>14. weightedRows' = Weighed' \cap Winning'
    <2>1. Winning' = Winning
      BY <1>2, ArgumentsStay
    <2>2. \A v \in Group(prizeRows, metrics, s) : v \in Winning <=> w # 0
      BY <1>11 DEF Winning, Winners
    <2>3. weightedRows' = IF w = 0 THEN weightedRows
                          ELSE weightedRows \cup Group(prizeRows, metrics, s)
      BY <1>8, <1>12 DEF WeighGroup
    <2>4. PICK done, group, winning : /\ done = Weighed /\ winning = Winning
                                      /\ group = Group(prizeRows, metrics, s)
      OBVIOUS
    <2>5. /\ weightedRows = done \cap winning /\ Winning' = winning
          /\ Weighed' = done \cup group
      BY <1>1, <1>9, <2>1, <2>4
    <2>6. weightedRows' = (done \cup group) \cap winning
      <3>1. CASE w = 0
        <4>1. \A v \in group : v \notin winning
          BY <2>2, <2>4, <3>1
        <4>2. weightedRows' = done \cap winning
          BY <2>3, <2>5, <3>1
        <4> QED BY <4>1, <4>2
      <3>2. CASE w # 0
        <4>1. \A v \in group : v \in winning
          BY <2>2, <2>4, <3>2
        <4>2. weightedRows' = (done \cap winning) \cup group
          BY <2>3, <2>4, <2>5, <3>2
        <4> QED BY <4>1, <4>2
      <3> QED BY <3>1, <3>2
    <2> QED BY <2>5, <2>6
  <1>15. Weighed' = Ahead(prizeRows', metrics', s + 1)
    BY <1>1, <1>2, <1>7, <1>9, LoopRows, GroupsOfRows
  <1>16. Divides' /\ ArgumentsOK'
    BY <1>1, <1>2, ArgumentsStay
  <1>17. Weighing'
    BY <1>1, <1>2, <1>13, <1>14, <1>15, <1>16 DEF Weighing
  <1>18. HandingOut' /\ NothingDivided'
    BY <1>1, <1>2, <1>16 DEF HandingOut, NothingDivided
  <1> QED BY <1>1, <1>2, <1>16, <1>17, <1>18 DEF LoopInv

(* A common factor does not change an order of numbers.                     *)
LEMMA FactorCancels ==
    ASSUME NEW x \in Nat, NEW y \in Nat, NEW T \in Nat \ {0}
    PROVE  /\ x * T > y * T <=> x > y
           /\ x * T = y * T <=> x = y
  <1>1. ASSUME NEW a \in Nat, NEW b \in Nat, a > b PROVE a * T > b * T
    <2>1. PICK d \in Nat \ {0} : a = b + d
      <3>1. a - b \in Nat \ {0} /\ a = b + (a - b)
        BY <1>1
      <3> QED BY <3>1
    <2>2. (b + d) * T = b * T + d * T
      OBVIOUS
    <2>3. b * T \in Nat /\ d * T \in Nat /\ d * T > 0
      OBVIOUS
    <2> QED BY <2>1, <2>2, <2>3
  <1>2. x > y \/ y > x \/ x = y
    OBVIOUS
  <1>3. x * T \in Nat /\ y * T \in Nat
    OBVIOUS
  <1> QED BY <1>1, <1>2, <1>3

(* Once every weight is known, the loops floor and order the remainders as  *)
(* the closed form does.                                                    *)
LEMMA WeightsAreShares ==
    ASSUME ArgumentsOK, Divides, totalWeight = Whole
    PROVE  /\ \A u \in prizeRows : Floor(u) = FloorOf(u)
           /\ \A u, v \in prizeRows : RemainderAhead(u, v) <=> Precedes(u, v)
  <1>1. /\ prizePool \in Nat /\ percentages \in Seq(Nat) /\ IsDistribution(percentages)
        /\ Ranked(prizeRows, metrics) /\ Whole \in Nat \ {0}
    BY DividedArguments
  <1>2. ASSUME NEW u \in prizeRows
        PROVE  /\ Divisor(u) = Cardinality(Tied(prizeRows, metrics, u)) * Whole
               /\ Floor(u) = FloorOf(u)
               /\ Remainder(u) = RemainderOf(prizePool, percentages, prizeRows, metrics, u)
    <2>1. WeightOf(u) = GroupShare(percentages, prizeRows, metrics, u)
      BY GroupPercentageIs DEF WeightOf
    <2>2. Divisor(u) = Denominator(percentages, prizeRows, metrics, u)
      BY DEF Divisor, Denominator, Whole
    <2>3. prizePool * WeightOf(u) = Numerator(prizePool, percentages, prizeRows, metrics, u)
      BY <2>1 DEF Numerator
    <2>4. Floor(u) = FloorOf(u)
      BY <2>2, <2>3 DEF Floor, FloorOf, FloorAmount
    <2>5. Remainder(u) = RemainderOf(prizePool, percentages, prizeRows, metrics, u)
      BY <2>2, <2>3 DEF Remainder, RemainderOf
    <2> QED BY <2>4, <2>5 DEF Divisor
  <1>3. ASSUME NEW u \in prizeRows, NEW v \in prizeRows
        PROVE  RemainderAhead(u, v) <=> Precedes(u, v)
    <2>1. PICK a, b, p, q :
             /\ p = RemainderOf(prizePool, percentages, prizeRows, metrics, u)
             /\ q = RemainderOf(prizePool, percentages, prizeRows, metrics, v)
             /\ a = Cardinality(Tied(prizeRows, metrics, u))
             /\ b = Cardinality(Tied(prizeRows, metrics, v))
      OBVIOUS
    <2>2. p \in Nat /\ q \in Nat /\ a \in Nat \ {0} /\ b \in Nat \ {0}
      BY <1>1, <2>1, RemaindersNat
    <2>3. PICK T \in Nat \ {0} : T = Whole
      BY <1>1
    <2>4. RemainderAhead(u, v) <=>
             \/ p * (b * T) > q * (a * T)
             \/ /\ p * (b * T) = q * (a * T)
                /\ RankedBefore(metrics, TechnicalOrder, u, v)
      BY <1>2, <2>1, <2>3 DEF RemainderAhead
    <2>5. Precedes(u, v) <=>
             \/ p * b > q * a
             \/ p * b = q * a /\ RankedBefore(metrics, TechnicalOrder, u, v)
      BY <2>1 DEF Precedes, RemainderBefore, RemainderOf
    <2>6. p * (b * T) = (p * b) * T /\ q * (a * T) = (q * a) * T
      BY <2>2
    <2>7. PICK x, y \in Nat : x = p * b /\ y = q * a
      BY <2>2
    <2>8. /\ x * T > y * T <=> x > y
          /\ x * T = y * T <=> x = y
      BY FactorCancels
    <2> QED BY <2>4, <2>5, <2>6, <2>7, <2>8
  <1> QED BY <1>2, <1>3

(* The places of the winners, one each.                                     *)
LEMMA WinningHavePlaces ==
    ASSUME ArgumentsOK, Divides
    PROVE  /\ \A u \in Winning : PlaceOf(u) \in 0..(Cardinality(Winning) - 1)
           /\ \A u, v \in Winning : PlaceOf(u) = PlaceOf(v) => u = v
           /\ \A i \in 0..(Cardinality(Winning) - 1) : \E u \in Winning : PlaceOf(u) = i
  <1> DEFINE place == [u \in Winning |-> PlaceOf(u)]
  <1>1. PlacedWinners(place, prizePool, percentages, prizeRows, metrics, TechnicalOrder)
    BY DEF PlacedWinners, PlaceOf, Precedes, Winning
  <1>2. /\ prizePool \in Nat /\ percentages \in Seq(Nat) /\ IsDistribution(percentages)
        /\ Ranked(prizeRows, metrics) /\ Ordered(prizeRows, TechnicalOrder)
        /\ Winning = Winners(percentages, prizeRows, metrics)
    BY DividedArguments DEF Winning
  <1>3. \A u \in Winning : place[u] = PlaceOf(u)
    OBVIOUS
  <1> HIDE DEF place
  <1>4. PlacesTaken(place, Winning)
    BY <1>1, <1>2, WinnersHavePlaces
  <1> QED BY <1>3, <1>4 DEF PlacesTaken

(* The first loop is over: every winner has its floor.                      *)
LEMMA AllocateOK == ASSUME LoopInv, Allocate PROVE LoopInv'
  <1>1. /\ ArgumentsOK /\ Divides /\ turn = 1 /\ groups = {}
        /\ weightedRows = Weighed \cap Winning
        /\ totalWeight = ShareUpTo(percentages, Cardinality(Weighed))
    BY DEF LoopInv, Weighing, Allocate
  <1>2. /\ UNCHANGED arguments /\ turn' = turn
        /\ weightedRows' = weightedRows /\ totalWeight' = totalWeight
    BY DEF Allocate
  <1>3. /\ prizePool \in Nat /\ prizePool > 0 /\ Whole \in Nat \ {0}
        /\ \A u \in prizeRows : FloorOf(u) \in Nat
        /\ Winning \subseteq prizeRows
        /\ Leftover \in Nat /\ Leftover <= Cardinality(Winning)
        /\ Leftover = prizePool - SumFunction([u \in Winning |-> FloorOf(u)])
    BY <1>1, DividedArguments
  <1>4. weightedRows = Winning /\ totalWeight = Whole
    <2>1. Weighed = prizeRows
      BY <1>1 DEF Weighed
    <2> QED BY <1>1, <1>3, <2>1 DEF Whole
  <1>5. \A u \in prizeRows : Floor(u) = FloorOf(u)
    BY <1>1, <1>4, WeightsAreShares
  <1>6. allocated' = [u \in Winning |-> FloorOf(u)]
    BY <1>3, <1>4, <1>5 DEF Allocate
  <1>7. remaining' = Leftover
    BY <1>3, <1>6 DEF Allocate
  <1>8. Winning # {}
    <2>1. SUFFICES ASSUME Winning = {} PROVE FALSE
      OBVIOUS
    <2>2. Cardinality(Winning) = 0
      BY <2>1, FS_EmptySet
    <2>3. SumFunction([u \in Winning |-> FloorOf(u)]) = 0
      BY <2>1, SumEmpty DEF SumFunction
    <2> QED BY <1>3, <2>2, <2>3
  <1>9. loopAt' = "handOut"
    BY <1>3, <1>4, <1>8 DEF Allocate
  <1>10. /\ Winning' = Winning /\ Whole' = Whole /\ Leftover' = Leftover
         /\ \A u : FloorOf(u)' = FloorOf(u) /\ PlaceOf(u)' = PlaceOf(u)
         /\ Divides' /\ ArgumentsOK'
    BY <1>1, <1>2, ArgumentsStay
  <1>11. /\ remaining' \in Nat /\ remaining' <= Leftover'
         /\ turn' = Leftover' - remaining' + 1
    BY <1>1, <1>2, <1>3, <1>7, <1>10
  <1>12. allocated' = [u \in Winning' |->
            FloorOf(u)' + (IF PlaceOf(u)' < Leftover' - remaining' THEN 1 ELSE 0)]
    <2>1. Leftover' - remaining' = 0
      BY <1>3, <1>7, <1>10
    <2>2. \A u \in Winning : PlaceOf(u) \in Nat
      <3>1. Cardinality(Winning) \in Nat
        BY <1>1, DividedArguments
      <3> QED BY <1>1, <3>1, WinningHavePlaces
    <2>3. \A u \in Winning :
             FloorOf(u)' + (IF PlaceOf(u)' < Leftover' - remaining' THEN 1 ELSE 0)
               = FloorOf(u)
      BY <1>3, <1>10, <2>1, <2>2
    <2> QED BY <1>6, <1>10, <2>3
  <1>13. SumFunction(allocated') + remaining' = prizePool'
    <2>1. SumFunction(allocated') \in Int
      <3> DEFINE f == [u \in Winning |-> FloorOf(u)]
      <3>1. \A u \in Winning : f[u] \in Int
        BY <1>3
      <3>2. DOMAIN f = Winning
        OBVIOUS
      <3> HIDE DEF f
      <3>3. SumFunctionOnSet(f, Winning) \in Int
        BY <1>1, <3>1, DividedArguments, SumInt
      <3> QED BY <1>6, <3>2, <3>3 DEF SumFunction, f
    <2>2. Leftover = prizePool - SumFunction(allocated')
      BY <1>3, <1>6
    <2>3. prizePool' = prizePool
      BY <1>2 DEF arguments
    <2> QED BY <1>3, <1>7, <2>1, <2>2, <2>3
  <1>14. weightedRows' = Winning' /\ totalWeight' = Whole'
    BY <1>2, <1>4, <1>10
  <1>15. HandingOut'
    BY <1>9, <1>11, <1>12, <1>13, <1>14 DEF HandingOut
  <1>16. Weighing' /\ NothingDivided'
    BY <1>9, <1>10 DEF Weighing, NothingDivided
  <1> QED BY <1>9, <1>10, <1>15, <1>16 DEF LoopInv

(* The place of the remainder order whose turn it is gets its coin.         *)
LEMMA HandOutOK == ASSUME LoopInv, HandOut PROVE LoopInv'
  <1>1. /\ loopAt = "handOut" /\ remaining > 0 /\ loopAt' = "handOut"
        /\ UNCHANGED arguments
        /\ weightedRows' = weightedRows /\ totalWeight' = totalWeight
        /\ remaining' = remaining - 1
        /\ turn' = (turn % Cardinality(weightedRows)) + 1
    BY DEF HandOut
  <1>2. ArgumentsOK /\ Divides
    BY <1>1 DEF LoopInv, NothingDivided
  <1>3. /\ weightedRows = Winning /\ totalWeight = Whole
        /\ remaining \in Nat /\ remaining <= Leftover
        /\ turn = Leftover - remaining + 1
        /\ allocated = [u \in Winning |->
              FloorOf(u) + (IF PlaceOf(u) < Leftover - remaining THEN 1 ELSE 0)]
        /\ SumFunction(allocated) + remaining = prizePool
    BY <1>1, <1>2 DEF LoopInv, HandingOut
  <1>4. /\ Leftover \in Nat /\ Cardinality(Winning) \in Nat
        /\ Leftover <= Cardinality(Winning) /\ IsFiniteSet(Winning)
        /\ Winning \subseteq prizeRows /\ prizePool \in Nat
        /\ \A u \in Winning : FloorOf(u) \in Nat
    BY <1>2, DividedArguments
  <1>5. /\ \A u \in Winning : PlaceOf(u) \in 0..(Cardinality(Winning) - 1)
        /\ \A u, v \in Winning : PlaceOf(u) = PlaceOf(v) => u = v
    BY <1>2, WinningHavePlaces
  <1>6. PICK u \in Winning :
           IsAtPlace(u, turn) /\ allocated' = [allocated EXCEPT ![u] = @ + 1]
    BY <1>3 DEF HandOut
  <1>7. PICK n \in Nat : n = Leftover - remaining
    BY <1>3, <1>4
  <1>8. PlaceOf(u) = n
    <2>1. {v \in weightedRows : RemainderAhead(v, u)} = {v \in Winning : Precedes(v, u)}
      BY <1>2, <1>3, <1>4, WeightsAreShares
    <2>2. PlaceOf(u) = turn - 1
      BY <1>6, <2>1 DEF IsAtPlace, PlaceOf
    <2> QED BY <1>3, <1>7, <2>2
  <1>9. ASSUME NEW v \in Winning
        PROVE  /\ allocated[v] \in Nat
               /\ PlaceOf(v) < n + 1 <=> PlaceOf(v) < n \/ v = u
    <2>1. PlaceOf(v) \in Nat /\ (PlaceOf(v) = n <=> v = u)
      BY <1>4, <1>5, <1>8
    <2>2. allocated[v] \in Nat
      BY <1>3, <1>4
    <2> QED BY <2>1, <2>2
  <1>10. DOMAIN allocated = Winning /\ DOMAIN allocated' = Winning
    BY <1>3, <1>6
  <1>11. /\ allocated'[u] = allocated[u] + 1
         /\ \A v \in Winning \ {u} : allocated'[v] = allocated[v]
    BY <1>6, <1>10
  <1>12. SumFunction(allocated') = SumFunction(allocated) + 1
    <2>1. \A v \in Winning : allocated[v] \in Int /\ allocated'[v] \in Int
      BY <1>9, <1>11
    <2>2. SumFunctionOnSet(allocated', Winning) =
             SumFunctionOnSet(allocated, Winning) + allocated'[u] - allocated[u]
      BY <1>4, <1>11, <2>1, SumChange
    <2>3. SumFunctionOnSet(allocated, Winning) \in Int
      BY <1>4, <2>1, SumInt
    <2> QED BY <1>9, <1>10, <1>11, <2>2, <2>3 DEF SumFunction
  <1>13. SumFunction(allocated') + remaining' = prizePool
    <2>1. SumFunction(allocated) \in Int
      <3>1. \A v \in Winning : allocated[v] \in Int
        BY <1>9
      <3> QED BY <1>4, <1>10, <3>1, SumInt DEF SumFunction
    <2> QED BY <1>1, <1>3, <1>12, <2>1
  <1>14. allocated' = [v \in Winning |->
            FloorOf(v) + (IF PlaceOf(v) < Leftover - remaining' THEN 1 ELSE 0)]
    <2>1. Leftover - remaining' = n + 1
      BY <1>1, <1>3, <1>4, <1>7
    <2>2. ASSUME NEW v \in Winning
          PROVE  allocated'[v] = FloorOf(v) + (IF PlaceOf(v) < n + 1 THEN 1 ELSE 0)
      <3>1. allocated[v] = FloorOf(v) + (IF PlaceOf(v) < n THEN 1 ELSE 0)
        BY <1>3, <1>7
      <3>2. FloorOf(v) \in Nat
        BY <1>4
      <3>3. CASE v = u
        BY <1>7, <1>8, <1>9, <1>11, <3>1, <3>2, <3>3
      <3>4. CASE v # u
        BY <1>9, <1>11, <3>1, <3>4
      <3> QED BY <3>3, <3>4
    <2> QED BY <1>3, <1>6, <2>1, <2>2
  <1>15. /\ remaining' \in Nat /\ remaining' <= Leftover
         /\ remaining' > 0 => turn' = Leftover - remaining' + 1
    <2>1. PICK c \in Nat : c = Cardinality(Winning)
      BY <1>4
    <2>2. turn \in Nat /\ (remaining' > 0 => turn < c)
      BY <1>1, <1>3, <1>4, <2>1
    <2>3. \A x, y \in Nat : x < y => x % y = x
      OBVIOUS
    <2>4. remaining' > 0 => turn' = turn + 1
      BY <1>1, <1>3, <2>1, <2>2, <2>3
    <2> QED BY <1>1, <1>3, <1>4, <2>4
  <1>16. /\ Winning' = Winning /\ Whole' = Whole /\ Leftover' = Leftover
         /\ \A v : FloorOf(v)' = FloorOf(v) /\ PlaceOf(v)' = PlaceOf(v)
         /\ Divides' /\ ArgumentsOK' /\ prizePool' = prizePool
    BY <1>1, <1>2, ArgumentsStay DEF arguments
  <1>17. HandingOut'
    BY <1>1, <1>3, <1>13, <1>14, <1>15, <1>16 DEF HandingOut
  <1>18. Weighing' /\ NothingDivided'
    BY <1>1, <1>16 DEF Weighing, NothingDivided
  <1> QED BY <1>1, <1>16, <1>17, <1>18 DEF LoopInv

(* The loops stop when no coin is left.                                     *)
LEMMA FinishOK == ASSUME LoopInv, Finish PROVE LoopInv'
  <1>1. /\ loopAt = "handOut" /\ remaining <= 0 /\ loopAt' = "done"
        /\ UNCHANGED arguments /\ prizePool' = prizePool
        /\ weightedRows' = weightedRows /\ totalWeight' = totalWeight
        /\ allocated' = allocated /\ remaining' = remaining
    BY DEF Finish, arguments
  <1>2. ArgumentsOK /\ Divides
    BY <1>1 DEF LoopInv, NothingDivided
  <1>3. /\ weightedRows = Winning /\ totalWeight = Whole
        /\ remaining \in Nat /\ remaining <= Leftover
        /\ allocated = [u \in Winning |->
              FloorOf(u) + (IF PlaceOf(u) < Leftover - remaining THEN 1 ELSE 0)]
        /\ SumFunction(allocated) + remaining = prizePool
    BY <1>1, <1>2 DEF LoopInv, HandingOut
  <1>4. /\ Winning' = Winning /\ Whole' = Whole /\ Leftover' = Leftover
        /\ \A v : FloorOf(v)' = FloorOf(v) /\ PlaceOf(v)' = PlaceOf(v)
        /\ Divides' /\ ArgumentsOK'
    BY <1>1, <1>2, ArgumentsStay
  <1>5. remaining' = 0
    BY <1>1, <1>3
  <1>6. HandingOut'
    BY <1>1, <1>3, <1>4, <1>5 DEF HandingOut
  <1>7. Weighing' /\ NothingDivided'
    BY <1>1, <1>4 DEF Weighing, NothingDivided
  <1> QED BY <1>1, <1>4, <1>6, <1>7 DEF LoopInv

LEMMA LoopStepOK == LoopInv /\ [LoopNext]_loopVars => LoopInv'
  <1> SUFFICES ASSUME LoopInv, [LoopNext]_loopVars PROVE LoopInv'
    OBVIOUS
  <1>1. CASE UNCHANGED loopVars
    BY <1>1 DEF loopVars, arguments, LoopInv, ArgumentsOK, Weighing, HandingOut,
                NothingDivided, Divides, Weighed, Winning, Whole, Leftover, FloorOf,
                PlaceOf, Precedes
  <1>2. CASE LoopNext
    BY <1>2, WeighGroupOK, AllocateOK, HandOutOK, FinishOK DEF LoopNext
  <1> QED BY <1>1, <1>2

(* What the loops keep true of the division, for every pool, distribution   *)
(* and standing of the rows (bolao-prize.service.ts :57-122).               *)
THEOREM LoopsKeepTheDivision == LoopSpec => []LoopInv
  BY LoopInitOK, LoopStepOK, PTL DEF LoopSpec

LEMMA LoopInvDividesFairly == LoopInv => DividedFairly
  <1> SUFFICES ASSUME LoopInv PROVE DividedFairly
    OBVIOUS
  <1>1. PoolIsDivided
    <2>1. CASE loopAt = "handOut"
      <3>1. Divides
        BY <2>1 DEF LoopInv, NothingDivided
      <3> QED BY <2>1, <3>1 DEF LoopInv, HandingOut, PoolIsDivided, TotalOf
    <2>2. CASE loopAt = "done" /\ Divides
      <3>1. remaining = 0 /\ SumFunction(allocated) + remaining = prizePool
        BY <2>2 DEF LoopInv, HandingOut
      <3>2. allocated = [u \in Winning |->
               FloorOf(u) + (IF PlaceOf(u) < Leftover - remaining THEN 1 ELSE 0)]
        BY <2>2 DEF LoopInv, HandingOut
      <3>3. /\ Winning \subseteq prizeRows /\ IsFiniteSet(Winning)
            /\ \A u \in prizeRows : FloorOf(u) \in Nat
        BY <2>2, DividedArguments DEF LoopInv
      <3>4. DOMAIN allocated = Winning /\ \A u \in Winning : allocated[u] \in Int
        BY <3>2, <3>3
      <3>5. SumFunction(allocated) \in Int
        BY <3>3, <3>4, SumInt DEF SumFunction
      <3> QED BY <2>2, <3>1, <3>5 DEF PoolIsDivided, TotalOf
    <2>3. CASE loopAt # "handOut" /\ ~(loopAt = "done" /\ Divides)
      BY <2>3 DEF PoolIsDivided
    <2> QED BY <2>1, <2>2, <2>3
  <1>2. ASSUME loopAt = "done", NEW u \in DOMAIN allocated, NEW v \in DOMAIN allocated,
               metrics[u] = metrics[v]
        PROVE  allocated[u] - allocated[v] <= 1
    <2>1. CASE ~Divides
      <3>1. allocated[u] = 0 /\ allocated[v] = 0
        BY <2>1 DEF LoopInv, NothingDivided
      <3> QED BY <3>1
    <2>2. CASE Divides
      <3>1. allocated = [x \in Winning |->
               FloorOf(x) + (IF PlaceOf(x) < Leftover - remaining THEN 1 ELSE 0)]
        BY <1>2, <2>2 DEF LoopInv, HandingOut
      <3>2. /\ Winning \subseteq prizeRows /\ prizePool \in Nat
            /\ percentages \in Seq(Nat) /\ IsDistribution(percentages)
            /\ Ranked(prizeRows, metrics)
        BY <2>2, DividedArguments DEF LoopInv
      <3>3. u \in prizeRows /\ v \in prizeRows
        BY <3>1, <3>2
      <3>4. PICK s, n, a, T, w :
               /\ s = metrics[u] /\ s = metrics[v]
               /\ n = Cardinality(Group(prizeRows, metrics, s))
               /\ a = Cardinality(Ahead(prizeRows, metrics, s))
               /\ T = ShareUpTo(percentages, Cardinality(prizeRows))
               /\ w = ShareUpTo(percentages, a + n) - ShareUpTo(percentages, a)
        BY <1>2
      <3>5. ASSUME NEW x \in prizeRows, s = metrics[x]
            PROVE  FloorOf(x) = (prizePool * w) \div (n * T)
        <4>1. FloorAmount(prizePool, percentages, prizeRows, metrics, x)
                 = (prizePool * w) \div (n * T)
          BY <3>2, <3>4, <3>5, FloorOfGroup
        <4> QED BY <4>1 DEF FloorOf
      <3>6. FloorOf(u) = FloorOf(v)
        BY <3>3, <3>4, <3>5
      <3>7. FloorOf(u) \in Nat
        BY <2>2, <3>3, DividedArguments DEF LoopInv
      <3>8. PICK x, y \in {0, 1} : /\ allocated[u] = FloorOf(u) + x
                                   /\ allocated[v] = FloorOf(v) + y
        BY <3>1
      <3> QED BY <3>6, <3>7, <3>8
    <2> QED BY <2>1, <2>2
  <1>3. TiesAreFair
    BY <1>2 DEF TiesAreFair
  <1> QED BY <1>1, <1>3 DEF DividedFairly

(* No coin is lost or invented by the loops, all are handed out, and tied   *)
(* rows get the same or one coin apart (bolao-prize.service.ts :94-121).    *)
THEOREM PrizeIsDividedFairly == LoopSpec => []DividedFairly
  BY LoopsKeepTheDivision, LoopInvDividesFairly, PTL

LEMMA LoopInvComputesPayouts == LoopInv => ComputesPayouts
  <1> SUFFICES ASSUME LoopInv, loopAt = "done", prizePool > 0
               PROVE  allocated =
                  Payouts(prizePool, percentages, prizeRows, metrics, TechnicalOrder)
    BY DEF ComputesPayouts
  <1> DEFINE P == Payouts(prizePool, percentages, prizeRows, metrics, TechnicalOrder)
  <1>1. P = [u \in Winning |-> FloorOf(u)
               + ExtraCoin(prizePool, percentages, prizeRows, metrics, TechnicalOrder, u)]
    BY DEF Payouts, Winning, FloorOf
  <1>2. \A u : ExtraCoin(prizePool, percentages, prizeRows, metrics, TechnicalOrder, u)
                 = IF PlaceOf(u) < Leftover THEN 1 ELSE 0
    BY DEF ExtraCoin, PlaceOf, Precedes, Winning, Leftover
  <1>3. CASE Divides
    <2>1. /\ remaining = 0
          /\ allocated = [u \in Winning |->
                FloorOf(u) + (IF PlaceOf(u) < Leftover - remaining THEN 1 ELSE 0)]
      BY <1>3 DEF LoopInv, HandingOut
    <2>2. Leftover - remaining = Leftover
      BY <1>3, <2>1, DividedArguments DEF LoopInv
    <2> QED BY <1>1, <1>2, <2>1, <2>2
  <1>4. CASE ~Divides
    <2>1. allocated = [u \in prizeRows |-> 0] /\ prizeRows = {}
      BY <1>4 DEF LoopInv, NothingDivided, Divides
    <2>2. Winning = {}
      BY <2>1 DEF Winning, Winners
    <2> QED BY <1>1, <2>1, <2>2
  <1> QED BY <1>3, <1>4

(* The loops of calculatePayouts compute the closed form that the Mesas are *)
(* specified with (bolao-prize.service.ts :57-122).                         *)
THEOREM LoopsComputePayouts == LoopSpec => []ComputesPayouts
  BY LoopsKeepTheDivision, LoopInvComputesPayouts, PTL

(* The loops always find their next group and their next row.               *)
NextIsFound ==
    /\ loopAt = "weigh" /\ groups # {} => \E p \in groups : IsNextGroup(p)
    /\ loopAt = "handOut" /\ remaining > 0 => \E u \in weightedRows : IsAtPlace(u, turn)

LEMMA LoopInvFindsNext == LoopInv => NextIsFound
  <1> SUFFICES ASSUME LoopInv PROVE NextIsFound
    OBVIOUS
  <1>1. ASSUME loopAt = "weigh", groups # {} PROVE \E p \in groups : IsNextGroup(p)
    <2> DEFINE n == Cardinality(prizeRows)
               after == {e \in groups \X groups : e[2] < e[1]}
    <2>1. /\ ArgumentsOK
          /\ groups \subseteq {Position(prizeRows, metrics, u) : u \in prizeRows}
      BY <1>1 DEF LoopInv, Weighing
    <2>2. IsFiniteSet(groups)
      <3>1. ASSUME NEW u \in prizeRows PROVE Position(prizeRows, metrics, u) \in 1..(1 + n)
        <4> DEFINE better == {v \in prizeRows : metrics[v] < metrics[u]}
        <4>1. /\ Cardinality(better) \in Nat /\ n \in Nat
              /\ Cardinality(better) <= n
          BY <2>1, LoopRows, FS_Subset, FS_CardinalityType
        <4>2. Position(prizeRows, metrics, u) = 1 + Cardinality(better)
          BY DEF Position
        <4> HIDE DEF better, n
        <4> QED BY <4>1, <4>2
      <3>2. 1 \in Int /\ 1 + n \in Int
        BY <2>1, LoopRows
      <3> HIDE DEF n
      <3>3. IsFiniteSet(1..(1 + n))
        BY <3>2, FS_Interval
      <3>4. groups \subseteq 1..(1 + n)
        BY <2>1, <3>1
      <3> QED BY <3>3, <3>4, FS_Subset
    <2>3. \A p \in groups : p \in Nat
      BY <2>1, LoopRows, PositionIsPositive
    <2>4. \A p, q \in groups : <<p, q>> \in after <=> q < p
      OBVIOUS
    <2> HIDE DEF n, after
    <2>5. \A p, q, r \in groups :
             <<p, q>> \in after /\ <<q, r>> \in after => <<p, r>> \in after
      BY <2>3, <2>4
    <2>6. \A p, q \in groups : p # q => <<p, q>> \in after \/ <<q, p>> \in after
      BY <2>3, <2>4
    <2>7. PICK p \in groups : \A q \in groups \ {p} : <<q, p>> \in after
      BY <1>1, <2>2, <2>5, <2>6, LastElement
    <2>8. ASSUME NEW q \in groups PROVE p <= q
      <3>1. CASE q = p
        BY <2>3, <3>1
      <3>2. CASE q # p
        <4>1. <<q, p>> \in after
          BY <2>7, <3>2
        <4>2. p < q
          BY <2>4, <4>1
        <4> QED BY <2>3, <4>2
      <3> QED BY <3>1, <3>2
    <2> QED BY <2>7, <2>8 DEF IsNextGroup
  <1>2. ASSUME loopAt = "handOut", remaining > 0
        PROVE  \E u \in weightedRows : IsAtPlace(u, turn)
    <2>1. ArgumentsOK /\ Divides
      BY <1>2 DEF LoopInv, NothingDivided
    <2>2. /\ weightedRows = Winning /\ totalWeight = Whole
          /\ remaining \in Nat /\ remaining <= Leftover
          /\ turn = Leftover - remaining + 1
      BY <1>2, <2>1 DEF LoopInv, HandingOut
    <2>3. /\ Leftover \in Nat /\ Cardinality(Winning) \in Nat
          /\ Leftover <= Cardinality(Winning) /\ Winning \subseteq prizeRows
      BY <2>1, DividedArguments
    <2>4. turn - 1 \in 0..(Cardinality(Winning) - 1)
      BY <1>2, <2>2, <2>3
    <2>5. PICK u \in Winning : PlaceOf(u) = turn - 1
      BY <2>1, <2>4, WinningHavePlaces
    <2>6. {v \in weightedRows : RemainderAhead(v, u)} = {v \in Winning : Precedes(v, u)}
      BY <2>1, <2>2, <2>3, WeightsAreShares
    <2> QED BY <2>2, <2>5, <2>6 DEF IsAtPlace, PlaceOf
  <1> QED BY <1>1, <1>2 DEF NextIsFound

(* The loops never look for a group or a row that is not there: they can    *)
(* go on until they are done (bolao-prize.service.ts :71-121).              *)
THEOREM LoopsFindNext == LoopSpec => []NextIsFound
  BY LoopsKeepTheDivision, LoopInvFindsNext, PTL

(* The rows of a Mesa are ranked.                                           *)
LEMMA RowsAreRanked ==
    ASSUME NEW rows \in SUBSET Users
    PROVE  Ranked(rows, Standing) /\ Ordered(rows, Order)
  <1>1. IsFiniteSet(rows)
    BY DataAssumption, FS_Subset
  <1> QED BY <1>1, DataAssumption DEF Ranked, Ordered

-----------------------------------------------------------------------------
(* Type correctness.                                                        *)

LEMMA IdleIsRecord == NoRow \in MesaRow /\ Idle \in TxRecord
  BY DEF NoRow, MesaRow, Statuses, Idle, TxRecord, Ops

LEMMA NewMesaIsRow == ASSUME NEW m \in Mesas PROVE NewMesa(m) \in MesaRow
  BY TermsAssumption, IdleIsRecord DEF NewMesa, NoRow, MesaRow, Statuses

(* Ending a transaction keeps the type of tx.                               *)
LEMMA EndKeepsTx ==
    ASSUME TxTypeOK, NEW t \in Slots, End(t)
    PROVE  TxTypeOK'
  BY IdleIsRecord DEF TxTypeOK, End, Idle

(* The writes of an entry: debit, seat and admission.                       *)
LEMMA EntryKeepsTypes ==
    ASSUME TypeOK, NEW m \in Mesas, NEW u \in Users,
           EntryPossible(m, u), DebitEntry(m, u), TakeSeat(m), Admit(m, u)
    PROVE  /\ mesa' \in [Mesas -> MesaRow]
           /\ participant' \in [Mesas -> [Users -> ParticipantRow]]
           /\ wallet' \in [Users -> Nat]
           /\ ledger' \in SUBSET LedgerRow
  <1>1. IsPaid(m) \in BOOLEAN
    BY DEF IsPaid
  <1>2. AccessCost[m] \in Nat /\ (IsPaid(m) => AccessCost[m] > 0)
    BY TermsAssumption DEF IsPaid
  <1>3. mesa' \in [Mesas -> MesaRow]
    <2> DEFINE gross == mesa[m].gross + AccessCost[m]
               seated == [mesa[m] EXCEPT !.current = @ + 1]
               paidRow == [seated EXCEPT !.gross = gross,
                                         !.fee = PlatformFee(gross),
                                         !.pool = PrizePool(gross)]
    <2>1. mesa[m] \in MesaRow /\ mesa \in [Mesas -> MesaRow]
      BY DEF TypeOK
    <2>2. gross \in Nat
      BY <1>2, <2>1 DEF MesaRow
    <2>3. PlatformFee(gross) \in Nat /\ PrizePool(gross) \in Nat
      BY <2>2, PoolIsNat
    <2>4. seated \in MesaRow
      BY <2>1 DEF MesaRow
    <2>5. paidRow \in MesaRow
      BY <2>2, <2>3, <2>4 DEF MesaRow
    <2>6. mesa' = [mesa EXCEPT ![m] = IF IsPaid(m) THEN paidRow ELSE seated]
      BY DEF TakeSeat
    <2> QED BY <2>1, <2>4, <2>5, <2>6
  <1>4. participant' \in [Mesas -> [Users -> ParticipantRow]]
    <2>1. participant[m] \in [Users -> ParticipantRow]
      BY DEF TypeOK
    <2>2. [participant[m][u] EXCEPT !.status = "APPROVED", !.paid = IsPaid(m)]
             \in ParticipantRow
      BY <1>1, <2>1 DEF ParticipantRow
    <2> QED BY <2>1, <2>2 DEF TypeOK, Admit
  <1>5. wallet' \in [Users -> Nat]
    <2>1. CASE IsPaid(m)
      <3>1. wallet[u] >= AccessCost[m]
        BY <2>1 DEF EntryPossible
      <3>2. wallet[u] - AccessCost[m] \in Nat
        BY <1>2, <3>1 DEF TypeOK
      <3> QED BY <2>1, <3>2 DEF TypeOK, DebitEntry
    <2>2. CASE ~IsPaid(m)
      BY <2>2 DEF TypeOK, DebitEntry
    <2> QED BY <2>1, <2>2
  <1>6. ledger' \in SUBSET LedgerRow
    <2>1. CASE IsPaid(m)
      <3>1. EntryKey(m, u) \in Keys
        BY DEF EntryKey, Keys
      <3>2. [key |-> EntryKey(m, u), user |-> u, type |-> "DEBIT",
             amount |-> AccessCost[m]] \in LedgerRow
        BY <1>2, <2>1, <3>1 DEF LedgerRow
      <3> QED BY <2>1, <3>2 DEF TypeOK, DebitEntry
    <2>2. CASE ~IsPaid(m)
      BY <2>2 DEF TypeOK, DebitEntry
    <2> QED BY <2>1, <2>2
  <1> QED BY <1>3, <1>4, <1>5, <1>6

(* The writes of a settlement.                                              *)
LEMMA SettlementKeepsTypes ==
    ASSUME TypeOK, NEW m \in Mesas, NEW seen \in MesaRow,
           NEW rows \in SUBSET Users, Settle(m, seen, rows)
    PROVE  /\ mesa' \in [Mesas -> MesaRow]
           /\ wallet' \in [Users -> Nat]
           /\ ledger' \in SUBSET LedgerRow
  <1> DEFINE payout == PayoutsOf(m, seen, rows)
  <1>1. SettledPool(m, seen) \in Nat /\ SettledFee(m, seen) \in Nat
    <2>1. seen.gross \in Nat /\ SponsorPool[m] \in Nat
      BY TermsAssumption DEF MesaRow
    <2> QED BY <2>1, PoolIsNat DEF SettledPool, SettledFee
  <1>2. \A u \in DOMAIN payout : u \in rows /\ payout[u] \in Nat
    <2>1. Shares[m] \in Seq(Nat) /\ IsDistribution(Shares[m])
      BY TermsAssumption
    <2> QED BY <1>1, <2>1, RowsAreRanked, PayoutIsNat DEF PayoutsOf
  <1>3. mesa' \in [Mesas -> MesaRow]
    <2>1. mesa[m] \in MesaRow
      BY DEF TypeOK
    <2>2. SettledRow(m, seen) \in MesaRow
      BY <1>1, <2>1 DEF SettledRow, MesaRow, Statuses
    <2> QED BY <2>2 DEF TypeOK, Settle
  <1>4. wallet' \in [Users -> Nat]
    <2>1. \A u \in Users :
             (IF u \in DOMAIN payout /\ Eligible(m, u)
              THEN wallet[u] + payout[u] ELSE wallet[u]) \in Nat
      BY <1>2 DEF TypeOK
    <2> QED BY <2>1 DEF Settle
  <1>5. ledger' \in SUBSET LedgerRow
    <2>1. ASSUME NEW u \in DOMAIN payout, Eligible(m, u)
          PROVE  [key |-> PayoutKey(m, u), user |-> u, type |-> "CREDIT",
                  amount |-> payout[u]] \in LedgerRow
      <3>1. u \in Users /\ payout[u] \in Nat
        BY <1>2, <2>1
      <3>2. payout[u] > 0
        BY <2>1 DEF Settle, AmountsPositive
      <3>3. PayoutKey(m, u) \in Keys
        BY <3>1 DEF PayoutKey, Keys
      <3> QED BY <3>1, <3>2, <3>3 DEF LedgerRow
    <2>2. PayoutEntries(m, seen, rows) \subseteq LedgerRow
      BY <2>1 DEF PayoutEntries
    <2> QED BY <2>2 DEF TypeOK, Settle
  <1> QED BY <1>3, <1>4, <1>5

LEMMA InitTypes == Init => TypeOK
  <1> SUFFICES ASSUME Init PROVE TypeOK
    OBVIOUS
  <1>1. mesa \in [Mesas -> MesaRow]
    BY IdleIsRecord, NewMesaIsRow DEF Init
  <1>2. participant \in [Mesas -> [Users -> ParticipantRow]]
    BY DEF Init, ParticipantRow
  <1>3. wallet \in [Users -> Nat] /\ ledger \in SUBSET LedgerRow
    BY DataAssumption DEF Init
  <1>4. invite \in [Invites -> InviteRow] /\ pro \in SUBSET Users
    BY DEF Init, InviteRow
  <1>5. clock \in [Mesas -> {"before", "open", "ended"}]
    BY DEF Init
  <1>6. TxTypeOK
    BY IdleIsRecord DEF Init, TxTypeOK, Idle
  <1> QED BY <1>1, <1>2, <1>3, <1>4, <1>5, <1>6 DEF TypeOK

LEMMA NextTypes == TypeOK /\ [Next]_vars => TypeOK'
  <1> SUFFICES ASSUME TypeOK, [Next]_vars PROVE TypeOK'
    OBVIOUS
  <1> USE DEF TxTypeOK
  <1>1. ASSUME NEW m \in Mesas, CreateMesa(m) PROVE TypeOK'
    BY <1>1, NewMesaIsRow DEF TypeOK, CreateMesa
  <1>2. ASSUME NEW m \in Mesas, Tick(m) PROVE TypeOK'
    BY <1>2 DEF TypeOK, Tick
  <1>3. ASSUME NEW i \in Invites, CreateInvite(i) \/ ExpireInvite(i) PROVE TypeOK'
    BY <1>3 DEF TypeOK, CreateInvite, ExpireInvite, InviteRow
  <1>4. ASSUME NEW u \in Users, LapsePro(u) PROVE TypeOK'
    BY <1>4 DEF TypeOK, LapsePro
  <1>5. ASSUME NEW t \in Slots, NEW m \in Mesas, NEW u \in Users,
               NEW i \in Invites \cup {None}, JoinRead(t, m, u, i)
        PROVE  TypeOK'
    <2> DEFINE r == [Idle EXCEPT !.op = "join", !.mesa = m, !.user = u, !.invite = i,
                                 !.existing = participant[m][u].status # "ABSENT"]
    <2>1. r \in TxRecord /\ r.mesa = m /\ r.user = u
      BY IdleIsRecord DEF TxRecord, Idle, Ops
    <2>2. tx' = [tx EXCEPT ![t] = r]
      BY <1>5 DEF JoinRead, Begin
    <2> QED BY <1>5, <2>1, <2>2 DEF TypeOK, JoinRead
  <1>6. ASSUME NEW t \in Slots, NEW m \in Mesas, NEW u \in Users,
               NEW v \in {"approve", "reject"}, ReviewRead(t, m, u, v)
        PROVE  TypeOK'
    <2> DEFINE r == [Idle EXCEPT !.op = v, !.mesa = m, !.user = u, !.existing = TRUE]
    <2>1. r \in TxRecord /\ r.mesa = m /\ r.user = u
      BY IdleIsRecord DEF TxRecord, Idle, Ops
    <2>2. tx' = [tx EXCEPT ![t] = r]
      BY <1>6 DEF ReviewRead, Begin
    <2> QED BY <1>6, <2>1, <2>2 DEF TypeOK, ReviewRead
  <1>7. ASSUME NEW t \in Slots, NEW m \in Mesas, NEW force \in BOOLEAN,
               CloseRead(t, m, force)
        PROVE  TypeOK'
    <2> DEFINE r == [Idle EXCEPT !.op = "closeRead", !.mesa = m, !.seen = mesa[m]]
    <2>1. mesa[m] \in MesaRow
      BY DEF TypeOK
    <2>2. r \in TxRecord /\ r.mesa = m /\ r.op = "closeRead"
      BY <2>1, IdleIsRecord DEF TxRecord, Idle, Ops
    <2>3. tx' = [tx EXCEPT ![t] = r]
      BY <1>7 DEF CloseRead, Begin
    <2> QED BY <1>7, <2>2, <2>3 DEF TypeOK, CloseRead
  <1>8. ASSUME NEW t \in Slots, JoinCommit(t) PROVE TypeOK'
    <2>1. tx[t].mesa \in Mesas /\ tx[t].user \in Users
          /\ tx[t].invite \in Invites \cup {None}
      BY <1>8 DEF TypeOK, JoinCommit, TxRecord
    <2>2. TxTypeOK'
      BY <1>8, EndKeepsTx DEF TypeOK, JoinCommit
    <2>3. invite' \in [Invites -> InviteRow]
      BY <1>8, <2>1 DEF TypeOK, JoinCommit, ReserveInvite, InviteRow
    <2> QED BY <1>8, <2>1, <2>2, <2>3, EntryKeepsTypes DEF TypeOK, JoinCommit
  <1>9. ASSUME NEW t \in Slots, RejectCommit(t) PROVE TypeOK'
    <2>1. tx[t].mesa \in Mesas /\ tx[t].user \in Users
      BY <1>9 DEF TypeOK, RejectCommit
    <2>2. TxTypeOK'
      BY <1>9, EndKeepsTx DEF TypeOK, RejectCommit
    <2>3. participant' \in [Mesas -> [Users -> ParticipantRow]]
      <3> DEFINE m == tx[t].mesa
                 u == tx[t].user
                 row == [participant[m][u] EXCEPT !.status = "REJECTED"]
      <3>1. participant[m] \in [Users -> ParticipantRow]
        BY <2>1 DEF TypeOK
      <3>2. row \in ParticipantRow
        BY <2>1, <3>1 DEF ParticipantRow
      <3>3. participant' = [participant EXCEPT ![m] = [@ EXCEPT ![u] = row]]
        BY <1>9 DEF RejectCommit
      <3> QED BY <2>1, <3>1, <3>2, <3>3 DEF TypeOK
    <2> QED BY <1>9, <2>2, <2>3 DEF TypeOK, RejectCommit
  <1>10. ASSUME NEW t \in Slots, ApproveCommit(t) PROVE TypeOK'
    <2>1. tx[t].mesa \in Mesas /\ tx[t].user \in Users
      BY <1>10 DEF TypeOK, ApproveCommit
    <2>2. TxTypeOK'
      BY <1>10, EndKeepsTx DEF TypeOK, ApproveCommit
    <2> QED BY <1>10, <2>1, <2>2, EntryKeepsTypes DEF TypeOK, ApproveCommit
  <1>11. ASSUME NEW t \in Slots, CloseCheck(t) \/ CloseRank(t) PROVE TypeOK'
    <2>1. tx[t] \in TxRecord /\ tx[t].mesa \in Mesas
      BY <1>11 DEF TypeOK, CloseCheck, CloseRank
    <2>2. Approved(tx[t].mesa) \in SUBSET Users
      BY DEF Approved
    <2>3. TxTypeOK'
      <3>1. PICK r \in {[tx[t] EXCEPT !.op = "closeChecked"],
                        [tx[t] EXCEPT !.op = "closeRanked",
                                      !.rows = Approved(tx[t].mesa)]} :
                tx' = [tx EXCEPT ![t] = r]
        BY <1>11 DEF CloseCheck, CloseRank, Step
      <3>2. /\ r \in TxRecord /\ r.mesa \in Mesas
            /\ r.op \in {"closeChecked", "closeRanked"}
        BY <2>1, <2>2 DEF TxRecord, Ops
      <3> QED BY <3>1, <3>2 DEF TypeOK
    <2> QED BY <1>11, <2>3 DEF TypeOK, CloseCheck, CloseRank
  <1>12. ASSUME NEW t \in Slots, CloseCommit(t) PROVE TypeOK'
    <2> DEFINE m == tx[t].mesa
               rows == tx[t].rows
    <2>1. m \in Mesas /\ rows \in SUBSET Users /\ tx[t].seen \in MesaRow
      BY <1>12 DEF TypeOK, TxTypeOK, CloseCommit, TxRecord
    <2>2. TxTypeOK'
      BY <1>12, EndKeepsTx DEF TypeOK, CloseCommit
    <2>3. participant' \in [Mesas -> [Users -> ParticipantRow]]
      <3>1. \A u \in Users : Position(rows, Standing, u) \in Nat
        BY <2>1, RowsAreRanked, PositionIsPositive DEF Ranked
      <3>2. participant[m] \in [Users -> ParticipantRow]
        BY <2>1 DEF TypeOK
      <3>3. \A u \in Users :
               [participant[m][u] EXCEPT !.place = Position(rows, Standing, u)]
                  \in ParticipantRow
        BY <3>1, <3>2 DEF ParticipantRow
      <3> QED BY <1>12, <3>2, <3>3 DEF TypeOK, CloseCommit
    <2>4. CASE tx[t].seen.settled
      <3> DEFINE row == [mesa[m] EXCEPT !.status = "CLOSED"]
      <3>1. row \in MesaRow
        BY <2>1 DEF TypeOK, MesaRow, Statuses
      <3>2. mesa' = [mesa EXCEPT ![m] = row]
        BY <1>12, <2>4 DEF CloseCommit
      <3>3. mesa' \in [Mesas -> MesaRow]
        BY <3>1, <3>2 DEF TypeOK
      <3> QED BY <1>12, <2>2, <2>3, <2>4, <3>3 DEF TypeOK, CloseCommit
    <2>5. CASE ~tx[t].seen.settled
      <3>1. Settle(m, tx[t].seen, rows)
        BY <1>12, <2>5 DEF CloseCommit
      <3>2. /\ mesa' \in [Mesas -> MesaRow]
            /\ wallet' \in [Users -> Nat]
            /\ ledger' \in SUBSET LedgerRow
        BY <2>1, <3>1, SettlementKeepsTypes
      <3> QED BY <1>12, <2>2, <2>3, <3>2 DEF TypeOK, CloseCommit
    <2> QED BY <2>4, <2>5
  <1>13. ASSUME NEW t \in Slots, Abort(t) PROVE TypeOK'
    <2>1. TxTypeOK'
      BY <1>13, EndKeepsTx DEF TypeOK, Abort
    <2> QED BY <1>13, <2>1 DEF TypeOK, Abort
  <1>14. ASSUME UNCHANGED vars PROVE TypeOK'
    BY <1>14 DEF TypeOK, vars
  <1> QED
    BY <1>1, <1>2, <1>3, <1>4, <1>5, <1>6, <1>7, <1>8, <1>9, <1>10, <1>11,
       <1>12, <1>13, <1>14 DEF Next

(* Every reachable state has its type; no balance is negative and no entry   *)
(* of the ledger moves zero coins.                                           *)
THEOREM TypeCorrect == Spec => []TypeOK
  BY InitTypes, NextTypes, PTL DEF Spec

-----------------------------------------------------------------------------
(***************************************************************************)
(* The safety properties of the Mesas, on top of their types.              *)
(*                                                                         *)
(* Every step either leaves the four tables alone, or is the commit of one *)
(* entry, one rejection or one closing, or creates a Mesa (StepCases).     *)
(* EntryShape and CloseShape say once what those commits change; each      *)
(* invariant is then a short argument over the cases.                      *)
(***************************************************************************)

tables == <<mesa, participant, wallet, ledger>>

(* The commits that admit a participant.                                   *)
Commit(t) == JoinCommit(t) \/ ApproveCommit(t)

LEMMA StepCases ==
    ASSUME TypeOK, [Next]_vars
    PROVE  \/ UNCHANGED tables
           \/ \E m \in Mesas : CreateMesa(m)
           \/ \E t \in Slots : Commit(t) \/ RejectCommit(t) \/ CloseCommit(t)
  <1>1. ASSUME NEW m \in Mesas, Tick(m) PROVE UNCHANGED tables
    BY <1>1 DEF Tick, tables
  <1>2. ASSUME NEW i \in Invites, CreateInvite(i) \/ ExpireInvite(i)
        PROVE  UNCHANGED tables
    BY <1>2 DEF CreateInvite, ExpireInvite, tables
  <1>3. ASSUME NEW u \in Users, LapsePro(u) PROVE UNCHANGED tables
    BY <1>3 DEF LapsePro, tables
  <1>4. ASSUME NEW t \in Slots, NEW m \in Mesas, NEW u \in Users,
               NEW i \in Invites \cup {None}, JoinRead(t, m, u, i)
        PROVE  UNCHANGED tables
    BY <1>4 DEF JoinRead, tables
  <1>5. ASSUME NEW t \in Slots, NEW m \in Mesas, NEW u \in Users,
               NEW v \in {"approve", "reject"}, ReviewRead(t, m, u, v)
        PROVE  UNCHANGED tables
    BY <1>5 DEF ReviewRead, tables
  <1>6. ASSUME NEW t \in Slots, NEW m \in Mesas, NEW force \in BOOLEAN,
               CloseRead(t, m, force)
        PROVE  UNCHANGED tables
    BY <1>6 DEF CloseRead, tables
  <1>7. ASSUME NEW t \in Slots, CloseCheck(t) \/ CloseRank(t) \/ Abort(t)
        PROVE  UNCHANGED tables
    BY <1>7 DEF CloseCheck, CloseRank, Abort, tables
  <1>8. ASSUME UNCHANGED vars PROVE UNCHANGED tables
    BY <1>8 DEF vars, tables
  <1>9. CASE Next
    BY <1>1, <1>2, <1>3, <1>4, <1>5, <1>6, <1>7, <1>9, Zenon DEF Next, Commit
  <1> QED BY <1>8, <1>9

(* What the entry of u to m changes.                                        *)
LEMMA EntryShape ==
    ASSUME TypeOK, NEW t \in Slots, Commit(t),
           NEW m, m = tx[t].mesa, NEW u, u = tx[t].user
    PROVE  /\ m \in Mesas /\ u \in Users
           /\ EntryPossible(m, u) /\ DebitEntry(m, u) /\ SeatLeft(m)
           /\ DOMAIN mesa' = Mesas
           /\ mesa'[m].current = mesa[m].current + 1
           /\ mesa'[m].gross =
                 mesa[m].gross + (IF IsPaid(m) THEN AccessCost[m] ELSE 0)
           /\ mesa'[m].status = mesa[m].status
           /\ mesa'[m].settled = mesa[m].settled
           /\ \A n \in Mesas \ {m} : mesa'[n] = mesa[n]
           /\ participant'[m][u].status = "APPROVED"
           /\ participant'[m][u].paid = IsPaid(m)
           /\ participant'[m][u].place = participant[m][u].place
           /\ \A n \in Mesas, v \in Users :
                 n # m \/ v # u => participant'[n][v] = participant[n][v]
  <1>1. m \in Mesas /\ u \in Users
    BY DEF TypeOK, TxTypeOK, Commit, JoinCommit, ApproveCommit
  <1>2. /\ EntryPossible(m, u) /\ DebitEntry(m, u) /\ SeatLeft(m)
        /\ TakeSeat(m) /\ Admit(m, u)
    BY DEF Commit, JoinCommit, ApproveCommit
  <1> DEFINE gross == mesa[m].gross + AccessCost[m]
             seated == [mesa[m] EXCEPT !.current = @ + 1]
             full == [seated EXCEPT !.gross = gross, !.fee = PlatformFee(gross),
                                    !.pool = PrizePool(gross)]
             row == [participant[m][u] EXCEPT !.status = "APPROVED", !.paid = IsPaid(m)]
  <1>3. mesa' = [mesa EXCEPT ![m] = IF IsPaid(m) THEN full ELSE seated]
    BY <1>2 DEF TakeSeat
  <1>4. mesa[m] \in MesaRow /\ mesa[m].gross \in Nat
    BY <1>1 DEF TypeOK, MesaRow
  <1>5. /\ seated.current = mesa[m].current + 1 /\ seated.gross = mesa[m].gross
        /\ seated.status = mesa[m].status /\ seated.settled = mesa[m].settled
        /\ full.current = mesa[m].current + 1 /\ full.gross = gross
        /\ full.status = mesa[m].status /\ full.settled = mesa[m].settled
    BY <1>4 DEF MesaRow
  <1>6. /\ DOMAIN mesa' = Mesas
        /\ mesa'[m] = IF IsPaid(m) THEN full ELSE seated
        /\ \A n \in Mesas \ {m} : mesa'[n] = mesa[n]
    BY <1>1, <1>3 DEF TypeOK
  <1>7. participant' = [participant EXCEPT ![m] = [@ EXCEPT ![u] = row]]
    BY <1>2 DEF Admit
  <1>8. participant[m] \in [Users -> ParticipantRow] /\ participant[m][u] \in ParticipantRow
    BY <1>1 DEF TypeOK
  <1>9. row.status = "APPROVED" /\ row.paid = IsPaid(m)
        /\ row.place = participant[m][u].place
    BY <1>8 DEF ParticipantRow
  <1>10. /\ participant'[m][u] = row
         /\ \A n \in Mesas, v \in Users :
               n # m \/ v # u => participant'[n][v] = participant[n][v]
    BY <1>1, <1>7, <1>8 DEF TypeOK
  <1> HIDE DEF full, seated, row
  <1> QED BY <1>1, <1>2, <1>4, <1>5, <1>6, <1>9, <1>10

(* What the commit of a closing changes.                                    *)
LEMMA CloseShape ==
    ASSUME TypeOK, NEW t \in Slots, CloseCommit(t), NEW m, m = tx[t].mesa
    PROVE  /\ m \in Mesas /\ tx[t].rows \in SUBSET Users
           /\ DOMAIN mesa' = Mesas
           /\ mesa'[m].current = mesa[m].current
           /\ mesa'[m].gross = mesa[m].gross
           /\ mesa'[m].status = "CLOSED"
           /\ mesa'[m].settled = (mesa[m].settled \/ ~tx[t].seen.settled)
           /\ \A n \in Mesas \ {m} : mesa'[n] = mesa[n]
           /\ \A n \in Mesas, v \in Users :
                 /\ participant'[n][v].status = participant[n][v].status
                 /\ participant'[n][v].paid = participant[n][v].paid
           /\ \A n \in Mesas \ {m} : participant'[n] = participant[n]
           /\ \A v \in Users \ tx[t].rows :
                 participant'[m][v].place = participant[m][v].place
           /\ \A v \in tx[t].rows : participant'[m][v].place > 0
  <1> DEFINE rows == tx[t].rows
             placed(v) == [participant[m][v] EXCEPT !.place = Position(rows, Standing, v)]
  <1>1. m \in Mesas /\ rows \in SUBSET Users
    BY DEF TypeOK, TxTypeOK, TxRecord, CloseCommit
  <1>2. participant' = [participant EXCEPT ![m] =
             [v \in Users |-> IF v \in rows THEN placed(v) ELSE participant[m][v]]]
    BY DEF CloseCommit
  <1>3. \A v \in Users : participant[m][v] \in ParticipantRow
    BY <1>1 DEF TypeOK
  <1>4. \A v \in Users : Position(rows, Standing, v) \in Nat \ {0}
    BY <1>1, RowsAreRanked, PositionIsPositive DEF Ranked
  <1>5. \A v \in Users : /\ placed(v).status = participant[m][v].status
                         /\ placed(v).paid = participant[m][v].paid
                         /\ placed(v).place > 0
    BY <1>3, <1>4 DEF ParticipantRow
  <1> HIDE DEF placed
  <1>6. /\ \A n \in Mesas \ {m} : participant'[n] = participant[n]
        /\ \A v \in Users : participant'[m][v] =
                IF v \in rows THEN placed(v) ELSE participant[m][v]
    BY <1>1, <1>2 DEF TypeOK
  <1> DEFINE closed == [mesa[m] EXCEPT !.status = "CLOSED"]
  <1>7. mesa[m] \in MesaRow /\ tx[t].seen.settled \in BOOLEAN
    BY <1>1 DEF TypeOK, TxTypeOK, TxRecord, MesaRow
  <1>8. \E r \in {closed, SettledRow(m, tx[t].seen)} :
           /\ mesa' = [mesa EXCEPT ![m] = r]
           /\ r = IF tx[t].seen.settled THEN closed ELSE SettledRow(m, tx[t].seen)
    BY DEF CloseCommit, Settle
  <1>9. /\ closed.current = mesa[m].current /\ closed.gross = mesa[m].gross
        /\ closed.status = "CLOSED" /\ closed.settled = mesa[m].settled
    BY <1>7 DEF MesaRow
  <1>10. LET r == SettledRow(m, tx[t].seen)
         IN  /\ r.current = mesa[m].current /\ r.gross = mesa[m].gross
             /\ r.status = "CLOSED" /\ r.settled = TRUE
    BY <1>7 DEF MesaRow, SettledRow
  <1> HIDE DEF closed
  <1>11. /\ DOMAIN mesa' = Mesas
         /\ mesa'[m] = IF tx[t].seen.settled THEN closed
                       ELSE SettledRow(m, tx[t].seen)
         /\ \A n \in Mesas \ {m} : mesa'[n] = mesa[n]
    BY <1>1, <1>8 DEF TypeOK
  <1>12. /\ mesa'[m].current = mesa[m].current
         /\ mesa'[m].gross = mesa[m].gross
         /\ mesa'[m].status = "CLOSED"
         /\ mesa'[m].settled = (mesa[m].settled \/ ~tx[t].seen.settled)
    BY <1>7, <1>9, <1>10, <1>11 DEF MesaRow
  <1> QED BY <1>1, <1>5, <1>6, <1>11, <1>12

(* What a rejection and a creation change.                                  *)
LEMMA RejectShape ==
    ASSUME TypeOK, NEW t \in Slots, RejectCommit(t),
           NEW m, m = tx[t].mesa, NEW u, u = tx[t].user
    PROVE  /\ m \in Mesas /\ u \in Users
           /\ UNCHANGED <<mesa, wallet, ledger>>
           /\ participant'[m][u].status = "REJECTED"
           /\ \A n \in Mesas, v \in Users :
                 /\ participant'[n][v].paid = participant[n][v].paid
                 /\ participant'[n][v].place = participant[n][v].place
                 /\ n # m \/ v # u => participant'[n][v] = participant[n][v]
  <1> DEFINE row == [participant[m][u] EXCEPT !.status = "REJECTED"]
  <1>1. m \in Mesas /\ u \in Users
    BY DEF TypeOK, TxTypeOK, RejectCommit
  <1>2. participant' = [participant EXCEPT ![m] = [@ EXCEPT ![u] = row]]
    BY DEF RejectCommit
  <1>3. participant[m] \in [Users -> ParticipantRow] /\ participant[m][u] \in ParticipantRow
    BY <1>1 DEF TypeOK
  <1>4. /\ row.status = "REJECTED" /\ row.paid = participant[m][u].paid
        /\ row.place = participant[m][u].place
    BY <1>3 DEF ParticipantRow
  <1> HIDE DEF row
  <1>5. /\ participant'[m][u] = row
        /\ \A n \in Mesas, v \in Users :
              n # m \/ v # u => participant'[n][v] = participant[n][v]
    BY <1>1, <1>2, <1>3 DEF TypeOK
  <1>6. UNCHANGED <<mesa, wallet, ledger>>
    BY DEF RejectCommit
  <1> QED BY <1>1, <1>4, <1>5, <1>6

LEMMA CreateShape ==
    ASSUME TypeOK, NEW m \in Mesas, CreateMesa(m)
    PROVE  /\ mesa[m].status = "ABSENT"
           /\ UNCHANGED <<participant, wallet, ledger>>
           /\ DOMAIN mesa' = Mesas
           /\ mesa'[m].status = "ACTIVE"
           /\ mesa'[m].current = 0 /\ mesa'[m].gross = 0 /\ ~mesa'[m].settled
           /\ \A n \in Mesas \ {m} : mesa'[n] = mesa[n]
  <1>1. /\ NewMesa(m).status = "ACTIVE" /\ NewMesa(m).current = 0
        /\ NewMesa(m).gross = 0 /\ ~NewMesa(m).settled
    BY DEF NewMesa, NoRow
  <1> QED BY <1>1 DEF CreateMesa, TypeOK

-----------------------------------------------------------------------------
(* How a transaction comes to the state it is in: what it read when it was  *)
(* opened or advanced. No table changes in such a step.                     *)
Reading(s) ==
    LET m == tx'[s].mesa
        u == tx'[s].user
    IN  \/ /\ tx'[s].op = "join"
           /\ mesa[m].status = "ACTIVE"
           /\ participant[m][u].status # "APPROVED"
           /\ tx'[s].existing = (participant[m][u].status # "ABSENT")
        \/ /\ tx'[s].op \in {"approve", "reject"}
           /\ mesa[m].status = "ACTIVE"
           /\ participant[m][u].status = "PENDING"
        \/ /\ tx'[s].op = "closeRead"
           /\ mesa[m].status \in {"ACTIVE", "DRAFT"}
           /\ tx'[s].seen = mesa[m]
        \/ /\ tx[s].op \in {"closeRead", "closeChecked"}
           /\ tx'[s].op \in {"closeChecked", "closeRanked"}
           /\ tx'[s].seen = tx[s].seen /\ m = tx[s].mesa
           /\ tx'[s].op = "closeRanked" => tx'[s].rows = Approved(m)

LEMMA TxSteps ==
    ASSUME TypeOK, [Next]_vars, NEW s \in Slots,
           tx'[s] # tx[s], tx'[s].op # "idle"
    PROVE  UNCHANGED tables /\ Reading(s)
  <1>1. DOMAIN tx = Slots /\ tx[s] \in TxRecord
    BY DEF TypeOK, TxTypeOK
  <1>2. Idle.op = "idle"
    BY DEF Idle
  <1>3. ASSUME NEW t \in Slots, End(t) PROVE FALSE
    BY <1>1, <1>2, <1>3 DEF End
  <1>4. ASSUME NEW m \in Mesas, CreateMesa(m) \/ Tick(m) PROVE FALSE
    BY <1>4 DEF CreateMesa, Tick
  <1>5. ASSUME NEW i \in Invites, CreateInvite(i) \/ ExpireInvite(i) PROVE FALSE
    BY <1>5 DEF CreateInvite, ExpireInvite
  <1>6. ASSUME NEW u \in Users, LapsePro(u) PROVE FALSE
    BY <1>6 DEF LapsePro
  <1>7. ASSUME NEW t \in Slots,
               JoinCommit(t) \/ RejectCommit(t) \/ ApproveCommit(t)
                 \/ CloseCommit(t) \/ Abort(t)
        PROVE  FALSE
    BY <1>3, <1>7 DEF JoinCommit, RejectCommit, ApproveCommit, CloseCommit, Abort
  <1>8. ASSUME NEW t \in Slots, NEW m \in Mesas, NEW u \in Users,
               NEW i \in Invites \cup {None}, JoinRead(t, m, u, i)
        PROVE  UNCHANGED tables /\ Reading(s)
    <2> DEFINE r == [Idle EXCEPT !.op = "join", !.mesa = m, !.user = u, !.invite = i,
                                 !.existing = participant[m][u].status # "ABSENT"]
    <2>1. tx' = [tx EXCEPT ![t] = r] /\ UNCHANGED tables
      BY <1>8 DEF JoinRead, Begin, tables
    <2>2. /\ r.op = "join" /\ r.mesa = m /\ r.user = u
          /\ r.existing = (participant[m][u].status # "ABSENT")
      BY DEF Idle
    <2> HIDE DEF r
    <2>3. tx'[s] = r
      BY <1>1, <2>1
    <2> QED BY <1>8, <2>1, <2>2, <2>3 DEF JoinRead, Reading
  <1>9. ASSUME NEW t \in Slots, NEW m \in Mesas, NEW u \in Users,
               NEW v \in {"approve", "reject"}, ReviewRead(t, m, u, v)
        PROVE  UNCHANGED tables /\ Reading(s)
    <2> DEFINE r == [Idle EXCEPT !.op = v, !.mesa = m, !.user = u, !.existing = TRUE]
    <2>1. tx' = [tx EXCEPT ![t] = r] /\ UNCHANGED tables
      BY <1>9 DEF ReviewRead, Begin, tables
    <2>2. r.op = v /\ r.mesa = m /\ r.user = u
      BY DEF Idle
    <2> HIDE DEF r
    <2>3. tx'[s] = r
      BY <1>1, <2>1
    <2> QED BY <1>9, <2>1, <2>2, <2>3 DEF ReviewRead, Reading
  <1>10. ASSUME NEW t \in Slots, NEW m \in Mesas, NEW force \in BOOLEAN,
                CloseRead(t, m, force)
         PROVE  UNCHANGED tables /\ Reading(s)
    <2> DEFINE r == [Idle EXCEPT !.op = "closeRead", !.mesa = m, !.seen = mesa[m]]
    <2>1. tx' = [tx EXCEPT ![t] = r] /\ UNCHANGED tables
      BY <1>10 DEF CloseRead, Begin, tables
    <2>2. r.op = "closeRead" /\ r.mesa = m /\ r.seen = mesa[m]
      BY DEF Idle
    <2> HIDE DEF r
    <2>3. tx'[s] = r
      BY <1>1, <2>1
    <2> QED BY <1>10, <2>1, <2>2, <2>3 DEF CloseRead, Reading
  <1>11. ASSUME NEW t \in Slots, CloseCheck(t)
         PROVE  UNCHANGED tables /\ Reading(s)
    <2> DEFINE r == [tx[t] EXCEPT !.op = "closeChecked"]
    <2>1. tx' = [tx EXCEPT ![t] = r] /\ UNCHANGED tables
      BY <1>11 DEF CloseCheck, Step, tables
    <2>2. s = t /\ tx'[s] = r
      BY <1>1, <2>1
    <2>3. tx'[s].op = "closeChecked" /\ tx'[s].seen = tx[s].seen
          /\ tx'[s].mesa = tx[s].mesa
      BY <1>1, <2>2 DEF TxRecord
    <2> QED BY <1>11, <2>1, <2>2, <2>3 DEF CloseCheck, Reading
  <1>12. ASSUME NEW t \in Slots, CloseRank(t)
         PROVE  UNCHANGED tables /\ Reading(s)
    <2> DEFINE r == [tx[t] EXCEPT !.op = "closeRanked", !.rows = Approved(tx[t].mesa)]
    <2>1. tx' = [tx EXCEPT ![t] = r] /\ UNCHANGED tables
      BY <1>12 DEF CloseRank, Step, tables
    <2>2. s = t /\ tx'[s] = r
      BY <1>1, <2>1
    <2>3. tx'[s].op = "closeRanked" /\ tx'[s].seen = tx[s].seen
          /\ tx'[s].mesa = tx[s].mesa /\ tx'[s].rows = Approved(tx[s].mesa)
      BY <1>1, <2>2 DEF TxRecord
    <2> QED BY <1>12, <2>1, <2>2, <2>3 DEF CloseRank, Reading
  <1>13. CASE UNCHANGED vars
    BY <1>13 DEF vars
  <1>14. CASE Next
    BY <1>4, <1>5, <1>6, <1>7, <1>8, <1>9, <1>10, <1>11, <1>12, <1>14, Zenon DEF Next
  <1> QED BY <1>13, <1>14

-----------------------------------------------------------------------------
(* The life of a Mesa: nothing is in it before it is created, it is closed  *)
(* when it is settled, a transaction works on a Mesa that exists, and a     *)
(* closing has read it unsettled.                                           *)
Lifecycle ==
    /\ \A m \in Mesas : mesa[m].status = "ABSENT" =>
          mesa[m].current = 0 /\ mesa[m].gross = 0 /\ ~mesa[m].settled
    /\ \A m \in Mesas : mesa[m].settled => mesa[m].status = "CLOSED"
    /\ \A t \in Slots : tx[t].op # "idle" =>
          mesa[tx[t].mesa].status # "ABSENT"
    /\ \A t \in Slots : tx[t].op \in {"closeRead", "closeChecked", "closeRanked"} =>
          ~tx[t].seen.settled

LEMMA InitLifecycle == Init => Lifecycle
  <1> SUFFICES ASSUME Init PROVE Lifecycle
    OBVIOUS
  <1>1. \A m \in Mesas : /\ NewMesa(m).status = "ACTIVE" /\ ~NewMesa(m).settled
                         /\ NoRow.current = 0 /\ NoRow.gross = 0 /\ ~NoRow.settled
    BY DEF NewMesa, NoRow
  <1>2. \A m \in Mesas : mesa[m] = NoRow \/ mesa[m] = NewMesa(m)
    BY DEF Init
  <1>3. \A t \in Slots : tx[t].op = "idle"
    BY DEF Init, Idle
  <1> QED BY <1>1, <1>2, <1>3 DEF Lifecycle

LEMMA NextLifecycle ==
    ASSUME TypeOK, TypeOK', Lifecycle, [Next]_vars
    PROVE  Lifecycle'
  <1>1. /\ \A m \in Mesas : mesa[m].status # "ABSENT" => mesa'[m].status # "ABSENT"
        /\ \A m \in Mesas : mesa'[m].status = "ABSENT" =>
              mesa'[m].current = 0 /\ mesa'[m].gross = 0 /\ ~mesa'[m].settled
        /\ \A m \in Mesas : mesa'[m].settled => mesa'[m].status = "CLOSED"
    <2>1. CASE UNCHANGED tables
      BY <2>1 DEF tables, Lifecycle
    <2>2. ASSUME NEW m \in Mesas, CreateMesa(m) PROVE <1>1
      BY <2>2, CreateShape DEF Lifecycle
    <2>3. ASSUME NEW t \in Slots, Commit(t) PROVE <1>1
      <3> DEFINE m == tx[t].mesa
                 u == tx[t].user
      <3>1. m \in Mesas /\ mesa'[m].status = mesa[m].status
            /\ mesa'[m].settled = mesa[m].settled
            /\ \A n \in Mesas \ {m} : mesa'[n] = mesa[n]
        BY <2>3, EntryShape
      <3>2. mesa[m].status # "ABSENT"
        BY <2>3 DEF Lifecycle, Commit, JoinCommit, ApproveCommit
      <3> QED BY <3>1, <3>2 DEF Lifecycle
    <2>4. ASSUME NEW t \in Slots, RejectCommit(t) PROVE <1>1
      BY <2>4, RejectShape DEF Lifecycle
    <2>5. ASSUME NEW t \in Slots, CloseCommit(t) PROVE <1>1
      BY <2>5, CloseShape DEF Lifecycle
    <2> QED BY <2>1, <2>2, <2>3, <2>4, <2>5, StepCases
  <1>2. ASSUME NEW t \in Slots, tx'[t].op # "idle"
        PROVE  /\ mesa'[tx'[t].mesa].status # "ABSENT"
               /\ tx'[t].op \in {"closeRead", "closeChecked", "closeRanked"} =>
                     ~tx'[t].seen.settled
    <2>1. CASE tx'[t] = tx[t]
      BY <1>1, <1>2, <2>1 DEF Lifecycle, TypeOK, TxTypeOK
    <2>2. CASE tx'[t] # tx[t]
      <3>1. UNCHANGED tables /\ Reading(t)
        BY <1>2, <2>2, TxSteps
      <3>2. tx'[t].mesa \in Mesas
        BY <1>2 DEF TypeOK, TxTypeOK
      <3> QED BY <3>1, <3>2 DEF Reading, tables, Lifecycle
    <2> QED BY <2>1, <2>2
  <1> QED BY <1>1, <1>2 DEF Lifecycle

(* Nothing belongs to a Mesa before it is created, a settled Mesa is       *)
(* closed, and a closing that may still settle read the Mesa unsettled     *)
(* (CreateBolaoService, CloseRankingService).                              *)
THEOREM LifecycleHolds == Spec => []Lifecycle
  <1>1. Init => TypeOK /\ Lifecycle
    BY InitTypes, InitLifecycle
  <1>2. TypeOK /\ Lifecycle /\ [Next]_vars => (TypeOK /\ Lifecycle)'
    BY NextTypes, NextLifecycle
  <1> QED BY <1>1, <1>2, PTL DEF Spec

-----------------------------------------------------------------------------
(* Seats.                                                                   *)

LEMMA ApprovedIsFinite ==
    ASSUME NEW m \in Mesas
    PROVE  IsFiniteSet(Approved(m)) /\ Cardinality(Approved(m)) \in Nat
  BY DataAssumption, FS_Subset, FS_CardinalityType DEF Approved

(* An entry admits one user and counts one seat.                            *)
LEMMA EntryApproves ==
    ASSUME TypeOK, NEW t \in Slots, Commit(t),
           NEW m, m = tx[t].mesa, NEW u, u = tx[t].user
    PROVE  /\ Approved(m)' = Approved(m) \cup {u}
           /\ \A n \in Mesas \ {m} : Approved(n)' = Approved(n)
  BY EntryShape DEF Approved

LEMMA AddOne ==
    ASSUME NEW S, IsFiniteSet(S), NEW x
    PROVE  /\ IsFiniteSet(S \cup {x}) /\ Cardinality(S \cup {x}) \in Nat
           /\ Cardinality(S \cup {x}) <= Cardinality(S) + 1
           /\ x \notin S => Cardinality(S \cup {x}) = Cardinality(S) + 1
  <1>1. Cardinality(S) \in Nat
    BY FS_CardinalityType
  <1>2. /\ IsFiniteSet(S \cup {x})
        /\ Cardinality(S \cup {x}) = IF x \in S THEN Cardinality(S)
                                     ELSE Cardinality(S) + 1
    BY FS_AddElement
  <1> QED BY <1>1, <1>2

LEMMA SeatsStep ==
    ASSUME TypeOK, TypeOK', Lifecycle, SeatsWithinCapacity, [Next]_vars
    PROVE  SeatsWithinCapacity'
  <1>1. CASE UNCHANGED tables
    BY <1>1 DEF tables, SeatsWithinCapacity, Approved
  <1>2. ASSUME NEW m \in Mesas, CreateMesa(m) PROVE SeatsWithinCapacity'
    <2>1. \A n \in Mesas : Approved(n)' = Approved(n)
      BY <1>2, CreateShape DEF Approved
    <2>2. mesa[m].current = 0 /\ mesa'[m].current = 0
      BY <1>2, CreateShape DEF Lifecycle
    <2>3. \A n \in Mesas : mesa'[n].current = mesa[n].current
      BY <1>2, <2>2, CreateShape
    <2> QED BY <2>1, <2>3 DEF SeatsWithinCapacity
  <1>3. ASSUME NEW t \in Slots, Commit(t) PROVE SeatsWithinCapacity'
    <2>0. PICK m, u : m = tx[t].mesa /\ u = tx[t].user
      OBVIOUS
    <2>1. /\ m \in Mesas /\ SeatLeft(m)
          /\ mesa'[m].current = mesa[m].current + 1
          /\ \A n \in Mesas \ {m} : mesa'[n] = mesa[n]
      BY <1>3, <2>0, EntryShape
    <2>2. /\ Approved(m)' = Approved(m) \cup {u}
          /\ \A n \in Mesas \ {m} : Approved(n)' = Approved(n)
      BY <1>3, <2>0, EntryApproves
    <2>3. /\ Cardinality(Approved(m) \cup {u}) <= Cardinality(Approved(m)) + 1
          /\ Cardinality(Approved(m) \cup {u}) \in Nat
      BY <2>1, ApprovedIsFinite, AddOne
    <2>4. /\ mesa[m].current \in Nat /\ MaxParticipants[m] \in Nat
          /\ Cardinality(Approved(m)) \in Nat /\ Cardinality(Approved(m))' \in Nat
      BY <2>1, <2>2, <2>3, ApprovedIsFinite, TermsAssumption DEF TypeOK, MesaRow
    <2>5. /\ Cardinality(Approved(m))' <= mesa'[m].current
          /\ mesa'[m].current <= MaxParticipants[m]
      BY <2>1, <2>2, <2>3, <2>4 DEF SeatLeft, SeatsWithinCapacity
    <2> QED BY <2>1, <2>2, <2>5 DEF SeatsWithinCapacity
  <1>4. ASSUME NEW t \in Slots, RejectCommit(t) PROVE SeatsWithinCapacity'
    <2>1. \A n \in Mesas : Approved(n)' \subseteq Approved(n)
      BY <1>4, RejectShape DEF Approved
    <2>2. \A n \in Mesas : /\ Cardinality(Approved(n)') <= Cardinality(Approved(n))
                           /\ Cardinality(Approved(n)') \in Nat
      BY <2>1, ApprovedIsFinite, FS_Subset, FS_CardinalityType
    <2>3. UNCHANGED mesa
      BY <1>4, RejectShape
    <2>4. \A n \in Mesas : mesa[n].current \in Nat
      BY DEF TypeOK, MesaRow
    <2>5. \A n \in Mesas : Cardinality(Approved(n)) \in Nat
      BY ApprovedIsFinite
    <2> QED BY <2>2, <2>3, <2>4, <2>5 DEF SeatsWithinCapacity
  <1>5. ASSUME NEW t \in Slots, CloseCommit(t) PROVE SeatsWithinCapacity'
    <2>1. \A n \in Mesas : Approved(n)' = Approved(n)
      BY <1>5, CloseShape DEF Approved
    <2>2. \A n \in Mesas : mesa'[n].current = mesa[n].current
      BY <1>5, CloseShape
    <2> QED BY <2>1, <2>2 DEF SeatsWithinCapacity
  <1> QED BY <1>1, <1>2, <1>3, <1>4, <1>5, StepCases

LEMMA InitSeats == Init => SeatsWithinCapacity
  <1> SUFFICES ASSUME Init, NEW m \in Mesas
               PROVE  /\ Cardinality(Approved(m)) <= mesa[m].current
                      /\ mesa[m].current <= MaxParticipants[m]
    BY DEF SeatsWithinCapacity
  <1>1. Approved(m) = {}
    BY DEF Init, Approved
  <1>2. mesa[m].current = 0
    BY DEF Init, NewMesa, NoRow
  <1> QED BY <1>1, <1>2, TermsAssumption, FS_EmptySet

(* A Mesa never admits more participants than its limit, for every number   *)
(* of concurrent joins and reviews (JoinBolaoService,                       *)
(* UseBolaoInviteService, ReviewBolaoRequestService).                       *)
THEOREM SeatsHold == Spec => []SeatsWithinCapacity
  <1>1. Init => TypeOK /\ Lifecycle /\ SeatsWithinCapacity
    BY InitTypes, InitLifecycle, InitSeats
  <1>2. TypeOK /\ Lifecycle /\ SeatsWithinCapacity /\ [Next]_vars
           => (TypeOK /\ Lifecycle /\ SeatsWithinCapacity)'
    BY NextTypes, NextLifecycle, SeatsStep
  <1> QED BY <1>1, <1>2, PTL DEF Spec

-----------------------------------------------------------------------------
(* Invites.                                                                 *)

UsesOf(m) == SumFunction([i \in {i \in Invites : InviteMesa[i] = m} |-> invite[i].used])

(* A transaction that reserved a use of an invite is an entry to the Mesa   *)
(* of the invite, has found a use left and is alone: the row is locked.     *)
Reserved ==
    /\ \A t \in Slots : tx[t].invite # None =>
          /\ tx[t].op = "join"
          /\ InviteMesa[tx[t].invite] = tx[t].mesa
          /\ MaxUses[tx[t].invite] # 0 =>
                invite[tx[t].invite].used < MaxUses[tx[t].invite]
    /\ \A s, t \in Slots :
          tx[s].invite # None /\ tx[s].invite = tx[t].invite => s = t

(* The invariant behind InviteUsesAreEntries: a join holds the row of the  *)
(* invite it reserved until it ends.                                       *)
InvitesCounted == Reserved /\ InviteUsesAreEntries

(* A slot keeps its reservation or loses it.                                *)
Kept(s) ==
    tx'[s].invite = None \/ /\ tx'[s].invite = tx[s].invite
                            /\ tx'[s].mesa = tx[s].mesa
                            /\ tx'[s].op = tx[s].op

LEMMA EndKeeps ==
    ASSUME TypeOK, NEW t \in Slots, End(t)
    PROVE  \A s \in Slots : Kept(s)
  <1>1. Idle.invite = None
    BY DEF Idle
  <1> QED BY <1>1 DEF End, Kept, TypeOK, TxTypeOK

(* Only a join reserves an invite, and only its commit counts a use.        *)
LEMMA InviteSteps ==
    ASSUME TypeOK, Reserved, [Next]_vars
    PROVE  \/ /\ \A s \in Slots : Kept(s)
              /\ \A i \in Invites : invite'[i].used = invite[i].used
           \/ \E t \in Slots, m \in Mesas, u \in Users, i \in Invites :
                 JoinRead(t, m, u, i)
           \/ \E t \in Slots : JoinCommit(t)
  <1> DEFINE Goal == /\ \A s \in Slots : Kept(s)
                     /\ \A i \in Invites : invite'[i].used = invite[i].used
  <1>0. DOMAIN tx = Slots /\ \A s \in Slots : tx[s] \in TxRecord
    BY DEF TypeOK, TxTypeOK
  <1>1. ASSUME UNCHANGED <<invite, tx>> PROVE Goal
    BY <1>1 DEF Kept
  <1>2. ASSUME NEW m \in Mesas, CreateMesa(m) \/ Tick(m) PROVE Goal
    BY <1>1, <1>2 DEF CreateMesa, Tick
  <1>3. ASSUME NEW j \in Invites, CreateInvite(j) \/ ExpireInvite(j) PROVE Goal
    <2>1. \A i \in Invites : invite[i] \in InviteRow /\ DOMAIN invite = Invites
      BY DEF TypeOK
    <2>2. \A i \in Invites : invite'[i].used = invite[i].used
      BY <1>3, <2>1 DEF CreateInvite, ExpireInvite, InviteRow
    <2> QED BY <1>3, <2>2 DEF CreateInvite, ExpireInvite, Kept
  <1>4. ASSUME NEW u \in Users, LapsePro(u) PROVE Goal
    BY <1>1, <1>4 DEF LapsePro
  <1>5. ASSUME NEW t \in Slots, NEW m \in Mesas, NEW u \in Users,
               JoinRead(t, m, u, None)
        PROVE  Goal
    <2> DEFINE r == [Idle EXCEPT !.op = "join", !.mesa = m, !.user = u, !.invite = None,
                                 !.existing = participant[m][u].status # "ABSENT"]
    <2>1. tx' = [tx EXCEPT ![t] = r] /\ UNCHANGED invite
      BY <1>5 DEF JoinRead, Begin
    <2>2. r.invite = None
      BY DEF Idle
    <2> HIDE DEF r
    <2> QED BY <1>0, <2>1, <2>2 DEF Kept
  <1>6. ASSUME NEW t \in Slots, NEW m \in Mesas, NEW u \in Users,
               NEW v \in {"approve", "reject"}, ReviewRead(t, m, u, v)
        PROVE  Goal
    <2> DEFINE r == [Idle EXCEPT !.op = v, !.mesa = m, !.user = u, !.existing = TRUE]
    <2>1. tx' = [tx EXCEPT ![t] = r] /\ UNCHANGED invite
      BY <1>6 DEF ReviewRead, Begin
    <2>2. r.invite = None
      BY DEF Idle
    <2> HIDE DEF r
    <2> QED BY <1>0, <2>1, <2>2 DEF Kept
  <1>7. ASSUME NEW t \in Slots, NEW m \in Mesas, NEW force \in BOOLEAN,
               CloseRead(t, m, force)
        PROVE  Goal
    <2> DEFINE r == [Idle EXCEPT !.op = "closeRead", !.mesa = m, !.seen = mesa[m]]
    <2>1. tx' = [tx EXCEPT ![t] = r] /\ UNCHANGED invite
      BY <1>7 DEF CloseRead, Begin
    <2>2. r.invite = None
      BY DEF Idle
    <2> HIDE DEF r
    <2> QED BY <1>0, <2>1, <2>2 DEF Kept
  <1>8. ASSUME NEW t \in Slots,
               RejectCommit(t) \/ ApproveCommit(t) \/ CloseCommit(t) \/ Abort(t)
        PROVE  Goal
    <2>1. End(t) /\ UNCHANGED invite
      BY <1>8 DEF RejectCommit, ApproveCommit, CloseCommit, Abort
    <2> QED BY <2>1, EndKeeps
  <1>9. ASSUME NEW t \in Slots, CloseCheck(t) \/ CloseRank(t) PROVE Goal
    <2>1. tx[t].invite = None
      BY <1>9 DEF CloseCheck, CloseRank, Reserved
    <2>2. PICK r \in {[tx[t] EXCEPT !.op = "closeChecked"],
                      [tx[t] EXCEPT !.op = "closeRanked",
                                    !.rows = Approved(tx[t].mesa)]} :
              tx' = [tx EXCEPT ![t] = r]
      BY <1>9 DEF CloseCheck, CloseRank, Step
    <2>3. r.invite = None
      BY <1>0, <2>1 DEF TxRecord
    <2>4. UNCHANGED invite
      BY <1>9 DEF CloseCheck, CloseRank
    <2> QED BY <1>0, <2>2, <2>3, <2>4 DEF Kept
  <1>10. CASE UNCHANGED vars
    BY <1>1, <1>10 DEF vars
  <1> HIDE DEF Goal
  <1>11. CASE \E t \in Slots, m \in Mesas, u \in Users, i \in Invites \cup {None} :
                 JoinRead(t, m, u, i)
    <2>1. PICK t \in Slots, m \in Mesas, u \in Users, i \in Invites \cup {None} :
             JoinRead(t, m, u, i)
      BY <1>11
    <2>2. CASE i = None
      BY <1>5, <2>1, <2>2 DEF Goal
    <2>3. CASE i # None
      BY <2>1, <2>3
    <2> QED BY <2>2, <2>3
  <1>12. CASE \E t \in Slots : JoinCommit(t)
    BY <1>12
  <1>13. CASE /\ Next
              /\ ~\E t \in Slots, m \in Mesas, u \in Users, i \in Invites \cup {None} :
                    JoinRead(t, m, u, i)
              /\ ~\E t \in Slots : JoinCommit(t)
    <2>1. Goal
      BY <1>2, <1>3, <1>4, <1>6, <1>7, <1>8, <1>9, <1>13, Zenon DEF Next
    <2> QED BY <2>1 DEF Goal
  <1> QED BY <1>10, <1>11, <1>12, <1>13 DEF Goal

(* The counter of participants and what was collected never go back.        *)
LEMMA TotalsNeverFall ==
    ASSUME TypeOK, Lifecycle, [Next]_vars, NEW n \in Mesas
    PROVE  mesa'[n].current >= mesa[n].current /\ mesa'[n].gross >= mesa[n].gross
  <1> DEFINE Goal == mesa'[n].current >= mesa[n].current /\ mesa'[n].gross >= mesa[n].gross
  <1>0. mesa[n].current \in Nat /\ mesa[n].gross \in Nat
    BY DEF TypeOK, MesaRow
  <1>1. CASE UNCHANGED tables
    BY <1>0, <1>1 DEF tables
  <1>2. ASSUME NEW m \in Mesas, CreateMesa(m) PROVE Goal
    BY <1>0, <1>2, CreateShape DEF Lifecycle
  <1>3. ASSUME NEW t \in Slots, Commit(t) PROVE Goal
    <2>0. PICK m, u : m = tx[t].mesa /\ u = tx[t].user
      OBVIOUS
    <2>1. m \in Mesas /\ AccessCost[m] \in Nat
      BY <1>3, <2>0, EntryShape, TermsAssumption
    <2> QED BY <1>0, <1>3, <2>0, <2>1, EntryShape
  <1>4. ASSUME NEW t \in Slots, RejectCommit(t) PROVE Goal
    BY <1>0, <1>4, RejectShape
  <1>5. ASSUME NEW t \in Slots, CloseCommit(t) PROVE Goal
    <2>0. PICK m : m = tx[t].mesa
      OBVIOUS
    <2> QED BY <1>0, <1>5, <2>0, CloseShape
  <1> QED BY <1>1, <1>2, <1>3, <1>4, <1>5, StepCases

LEMMA UsesSame ==
    ASSUME TypeOK, NEW m \in Mesas,
           \A i \in Invites : InviteMesa[i] = m => invite'[i].used = invite[i].used
    PROVE  UsesOf(m)' = UsesOf(m)
  <1> DEFINE S == {i \in Invites : InviteMesa[i] = m}
             f == [i \in S |-> invite[i].used]
             g == [i \in S |-> invite'[i].used]
  <1>1. f = g
    OBVIOUS
  <1> QED BY <1>1 DEF UsesOf

LEMMA UsesGrow ==
    ASSUME TypeOK, TypeOK', NEW i \in Invites, invite'[i].used = invite[i].used + 1,
           \A j \in Invites \ {i} : invite'[j].used = invite[j].used
    PROVE  UsesOf(InviteMesa[i])' = UsesOf(InviteMesa[i]) + 1
  <1> DEFINE m == InviteMesa[i]
             S == {j \in Invites : InviteMesa[j] = m}
             f == [j \in S |-> invite[j].used]
             g == [j \in S |-> invite'[j].used]
  <1>1. IsFiniteSet(S) /\ i \in S
    BY DataAssumption, FS_Subset
  <1>2. \A j \in S : f[j] \in Nat /\ g[j] \in Nat
    BY DEF TypeOK, InviteRow
  <1>3. (\A j \in S \ {i} : f[j] = g[j]) /\ g[i] = f[i] + 1
    BY <1>1
  <1>4. UsesOf(m) = SumFunctionOnSet(f, S) /\ UsesOf(m)' = SumFunctionOnSet(g, S)
    BY DEF UsesOf, SumFunction
  <1> HIDE DEF f, g, S
  <1>5. SumFunctionOnSet(g, S) = SumFunctionOnSet(f, S) + g[i] - f[i]
    BY <1>1, <1>2, <1>3, SumChange
  <1>6. SumFunctionOnSet(f, S) \in Int
    BY <1>1, <1>2, SumInt
  <1> QED BY <1>1, <1>2, <1>3, <1>4, <1>5, <1>6

LEMMA UsesIsNat == ASSUME TypeOK, NEW m \in Mesas PROVE UsesOf(m) \in Nat
  <1> DEFINE S == {j \in Invites : InviteMesa[j] = m}
             f == [j \in S |-> invite[j].used]
  <1>1. IsFiniteSet(S)
    BY DataAssumption, FS_Subset
  <1>2. \A j \in S : f[j] \in Nat
    BY DEF TypeOK, InviteRow
  <1>3. UsesOf(m) = SumFunctionOnSet(f, S)
    BY DEF UsesOf, SumFunction
  <1> HIDE DEF f, S
  <1> QED BY <1>1, <1>2, <1>3, SumNat

LEMMA InvitesStep ==
    ASSUME TypeOK, TypeOK', Lifecycle, InvitesCounted, [Next]_vars
    PROVE  InvitesCounted'
  <1>0. /\ \A m \in Mesas : mesa[m].current \in Nat /\ mesa'[m].current \in Nat
        /\ \A m \in Mesas : mesa'[m].current >= mesa[m].current
        /\ \A i \in Invites : /\ invite[i].used \in Nat /\ invite'[i].used \in Nat
                              /\ MaxUses[i] \in Nat /\ InviteMesa[i] \in Mesas
        /\ \A t \in Slots : tx[t].invite # None => tx[t].invite \in Invites
        /\ None \notin Invites
        /\ DOMAIN tx = Slots
    BY TotalsNeverFall, DataAssumption
       DEF TypeOK, TxTypeOK, TxRecord, MesaRow, InviteRow
  <1>00. /\ \A m \in Mesas : UsesOf(m) <= mesa[m].current /\ UsesOf(m) \in Nat
         /\ \A i \in Invites : MaxUses[i] # 0 => invite[i].used <= MaxUses[i]
    BY UsesIsNat DEF InvitesCounted, InviteUsesAreEntries, UsesOf
  <1>000. ASSUME \A m \in Mesas : UsesOf(m)' <= mesa'[m].current,
                 \A i \in Invites : MaxUses[i] # 0 => invite'[i].used <= MaxUses[i]
          PROVE  InviteUsesAreEntries'
    BY <1>000 DEF InviteUsesAreEntries, UsesOf
  <1>1. CASE /\ \A s \in Slots : Kept(s)
             /\ \A i \in Invites : invite'[i].used = invite[i].used
    <2>1. Reserved'
      <3>1. ASSUME NEW t \in Slots, tx'[t].invite # None
            PROVE  /\ tx'[t].invite = tx[t].invite /\ tx'[t].mesa = tx[t].mesa
                   /\ tx'[t].op = tx[t].op /\ tx[t].invite \in Invites
        BY <1>0, <1>1, <3>1 DEF Kept
      <3> QED BY <1>0, <1>1, <3>1 DEF InvitesCounted, Reserved
    <2>2. \A m \in Mesas : UsesOf(m)' = UsesOf(m)
      BY <1>1, UsesSame
    <2>3. \A m \in Mesas : UsesOf(m)' <= mesa'[m].current
      BY <1>0, <1>00, <2>2
    <2> QED BY <1>00, <1>000, <1>1, <2>1, <2>3 DEF InvitesCounted
  <1>2. ASSUME NEW t \in Slots, NEW m \in Mesas, NEW u \in Users, NEW i \in Invites,
               JoinRead(t, m, u, i)
        PROVE  InvitesCounted'
    <2> DEFINE r == [Idle EXCEPT !.op = "join", !.mesa = m, !.user = u, !.invite = i,
                                 !.existing = participant[m][u].status # "ABSENT"]
    <2>1. tx' = [tx EXCEPT ![t] = r] /\ UNCHANGED invite
      BY <1>2 DEF JoinRead, Begin
    <2>2. r.invite = i /\ r.mesa = m /\ r.op = "join"
      BY DEF Idle
    <2> HIDE DEF r
    <2>3. /\ tx'[t].invite = i /\ tx'[t].mesa = m /\ tx'[t].op = "join"
          /\ \A s \in Slots \ {t} : tx'[s] = tx[s]
      BY <1>0, <2>1, <2>2
    <2>4. InviteMesa[i] = m /\ InviteUsable(i) /\ InviteFree(i)
      BY <1>0, <1>2 DEF JoinRead
    <2>5. Reserved'
      BY <2>1, <2>3, <2>4 DEF InvitesCounted, Reserved, InviteUsable, InviteFree
    <2>6. \A n \in Mesas : UsesOf(n)' = UsesOf(n)
      BY <2>1, UsesSame
    <2>7. \A n \in Mesas : UsesOf(n)' <= mesa'[n].current
      BY <1>0, <1>00, <2>6
    <2> QED BY <1>00, <1>000, <2>1, <2>5, <2>7 DEF InvitesCounted
  <1>3. ASSUME NEW t \in Slots, JoinCommit(t) PROVE InvitesCounted'
    <2>0. PICK m, u, i : m = tx[t].mesa /\ u = tx[t].user /\ i = tx[t].invite
      OBVIOUS
    <2>1. m \in Mesas /\ mesa'[m].current = mesa[m].current + 1
      BY <1>3, <2>0, EntryShape DEF Commit
    <2>2. /\ \A s \in Slots \ {t} : tx'[s] = tx[s]
          /\ tx'[t].invite = None
      BY <1>0, <1>3 DEF JoinCommit, End, Idle
    <2>3. CASE i = None
      <3>1. UNCHANGED invite
        BY <1>3, <2>0, <2>3 DEF JoinCommit, ReserveInvite
      <3>2. Reserved'
        BY <2>2, <3>1 DEF InvitesCounted, Reserved
      <3>3. \A n \in Mesas : UsesOf(n)' = UsesOf(n)
        BY <3>1, UsesSame
      <3>4. \A n \in Mesas : UsesOf(n)' <= mesa'[n].current
        BY <1>0, <1>00, <3>3
      <3> QED BY <1>00, <1>000, <3>1, <3>2, <3>4 DEF InvitesCounted
    <2>4. CASE i # None
      <3>1. /\ i \in Invites /\ InviteMesa[i] = m
            /\ MaxUses[i] # 0 => invite[i].used < MaxUses[i]
            /\ \A s \in Slots \ {t} : tx[s].invite # i
        BY <1>0, <2>0, <2>4 DEF InvitesCounted, Reserved
      <3>2. invite' = [invite EXCEPT ![i].used = @ + 1]
        BY <1>3, <2>0, <2>4 DEF JoinCommit, ReserveInvite
      <3>3. /\ invite'[i].used = invite[i].used + 1
            /\ \A j \in Invites \ {i} : invite'[j].used = invite[j].used
        BY <3>1, <3>2 DEF TypeOK, InviteRow
      <3>4. Reserved'
        BY <1>0, <2>2, <3>1, <3>3 DEF InvitesCounted, Reserved
      <3>5. UsesOf(m)' = UsesOf(m) + 1
        BY <3>1, <3>3, UsesGrow
      <3>6. \A n \in Mesas \ {m} : UsesOf(n)' = UsesOf(n)
        BY <3>1, <3>3, UsesSame
      <3>7. \A n \in Mesas : UsesOf(n)' <= mesa'[n].current
        BY <1>0, <1>00, <2>1, <3>5, <3>6
      <3>8. \A j \in Invites : MaxUses[j] # 0 => invite'[j].used <= MaxUses[j]
        BY <1>0, <1>00, <3>1, <3>3
      <3> QED BY <1>000, <3>4, <3>7, <3>8 DEF InvitesCounted
    <2> QED BY <2>3, <2>4
  <1> QED BY <1>1, <1>2, <1>3, InviteSteps DEF InvitesCounted

LEMMA InitInvites == Init /\ TypeOK => InvitesCounted
  <1> SUFFICES ASSUME Init, TypeOK PROVE InvitesCounted
    OBVIOUS
  <1>1. \A t \in Slots : tx[t].invite = None
    BY DEF Init, Idle
  <1>2. \A i \in Invites : invite[i].used = 0 /\ MaxUses[i] \in Nat
    BY DataAssumption DEF Init
  <1>3. ASSUME NEW m \in Mesas PROVE UsesOf(m) <= mesa[m].current
    <2> DEFINE S == {j \in Invites : InviteMesa[j] = m}
               f == [j \in S |-> invite[j].used]
    <2>1. IsFiniteSet(S) /\ \A j \in S : f[j] = 0
      BY <1>2, DataAssumption, FS_Subset
    <2>2. UsesOf(m) = SumFunctionOnSet(f, S)
      BY DEF UsesOf, SumFunction
    <2> HIDE DEF f, S
    <2>3. UsesOf(m) = 0
      BY <2>1, <2>2, SumZero
    <2> QED BY <2>3 DEF TypeOK, MesaRow
  <1> QED BY <1>1, <1>2, <1>3 DEF InvitesCounted, Reserved, InviteUsesAreEntries, UsesOf

(* An invite is used only by an entry that succeeded, and not more often     *)
(* than its limit: reserveBolaoInviteUse increments usedCount in the        *)
(* transaction of the entry (UseBolaoInviteService).                        *)
THEOREM InvitesHold == Spec => []InviteUsesAreEntries
  <1>1. Init => TypeOK /\ Lifecycle /\ InvitesCounted
    BY InitTypes, InitLifecycle, InitInvites
  <1>2. TypeOK /\ Lifecycle /\ InvitesCounted /\ [Next]_vars
           => (TypeOK /\ Lifecycle /\ InvitesCounted)'
    BY NextTypes, NextLifecycle, InvitesStep
  <1>3. InvitesCounted => InviteUsesAreEntries
    BY DEF InvitesCounted
  <1> QED BY <1>1, <1>2, <1>3, PTL DEF Spec

-----------------------------------------------------------------------------
(* Money collected.                                                         *)

(* Nobody is marked as paid in a sponsored Mesa.                            *)
Collected == CollectedIsDebited /\ \A m \in Mesas : PaidUsers(m) # {} => IsPaid(m)

LEMMA PaidIsFinite ==
    ASSUME NEW m \in Mesas
    PROVE  IsFiniteSet(PaidUsers(m)) /\ Cardinality(PaidUsers(m)) \in Nat
  BY DataAssumption, FS_Subset, FS_CardinalityType DEF PaidUsers

(* Only the entry of u to m posts its key.                                  *)
LEMMA EntryPosts ==
    ASSUME TypeOK, NEW t \in Slots, Commit(t),
           NEW m, m = tx[t].mesa, NEW u, u = tx[t].user,
           NEW n \in Mesas, NEW v \in Users
    PROVE  /\ Posted(EntryKey(n, v))' <=>
                 Posted(EntryKey(n, v)) \/ (IsPaid(m) /\ n = m /\ v = u)
           /\ Posted(PayoutKey(n, v))' <=> Posted(PayoutKey(n, v))
  <1>1. DebitEntry(m, u)
    BY EntryShape
  <1>2. CASE IsPaid(m)
    <2>1. ledger' = ledger \cup {[key |-> EntryKey(m, u), user |-> u,
                                   type |-> "DEBIT", amount |-> AccessCost[m]]}
      BY <1>1, <1>2 DEF DebitEntry
    <2> DEFINE entry == [key |-> EntryKey(m, u), user |-> u,
                         type |-> "DEBIT", amount |-> AccessCost[m]]
    <2>a. entry.key = EntryKey(m, u)
      OBVIOUS
    <2> HIDE DEF entry
    <2>2. \A k : Posted(k)' <=> Posted(k) \/ k = EntryKey(m, u)
      BY <2>1, <2>a DEF Posted, entry
    <2>3. /\ EntryKey(n, v) = EntryKey(m, u) <=> n = m /\ v = u
          /\ PayoutKey(n, v) # EntryKey(m, u)
      BY DEF EntryKey, PayoutKey
    <2> QED BY <1>2, <2>2, <2>3
  <1>3. CASE ~IsPaid(m)
    BY <1>1, <1>3 DEF DebitEntry, Posted, EntryKey, PayoutKey
  <1> QED BY <1>2, <1>3

LEMMA ClosePosts ==
    ASSUME TypeOK, NEW t \in Slots, CloseCommit(t), NEW m, m = tx[t].mesa,
           NEW n \in Mesas, NEW v \in Users
    PROVE  /\ Posted(EntryKey(n, v))' <=> Posted(EntryKey(n, v))
           /\ Posted(PayoutKey(n, v))' =>
                 \/ Posted(PayoutKey(n, v))
                 \/ /\ n = m /\ ~mesa[m].settled /\ ~tx[t].seen.settled
                    /\ v \in tx[t].rows
  <1> DEFINE seen == tx[t].seen
             rows == tx[t].rows
  <1>1. CASE seen.settled
    BY <1>1 DEF CloseCommit, Posted
  <1>2. CASE ~seen.settled
    <2>1. Settle(m, seen, rows)
      BY <1>2 DEF CloseCommit
    <2>2. DOMAIN PayoutsOf(m, seen, rows) \subseteq rows
      BY DEF PayoutsOf, Payouts, Winners
    <2>3. ASSUME NEW e \in PayoutEntries(m, seen, rows)
          PROVE  \E w \in rows : e.key = PayoutKey(m, w)
      BY <2>2 DEF PayoutEntries
    <2>4. ledger' = ledger \cup PayoutEntries(m, seen, rows) /\ ~mesa[m].settled
      BY <2>1 DEF Settle, NotSettled
    <2>5. Posted(EntryKey(n, v))' <=> Posted(EntryKey(n, v))
      BY <2>3, <2>4 DEF Posted, EntryKey, PayoutKey
    <2>6. Posted(PayoutKey(n, v))' =>
             Posted(PayoutKey(n, v)) \/ (n = m /\ v \in rows)
      BY <2>3, <2>4 DEF Posted, PayoutKey
    <2> QED BY <1>2, <2>4, <2>5, <2>6
  <1> QED BY <1>1, <1>2

LEMMA CollectedStep ==
    ASSUME TypeOK, Lifecycle, Collected, [Next]_vars
    PROVE  Collected'
  <1>1. CASE UNCHANGED tables
    BY <1>1 DEF tables, Collected, CollectedIsDebited, PaidUsers, Posted
  <1>2. ASSUME NEW m \in Mesas, CreateMesa(m) PROVE Collected'
    <2>1. UNCHANGED <<participant, ledger>>
          /\ \A n \in Mesas : mesa'[n].gross = mesa[n].gross
      BY <1>2, CreateShape DEF Lifecycle
    <2> QED BY <2>1 DEF Collected, CollectedIsDebited, PaidUsers, Posted
  <1>3. ASSUME NEW t \in Slots, Commit(t) PROVE Collected'
    <2>0. PICK m, u : m = tx[t].mesa /\ u = tx[t].user
      OBVIOUS
    <2>1. /\ m \in Mesas /\ u \in Users /\ EntryPossible(m, u)
          /\ mesa'[m].gross =
                mesa[m].gross + (IF IsPaid(m) THEN AccessCost[m] ELSE 0)
          /\ \A n \in Mesas \ {m} : mesa'[n] = mesa[n]
          /\ participant'[m][u].paid = IsPaid(m)
          /\ \A n \in Mesas, v \in Users :
                n # m \/ v # u => participant'[n][v] = participant[n][v]
      BY <1>3, <2>0, EntryShape
    <2>2. ~participant[m][u].paid
      BY <2>1 DEF EntryPossible, Collected, CollectedIsDebited, PaidUsers
    <2>3. /\ PaidUsers(m)' = IF IsPaid(m) THEN PaidUsers(m) \cup {u} ELSE PaidUsers(m)
          /\ \A n \in Mesas \ {m} : PaidUsers(n)' = PaidUsers(n)
      BY <2>1, <2>2 DEF PaidUsers
    <2>4. \A n \in Mesas, v \in Users :
             participant'[n][v].paid <=> Posted(EntryKey(n, v))'
      <3> TAKE n \in Mesas, v \in Users
      <3>1. Posted(EntryKey(n, v))' <=>
               Posted(EntryKey(n, v)) \/ (IsPaid(m) /\ n = m /\ v = u)
        BY <1>3, <2>0, EntryPosts
      <3>2. participant[n][v].paid <=> Posted(EntryKey(n, v))
        BY DEF Collected, CollectedIsDebited
      <3> QED BY <2>1, <2>2, <3>1, <3>2
    <2>5. mesa'[m].gross = AccessCost[m] * Cardinality(PaidUsers(m)')
      <3> DEFINE c == Cardinality(PaidUsers(m))
      <3>1. c \in Nat /\ AccessCost[m] \in Nat /\ mesa[m].gross = AccessCost[m] * c
        BY <2>1, PaidIsFinite, TermsAssumption DEF Collected, CollectedIsDebited
      <3>2. CASE IsPaid(m)
        <4>1. u \notin PaidUsers(m)
          BY <2>2 DEF PaidUsers
        <4>2. Cardinality(PaidUsers(m)') = c + 1
          BY <2>1, <2>3, <3>2, <4>1, PaidIsFinite, AddOne
        <4>3. AccessCost[m] * (c + 1) = AccessCost[m] * c + AccessCost[m]
          BY <3>1
        <4> QED BY <2>1, <3>1, <3>2, <4>2, <4>3
      <3>3. CASE ~IsPaid(m)
        <4>1. mesa[m].gross \in Nat
          BY <2>1 DEF TypeOK, MesaRow
        <4> QED BY <2>1, <2>3, <3>1, <3>3, <4>1
      <3> QED BY <3>2, <3>3
    <2>6. \A n \in Mesas \ {m} :
             mesa'[n].gross = AccessCost[n] * Cardinality(PaidUsers(n)')
      BY <2>1, <2>3 DEF Collected, CollectedIsDebited
    <2>7. \A n \in Mesas : PaidUsers(n)' # {} => IsPaid(n)
      BY <2>3 DEF Collected
    <2> QED BY <2>4, <2>5, <2>6, <2>7 DEF Collected, CollectedIsDebited
  <1>4. ASSUME NEW t \in Slots, RejectCommit(t) PROVE Collected'
    <2>1. \A n \in Mesas, v \in Users :
             participant'[n][v].paid = participant[n][v].paid
      BY <1>4, RejectShape
    <2>2. UNCHANGED <<mesa, ledger>>
      BY <1>4, RejectShape
    <2>3. \A n \in Mesas : PaidUsers(n)' = PaidUsers(n)
      BY <2>1 DEF PaidUsers
    <2> QED BY <2>1, <2>2, <2>3 DEF Collected, CollectedIsDebited, Posted
  <1>5. ASSUME NEW t \in Slots, CloseCommit(t) PROVE Collected'
    <2>1. \A n \in Mesas, v \in Users :
             /\ participant'[n][v].paid = participant[n][v].paid
             /\ Posted(EntryKey(n, v))' <=> Posted(EntryKey(n, v))
      BY <1>5, CloseShape, ClosePosts
    <2>2. \A n \in Mesas : mesa'[n].gross = mesa[n].gross
      BY <1>5, CloseShape
    <2>3. \A n \in Mesas : PaidUsers(n)' = PaidUsers(n)
      BY <2>1 DEF PaidUsers
    <2> QED BY <2>1, <2>2, <2>3 DEF Collected, CollectedIsDebited
  <1> QED BY <1>1, <1>2, <1>3, <1>4, <1>5, StepCases

LEMMA InitCollected == Init => Collected
  <1> SUFFICES ASSUME Init PROVE Collected
    OBVIOUS
  <1>1. \A m \in Mesas : PaidUsers(m) = {}
    BY DEF Init, PaidUsers
  <1>2. \A m \in Mesas : mesa[m].gross = 0 /\ AccessCost[m] \in Nat
    BY TermsAssumption DEF Init, NewMesa, NoRow
  <1>3. \A m \in Mesas, u \in Users :
           ~participant[m][u].paid /\ ~Posted(EntryKey(m, u))
    BY DEF Init, Posted
  <1> QED BY <1>1, <1>2, <1>3, FS_EmptySet DEF Collected, CollectedIsDebited

(* What a Mesa says it collected is what the ledger debited.                *)
THEOREM CollectedHolds == Spec => []CollectedIsDebited
  <1>1. Init => TypeOK /\ Lifecycle /\ Collected
    BY InitTypes, InitLifecycle, InitCollected
  <1>2. TypeOK /\ Lifecycle /\ Collected /\ [Next]_vars
           => (TypeOK /\ Lifecycle /\ Collected)'
    BY NextTypes, NextLifecycle, CollectedStep
  <1>3. Collected => CollectedIsDebited
    BY DEF Collected
  <1> QED BY <1>1, <1>2, <1>3, PTL DEF Spec

-----------------------------------------------------------------------------
(* Payouts.                                                                 *)

(* Everybody approved in a paid Mesa has paid, and so has everybody whom a  *)
(* closing has ranked.                                                      *)
Admission ==
    /\ PayoutsFollowAdmission
    /\ \A m \in Mesas, u \in Users :
          IsPaid(m) /\ participant[m][u].status = "APPROVED" => participant[m][u].paid
    /\ \A t \in Slots : tx[t].op = "closeRanked" /\ IsPaid(tx[t].mesa) =>
          \A u \in tx[t].rows : participant[tx[t].mesa][u].paid

(* A participant who has paid has paid for good.                            *)
LEMMA PaidStays ==
    ASSUME TypeOK, Collected, [Next]_vars, NEW m \in Mesas, NEW u \in Users,
           participant[m][u].paid
    PROVE  participant'[m][u].paid
  <1>1. CASE UNCHANGED tables
    BY <1>1 DEF tables
  <1>2. ASSUME NEW n \in Mesas, CreateMesa(n) PROVE participant'[m][u].paid
    BY <1>2, CreateShape
  <1>3. ASSUME NEW t \in Slots, Commit(t) PROVE participant'[m][u].paid
    <2>1. IsPaid(m)
      BY DEF Collected, PaidUsers
    <2> QED BY <1>3, <2>1, EntryShape
  <1>4. ASSUME NEW t \in Slots, RejectCommit(t) PROVE participant'[m][u].paid
    BY <1>4, RejectShape
  <1>5. ASSUME NEW t \in Slots, CloseCommit(t) PROVE participant'[m][u].paid
    BY <1>5, CloseShape
  <1> QED BY <1>1, <1>2, <1>3, <1>4, <1>5, StepCases

LEMMA AdmissionStep ==
    ASSUME TypeOK, TypeOK', Lifecycle, Collected, Admission, [Next]_vars
    PROVE  Admission'
  <1>1. ASSUME NEW m \in Mesas, NEW u \in Users,
               IsPaid(m), participant'[m][u].status = "APPROVED"
        PROVE  participant'[m][u].paid
    <2>1. CASE participant[m][u].status = "APPROVED"
      BY <1>1, <2>1, PaidStays DEF Admission
    <2>2. CASE participant[m][u].status # "APPROVED"
      <3>1. ~UNCHANGED tables
        BY <1>1, <2>2 DEF tables
      <3>2. ASSUME NEW n \in Mesas, CreateMesa(n) PROVE FALSE
        BY <1>1, <2>2, <3>2, CreateShape
      <3>3. ASSUME NEW t \in Slots, RejectCommit(t) PROVE FALSE
        BY <1>1, <2>2, <3>3, RejectShape
      <3>4. ASSUME NEW t \in Slots, CloseCommit(t) PROVE FALSE
        BY <1>1, <2>2, <3>4, CloseShape
      <3>5. ASSUME NEW t \in Slots, Commit(t) PROVE participant'[m][u].paid
        BY <1>1, <2>2, <3>5, EntryShape
      <3> QED BY <3>1, <3>2, <3>3, <3>4, <3>5, StepCases
    <2> QED BY <2>1, <2>2
  <1>2. ASSUME NEW t \in Slots, tx'[t].op = "closeRanked", IsPaid(tx'[t].mesa),
               NEW u \in tx'[t].rows
        PROVE  participant'[tx'[t].mesa][u].paid
    <2>1. tx'[t].mesa \in Mesas /\ u \in Users
      BY <1>2 DEF TypeOK, TxTypeOK, TxRecord
    <2>2. participant[tx'[t].mesa][u].paid
      <3>1. CASE tx'[t] = tx[t]
        BY <1>2, <3>1 DEF Admission
      <3>2. CASE tx'[t] # tx[t]
        <4>1. tx'[t].rows = Approved(tx'[t].mesa)
          BY <1>2, <3>2, TxSteps DEF Reading
        <4>2. participant[tx'[t].mesa][u].status = "APPROVED"
          BY <1>2, <4>1 DEF Approved
        <4> QED BY <1>2, <2>1, <4>2 DEF Admission
      <3> QED BY <3>1, <3>2
    <2> QED BY <2>1, <2>2, PaidStays
  <1>3. ASSUME NEW m \in Mesas, NEW u \in Users, Posted(PayoutKey(m, u))'
        PROVE  /\ mesa'[m].settled
               /\ participant'[m][u].place > 0
               /\ IsPaid(m) => participant'[m][u].paid
    <2> DEFINE Goal == /\ mesa'[m].settled
                       /\ participant'[m][u].place > 0
                       /\ IsPaid(m) => participant'[m][u].paid
    <2>1. CASE UNCHANGED tables
      BY <1>3, <2>1 DEF tables, Posted, Admission, PayoutsFollowAdmission
    <2>2. ASSUME NEW n \in Mesas, CreateMesa(n) PROVE Goal
      <3>1. Posted(PayoutKey(m, u))
        BY <1>3, <2>2, CreateShape DEF Posted
      <3>2. mesa[m].settled
        BY <3>1 DEF Admission, PayoutsFollowAdmission
      <3>3. m # n
        BY <2>2, <3>2, CreateShape DEF Lifecycle
      <3> QED BY <2>2, <3>1, <3>3, CreateShape DEF Admission, PayoutsFollowAdmission
    <2>3. ASSUME NEW t \in Slots, Commit(t) PROVE Goal
      <3>1. Posted(PayoutKey(m, u))
        BY <1>3, <2>3, EntryPosts
      <3>2. /\ mesa[m].settled /\ participant[m][u].place > 0
            /\ IsPaid(m) => participant[m][u].paid
        BY <3>1 DEF Admission, PayoutsFollowAdmission
      <3>3. /\ mesa'[m].settled = mesa[m].settled
            /\ participant'[m][u].place = participant[m][u].place
        BY <2>3, EntryShape
      <3> QED BY <3>2, <3>3, PaidStays
    <2>4. ASSUME NEW t \in Slots, RejectCommit(t) PROVE Goal
      <3>1. Posted(PayoutKey(m, u))
        BY <1>3, <2>4, RejectShape DEF Posted
      <3> QED BY <2>4, <3>1, RejectShape DEF Admission, PayoutsFollowAdmission
    <2>5. ASSUME NEW t \in Slots, CloseCommit(t) PROVE Goal
      <3>0. PICK n : n = tx[t].mesa
        OBVIOUS
      <3>1. CASE Posted(PayoutKey(m, u))
        <4>1. /\ mesa[m].settled /\ participant[m][u].place > 0
              /\ IsPaid(m) => participant[m][u].paid
          BY <3>1 DEF Admission, PayoutsFollowAdmission
        <4>2. mesa'[m].settled
          BY <2>5, <3>0, <4>1, CloseShape
        <4>3. CASE m = n /\ u \in tx[t].rows
          <5>1. participant'[m][u].place > 0
            BY <2>5, <3>0, <4>3, CloseShape
          <5> QED BY <4>1, <4>2, <5>1, PaidStays
        <4>4. CASE m # n \/ u \notin tx[t].rows
          <5>1. participant'[m][u].place = participant[m][u].place
            BY <2>5, <3>0, <4>4, CloseShape
          <5> QED BY <4>1, <4>2, <5>1, PaidStays
        <4> QED BY <4>3, <4>4
      <3>2. CASE ~Posted(PayoutKey(m, u))
        <4>1. m = n /\ ~tx[t].seen.settled /\ u \in tx[t].rows
          BY <1>3, <2>5, <3>0, <3>2, ClosePosts
        <4>2. mesa'[m].settled /\ participant'[m][u].place > 0
          BY <2>5, <3>0, <4>1, CloseShape
        <4>3. IsPaid(m) => participant[m][u].paid
          BY <2>5, <3>0, <4>1 DEF Admission, CloseCommit
        <4> QED BY <4>2, <4>3, PaidStays
      <3> QED BY <3>1, <3>2
    <2> QED BY <2>1, <2>2, <2>3, <2>4, <2>5, StepCases
  <1> QED BY <1>1, <1>2, <1>3 DEF Admission, PayoutsFollowAdmission

LEMMA InitAdmission == Init => Admission
  BY DEF Init, Admission, PayoutsFollowAdmission, Posted, Idle

(* The invariant all the theorems about payouts rest on.                    *)
MesaInv == TypeOK /\ Lifecycle /\ Collected /\ Admission

LEMMA MesaInvHolds == Spec => []MesaInv
  <1>1. Init => MesaInv
    BY InitTypes, InitLifecycle, InitCollected, InitAdmission DEF MesaInv
  <1>2. MesaInv /\ [Next]_vars => MesaInv'
    BY NextTypes, NextLifecycle, CollectedStep, AdmissionStep DEF MesaInv
  <1> QED BY <1>1, <1>2, PTL DEF Spec

(* Nobody is paid by a Mesa that did not admit them, or before it settles.  *)
THEOREM PayoutsHold == Spec => []PayoutsFollowAdmission
  <1>1. MesaInv => PayoutsFollowAdmission
    BY DEF MesaInv, Admission
  <1> QED BY <1>1, MesaInvHolds, PTL

-----------------------------------------------------------------------------
(* What a Mesa pays.                                                        *)

Prize(m) == IF IsPaid(m) THEN PrizePool(mesa[m].gross) ELSE SponsorPool[m]
(* The payouts of a Mesa in the ledger.                                    *)
PayoutRows(m) == {e \in ledger : e.key \in {PayoutKey(m, u) : u \in Users}}

(* A closing has read no more than what has been collected by now.          *)
Covered ==
    /\ PayoutsCovered /\ \A m \in Mesas : PaidOut(m) \in Nat
    /\ \A t \in Slots : tx[t].op \in {"closeRead", "closeChecked", "closeRanked"} =>
          tx[t].seen.gross <= mesa[tx[t].mesa].gross

(* The pool grows with what is collected.                                   *)
LEMMA PoolGrows ==
    ASSUME NEW a \in Nat, NEW b \in Nat, a <= b
    PROVE  PrizePool(a) <= PrizePool(b)
  BY DEF PrizePool, PlatformFee

(* What calculatePayouts gives in a settlement, and the pool it divides.    *)
LEMMA SettlementDivides ==
    ASSUME NEW m \in Mesas, NEW seen \in MesaRow, NEW rows \in SUBSET Users,
           NEW pool, pool = SettledPool(m, seen),
           NEW payout, payout = PayoutsOf(m, seen, rows)
    PROVE  /\ pool \in Nat
           /\ DOMAIN payout \subseteq rows /\ IsFiniteSet(DOMAIN payout)
           /\ \A u \in DOMAIN payout : payout[u] \in Nat
           /\ SumFunction(payout) <= pool
           /\ rows # {} => SumFunction(payout) = pool
  <1>1. pool \in Nat
    <2>1. seen.gross \in Nat /\ SponsorPool[m] \in Nat
      BY TermsAssumption DEF MesaRow
    <2> QED BY <2>1, PoolIsNat DEF SettledPool
  <1>2. /\ Shares[m] \in Seq(Nat) /\ IsDistribution(Shares[m])
        /\ Ranked(rows, Standing) /\ Ordered(rows, Order)
    BY TermsAssumption, RowsAreRanked
  <1>3. payout = Payouts(pool, Shares[m], rows, Standing, Order)
    BY DEF PayoutsOf
  <1>4. /\ IsFiniteSet(DOMAIN payout)
        /\ \A u \in DOMAIN payout : payout[u] \in Nat
        /\ SumFunction(payout) <= pool
    BY <1>1, <1>2, <1>3, DivisionCovered
  <1>5. DOMAIN payout \subseteq rows
    BY <1>3 DEF Payouts, Winners
  <1>6. ASSUME rows # {} PROVE SumFunction(payout) = pool
    <2>1. CASE pool > 0
      <3>1. TotalOf(Payouts(pool, Shares[m], rows, Standing, Order)) = pool
        BY <1>1, <1>2, <1>6, <2>1, PrizeIsPaidInFull
      <3> QED BY <1>3, <3>1 DEF TotalOf
    <2>2. CASE pool = 0
      <3>1. DOMAIN payout = {}
        BY <1>3, <2>2 DEF Payouts
      <3>2. SumFunction(payout) = 0
        BY <3>1, SumEmpty DEF SumFunction
      <3> QED BY <2>2, <3>2
    <2> QED BY <1>1, <2>1, <2>2
  <1> QED BY <1>1, <1>4, <1>5, <1>6

(* The entries of a settlement add up to what its eligible winners get.     *)
LEMMA SettlementSum ==
    ASSUME NEW m \in Mesas, NEW seen \in MesaRow, NEW rows \in SUBSET Users,
           NEW payout, payout = PayoutsOf(m, seen, rows)
    PROVE  SumFunction([e \in PayoutEntries(m, seen, rows) |-> e.amount])
             = SumFunctionOnSet(payout, {w \in DOMAIN payout : Eligible(m, w)})
  <1> DEFINE S == {w \in DOMAIN payout : Eligible(m, w)}
             b == [u \in S |-> [key |-> PayoutKey(m, u), user |-> u, type |-> "CREDIT",
                                amount |-> payout[u]]]
             E == {b[u] : u \in S}
             g == [e \in E |-> e.amount]
  <1>1. IsFiniteSet(DOMAIN payout) /\ \A u \in DOMAIN payout : payout[u] \in Nat
    BY SettlementDivides
  <1>2. PayoutEntries(m, seen, rows) = E
    BY DEF PayoutEntries
  <1>3. /\ S \subseteq DOMAIN payout
        /\ \A u \in S : payout[u] \in Int /\ g[b[u]] = payout[u] /\ b[u].user = u
    BY <1>1
  <1>4. \A u, v \in S : b[u] = b[v] => u = v
    <2> HIDE DEF b
    <2> QED BY <1>3
  <1>5. SumFunctionOnSet(g, E) = SumFunctionOnSet(payout, S)
    <2>1. IsFiniteSet(S)
      BY <1>1, <1>3, FS_Subset
    <2> HIDE DEF S, b, g
    <2> QED BY <1>3, <1>4, <2>1, SumRenamed
  <1>6. SumFunction([e \in PayoutEntries(m, seen, rows) |-> e.amount])
           = SumFunctionOnSet(g, E)
    BY <1>2 DEF SumFunction
  <1> HIDE DEF E, g
  <1> QED BY <1>5, <1>6

(* They are covered by the pool that is divided.                            *)
LEMMA SettlementCovered ==
    ASSUME NEW m \in Mesas, NEW seen \in MesaRow, NEW rows \in SUBSET Users
    PROVE  /\ SumFunction([e \in PayoutEntries(m, seen, rows) |-> e.amount]) \in Nat
           /\ SumFunction([e \in PayoutEntries(m, seen, rows) |-> e.amount])
                 <= SettledPool(m, seen)
  <1>1. PICK pool, payout : pool = SettledPool(m, seen) /\ payout = PayoutsOf(m, seen, rows)
    OBVIOUS
  <1>2. PICK S : S = {w \in DOMAIN payout : Eligible(m, w)}
    OBVIOUS
  <1>3. /\ pool \in Nat /\ IsFiniteSet(DOMAIN payout)
        /\ \A u \in DOMAIN payout : payout[u] \in Nat
        /\ SumFunction(payout) <= pool
    BY <1>1, SettlementDivides
  <1>4. S \subseteq DOMAIN payout /\ IsFiniteSet(S)
    BY <1>2, <1>3, FS_Subset
  <1>5. SumFunctionOnSet(payout, S) <= SumFunctionOnSet(payout, DOMAIN payout)
    BY <1>3, <1>4, SumPart
  <1>6. /\ SumFunctionOnSet(payout, DOMAIN payout) \in Nat
        /\ SumFunctionOnSet(payout, S) \in Nat
    BY <1>3, <1>4, SumNat
  <1>7. SumFunction([e \in PayoutEntries(m, seen, rows) |-> e.amount])
           = SumFunctionOnSet(payout, S)
    BY <1>1, <1>2, SettlementSum
  <1>8. SumFunctionOnSet(payout, DOMAIN payout) <= pool
    BY <1>3 DEF SumFunction
  <1> QED BY <1>1, <1>3, <1>5, <1>6, <1>7, <1>8

(* They are all of it where somebody is ranked and everybody is eligible.   *)
LEMMA SettlementInFull ==
    ASSUME NEW m \in Mesas, NEW seen \in MesaRow, NEW rows \in SUBSET Users,
           rows # {}, \A u \in rows : Eligible(m, u)
    PROVE  SumFunction([e \in PayoutEntries(m, seen, rows) |-> e.amount])
             = SettledPool(m, seen)
  <1>1. PICK payout : payout = PayoutsOf(m, seen, rows)
    OBVIOUS
  <1>2. DOMAIN payout \subseteq rows /\ SumFunction(payout) = SettledPool(m, seen)
    BY <1>1, SettlementDivides
  <1>3. {w \in DOMAIN payout : Eligible(m, w)} = DOMAIN payout
    BY <1>2
  <1>4. SumFunction([e \in PayoutEntries(m, seen, rows) |-> e.amount])
           = SumFunctionOnSet(payout, DOMAIN payout)
    BY <1>1, <1>3, SettlementSum
  <1> QED BY <1>2, <1>4 DEF SumFunction

LEMMA PaidOutIs ==
    ASSUME NEW m \in Mesas
    PROVE  PaidOut(m) = SumFunction([e \in PayoutRows(m) |-> e.amount])
  BY DEF PaidOut, PayoutRows

LEMMA PaidOutSame ==
    ASSUME NEW m \in Mesas, PayoutRows(m)' = PayoutRows(m)
    PROVE  PaidOut(m)' = PaidOut(m)
  BY DEF PaidOut, PayoutRows

(* A settlement finds no payout of its Mesa and adds its own.               *)
LEMMA SettlementRows ==
    ASSUME TypeOK, Admission, NEW t \in Slots, CloseCommit(t), ~tx[t].seen.settled,
           NEW m, m = tx[t].mesa
    PROVE  /\ PayoutRows(m)' = PayoutEntries(m, tx[t].seen, tx[t].rows)
           /\ mesa'[m].pool = SettledPool(m, tx[t].seen)
  <1>1. PICK seen, rows : seen = tx[t].seen /\ rows = tx[t].rows
    OBVIOUS
  <1>2. m \in Mesas /\ rows \subseteq Users
    BY <1>1, CloseShape
  <1>3. Settle(m, seen, rows)
    BY <1>1 DEF CloseCommit
  <1>4. /\ ledger' = ledger \cup PayoutEntries(m, seen, rows) /\ ~mesa[m].settled
        /\ mesa' = [mesa EXCEPT ![m] = SettledRow(m, seen)]
    BY <1>3 DEF Settle, NotSettled
  <1>5. \A e \in PayoutEntries(m, seen, rows) :
           \E w \in Users : e.key = PayoutKey(m, w)
    <2>1. DOMAIN PayoutsOf(m, seen, rows) \subseteq rows
      BY DEF PayoutsOf, Payouts, Winners
    <2> QED BY <1>2, <2>1 DEF PayoutEntries
  <1>6. PayoutRows(m) = {}
    BY <1>2, <1>4 DEF PayoutRows, Admission, PayoutsFollowAdmission, Posted
  <1>7. PayoutRows(m)' = PayoutEntries(m, seen, rows)
    BY <1>4, <1>5, <1>6 DEF PayoutRows
  <1>8. mesa'[m].pool = SettledPool(m, seen)
    BY <1>2, <1>4 DEF TypeOK, MesaRow, SettledRow
  <1> QED BY <1>1, <1>7, <1>8

(* Only the settlement of a Mesa adds to what it paid.                      *)
LEMMA PayoutRowsSteps ==
    ASSUME TypeOK, Lifecycle, Admission, [Next]_vars, NEW n \in Mesas
    PROVE  \/ PayoutRows(n)' = PayoutRows(n)
           \/ \E t \in Slots :
                 /\ CloseCommit(t) /\ tx[t].mesa = n
                 /\ PayoutRows(n)' = PayoutEntries(n, tx[t].seen, tx[t].rows)
  <1> DEFINE Same == PayoutRows(n)' = PayoutRows(n)
  <1>0. ASSUME UNCHANGED ledger PROVE Same
    BY <1>0 DEF PayoutRows
  <1>1. CASE UNCHANGED tables
    BY <1>0, <1>1 DEF tables
  <1>2. ASSUME NEW m \in Mesas, CreateMesa(m) PROVE Same
    BY <1>0, <1>2, CreateShape
  <1>3. ASSUME NEW t \in Slots, Commit(t) PROVE Same
    <2>0. PICK m, u : m = tx[t].mesa /\ u = tx[t].user
      OBVIOUS
    <2>1. DebitEntry(m, u)
      BY <1>3, <2>0, EntryShape
    <2>2. PICK e : e = [key |-> EntryKey(m, u), user |-> u,
                        type |-> "DEBIT", amount |-> AccessCost[m]]
      OBVIOUS
    <2>3. ledger' = ledger \/ ledger' = ledger \cup {e}
      BY <2>1, <2>2 DEF DebitEntry
    <2>4. \A v \in Users : e.key # PayoutKey(n, v)
      BY <2>2 DEF EntryKey, PayoutKey
    <2> QED BY <2>3, <2>4 DEF PayoutRows
  <1>4. ASSUME NEW t \in Slots, RejectCommit(t) PROVE Same
    BY <1>0, <1>4, RejectShape
  <1>5. ASSUME NEW t \in Slots, CloseCommit(t), ~Same
        PROVE  /\ tx[t].mesa = n
               /\ PayoutRows(n)' = PayoutEntries(n, tx[t].seen, tx[t].rows)
    <2>0. PICK m, seen, rows : m = tx[t].mesa /\ seen = tx[t].seen /\ rows = tx[t].rows
      OBVIOUS
    <2>1. ~seen.settled
      BY <1>0, <1>5, <2>0 DEF CloseCommit
    <2>2. m = n
      <3>1. SUFFICES ASSUME m # n PROVE FALSE
        OBVIOUS
      <3>2. \A w, v : PayoutKey(m, w) # PayoutKey(n, v)
        BY <3>1 DEF PayoutKey
      <3>3. ledger' = ledger \cup PayoutEntries(m, seen, rows)
        BY <1>5, <2>0, <2>1 DEF CloseCommit, Settle
      <3>4. \A e \in PayoutEntries(m, seen, rows) : \E w : e.key = PayoutKey(m, w)
        BY DEF PayoutEntries
      <3> QED BY <1>5, <3>2, <3>3, <3>4 DEF PayoutRows
    <2>3. PayoutRows(m)' = PayoutEntries(m, seen, rows)
      BY <1>5, <2>0, <2>1, SettlementRows
    <2> QED BY <2>0, <2>2, <2>3
  <1> QED BY <1>1, <1>2, <1>3, <1>4, <1>5, StepCases

LEMMA CoveredStep ==
    ASSUME TypeOK, TypeOK', Lifecycle, Admission, Covered, [Next]_vars
    PROVE  Covered'
  <1>0. \A m \in Mesas : /\ mesa[m].gross \in Nat /\ mesa'[m].gross \in Nat
                         /\ mesa[m].gross <= mesa'[m].gross
    BY TotalsNeverFall DEF TypeOK, MesaRow
  <1>1. \A m \in Mesas : /\ PrizePool(mesa[m].gross) \in Nat
                         /\ PrizePool(mesa'[m].gross) \in Nat
                         /\ PrizePool(mesa[m].gross) <= PrizePool(mesa'[m].gross)
    BY <1>0, PoolIsNat, PoolGrows
  <1>2. ASSUME NEW m \in Mesas
        PROVE  /\ PaidOut(m)' \in Nat
               /\ PaidOut(m)' <= (IF IsPaid(m) THEN PrizePool(mesa'[m].gross)
                                  ELSE SponsorPool[m])
    <2>0. SponsorPool[m] \in Nat
      BY TermsAssumption
    <2>1. CASE PayoutRows(m)' = PayoutRows(m)
      <3>1. PaidOut(m)' = PaidOut(m)
        BY <2>1, PaidOutSame
      <3>2. PaidOut(m) <= (IF IsPaid(m) THEN PrizePool(mesa[m].gross) ELSE SponsorPool[m])
        BY DEF Covered, PayoutsCovered
      <3>3. PaidOut(m) \in Nat
        BY DEF Covered
      <3> QED BY <1>1, <3>1, <3>2, <3>3
    <2>2. ASSUME NEW t \in Slots, CloseCommit(t), tx[t].mesa = m,
                 PayoutRows(m)' = PayoutEntries(m, tx[t].seen, tx[t].rows)
          PROVE  /\ PaidOut(m)' \in Nat
                 /\ PaidOut(m)' <= (IF IsPaid(m) THEN PrizePool(mesa'[m].gross)
                                    ELSE SponsorPool[m])
      <3>0. PICK seen, rows : seen = tx[t].seen /\ rows = tx[t].rows
        OBVIOUS
      <3>1. seen \in MesaRow /\ rows \in SUBSET Users
        BY <3>0 DEF TypeOK, TxTypeOK, TxRecord
      <3>2. PaidOut(m)' = SumFunction([e \in PayoutEntries(m, seen, rows) |-> e.amount])
        BY <2>2, <3>0 DEF PaidOut, PayoutRows
      <3>3. PaidOut(m)' \in Nat /\ PaidOut(m)' <= SettledPool(m, seen)
        BY <3>1, <3>2, SettlementCovered
      <3>4. seen.gross \in Nat /\ seen.gross <= mesa[m].gross
        BY <2>2, <3>0, <3>1 DEF MesaRow, Covered, CloseCommit
      <3>5. seen.gross <= mesa'[m].gross
        BY <1>0, <3>4
      <3>6. PrizePool(seen.gross) <= PrizePool(mesa'[m].gross)
            /\ PrizePool(seen.gross) \in Nat
        BY <1>0, <3>4, <3>5, PoolGrows, PoolIsNat
      <3> QED BY <1>1, <3>3, <3>6 DEF SettledPool
    <2> QED BY <2>1, <2>2, PayoutRowsSteps
  <1>3. ASSUME NEW t \in Slots,
               tx'[t].op \in {"closeRead", "closeChecked", "closeRanked"}
        PROVE  tx'[t].seen.gross <= mesa'[tx'[t].mesa].gross
    <2>1. tx'[t].mesa \in Mesas /\ tx'[t].seen.gross \in Nat
      BY <1>3 DEF TypeOK, TxTypeOK, TxRecord, MesaRow
    <2>2. tx'[t].seen.gross <= mesa[tx'[t].mesa].gross
      <3>1. CASE tx'[t] = tx[t]
        BY <1>3, <3>1 DEF Covered
      <3>2. CASE tx'[t] # tx[t]
        <4>1. Reading(t)
          BY <1>3, <3>2, TxSteps
        <4>2. CASE tx'[t].seen = mesa[tx'[t].mesa]
          BY <1>0, <2>1, <4>2
        <4>3. CASE /\ tx[t].op \in {"closeRead", "closeChecked"}
                   /\ tx'[t].seen = tx[t].seen /\ tx'[t].mesa = tx[t].mesa
          BY <4>3 DEF Covered
        <4> QED BY <1>3, <4>1, <4>2, <4>3 DEF Reading
      <3> QED BY <3>1, <3>2
    <2>3. /\ mesa[tx'[t].mesa].gross \in Nat /\ mesa'[tx'[t].mesa].gross \in Nat
          /\ mesa[tx'[t].mesa].gross <= mesa'[tx'[t].mesa].gross
      BY <1>0, <2>1
    <2> QED BY <2>1, <2>2, <2>3
  <1> QED BY <1>2, <1>3 DEF Covered, PayoutsCovered

LEMMA InitCovered == Init => Covered
  <1> SUFFICES ASSUME Init PROVE Covered
    OBVIOUS
  <1>1. ASSUME NEW m \in Mesas
        PROVE  /\ PaidOut(m) \in Nat
               /\ PaidOut(m) <= IF IsPaid(m) THEN PrizePool(mesa[m].gross)
                                ELSE SponsorPool[m]
    <2> DEFINE f == [e \in PayoutRows(m) |-> e.amount]
    <2>1. PayoutRows(m) = {}
      BY DEF Init, PayoutRows
    <2>2. PaidOut(m) = SumFunctionOnSet(f, {})
      BY <2>1 DEF PaidOut, PayoutRows, SumFunction
    <2> HIDE DEF f
    <2>3. PaidOut(m) = 0
      BY <2>2, SumEmpty
    <2>4. mesa[m].gross \in Nat /\ SponsorPool[m] \in Nat
      BY InitTypes, TermsAssumption DEF TypeOK, MesaRow
    <2> QED BY <2>3, <2>4, PoolIsNat
  <1>2. \A t \in Slots : tx[t].op = "idle"
    BY DEF Init, Idle
  <1> QED BY <1>1, <1>2 DEF Covered, PayoutsCovered

(* A settlement creates no coins: what a Mesa pays is at most what it       *)
(* collected less the fee, or the sponsor's prize, for every distribution,  *)
(* every tie and every order of concurrent entries and closings             *)
(* (SettleBolaoService, BolaoPrizeService.calculatePayouts).                *)
THEOREM PayoutsAreCovered == Spec => []PayoutsCovered
  <1>1. Init => MesaInv /\ Covered
    BY InitTypes, InitLifecycle, InitCollected, InitAdmission, InitCovered DEF MesaInv
  <1>2. MesaInv /\ Covered /\ [Next]_vars => (MesaInv /\ Covered)'
    BY NextTypes, NextLifecycle, CollectedStep, AdmissionStep, CoveredStep DEF MesaInv
  <1>3. Covered => PayoutsCovered
    BY DEF Covered
  <1> QED BY <1>1, <1>2, <1>3, PTL DEF Spec

(* Nobody has a place in a Mesa that is not settled.                        *)
Unranked == \A m \in Mesas : ~mesa[m].settled =>
               \A u \in Users : participant[m][u].place = 0

LEMMA UnrankedStep ==
    ASSUME TypeOK, Lifecycle, Unranked, [Next]_vars
    PROVE  Unranked'
  <1> SUFFICES ASSUME NEW m \in Mesas, ~mesa'[m].settled, NEW u \in Users
               PROVE  participant'[m][u].place = 0
    BY DEF Unranked
  <1> DEFINE Goal == participant'[m][u].place = 0
  <1>0. ~mesa[m].settled => participant[m][u].place = 0
    BY DEF Unranked
  <1>1. CASE UNCHANGED tables
    BY <1>0, <1>1 DEF tables
  <1>2. ASSUME NEW n \in Mesas, CreateMesa(n) PROVE Goal
    BY <1>0, <1>2, CreateShape DEF Lifecycle
  <1>3. ASSUME NEW t \in Slots, Commit(t) PROVE Goal
    <2>1. PICK n, v : n = tx[t].mesa /\ v = tx[t].user
      OBVIOUS
    <2>2. /\ mesa'[n].settled = mesa[n].settled
          /\ \A k \in Mesas \ {n} : mesa'[k] = mesa[k]
          /\ participant'[n][v].place = participant[n][v].place
          /\ \A k \in Mesas, w \in Users :
                k # n \/ w # v => participant'[k][w] = participant[k][w]
      BY <1>3, <2>1, EntryShape
    <2> QED BY <1>0, <2>2
  <1>4. ASSUME NEW t \in Slots, RejectCommit(t) PROVE Goal
    BY <1>0, <1>4, RejectShape
  <1>5. ASSUME NEW t \in Slots, CloseCommit(t) PROVE Goal
    <2>1. ~tx[t].seen.settled
      BY <1>5 DEF Lifecycle, CloseCommit
    <2>2. m # tx[t].mesa
      BY <1>5, <2>1, CloseShape
    <2>3. mesa'[m] = mesa[m] /\ participant'[m] = participant[m]
      BY <1>5, <2>2, CloseShape
    <2> QED BY <1>0, <2>3
  <1> QED BY <1>1, <1>2, <1>3, <1>4, <1>5, StepCases

(* The step that settles a Mesa pays what it divides.                       *)
LEMMA PaysItsPoolStep ==
    ASSUME TypeOK, Lifecycle, Admission, Unranked, [Next]_vars
    PROVE  PaysItsPool
  <1> SUFFICES ASSUME NEW m \in Mesas, ~mesa[m].settled, mesa'[m].settled,
                      NEW ranked, ranked = {u \in Users : participant'[m][u].place > 0},
                      ranked # {}, \A u \in ranked : Eligible(m, u)
               PROVE  PaidOut(m)' = mesa'[m].pool
    BY DEF PaysItsPool
  <1>1. PICK t \in Slots : CloseCommit(t)
    <2>1. ~UNCHANGED tables
      BY DEF tables
    <2>2. ASSUME NEW n \in Mesas, CreateMesa(n) PROVE FALSE
      BY <2>2, CreateShape
    <2>3. ASSUME NEW t \in Slots, Commit(t) PROVE FALSE
      BY <2>3, EntryShape
    <2>4. ASSUME NEW t \in Slots, RejectCommit(t) PROVE FALSE
      BY <2>4, RejectShape
    <2> QED BY <2>1, <2>2, <2>3, <2>4, StepCases
  <1>2. PICK seen, rows : seen = tx[t].seen /\ rows = tx[t].rows
    OBVIOUS
  <1>3. tx[t].mesa = m /\ ~seen.settled
    <2>1. PICK n : n = tx[t].mesa
      OBVIOUS
    <2>2. /\ \A k \in Mesas \ {n} : mesa'[k] = mesa[k]
          /\ mesa'[n].settled = (mesa[n].settled \/ ~tx[t].seen.settled)
      BY <1>1, <2>1, CloseShape
    <2>3. m = n
      BY <2>2
    <2>4. ~tx[t].seen.settled
      BY <2>2, <2>3
    <2> QED BY <1>2, <2>1, <2>3, <2>4
  <1>4. seen \in MesaRow /\ rows \in SUBSET Users
    BY <1>2 DEF TypeOK, TxTypeOK, TxRecord
  <1>5. rows = ranked
    <2>1. \A v \in Users \ rows : participant'[m][v].place = 0
      BY <1>1, <1>2, <1>3, CloseShape DEF Unranked
    <2>2. \A v \in rows : participant'[m][v].place > 0
      BY <1>1, <1>2, <1>3, CloseShape
    <2> QED BY <1>4, <2>1, <2>2
  <1>6. /\ PayoutRows(m)' = PayoutEntries(m, seen, rows)
        /\ mesa'[m].pool = SettledPool(m, seen)
    BY <1>1, <1>2, <1>3, SettlementRows
  <1>7. PaidOut(m)' = SumFunction([e \in PayoutEntries(m, seen, rows) |-> e.amount])
    BY <1>6 DEF PaidOut, PayoutRows
  <1> QED BY <1>4, <1>5, <1>6, <1>7, SettlementInFull

-----------------------------------------------------------------------------
(* Settling once.                                                           *)

LEMMA StaysSettledStep ==
    ASSUME TypeOK, Lifecycle, [Next]_vars
    PROVE  StaysSettled
  <1> SUFFICES ASSUME NEW m \in Mesas, mesa[m].settled
               PROVE  /\ mesa'[m].settled
                      /\ mesa'[m].status = "CLOSED"
                      /\ \A u \in Users :
                            Posted(PayoutKey(m, u))' => Posted(PayoutKey(m, u))
    BY DEF StaysSettled
  <1> DEFINE Goal == /\ mesa'[m].settled
                     /\ mesa'[m].status = "CLOSED"
                     /\ \A u \in Users :
                           Posted(PayoutKey(m, u))' => Posted(PayoutKey(m, u))
  <1>0. mesa[m].status = "CLOSED"
    BY DEF Lifecycle
  <1>1. CASE UNCHANGED tables
    BY <1>0, <1>1 DEF tables, Posted
  <1>2. ASSUME NEW n \in Mesas, CreateMesa(n) PROVE Goal
    <2>1. m # n
      BY <1>0, <1>2, CreateShape
    <2> QED BY <1>0, <1>2, <2>1, CreateShape DEF Posted
  <1>3. ASSUME NEW t \in Slots, Commit(t) PROVE Goal
    <2>1. mesa'[m].settled = mesa[m].settled /\ mesa'[m].status = mesa[m].status
      BY <1>3, EntryShape
    <2>2. \A u \in Users : Posted(PayoutKey(m, u))' => Posted(PayoutKey(m, u))
      BY <1>3, EntryPosts
    <2> QED BY <1>0, <2>1, <2>2
  <1>4. ASSUME NEW t \in Slots, RejectCommit(t) PROVE Goal
    BY <1>0, <1>4, RejectShape DEF Posted
  <1>5. ASSUME NEW t \in Slots, CloseCommit(t) PROVE Goal
    <2>1. mesa'[m].settled /\ mesa'[m].status = "CLOSED"
      BY <1>0, <1>5, CloseShape
    <2>2. \A u \in Users : Posted(PayoutKey(m, u))' => Posted(PayoutKey(m, u))
      BY <1>5, ClosePosts
    <2> QED BY <2>1, <2>2
  <1> QED BY <1>1, <1>2, <1>3, <1>4, <1>5, StepCases

(* However many requests close a Mesa at the same time, it is settled once  *)
(* and stays closed, and its settlement pays out the whole pool it records, *)
(* whatever the ties, the percentages and the coins that cannot be split    *)
(* (CloseRankingService, SettleBolaoService, calculatePayouts).             *)
THEOREM SettlesOnceInFull == Spec => SettledOnceInFull
  <1>1. Init => Unranked
    BY DEF Init, Unranked
  <1>2. MesaInv /\ Unranked /\ [Next]_vars => Unranked'
    BY UnrankedStep DEF MesaInv
  <1>3. MesaInv /\ Unranked /\ [Next]_vars => [StaysSettled /\ PaysItsPool]_vars
    BY StaysSettledStep, PaysItsPoolStep DEF MesaInv
  <1> QED BY <1>1, <1>2, <1>3, MesaInvHolds, PTL DEF Spec, SettledOnceInFull

-----------------------------------------------------------------------------
(***************************************************************************)
(* The Mesas implement the wallet (WalletLedger): whatever they do to the  *)
(* balances and the ledger is a posting of new entries that the balances   *)
(* follow. And, where no request of an earlier release is pending, the     *)
(* count of the seats is exact.                                            *)
(***************************************************************************)

-----------------------------------------------------------------------------
(* An entry debits one wallet by one new ledger entry.                      *)
LEMMA EntryIsPosting ==
    ASSUME TypeOK, TypeOK', NEW t \in Slots, Commit(t)
    PROVE  [Wallet!WalletNext]_(Wallet!walletVars)
  <1>0. PICK m, u : m = tx[t].mesa /\ u = tx[t].user
    OBVIOUS
  <1>1. m \in Mesas /\ u \in Users /\ EntryPossible(m, u) /\ DebitEntry(m, u)
    BY <1>0, EntryShape
  <1>2. CASE ~IsPaid(m)
    BY <1>1, <1>2 DEF DebitEntry, Wallet!walletVars
  <1>3. CASE IsPaid(m)
    <2> DEFINE e == [key |-> EntryKey(m, u), user |-> u, type |-> "DEBIT",
                     amount |-> AccessCost[m]]
    <2>1. ledger' = ledger \cup {e} /\ wallet' = [wallet EXCEPT ![u] = @ - AccessCost[m]]
      BY <1>1, <1>3 DEF DebitEntry
    <2>2. /\ e.key = EntryKey(m, u) /\ e.user = u /\ e.type = "DEBIT"
          /\ e.amount = AccessCost[m]
      OBVIOUS
    <2> HIDE DEF e
    <2>3. \A f \in ledger : f.key # e.key
      BY <1>1, <1>3, <2>2 DEF EntryPossible, Posted
    <2>4. ledger' \ ledger = {e}
      BY <2>1, <2>3
    <2>5. {e} \in SUBSET Wallet!Entry
      <3>1. e \in LedgerRow
        BY <2>1 DEF TypeOK
      <3> QED BY <3>1 DEF LedgerRow, Wallet!Entry
    <2>6. \A v \in Users : wallet'[v] = wallet[v] + Wallet!Effect({e}, v)
      <3>1. wallet \in [Users -> Nat] /\ AccessCost[m] \in Nat
        BY <1>1, TermsAssumption DEF TypeOK
      <3>2. Wallet!Effect({e}, u) = -AccessCost[m]
        BY <2>2 DEF Wallet!Effect
      <3>3. \A v \in Users \ {u} : Wallet!Effect({e}, v) = 0
        BY <2>2 DEF Wallet!Effect
      <3> TAKE v \in Users
      <3>4. wallet[v] \in Nat
        BY <3>1
      <3>5. CASE v = u
        <4>1. wallet'[u] = wallet[u] - AccessCost[m]
          BY <1>1, <2>1, <3>1
        <4>2. Wallet!Effect({e}, v) = -AccessCost[m]
          BY <3>2, <3>5
        <4> QED BY <3>1, <3>4, <3>5, <4>1, <4>2
      <3>6. CASE v # u
        <4>1. wallet'[v] = wallet[v]
          BY <2>1, <3>1, <3>6
        <4>2. Wallet!Effect({e}, v) = 0
          BY <3>3, <3>6
        <4> QED BY <3>4, <4>1, <4>2
      <3> QED BY <3>5, <3>6
    <2>7. wallet' = [v \in Users |-> wallet[v] + Wallet!Effect({e}, v)]
      BY <2>6 DEF TypeOK
    <2>8. \A v \in Users : wallet'[v] >= 0
      BY DEF TypeOK
    <2>9. Wallet!Post({e})
      BY <2>1, <2>3, <2>5, <2>7, <2>8 DEF Wallet!Post
    <2> QED BY <2>4, <2>9 DEF Wallet!WalletNext
  <1> QED BY <1>2, <1>3

(* A settlement credits its eligible winners by one new entry each.         *)
LEMMA SettlementIsPosting ==
    ASSUME TypeOK, TypeOK', NEW m \in Mesas, NEW seen \in MesaRow,
           NEW rows \in SUBSET Users, Settle(m, seen, rows)
    PROVE  [Wallet!WalletNext]_(Wallet!walletVars)
  <1> DEFINE payout == PayoutsOf(m, seen, rows)
             entries == PayoutEntries(m, seen, rows)
             paid == {u \in DOMAIN payout : Eligible(m, u)}
             entry(u) == [key |-> PayoutKey(m, u), user |-> u, type |-> "CREDIT",
                          amount |-> payout[u]]
  <1>1. paid \subseteq Users
    BY DEF PayoutsOf, Payouts, Winners
  <1>2. entries = {entry(u) : u \in paid}
    BY DEF PayoutEntries
  <1>3. \A u : /\ entry(u).key = PayoutKey(m, u) /\ entry(u).user = u
               /\ entry(u).type = "CREDIT" /\ entry(u).amount = payout[u]
    OBVIOUS
  <1>4. ledger' = ledger \cup entries
    BY DEF Settle
  <1>5. \A u \in Users :
           wallet'[u] = IF u \in paid THEN wallet[u] + payout[u] ELSE wallet[u]
    BY DEF Settle
  <1>6. \A u \in paid : ~Posted(PayoutKey(m, u))
    BY DEF Settle, NotSettled
  <1> HIDE DEF payout, entries, paid, entry
  <1>7. \A e \in entries, f \in ledger : e.key # f.key
    BY <1>2, <1>3, <1>6 DEF Posted
  <1>8. ledger' \ ledger = entries
    BY <1>4, <1>7
  <1>9. wallet \in [Users -> Nat] /\ wallet' \in [Users -> Nat]
    BY DEF TypeOK
  <1>10. CASE entries = {}
    <2>1. paid = {}
      BY <1>2, <1>10
    <2>2. \A u \in Users : wallet'[u] = wallet[u]
      BY <1>5, <2>1
    <2>3. wallet' = wallet
      BY <1>9, <2>2
    <2> QED BY <1>4, <1>10, <2>3 DEF Wallet!walletVars
  <1>11. CASE entries # {}
    <2>1. entries \in SUBSET Wallet!Entry
      BY <1>4 DEF TypeOK, LedgerRow, Wallet!Entry
    <2>2. \A e, f \in entries : e.key = f.key \/ e.user = f.user => e = f
      BY <1>2, <1>3 DEF PayoutKey
    <2>3. \A u \in Users : wallet'[u] = wallet[u] + Wallet!Effect(entries, u)
      <3> TAKE u \in Users
      <3>1. wallet[u] \in Nat
        BY <1>9
      <3>2. CASE u \in paid
        <4>1. entry(u) \in entries
          BY <1>2, <3>2
        <4>2. \A e \in entries : e.user = u => e = entry(u)
          BY <1>3, <2>2, <4>1
        <4>3. (CHOOSE x \in entries : x.user = u) = entry(u)
          BY <1>3, <4>1, <4>2
        <4>4. Wallet!Effect(entries, u) = payout[u]
          BY <1>3, <4>1, <4>3 DEF Wallet!Effect
        <4> QED BY <1>5, <3>2, <4>4
      <3>3. CASE u \notin paid
        <4>1. ~\E e \in entries : e.user = u
          BY <1>2, <1>3, <3>3
        <4>2. Wallet!Effect(entries, u) = 0
          BY <4>1 DEF Wallet!Effect
        <4> QED BY <1>5, <3>1, <3>3, <4>2
      <3> QED BY <3>2, <3>3
    <2>4. wallet' = [u \in Users |-> wallet[u] + Wallet!Effect(entries, u)]
      BY <1>9, <2>3
    <2>5. \A u \in Users : wallet'[u] >= 0
      BY <1>9
    <2>6. Wallet!Post(entries)
      BY <1>4, <1>7, <1>11, <2>1, <2>2, <2>4, <2>5 DEF Wallet!Post
    <2> QED BY <1>8, <2>6 DEF Wallet!WalletNext
  <1> QED BY <1>10, <1>11

LEMMA StepIsPosting ==
    ASSUME TypeOK, TypeOK', [Next]_vars
    PROVE  [Wallet!WalletNext]_(Wallet!walletVars)
  <1>1. CASE UNCHANGED <<wallet, ledger>>
    BY <1>1 DEF Wallet!walletVars
  <1>2. ASSUME NEW t \in Slots, CloseCommit(t)
        PROVE  [Wallet!WalletNext]_(Wallet!walletVars)
    <2>1. /\ tx[t].mesa \in Mesas /\ tx[t].seen \in MesaRow
          /\ tx[t].rows \in SUBSET Users
      BY <1>2 DEF TypeOK, TxTypeOK, TxRecord, CloseCommit
    <2>2. CASE tx[t].seen.settled
      BY <1>1, <1>2, <2>2 DEF CloseCommit
    <2>3. CASE ~tx[t].seen.settled
      <3>1. Settle(tx[t].mesa, tx[t].seen, tx[t].rows)
        BY <1>2, <2>3 DEF CloseCommit
      <3> QED BY <2>1, <3>1, SettlementIsPosting
    <2> QED BY <2>2, <2>3
  <1>3. ASSUME NEW m \in Mesas, CreateMesa(m) PROVE UNCHANGED <<wallet, ledger>>
    BY <1>3, CreateShape
  <1>4. ASSUME NEW t \in Slots, RejectCommit(t) PROVE UNCHANGED <<wallet, ledger>>
    BY <1>4, RejectShape
  <1>5. ASSUME NEW t \in Slots, Commit(t)
        PROVE  [Wallet!WalletNext]_(Wallet!walletVars)
    BY <1>5, EntryIsPosting
  <1>6. UNCHANGED tables => UNCHANGED <<wallet, ledger>>
    BY DEF tables
  <1> QED BY <1>1, <1>2, <1>3, <1>4, <1>5, <1>6, StepCases

(* Every behaviour of the Mesas is one of the wallet: coins move only with  *)
(* new ledger entries that account for them, and no balance is negative.    *)
THEOREM MesaImplementsWallet == Spec => ImplementsWallet
  <1>1. Init => Wallet!WalletInit
    BY DEF Init, Wallet!WalletInit
  <1>2. TypeOK /\ TypeOK' /\ [Next]_vars => [Wallet!WalletNext]_(Wallet!walletVars)
    BY StepIsPosting
  <1> QED BY <1>1, <1>2, TypeCorrect, PTL DEF Spec, ImplementsWallet, Wallet!WalletSpec

-----------------------------------------------------------------------------
(* The count of the seats without requests of an earlier release.           *)

NoPending == \A m \in Mesas : Pending[m] = {}

SeatCountInv ==
    NoPending =>
        /\ \A m \in Mesas : mesa[m].current = Cardinality(Approved(m))
        /\ \A m \in Mesas, u \in Users :
              participant[m][u].status \in {"ABSENT", "APPROVED"}
        /\ \A t \in Slots : /\ tx[t].op \notin {"approve", "reject"}
                            /\ tx[t].op = "join" => ~tx[t].existing

LEMMA InitSeatCount == Init => SeatCountInv
  <1> SUFFICES ASSUME Init, NoPending PROVE SeatCountInv
    BY DEF SeatCountInv
  <1>1. \A m \in Mesas, u \in Users : participant[m][u].status = "ABSENT"
    BY DEF Init, NoPending
  <1>2. \A m \in Mesas : Approved(m) = {} /\ mesa[m].current = 0
    BY <1>1 DEF Init, Approved, NoRow, NewMesa
  <1>3. \A t \in Slots : tx[t].op = "idle"
    BY DEF Init, Idle
  <1> QED BY <1>1, <1>2, <1>3, FS_EmptySet DEF SeatCountInv

LEMMA SeatCountStep ==
    ASSUME TypeOK, TypeOK', Lifecycle, SeatCountInv, [Next]_vars
    PROVE  SeatCountInv'
  <1> SUFFICES ASSUME NoPending PROVE SeatCountInv'
    BY DEF SeatCountInv, NoPending
  <1> DEFINE Rows == /\ \A m \in Mesas : mesa[m].current = Cardinality(Approved(m))
                     /\ \A m \in Mesas, u \in Users :
                           participant[m][u].status \in {"ABSENT", "APPROVED"}
  <1>0. Rows
    BY DEF SeatCountInv
  <1>1. \A t \in Slots : /\ tx[t].op \notin {"approve", "reject"}
                         /\ tx[t].op = "join" => ~tx[t].existing
    BY DEF SeatCountInv
  <1>2. Rows'
    <2>1. CASE UNCHANGED tables
      BY <1>0, <2>1 DEF tables, Approved
    <2>2. ASSUME NEW m \in Mesas, CreateMesa(m) PROVE Rows'
      <3>1. \A n \in Mesas : mesa'[n].current = mesa[n].current
        BY <2>2, CreateShape DEF Lifecycle
      <3>2. UNCHANGED participant
        BY <2>2, CreateShape
      <3> QED BY <1>0, <3>1, <3>2 DEF Approved
    <2>3. ASSUME NEW t \in Slots, Commit(t) PROVE Rows'
      <3>0. PICK m, u : m = tx[t].mesa /\ u = tx[t].user
        OBVIOUS
      <3>1. participant[m][u].status = "ABSENT"
        BY <1>1, <2>3, <3>0 DEF Commit, JoinCommit, ApproveCommit
      <3>2. /\ m \in Mesas /\ u \in Users
            /\ mesa'[m].current = mesa[m].current + 1
            /\ \A n \in Mesas \ {m} : mesa'[n] = mesa[n]
            /\ participant'[m][u].status = "APPROVED"
            /\ \A n \in Mesas, v \in Users :
                  n # m \/ v # u => participant'[n][v] = participant[n][v]
        BY <2>3, <3>0, EntryShape
      <3>3. /\ Approved(m)' = Approved(m) \cup {u}
            /\ \A n \in Mesas \ {m} : Approved(n)' = Approved(n)
        BY <2>3, <3>0, EntryApproves
      <3>4. u \notin Approved(m)
        BY <3>1 DEF Approved
      <3>5. Cardinality(Approved(m)') = Cardinality(Approved(m)) + 1
        BY <3>2, <3>3, <3>4, ApprovedIsFinite, AddOne
      <3> QED BY <1>0, <3>2, <3>3, <3>5
    <2>4. ASSUME NEW t \in Slots, RejectCommit(t) PROVE Rows'
      BY <1>1, <2>4 DEF RejectCommit
    <2>5. ASSUME NEW t \in Slots, CloseCommit(t) PROVE Rows'
      <3>1. \A n \in Mesas, v \in Users :
               participant'[n][v].status = participant[n][v].status
        BY <2>5, CloseShape
      <3>2. \A n \in Mesas : mesa'[n].current = mesa[n].current
        BY <2>5, CloseShape
      <3>3. \A n \in Mesas : Approved(n)' = Approved(n)
        BY <3>1 DEF Approved
      <3> QED BY <1>0, <3>1, <3>2, <3>3
    <2> QED BY <2>1, <2>2, <2>3, <2>4, <2>5, StepCases
  <1>3. ASSUME NEW t \in Slots
        PROVE  /\ tx'[t].op \notin {"approve", "reject"}
               /\ tx'[t].op = "join" => ~tx'[t].existing
    <2>1. CASE tx'[t] = tx[t] \/ tx'[t].op = "idle"
      BY <1>1, <2>1
    <2>2. CASE tx'[t] # tx[t] /\ tx'[t].op # "idle"
      <3>1. Reading(t)
        BY <2>2, TxSteps
      <3>2. tx'[t].mesa \in Mesas
            /\ (tx'[t].op \in {"join", "approve", "reject"} => tx'[t].user \in Users)
        BY <2>2 DEF TypeOK, TxTypeOK
      <3> QED BY <1>0, <3>1, <3>2 DEF Reading
    <2> QED BY <2>1, <2>2
  <1> QED BY <1>2, <1>3 DEF SeatCountInv, Approved

(* In a Mesa all of whose entries were made by this release the counter is  *)
(* exact, so the preflight of its settlement does not fail on it.           *)
THEOREM SeatCountHolds == Spec => []SeatCountExact
  <1>1. Init => TypeOK /\ Lifecycle /\ SeatCountInv
    BY InitTypes, InitLifecycle, InitSeatCount
  <1>2. TypeOK /\ Lifecycle /\ SeatCountInv /\ [Next]_vars
           => (TypeOK /\ Lifecycle /\ SeatCountInv)'
    BY NextTypes, NextLifecycle, SeatCountStep
  <1>3. SeatCountInv => SeatCountExact
    BY DEF SeatCountInv, SeatCountExact, NoPending
  <1> QED BY <1>1, <1>2, <1>3, PTL DEF Spec

=============================================================================
