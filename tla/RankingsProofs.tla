--------------------------- MODULE RankingsProofs ---------------------------
(***************************************************************************)
(* Proofs about Rankings, for any number of rounds, users, rankings and    *)
(* processes, for rounds scored in any order and recomputed at any time:   *)
(* the types, the score of a ticket, the frozen rows of a closed ranking,  *)
(* the history and the totals, and the baselines, windows and snapshots    *)
(* that are cut out of it by date or by round.                             *)
(***************************************************************************)
EXTENDS Rankings, SumProofs

(***************************************************************************)
(* The score of a ticket.                                                  *)
(***************************************************************************)

(* A set counted over one element more.                                    *)
LEMMA CountAdd ==
  ASSUME NEW A, NEW T, IsFiniteSet(T), NEW x, x \notin T
  PROVE  /\ Cardinality(A \cap T) \in Nat
         /\ Cardinality(A \cap (T \cup {x})) =
              Cardinality(A \cap T) + IF x \in A THEN 1 ELSE 0
  <1>1. IsFiniteSet(A \cap T)
    BY FS_Subset
  <1>2. CASE x \in A
    <2>1. A \cap (T \cup {x}) = (A \cap T) \cup {x} /\ x \notin A \cap T
      BY <1>2
    <2> QED BY <1>1, <1>2, <2>1, FS_AddElement, FS_CardinalityType
  <1>3. CASE x \notin A
    <2>1. A \cap (T \cup {x}) = A \cap T
      BY <1>3
    <2>2. Cardinality(A \cap T) \in Nat
      BY <1>1, FS_CardinalityType
    <2>3. Cardinality(A \cap (T \cup {x})) = Cardinality(A \cap T)
      BY <2>1
    <2> QED BY <1>3, <2>2, <2>3
  <1> QED BY <1>2, <1>3

(* The value of a match by the published rule.                             *)
RuleValue(ticket, result) ==
    [i \in Matches |->
        IF result[i] = "C" THEN 0
        ELSE IF ticket.prediction[i] = result[i] THEN ticket.multipliers[i]
        ELSE IF ticket.multipliers[i] = 1 THEN 0 ELSE -ticket.multipliers[i]]

(* Counting hits and misses and weighing them, as the code does, gives the  *)
(* same as adding up the value of each match, whatever the number of        *)
(* matches, the predictions, the multipliers and the results.               *)
LEMMA DetailFollowsRule ==
  ASSUME MatchCount \in Nat, NEW ticket \in Tickets, NEW result \in MatchResults
  PROVE  /\ Detail(ticket, result).total = RuleScore(ticket, result)
         /\ Detail(ticket, result).total \in Int
         /\ Detail(ticket, result).doubles \in Nat
         /\ Detail(ticket, result).supers \in Nat
  <1> DEFINE H == Hits(ticket, result)  M == Misses(ticket, result)
             H2 == {i \in H : ticket.multipliers[i] = 2}
             H4 == {i \in H : ticket.multipliers[i] = 4}
             M2 == {i \in M : ticket.multipliers[i] = 2}
             M4 == {i \in M : ticket.multipliers[i] = 4}
             f == RuleValue(ticket, result)
             Count(A, T) == Cardinality(A \cap T)
             Weight(T) == Count(H, T) + (Count(H2, T) + 3 * Count(H4, T))
                          - (2 * Count(M2, T) + 4 * Count(M4, T))
             G == {T \in SUBSET Matches : SumFunctionOnSet(f, T) = Weight(T)}
  <1>1. IsFiniteSet(Matches)
    BY FS_Interval DEF Matches
  <1>2. \A i \in Matches :
           /\ f[i] \in Int
           /\ f[i] = (IF i \in H THEN 1 ELSE 0) + ((IF i \in H2 THEN 1 ELSE 0)
                       + 3 * (IF i \in H4 THEN 1 ELSE 0))
                     - (2 * (IF i \in M2 THEN 1 ELSE 0) + 4 * (IF i \in M4 THEN 1 ELSE 0))
    <2> SUFFICES ASSUME NEW i \in Matches
                 PROVE  /\ f[i] \in Int
                        /\ f[i] = (IF i \in H THEN 1 ELSE 0) + ((IF i \in H2 THEN 1 ELSE 0)
                                    + 3 * (IF i \in H4 THEN 1 ELSE 0))
                                  - (2 * (IF i \in M2 THEN 1 ELSE 0) + 4 * (IF i \in M4 THEN 1 ELSE 0))
      OBVIOUS
    <2>1. ticket.multipliers[i] \in {1, 2, 4}
      BY DEF Tickets
    <2>2. /\ i \in H <=> result[i] # "C" /\ ticket.prediction[i] = result[i]
          /\ i \in M <=> result[i] # "C" /\ ticket.prediction[i] # result[i]
      BY DEF Hits, Misses, Counted
    <2>3. f[i] = IF result[i] = "C" THEN 0
                 ELSE IF ticket.prediction[i] = result[i] THEN ticket.multipliers[i]
                 ELSE IF ticket.multipliers[i] = 1 THEN 0 ELSE -ticket.multipliers[i]
      BY DEF RuleValue
    <2> HIDE DEF f, H, M
    <2> QED BY <2>1, <2>2, <2>3
  <1> HIDE DEF f, H, M, H2, H4, M2, M4
  <1>3. {} \in G
    <2>1. \A A : A \cap {} = {}
      OBVIOUS
    <2> QED BY <2>1, SumEmpty, FS_EmptySet
  <1>4. ASSUME NEW T \in SUBSET Matches, NEW x \in Matches \ T, T \in G PROVE T \cup {x} \in G
    <2>1. IsFiniteSet(T)
      BY <1>1, FS_Subset
    <2>2. \A A : Count(A, T) \in Nat
                 /\ Count(A, T \cup {x}) = Count(A, T) + IF x \in A THEN 1 ELSE 0
      BY <2>1, CountAdd
    <2>3. SumFunctionOnSet(f, T \cup {x}) = SumFunctionOnSet(f, T) + f[x]
      BY <1>2, <2>1, SumAdd
    <2> HIDE DEF Count
    <2>4. Weight(T \cup {x}) = Weight(T) + f[x]
      <3> DEFINE one(A) == IF x \in A THEN 1 ELSE 0
      <3>1. \A A : one(A) \in Nat
        OBVIOUS
      <3>2. \A A : Count(A, T) \in Nat /\ Count(A, T \cup {x}) = Count(A, T) + one(A)
        BY <2>2
      <3>3. f[x] = one(H) + (one(H2) + 3 * one(H4)) - (2 * one(M2) + 4 * one(M4))
        BY <1>2
      <3> HIDE DEF one
      <3>4. /\ one(H) \in Nat /\ one(H2) \in Nat /\ one(H4) \in Nat
            /\ one(M2) \in Nat /\ one(M4) \in Nat
        BY <3>1
      <3>5. /\ Count(H, T) \in Nat /\ Count(H, T \cup {x}) = Count(H, T) + one(H)
            /\ Count(H2, T) \in Nat /\ Count(H2, T \cup {x}) = Count(H2, T) + one(H2)
            /\ Count(H4, T) \in Nat /\ Count(H4, T \cup {x}) = Count(H4, T) + one(H4)
            /\ Count(M2, T) \in Nat /\ Count(M2, T \cup {x}) = Count(M2, T) + one(M2)
            /\ Count(M4, T) \in Nat /\ Count(M4, T \cup {x}) = Count(M4, T) + one(M4)
        BY <3>2
      <3> QED BY <3>3, <3>4, <3>5
    <2> QED BY <1>4, <2>3, <2>4
  <1>5. Matches \in G
    <2> HIDE DEF G
    <2> QED BY <1>1, <1>3, <1>4, SetInduction
  <1>6. \A A \in SUBSET Matches : Count(A, Matches) = Cardinality(A) /\ Cardinality(A) \in Nat
    <2> SUFFICES ASSUME NEW A \in SUBSET Matches
                 PROVE  Count(A, Matches) = Cardinality(A) /\ Cardinality(A) \in Nat
      OBVIOUS
    <2>1. A \cap Matches = A
      OBVIOUS
    <2> QED BY <1>1, <2>1, FS_Subset, FS_CardinalityType
  <1>7. {H, H2, H4, M2, M4} \subseteq SUBSET Matches
    BY DEF H, M, H2, H4, M2, M4, Hits, Misses, Counted
  <1>8. /\ Detail(ticket, result).total = Cardinality(H) + (Cardinality(H2) + 3 * Cardinality(H4))
             - (2 * Cardinality(M2) + 4 * Cardinality(M4))
        /\ Detail(ticket, result).doubles = Cardinality(H2)
        /\ Detail(ticket, result).supers = Cardinality(H4)
    BY DEF Detail, MultiplierPenalty, With, H, M, H2, H4, M2, M4
  <1>9. RuleScore(ticket, result) = SumFunctionOnSet(f, Matches)
    BY DEF RuleScore, SumFunction, f, RuleValue
  <1>10. SumFunctionOnSet(f, Matches) = Weight(Matches)
    BY <1>5
  <1> HIDE DEF Count, G
  <1> QED BY <1>6, <1>7, <1>8, <1>9, <1>10
-----------------------------------------------------------------------------
(***************************************************************************)
(* The rows of the history.                                                *)
(***************************************************************************)

(* What a deletion leaves is a sequence of rows that were there, none of    *)
(* them of the rounds deleted.                                             *)
LEMMA WithoutIs ==
  ASSUME NEW S, NEW rows \in Seq(S), NEW ids
  PROVE  /\ Without(rows, ids) \in Seq(S)
         /\ \A i \in 1..Len(Without(rows, ids)) :
              \E j \in 1..Len(rows) :
                Without(rows, ids)[i] = rows[j] /\ rows[j].round \notin ids
  <1> DEFINE Step(g, i) ==
               IF i = 0 THEN <<>>
               ELSE IF rows[i].round \in ids THEN g[i - 1]
               ELSE Append(g[i - 1], rows[i])
             Is(g) == g = [i \in 0..Len(rows) |-> Step(g, i)]
             Upto(g, n) == \A i \in 0..Len(rows) : i <= n => g[i] = Step(g, i)
             E == {n \in Nat : \E g : Upto(g, n)}
  <1>0. Len(rows) \in Nat /\ \A i \in 1..Len(rows) : rows[i] \in S
    OBVIOUS
  <1>1. 0 \in E
    <2> DEFINE g == [i \in 0..Len(rows) |-> <<>>]
    <2>1. Upto(g, 0)
      BY <1>0
    <2> QED BY <2>1
  <1>2. ASSUME NEW n \in Nat, n \in E PROVE n + 1 \in E
    <2>1. PICK g : Upto(g, n)
      BY <1>2
    <2> DEFINE h == [i \in 0..Len(rows) |-> IF i <= n THEN g[i] ELSE Step(g, i)]
    <2>2. \A i \in 0..Len(rows) : i <= n => h[i] = g[i]
      OBVIOUS
    <2>3. \A i \in 0..Len(rows) : i <= n + 1 => Step(h, i) = Step(g, i)
      <3> SUFFICES ASSUME NEW i \in 0..Len(rows), i <= n + 1, i # 0 PROVE h[i - 1] = g[i - 1]
        OBVIOUS
      <3> QED BY <1>0, <2>2
    <2>4. \A i \in 0..Len(rows) : i <= n + 1 => h[i] = Step(g, i)
      BY <2>1
    <2> HIDE DEF h
    <2>5. Upto(h, n + 1)
      <3> SUFFICES ASSUME NEW i \in 0..Len(rows), i <= n + 1 PROVE h[i] = Step(h, i)
        OBVIOUS
      <3>1. h[i] = Step(g, i) /\ Step(h, i) = Step(g, i)
        BY <2>3, <2>4
      <3> QED BY <3>1
    <2> QED BY <2>5
  <1>3. Nat \subseteq E
    <2> HIDE DEF E
    <2> QED BY <1>1, <1>2, NatSetInduction
  <1>4. \E g : Is(g)
    <2>1. PICK g : Upto(g, Len(rows))
      BY <1>0, <1>3
    <2> DEFINE h == [i \in 0..Len(rows) |-> g[i]]
    <2>2. \A i \in 0..Len(rows) : Step(h, i) = Step(g, i)
      <3> SUFFICES ASSUME NEW i \in 0..Len(rows), i # 0 PROVE h[i - 1] = g[i - 1]
        OBVIOUS
      <3> QED BY <1>0
    <2>3. h = [i \in 0..Len(rows) |-> Step(h, i)]
      BY <1>0, <2>1, <2>2
    <2> QED BY <2>3
  <1> DEFINE left == CHOOSE g : Is(g)
  <1>5. Is(left)
    BY <1>4
  <1>6. Without(rows, ids) = left[Len(rows)]
    BY DEF Without
  <1> HIDE DEF left
  <1>7. \A i \in 0..Len(rows) : left[i] = Step(left, i)
    BY <1>5
  <1> DEFINE Fine(s) == /\ s \in Seq(S)
                        /\ \A i \in 1..Len(s) :
                             \E j \in 1..Len(rows) : s[i] = rows[j] /\ rows[j].round \notin ids
             F == {n \in Nat : n <= Len(rows) => Fine(left[n])}
  <1>8. 0 \in F
    <2>1. left[0] = <<>>
      BY <1>0, <1>7
    <2>2. <<>> \in Seq(S) /\ Len(<<>>) = 0
      OBVIOUS
    <2>3. Fine(<<>>)
      BY <2>2
    <2> QED BY <2>1, <2>3
  <1>9. ASSUME NEW n \in Nat, n \in F PROVE n + 1 \in F
    <2> SUFFICES ASSUME n + 1 <= Len(rows) PROVE Fine(left[n + 1])
      OBVIOUS
    <2>1. n + 1 \in 1..Len(rows) /\ Fine(left[n]) /\ rows[n + 1] \in S
      BY <1>0, <1>9
    <2>2. left[n + 1] = IF rows[n + 1].round \in ids THEN left[n]
                        ELSE Append(left[n], rows[n + 1])
      BY <1>0, <1>7, <2>1
    <2>3. CASE rows[n + 1].round \in ids
      BY <2>1, <2>2, <2>3
    <2>4. CASE rows[n + 1].round \notin ids
      <3> DEFINE s == Append(left[n], rows[n + 1])
      <3>1. /\ s \in Seq(S) /\ Len(s) = Len(left[n]) + 1 /\ Len(left[n]) \in Nat
            /\ \A i \in 1..Len(left[n]) : s[i] = left[n][i]
            /\ s[Len(left[n]) + 1] = rows[n + 1]
        BY <2>1
      <3> HIDE DEF s
      <3>2. \A i \in 1..Len(s) : i \in 1..Len(left[n]) \/ i = Len(left[n]) + 1
        BY <3>1
      <3>3. Fine(s)
        BY <2>1, <2>4, <3>1, <3>2
      <3> QED BY <2>2, <2>4, <3>3 DEF s
    <2> QED BY <2>3, <2>4
  <1>10. Nat \subseteq F
    <2> HIDE DEF F
    <2> QED BY <1>8, <1>9, NatSetInduction
  <1> QED BY <1>0, <1>6, <1>10

(* Of finitely many elements one has the highest key.                      *)
LEMMA Highest ==
  ASSUME NEW f, NEW S, IsFiniteSet(S), S # {}, \A x \in S : f[x] \in Int
  PROVE  \E x \in S : \A y \in S : f[y] <= f[x]
  <1> DEFINE G == {T \in SUBSET S : T # {} => \E x \in T : \A y \in T : f[y] <= f[x]}
  <1>1. {} \in G
    OBVIOUS
  <1>2. ASSUME NEW T \in SUBSET S, NEW x \in S \ T, T \in G PROVE T \cup {x} \in G
    <2>1. CASE T = {}
      BY <2>1
    <2>2. CASE T # {}
      <3>1. PICK z \in T : \A y \in T : f[y] <= f[z]
        BY <1>2, <2>2
      <3>2. CASE f[x] <= f[z]
        BY <3>1, <3>2
      <3>3. CASE ~(f[x] <= f[z])
        <4>1. \A y \in T \cup {x} : f[y] <= f[x]
          BY <3>1, <3>3
        <4> QED BY <4>1
      <3> QED BY <3>2, <3>3
    <2> QED BY <2>1, <2>2
  <1> HIDE DEF G
  <1>3. SUBSET S \subseteq G
    BY <1>1, <1>2, SetInduction
  <1> QED BY <1>3 DEF G

(* The rows of a history are finitely many.                                *)
LEMMA RowsAre ==
  ASSUME NEW u \in Users, NEW R, history[u] \in Seq(R)
  PROVE  /\ RowsOf(u) \in SUBSET R /\ IsFiniteSet(RowsOf(u))
         /\ \A i \in 1..Len(history[u]) : history[u][i] \in RowsOf(u)
         /\ \A h \in RowsOf(u) : \E i \in 1..Len(history[u]) : h = history[u][i]
  <1> DEFINE n == Len(history[u])  f == [i \in 1..n |-> history[u][i]]
  <1>1. n \in Nat /\ \A i \in 1..n : history[u][i] \in R
    OBVIOUS
  <1>2. f \in Surjection(1..n, RowsOf(u))
    BY DEF RowsOf, Surjection
  <1>3. IsFiniteSet(1..n)
    BY <1>1, FS_Interval
  <1>4. IsFiniteSet(RowsOf(u))
    BY <1>2, <1>3, FS_Surjection
  <1> QED BY <1>1, <1>4 DEF RowsOf

(* The first row of an ORDER BY ... DESC.                                  *)
LEMMA LatestIs ==
  ASSUME RankingsAssumption, NEW rows \in SUBSET HistoryRow, IsFiniteSet(rows)
  PROVE  /\ rows = {} => LatestByClose(rows) = NoRow /\ LatestByNumber(rows) = NoRow
         /\ rows # {} =>
              /\ LatestByClose(rows) \in rows
              /\ \A g \in rows : CloseAt[g.round] <= CloseAt[LatestByClose(rows).round]
              /\ LatestByNumber(rows) \in rows
              /\ \A g \in rows : g.round <= LatestByNumber(rows).round
  <1>1. ASSUME rows # {}
        PROVE  /\ \E h \in rows : \A g \in rows : CloseAt[g.round] <= CloseAt[h.round]
               /\ \E h \in rows : \A g \in rows : g.round <= h.round
    <2>1. \A h \in rows : h.round \in Rounds /\ h.round \in Int /\ CloseAt[h.round] \in Int
      <3>1. \A h \in rows : h.round \in Rounds
        BY DEF HistoryRow
      <3>2. \A r \in Rounds : r \in Int /\ CloseAt[r] \in Int
        BY DEF RankingsAssumption
      <3> QED BY <3>1, <3>2
    <2>2. \E h \in rows : \A g \in rows :
             [k \in rows |-> CloseAt[k.round]][g] <= [k \in rows |-> CloseAt[k.round]][h]
      BY <1>1, <2>1, Highest
    <2>3. \E h \in rows : \A g \in rows :
             [k \in rows |-> k.round][g] <= [k \in rows |-> k.round][h]
      BY <1>1, <2>1, Highest
    <2> QED BY <2>2, <2>3
  <1> QED BY <1>1 DEF LatestByClose, LatestByNumber

LEMMA LatestIsRow ==
  ASSUME RankingsAssumption, NEW rows \in SUBSET HistoryRow, IsFiniteSet(rows)
  PROVE  \A row \in {LatestByClose(rows), LatestByNumber(rows)} :
           row.scoreTotal \in Int /\ row.supers \in Nat /\ row.doubles \in Nat
  <1>1. LatestByClose(rows) \in rows \cup {NoRow} /\ LatestByNumber(rows) \in rows \cup {NoRow}
    BY LatestIs
  <1>2. \A row \in HistoryRow \cup {NoRow} :
           row.scoreTotal \in Int /\ row.supers \in Nat /\ row.doubles \in Nat
    BY DEF HistoryRow, NoRow
  <1> QED BY <1>1, <1>2
-----------------------------------------------------------------------------
(***************************************************************************)
(* Types.                                                                  *)
(***************************************************************************)

LEMMA ScoredIs ==
  ASSUME RankingsAssumption, MatchCountAssumption, NEW r \in Rounds, NEW u \in Players(r)
  PROVE  /\ Ticket[r][u] \in Tickets /\ Result[r] \in MatchResults
         /\ Scored(r, u).total \in Int /\ Scored(r, u).doubles \in Nat
         /\ Scored(r, u).supers \in Nat
         /\ Scored(r, u).total = RuleScore(Ticket[r][u], Result[r])
  <1>1. u \in Users /\ Ticket[r][u] # None
    BY DEF Players
  <1>2. Ticket[r][u] \in Tickets \cup {None} /\ Result[r] \in MatchResults
    BY <1>1 DEF RankingsAssumption
  <1> QED BY <1>1, <1>2, DetailFollowsRule, MatchCountAssumption DEF Scored, MatchCountAssumption

(* Increments are integers.                                                *)
LEMMA IncrementIs ==
  ASSUME RankingsAssumption, MatchCountAssumption, NEW r \in Rounds
  PROVE  \A u : Increment(r, u) \in Int
  BY ScoredIs DEF Increment

(* Rows of a history that satisfy a condition.                             *)
LEMMA SomeRows ==
  ASSUME TypeOK, NEW u \in Users, NEW rows \in SUBSET RowsOf(u)
  PROVE  rows \in SUBSET HistoryRow /\ IsFiniteSet(rows)
  <1>1. history[u] \in Seq(HistoryRow)
    BY DEF TypeOK
  <1> QED BY <1>1, RowsAre, FS_Subset

(* The rows of rounds that close before a date.                            *)
LEMMA BeforeIs ==
  ASSUME RankingsAssumption, TypeOK, NEW u \in Users, NEW date
  PROVE  /\ GetScoreTotalBefore(u, date) \in Int
         /\ LatestByClose(ClosingBefore(u, date)).scoreTotal \in Int
         /\ LatestByClose(ClosingBefore(u, date)).supers \in Nat
         /\ LatestByClose(ClosingBefore(u, date)).doubles \in Nat
  <1>1. ClosingBefore(u, date) \in SUBSET RowsOf(u)
    BY DEF ClosingBefore
  <1>2. ClosingBefore(u, date) \in SUBSET HistoryRow /\ IsFiniteSet(ClosingBefore(u, date))
    BY <1>1, SomeRows
  <1> QED BY <1>2, LatestIsRow DEF GetScoreTotalBefore

(* Positions are numbers from 1.                                           *)
LEMMA PositionIs ==
  ASSUME NEW metrics, IsFiniteSet(DOMAIN metrics), NEW u
  PROVE  Position(metrics, u) \in Nat \ {0}
  <1> DEFINE A == {v \in DOMAIN metrics : Ahead(v, u, metrics[v], metrics[u])}
  <1>1. IsFiniteSet(A)
    BY FS_Subset
  <1>2. Cardinality(A) \in Nat
    BY <1>1, FS_CardinalityType
  <1> QED BY <1>2 DEF Position

(* What buildRows returns.                                                 *)
LEMMA BuildRowsTyped ==
  ASSUME RankingsAssumption, TypeOK, NEW k \in Rankings, NEW ended
  PROVE  /\ BuildRows(k, ended) \in Rows
         /\ \A u \in Users : IF u \in In(k) THEN BuildRows(k, ended)[u] \in ParticipantRow
                           ELSE BuildRows(k, ended)[u] = None
  <1>1. /\ participant[k] \in Rows /\ scoreTotal \in [Users -> Int] /\ IsFiniteSet(Users)
    BY DEF TypeOK, RankingsAssumption
  <1>2. In(k) \in SUBSET Users /\ \A u \in In(k) : participant[k][u] \in ParticipantRow
    BY <1>1 DEF In, Rows
  <1>3. \A u \in In(k) : participant[k][u].scoreInitial \in Int
    BY <1>2 DEF ParticipantRow
  <1> DEFINE metrics == WindowMetrics(k, ended)
  <1>4. ASSUME NEW u \in In(k)
        PROVE  /\ metrics[u].score \in Int /\ Position(metrics, u) \in Nat
    <2>1. WindowTotal(k, u, ended) \in Int
      BY <1>1, <1>2, <1>3, BeforeIs DEF WindowTotal
    <2>2. metrics[u].score = WindowTotal(k, u, ended) - participant[k][u].scoreInitial
      BY DEF WindowMetrics
    <2>3. DOMAIN metrics = In(k)
      BY DEF WindowMetrics
    <2>4. IsFiniteSet(DOMAIN metrics)
      BY <1>1, <1>2, <2>3, FS_Subset
    <2> HIDE DEF metrics
    <2> QED BY <1>3, <2>1, <2>2, <2>4, PositionIs
  <1> HIDE DEF metrics
  <1>5. ASSUME NEW u \in In(k), NEW s \in Int, NEW p \in Nat
        PROVE  [participant[k][u] EXCEPT !.score = s, !.position = p] \in ParticipantRow
    BY <1>2 DEF ParticipantRow
  <1>6. \A u \in Users : IF u \in In(k) THEN BuildRows(k, ended)[u] \in ParticipantRow
                        ELSE BuildRows(k, ended)[u] = None
    <2> SUFFICES ASSUME NEW u \in Users
                 PROVE  IF u \in In(k) THEN BuildRows(k, ended)[u] \in ParticipantRow
                        ELSE BuildRows(k, ended)[u] = None
      OBVIOUS
    <2>1. BuildRows(k, ended)[u] =
            IF u \notin In(k) THEN None
            ELSE [participant[k][u] EXCEPT !.score = metrics[u].score,
                                           !.position = Position(metrics, u)]
      BY DEF BuildRows, metrics
    <2>2. CASE u \in In(k)
      <3>1. metrics[u].score \in Int /\ Position(metrics, u) \in Nat
        BY <1>4, <2>2
      <3>2. [participant[k][u] EXCEPT !.score = metrics[u].score,
                                      !.position = Position(metrics, u)] \in ParticipantRow
        BY <1>5, <2>2, <3>1
      <3> QED BY <2>1, <2>2, <3>2
    <2>3. CASE u \notin In(k)
      BY <2>1, <2>3
    <2> QED BY <2>2, <2>3
  <1>7. BuildRows(k, ended) \in Rows
    <2>1. \A u \in Users : BuildRows(k, ended)[u] \in ParticipantRow \cup {None}
      BY <1>6
    <2> QED BY <2>1 DEF BuildRows, Rows
  <1> QED BY <1>6, <1>7

(* A scoring keeps the types of totals and histories.                      *)
LEMMA AddRowsTyped ==
  ASSUME RankingsAssumption, MatchCountAssumption, TypeOK, NEW r \in Rounds, NEW last, AddRows(r, last),
         \A u \in Users : last[u].doubles \in Nat /\ last[u].supers \in Nat
  PROVE  scoreTotal' \in [Users -> Int] /\ history' \in [Users -> Seq(HistoryRow)]
  <1>1. \A u \in Users : scoreTotal[u] \in Int /\ history[u] \in Seq(HistoryRow)
    BY DEF TypeOK
  <1>2. scoreTotal' \in [Users -> Int]
    BY <1>1, IncrementIs DEF AddRows
  <1>3. ASSUME NEW u \in Players(r), u \in Users
        PROVE  [round |-> r, scoreRound |-> Scored(r, u).total,
                scoreTotal |-> scoreTotal[u] + Scored(r, u).total,
                doubles |-> last[u].doubles + Scored(r, u).doubles,
                supers |-> last[u].supers + Scored(r, u).supers] \in HistoryRow
    <2>1. /\ scoreTotal[u] + Scored(r, u).total \in Int /\ Scored(r, u).total \in Int
          /\ last[u].doubles + Scored(r, u).doubles \in Nat
          /\ last[u].supers + Scored(r, u).supers \in Nat
      <3>1. /\ Scored(r, u).total \in Int /\ Scored(r, u).doubles \in Nat
            /\ Scored(r, u).supers \in Nat
        BY ScoredIs
      <3>2. /\ scoreTotal[u] \in Int /\ last[u].doubles \in Nat /\ last[u].supers \in Nat
        BY <1>1, <1>3
      <3> QED BY <3>1, <3>2
    <2> QED BY <2>1 DEF HistoryRow
  <1>4. history' \in [Users -> Seq(HistoryRow)]
    BY <1>1, <1>3 DEF AddRows
  <1> QED BY <1>2, <1>4

(* So does a snapshot.                                                     *)
LEMMA SnapshotTyped ==
  ASSUME RankingsAssumption, TypeOK, NEW r \in Rounds, SnapshotRanking(r)
  PROVE  snapshot' \in [Rounds -> SUBSET SnapshotRow]
  <1> DEFINE rows(u) == {h \in RowsOf(u) : h.round \in ValidRounds(r)}
             users == {u \in Users : rows(u) # {}}
             metrics == [u \in users |->
               LET latest == LatestByNumber(rows(u))
               IN  [score |-> latest.scoreTotal, supers |-> latest.supers,
                    doubles |-> latest.doubles]]
             OfRound(u) == {h \in RowsOf(u) : h.round = r}
             Row(u) == [user |-> u, scoreTotal |-> metrics[u].score,
                        scoreRound |-> SumFunction([h \in OfRound(u) |-> h.scoreRound]),
                        doubles |-> metrics[u].doubles, supers |-> metrics[u].supers,
                        position |-> Position(metrics, u)]
  <1>1. SnapshotRows(r) = {Row(u) : u \in users}
    BY DEF SnapshotRows
  <1>2. ASSUME NEW u \in users PROVE Row(u) \in SnapshotRow
    <2>1. rows(u) \in SUBSET HistoryRow /\ IsFiniteSet(rows(u))
      BY SomeRows
    <2>2. /\ metrics[u].score \in Int /\ metrics[u].supers \in Int /\ metrics[u].doubles \in Int
      BY <2>1, LatestIsRow
    <2>3. Position(metrics, u) \in Nat \ {0}
      <3>1. DOMAIN metrics = users /\ users \subseteq Users /\ IsFiniteSet(Users)
        BY DEF RankingsAssumption
      <3>2. IsFiniteSet(DOMAIN metrics)
        BY <3>1, FS_Subset
      <3> HIDE DEF metrics
      <3> QED BY <3>2, PositionIs
    <2>4. SumFunction([h \in OfRound(u) |-> h.scoreRound]) \in Int
      <3> DEFINE f == [h \in OfRound(u) |-> h.scoreRound]
      <3>1. OfRound(u) \in SUBSET HistoryRow /\ IsFiniteSet(OfRound(u))
        BY SomeRows
      <3>2. DOMAIN f = OfRound(u) /\ \A h \in OfRound(u) : f[h] \in Int
        BY <3>1 DEF HistoryRow
      <3> HIDE DEF f
      <3>3. SumFunctionOnSet(f, OfRound(u)) \in Int
        BY <3>1, <3>2, SumInt
      <3>4. SumFunction(f) \in Int
        BY <3>2, <3>3 DEF SumFunction
      <3> QED BY <3>4 DEF f
    <2> HIDE DEF metrics, rows, OfRound
    <2>5. u \in Users
      BY DEF users
    <2> QED BY <2>2, <2>3, <2>4, <2>5 DEF SnapshotRow
  <1>3. SnapshotRows(r) \in SUBSET SnapshotRow
    <2> HIDE DEF Row, users
    <2> QED BY <1>1, <1>2
  <1>4. snapshot \in [Rounds -> SUBSET SnapshotRow]
    BY DEF TypeOK
  <1> QED BY <1>3, <1>4 DEF SnapshotRanking
(* What a process carries: rounds to go through while it has a list of      *)
(* them, the round whose snapshot is next, the rows a repair has read.      *)
Carries(q) ==
    /\ proc[q].at \in {"wipeSnapshots", "wipeHistory", "reset", "rebuild", "backfill"} =>
         proc[q].todo # {}
    /\ proc[q].at = "rebuildSnapshot" => proc[q].round \in Rounds
    /\ proc[q].at = "repairWrite" => proc[q].mesa \in Rankings /\ proc[q].rows \in Rows
    /\ proc[q].at = "backfill" => proc[q].users \subseteq Players(Min(proc[q].todo))

(* The types, and for each process what its step carries with it.          *)
Typed == TypeOK /\ \A q \in Processes : Carries(q)

LEMMA IdleIs ==
  /\ Idle \in Process /\ Idle.at = "idle" /\ Idle.todo = {} /\ Idle.list = {}
  BY DEF Idle, Process, Steps

LEMMA TypedInit == RankingsAssumption /\ Init => Typed
  <1> SUFFICES ASSUME RankingsAssumption, Init PROVE Typed
    OBVIOUS
  <1>1. \A q \in Processes : Carries(q)
    BY IdleIs DEF Init, Carries
  <1>2. proc \in [Processes -> Process]
    BY IdleIs DEF Init
  <1>3. participant \in [Rankings -> Rows]
    BY DEF Init, Rows
  <1>4. history \in [Users -> Seq(HistoryRow)]
    BY DEF Init
  <1>5. now \in 0..LastMoment
    BY DEF Init, RankingsAssumption
  <1>6. status \in [Rounds -> {"OPEN", "CLOSED", "SCORED"}]
    BY DEF Init
  <1>9. scoreTotal \in [Users -> Int]
    BY DEF Init
  <1>10. torn \in BOOLEAN
    BY DEF Init
  <1>7. snapshot \in [Rounds -> SUBSET SnapshotRow]
    BY DEF Init
  <1>8. ranking \in [Rankings -> {"ABSENT", "ACTIVE", "CLOSED"}]
    BY DEF Init
  <1> QED BY <1>1, <1>2, <1>3, <1>4, <1>5, <1>6, <1>7, <1>8, <1>9, <1>10 DEF Typed, TypeOK

(* A step of p leaves the other processes as they are, but for being clean. *)
Aside(q) ==
    /\ proc'[q].at = proc[q].at /\ proc'[q].round = proc[q].round
    /\ proc'[q].todo = proc[q].todo /\ proc'[q].ids = proc[q].ids
    /\ proc'[q].list = proc[q].list /\ proc'[q].users = proc[q].users
    /\ proc'[q].mesa = proc[q].mesa /\ proc'[q].rows = proc[q].rows
(* Process p goes to x; the others stay where they are, though a           *)
(* recomputation among them may be overlapped.                             *)
Moves(p, x) ==
    /\ proc' \in [Processes -> Process]
    /\ proc'[p] = x
    /\ \A q \in Processes \ {p} : Aside(q)

LEMMA GotoMoves ==
  ASSUME TypeOK, NEW p \in Processes, NEW x \in Process, Goto(p, x)
  PROVE  Moves(p, x) /\ \A q \in Processes \ {p} : proc'[q] = proc[q]
  BY DEF TypeOK, Goto, Moves, Aside

LEMMA CleanMoves ==
  ASSUME TypeOK, NEW p \in Processes, NEW x \in Process, NEW b \in [Processes -> BOOLEAN],
         proc' = [q \in Processes |-> IF q = p THEN x ELSE [proc[q] EXCEPT !.clean = @ /\ b[q]]]
  PROVE  Moves(p, x) /\ \A q \in Processes \ {p} : proc'[q].clean = (proc[q].clean /\ b[q])
  <1>1. ASSUME NEW q \in Processes \ {p}
        PROVE  proc'[q] \in Process /\ Aside(q) /\ proc'[q].clean = (proc[q].clean /\ b[q])
    <2>1. proc'[q] = [proc[q] EXCEPT !.clean = proc[q].clean /\ b[q]] /\ proc[q] \in Process
      BY DEF TypeOK
    <2>2. PICK c \in BOOLEAN : c = (proc[q].clean /\ b[q])
      OBVIOUS
    <2>3. proc'[q] = [proc[q] EXCEPT !.clean = c]
      BY <2>1, <2>2
    <2> QED BY <2>1, <2>2, <2>3 DEF Process, Aside
  <1>2. proc'[p] = x
    OBVIOUS
  <1>3. proc' \in [Processes -> Process]
    BY <1>1, <1>2
  <1> QED BY <1>1, <1>2, <1>3 DEF Moves

LEMMA MinIs ==
  ASSUME RankingsAssumption, NEW S \in SUBSET Rounds, S # {}
  PROVE  Min(S) \in S /\ \A r \in S : Min(S) <= r
  <1> DEFINE f == [r \in S |-> -r]
  <1>1. \A r \in S : r \in Nat /\ f[r] \in Int /\ f[r] = -r
    BY DEF RankingsAssumption
  <1>2. IsFiniteSet(S)
    <2>1. IsFiniteSet(Rounds)
      BY DEF RankingsAssumption
    <2> QED BY <2>1, FS_Subset
  <1> HIDE DEF f
  <1>3. \E r \in S : \A q \in S : f[q] <= f[r]
    BY <1>1, <1>2, Highest
  <1>4. \E r \in S : \A q \in S : r <= q
    BY <1>1, <1>3
  <1> QED BY <1>4 DEF Min

(* Where each step takes its process.                                      *)
LEMMA ScoreMoves ==
  ASSUME TypeOK, NEW p \in Processes, NEW r \in Rounds, ScoreRound(p, r)
  PROVE  /\ Moves(p, [Idle EXCEPT !.at = "list", !.round = r])
         /\ proc'[p].at = "list" /\ proc'[p].todo = {} /\ proc'[p].list = {}
         /\ \A q \in Processes \ {p} : (proc'[q].clean <=> proc[q].clean /\ ~Rebuilding(q))
  <1> DEFINE x == [Idle EXCEPT !.at = "list", !.round = r]
  <1>1. x \in Process /\ x.at = "list" /\ x.todo = {} /\ x.list = {}
    BY DEF Idle, Process, Steps
  <1> DEFINE b == [q \in Processes |-> ~Rebuilding(q)]
  <1>2. proc' = [q \in Processes |-> IF q = p THEN x ELSE [proc[q] EXCEPT !.clean = @ /\ b[q]]]
    BY DEF ScoreRound
  <1>4. b \in [Processes -> BOOLEAN] /\ \A q \in Processes : b[q] = ~Rebuilding(q)
    BY DEF Rebuilding
  <1> HIDE DEF x, b
  <1>5. Moves(p, x) /\ \A q \in Processes \ {p} : proc'[q].clean = (proc[q].clean /\ b[q])
    BY <1>1, <1>2, <1>4, CleanMoves
  <1>3. \A q \in Processes \ {p} : (proc'[q].clean <=> proc[q].clean /\ ~Rebuilding(q))
    BY <1>4, <1>5, Zenon
  <1> QED BY <1>1, <1>3, <1>5 DEF x, Moves

LEMMA ListMoves ==
  ASSUME TypeOK, NEW p \in Processes, ListRankings(p)
  PROVE  /\ Moves(p, proc'[p]) /\ proc'[p].at = "recalculate" /\ proc'[p].round = proc[p].round
         /\ \A q \in Processes \ {p} : proc'[q] = proc[q]
  <1> DEFINE l == {k \in Rankings : ranking[k] = "ACTIVE" /\ EndDate(k) > now}
             x == [proc[p] EXCEPT !.at = "recalculate", !.list = l]
  <1>1. x \in Process /\ x.at = "recalculate" /\ x.round = proc[p].round
    BY DEF TypeOK, Process, Steps
  <1>2. Goto(p, x)
    BY DEF ListRankings
  <1> QED BY <1>1, <1>2, GotoMoves DEF Moves

LEMMA RecalculateMoves ==
  ASSUME TypeOK, NEW p \in Processes, NEW k \in Rankings, Recalculate(p, k)
  PROVE  /\ Moves(p, proc'[p]) /\ proc'[p].at = "recalculate" /\ proc'[p].round = proc[p].round
         /\ \A q \in Processes \ {p} : proc'[q] = proc[q]
  <1> DEFINE x == [proc[p] EXCEPT !.list = @ \ {k}]
  <1>0. proc[p].at = "recalculate" /\ proc[p] \in Process
    BY DEF Recalculate, TypeOK
  <1>1. x \in Process /\ x.at = "recalculate" /\ x.round = proc[p].round
    BY <1>0 DEF Process
  <1>2. Goto(p, x)
    BY DEF Recalculate
  <1> QED BY <1>1, <1>2, GotoMoves DEF Moves
LEMMA CleanAll ==
  TypeOK => \A p \in Processes, x \in Process, b \in [Processes -> BOOLEAN] :
    proc' = [q \in Processes |-> IF q = p THEN x ELSE [proc[q] EXCEPT !.clean = @ /\ b[q]]]
    => Moves(p, x) /\ \A q \in Processes \ {p} : proc'[q].clean = (proc[q].clean /\ b[q])
  BY CleanMoves

(* All processes but p stay as they are.                                   *)
Only(p) ==
    proc' \in [Processes -> Process] /\ \A q \in Processes \ {p} : proc'[q] = proc[q]

LEMMA GotoOnly ==
  ASSUME TypeOK, NEW p \in Processes, NEW x \in Process, Goto(p, x)
  PROVE  Only(p) /\ proc'[p] = x
  BY GotoMoves DEF Only, Moves

LEMMA FinishMoves ==
  ASSUME TypeOK, NEW p \in Processes, Finish(p)
  PROVE  Only(p) /\ proc'[p] = Idle
  BY IdleIs, GotoOnly DEF Finish

LEMMA DieMoves ==
  ASSUME TypeOK, NEW p \in Processes, Die(p)
  PROVE  Only(p) /\ proc'[p] = Idle
  BY IdleIs, GotoOnly DEF Die

LEMMA ReadMoves ==
  ASSUME TypeOK, NEW p \in Processes, ReadScored(p)
  PROVE  LET ids == {r \in Rounds : status[r] = "SCORED"} IN
         /\ Moves(p, proc'[p]) /\ proc'[p].at = "wipeSnapshots" /\ proc'[p].ids = ids
         /\ proc'[p].todo = ids /\ ids # {} /\ (proc'[p].clean <=> ~Overlapped(p))
         /\ \A q \in Processes \ {p} : (proc'[q].clean <=> proc[q].clean /\ ~Rebuilding(q))
  <1> DEFINE ids == {r \in Rounds : status[r] = "SCORED"}
             x == [Idle EXCEPT !.at = "wipeSnapshots", !.ids = ids,
                               !.todo = ids, !.clean = ~Overlapped(p)]
             b == [q \in Processes |-> ~Rebuilding(q)]
  <1>1. PICK c \in BOOLEAN : c = ~Overlapped(p)
    BY DEF Overlapped
  <1>2. x = [Idle EXCEPT !.at = "wipeSnapshots", !.ids = ids, !.todo = ids, !.clean = c]
    BY <1>1
  <1>3. /\ x \in Process /\ x.at = "wipeSnapshots" /\ x.ids = ids /\ x.todo = ids
        /\ x.clean = c
    BY <1>2 DEF Idle, Process, Steps
  <1>4. b \in [Processes -> BOOLEAN] /\ \A q \in Processes : b[q] = ~Rebuilding(q)
    BY DEF Rebuilding
  <1>5. proc' = [q \in Processes |-> IF q = p THEN x ELSE [proc[q] EXCEPT !.clean = @ /\ b[q]]]
        /\ ids # {}
    BY DEF ReadScored
  <1> HIDE DEF x, b
  <1>6. Moves(p, x) /\ \A q \in Processes \ {p} : proc'[q].clean = (proc[q].clean /\ b[q])
    <2>1. proc' = [q \in Processes |-> IF q = p THEN x ELSE [proc[q] EXCEPT !.clean = @ /\ b[q]]]
      BY <1>5
    <2>2. x \in Process
      BY <1>3
    <2>3. b \in [Processes -> BOOLEAN]
      BY <1>4
    <2> HIDE DEF ids
    <2> QED BY <2>1, <2>2, <2>3, CleanMoves
  <1>7. \A q \in Processes \ {p} : (proc'[q].clean <=> proc[q].clean /\ ~Rebuilding(q))
    BY <1>4, <1>6, Zenon
  <1>8. proc'[p] = x
    BY <1>6 DEF Moves
  <1> HIDE DEF ids
  <1> QED BY <1>1, <1>3, <1>5, <1>6, <1>7, <1>8 DEF ids

LEMMA WipeMoves ==
  ASSUME TypeOK, NEW p \in Processes, WipeSnapshots(p) \/ WipeHistory(p) \/ ResetTotals(p)
  PROVE  /\ Only(p) /\ proc'[p].todo = proc[p].todo /\ proc'[p].ids = proc[p].ids
         /\ proc'[p].clean = proc[p].clean
         /\ WipeSnapshots(p) => proc[p].at = "wipeSnapshots" /\ proc'[p].at = "wipeHistory"
         /\ WipeHistory(p) => proc[p].at = "wipeHistory" /\ proc'[p].at = "reset"
         /\ ResetTotals(p) => proc[p].at = "reset" /\ proc'[p].at = "rebuild"
  <1>0. proc[p] \in Process
    BY DEF TypeOK
  <1>1. ASSUME NEW at \in Steps, Goto(p, [proc[p] EXCEPT !.at = at])
        PROVE  Only(p) /\ proc'[p].todo = proc[p].todo /\ proc'[p].ids = proc[p].ids
               /\ proc'[p].clean = proc[p].clean /\ proc'[p].at = at
    <2>1. [proc[p] EXCEPT !.at = at] \in Process
      BY <1>0 DEF Process
    <2>2. Only(p) /\ proc'[p] = [proc[p] EXCEPT !.at = at]
      BY <1>1, <2>1, GotoOnly
    <2> QED BY <1>0, <2>2 DEF Process
  <1>2. {"wipeHistory", "reset", "rebuild"} \subseteq Steps
    BY DEF Steps
  <1>3. CASE WipeSnapshots(p)
    <2>1. proc[p].at = "wipeSnapshots" /\ Goto(p, [proc[p] EXCEPT !.at = "wipeHistory"])
      BY <1>3 DEF WipeSnapshots
    <2> QED BY <1>1, <1>2, <2>1 DEF WipeHistory, ResetTotals
  <1>4. CASE WipeHistory(p)
    <2>1. proc[p].at = "wipeHistory" /\ Goto(p, [proc[p] EXCEPT !.at = "reset"])
      BY <1>4 DEF WipeHistory
    <2> QED BY <1>1, <1>2, <2>1 DEF WipeSnapshots, ResetTotals
  <1>5. CASE ResetTotals(p)
    <2>1. proc[p].at = "reset" /\ Goto(p, [proc[p] EXCEPT !.at = "rebuild"])
      BY <1>5 DEF ResetTotals
    <2> QED BY <1>1, <1>2, <2>1 DEF WipeSnapshots, WipeHistory
  <1> QED BY <1>3, <1>4, <1>5

LEMMA RebuildMoves ==
  ASSUME RankingsAssumption, Typed, NEW p \in Processes, RebuildRound(p)
  PROVE  /\ Only(p) /\ proc[p].todo \in (SUBSET Rounds) \ {{}} /\ Min(proc[p].todo) \in proc[p].todo
         /\ proc'[p].at = "rebuildSnapshot" /\ proc'[p].round = Min(proc[p].todo)
         /\ proc'[p].todo = proc[p].todo \ {Min(proc[p].todo)} /\ proc'[p].ids = proc[p].ids
         /\ proc'[p].clean = proc[p].clean
  <1> DEFINE r == Min(proc[p].todo)
  <1>1. proc[p] \in Process /\ TypeOK /\ proc[p].todo # {}
    BY DEF Typed, TypeOK, Carries, RebuildRound
  <1>2. proc[p].todo \in (SUBSET Rounds) \ {{}}
    BY <1>1 DEF Process
  <1>3. r \in proc[p].todo /\ r \in Rounds
    BY <1>2, MinIs
  <1>4. Goto(p, [proc[p] EXCEPT !.at = "rebuildSnapshot", !.round = r, !.todo = @ \ {r}])
    BY DEF RebuildRound
  <1> HIDE DEF r
  <1> DEFINE x == [proc[p] EXCEPT !.at = "rebuildSnapshot", !.round = r, !.todo = @ \ {r}]
  <1>5. /\ x \in Process /\ x.at = "rebuildSnapshot" /\ x.round = r
        /\ x.todo = proc[p].todo \ {r} /\ x.ids = proc[p].ids /\ x.clean = proc[p].clean
    BY <1>1, <1>3 DEF Process, Steps
  <1> HIDE DEF x
  <1>6. Only(p) /\ proc'[p] = x
    BY <1>1, <1>4, <1>5, GotoOnly DEF x
  <1> QED BY <1>2, <1>3, <1>5, <1>6 DEF r

LEMMA RebuildSnapshotMoves ==
  ASSUME TypeOK, NEW p \in Processes, RebuildSnapshot(p)
  PROVE  /\ Only(p) /\ proc'[p].round = None
         /\ \/ proc[p].todo = {} /\ proc'[p].at = "list"
            \/ /\ proc[p].todo # {} /\ proc'[p].at = "rebuild" /\ proc'[p].todo = proc[p].todo
               /\ proc'[p].ids = proc[p].ids /\ proc'[p].clean = proc[p].clean
  <1> DEFINE last == proc[p].todo = {}
             at == IF last THEN "list" ELSE "rebuild"
             ids == IF last THEN {} ELSE proc[p].ids
             x == [proc[p] EXCEPT !.at = at, !.round = None, !.ids = ids]
  <1>1. proc[p] \in Process /\ at \in Steps /\ ids \in SUBSET Rounds
    BY DEF TypeOK, Process, Steps
  <1>2. Goto(p, x)
    BY DEF RebuildSnapshot
  <1> HIDE DEF at, ids
  <1>3. /\ x \in Process /\ x.at = at /\ x.round = None /\ x.ids = ids
        /\ x.todo = proc[p].todo /\ x.clean = proc[p].clean
    BY <1>1 DEF Process
  <1> HIDE DEF x
  <1>4. Only(p) /\ proc'[p] = x
    BY <1>2, <1>3, GotoOnly
  <1> QED BY <1>3, <1>4 DEF at, ids

LEMMA BackfillingIs ==
  ASSUME RankingsAssumption, NEW todo \in SUBSET Rounds
  PROVE  /\ Backfilling(todo) \in Process
         /\ todo = {} => Backfilling(todo) = Idle
         /\ todo # {} => /\ Backfilling(todo).at = "backfill" /\ Backfilling(todo).todo = todo
                         /\ Backfilling(todo).users = Players(Min(todo))
         /\ Backfilling(todo).list = {}
  <1>1. CASE todo = {}
    BY <1>1, IdleIs DEF Backfilling
  <1>2. CASE todo # {}
    <2>1. Players(Min(todo)) \in SUBSET Users
      BY DEF Players
    <2>2. Backfilling(todo) = [Idle EXCEPT !.at = "backfill", !.todo = todo,
                                           !.users = Players(Min(todo))]
      BY <1>2 DEF Backfilling
    <2> QED BY <1>2, <2>1, <2>2 DEF Idle, Process, Steps
  <1> QED BY <1>1, <1>2

LEMMA StartBackfillMoves ==
  ASSUME RankingsAssumption, TypeOK, NEW p \in Processes, StartBackfill(p)
  PROVE  /\ Only(p) /\ proc'[p] = Backfilling({r \in Rounds : status[r] = "SCORED"})
         /\ {r \in Rounds : status[r] = "SCORED"} # {}
  BY BackfillingIs, GotoOnly DEF StartBackfill

LEMMA BackfillSnapshotMoves ==
  ASSUME RankingsAssumption, Typed, NEW p \in Processes, BackfillSnapshot(p)
  PROVE  /\ Only(p) /\ proc'[p] = Backfilling(proc[p].todo \ {Min(proc[p].todo)})
         /\ proc[p].todo \in (SUBSET Rounds) \ {{}} /\ Min(proc[p].todo) \in proc[p].todo
  <1>1. proc[p] \in Process /\ TypeOK /\ proc[p].todo # {}
    BY DEF Typed, TypeOK, Carries, BackfillSnapshot
  <1>2. proc[p].todo \in (SUBSET Rounds) \ {{}}
    BY <1>1 DEF Process
  <1> QED BY <1>1, <1>2, MinIs, BackfillingIs, GotoOnly DEF BackfillSnapshot

LEMMA BackfillTicketMoves ==
  ASSUME RankingsAssumption, Typed, NEW p \in Processes, NEW u \in Users, BackfillTicket(p, u)
  PROVE  LET r == Min(proc[p].todo)
             exists == \E h \in RowsOf(u) : h.round = r IN
         /\ Moves(p, proc'[p]) /\ r \in proc[p].todo /\ r \in Rounds /\ u \in Players(r)
         /\ proc[p].at = "backfill" /\ proc'[p].at = "backfill" /\ proc'[p].todo = proc[p].todo
         /\ proc'[p].users \subseteq proc[p].users /\ proc'[p].list = proc[p].list
         /\ \A q \in Processes \ {p} :
              (proc'[q].clean <=> proc[q].clean /\ (exists \/ ~Rebuilding(q)))
  <1> DEFINE r == Min(proc[p].todo)
             exists == \E h \in RowsOf(u) : h.round = r
             x == [proc[p] EXCEPT !.users = @ \ {u}]
             b == [q \in Processes |-> exists \/ ~Rebuilding(q)]
  <1>1. /\ proc[p] \in Process /\ TypeOK /\ proc[p].todo # {} /\ proc[p].at = "backfill"
        /\ u \in Players(r)
    BY DEF Typed, TypeOK, Carries, BackfillTicket
  <1>2. proc[p].todo \in (SUBSET Rounds) \ {{}}
    BY <1>1 DEF Process
  <1>3. r \in proc[p].todo /\ r \in Rounds
    BY <1>2, MinIs
  <1>4. /\ x \in Process /\ x.at = "backfill" /\ x.todo = proc[p].todo
        /\ x.users \subseteq proc[p].users /\ x.list = proc[p].list
    BY <1>1 DEF Process
  <1>5. b \in [Processes -> BOOLEAN] /\ \A q \in Processes : b[q] = (exists \/ ~Rebuilding(q))
    BY DEF Rebuilding
  <1>6. proc' = [q \in Processes |-> IF q = p THEN x ELSE [proc[q] EXCEPT !.clean = @ /\ b[q]]]
    BY DEF BackfillTicket
  <1> HIDE DEF x, b, exists
  <1>7. Moves(p, x) /\ \A q \in Processes \ {p} : proc'[q].clean = (proc[q].clean /\ b[q])
    <2>1. x \in Process
      BY <1>4
    <2>2. b \in [Processes -> BOOLEAN]
      BY <1>5
    <2>3. TypeOK
      BY <1>1
    <2>4. PICK y \in Process : y = x
      BY <2>1
    <2>5. PICK c \in [Processes -> BOOLEAN] : c = b
      BY <2>2
    <2>6. proc' = [q \in Processes |-> IF q = p THEN y ELSE [proc[q] EXCEPT !.clean = @ /\ c[q]]]
      BY <1>6, <2>4, <2>5
    <2> HIDE DEF r
    <2>7. Moves(p, y) /\ \A q \in Processes \ {p} : proc'[q].clean = (proc[q].clean /\ c[q])
      <3>1. \A x1 \in Process, b1 \in [Processes -> BOOLEAN] :
              proc' = [q \in Processes |-> IF q = p THEN x1 ELSE [proc[q] EXCEPT !.clean = @ /\ b1[q]]]
              => Moves(p, x1) /\ \A q \in Processes \ {p} : proc'[q].clean = (proc[q].clean /\ b1[q])
        BY <2>3, CleanAll
      <3>2. proc' = [q \in Processes |-> IF q = p THEN y ELSE [proc[q] EXCEPT !.clean = @ /\ c[q]]]
            => Moves(p, y) /\ \A q \in Processes \ {p} : proc'[q].clean = (proc[q].clean /\ c[q])
        BY <3>1
      <3> QED BY <3>2, <2>6
    <2> QED BY <2>4, <2>5, <2>7
  <1>8. \A q \in Processes \ {p} : (proc'[q].clean <=> proc[q].clean /\ (exists \/ ~Rebuilding(q)))
    BY <1>5, <1>7, Zenon
  <1>9. proc'[p] = x
    BY <1>7 DEF Moves
  <1> QED BY <1>1, <1>3, <1>4, <1>7, <1>8, <1>9 DEF exists

LEMMA StartRepairMoves ==
  ASSUME TypeOK, NEW p \in Processes, StartRepair(p)
  PROVE  /\ Only(p) /\ proc'[p].at = "repairRead" /\ proc'[p].mesa = None
         /\ proc'[p].list \subseteq {k \in Rankings : ranking[k] = "CLOSED"}
  <1> DEFINE closed == {k \in Rankings \ Monthly : ranking[k] = "CLOSED"}
             x == [Idle EXCEPT !.at = "repairRead", !.list = closed]
  <1>1. x \in Process /\ x.at = "repairRead" /\ x.list = closed /\ x.mesa = None
    BY DEF Idle, Process, Steps
  <1>2. Goto(p, x)
    BY DEF StartRepair
  <1> HIDE DEF x
  <1> QED BY <1>1, <1>2, GotoOnly

(* The row a repair keeps of one user: None where it need not be written.   *)
ReadRow(k, u) ==
    IF BuildRows(k, TRUE)[u] = participant[k][u] THEN None ELSE BuildRows(k, TRUE)[u]

LEMMA RepairReadMoves ==
  ASSUME RankingsAssumption, TypeOK, NEW p \in Processes, NEW k \in Rankings, RepairRead(p, k)
  PROVE  /\ Only(p) /\ proc'[p].at = "repairWrite" /\ proc'[p].mesa = k /\ proc'[p].rows \in Rows
         /\ \A u \in Users : proc'[p].rows[u] = ReadRow(k, u)
         /\ proc'[p].list = proc[p].list /\ k \in proc[p].list
         /\ proc[p].at = "repairRead" /\ UNCHANGED participant
  <1> DEFINE rows == [u \in Users |-> LET row == BuildRows(k, TRUE)[u] IN
                       IF row = participant[k][u] THEN None ELSE row]
             x == [proc[p] EXCEPT !.at = "repairWrite", !.mesa = k, !.rows = rows]
  <1>1. BuildRows(k, TRUE) \in Rows /\ proc[p] \in Process /\ k \in proc[p].list
        /\ proc[p].at = "repairRead" /\ UNCHANGED participant
    BY BuildRowsTyped DEF TypeOK, RepairRead, competitions
  <1>2. rows \in Rows
    BY <1>1 DEF Rows
  <1>6. \A u \in Users : rows[u] = ReadRow(k, u)
    BY DEF ReadRow
  <1>3. Goto(p, x)
    BY DEF RepairRead
  <1> HIDE DEF rows
  <1>4. x \in Process /\ x.at = "repairWrite" /\ x.mesa = k /\ x.rows = rows /\ x.list = proc[p].list
    BY <1>1, <1>2 DEF Process, Steps
  <1> HIDE DEF x
  <1>5. Only(p) /\ proc'[p] = x
    BY <1>3, <1>4, GotoOnly
  <1> QED BY <1>1, <1>2, <1>4, <1>5, <1>6

LEMMA RepairWriteMoves ==
  ASSUME Typed, NEW p \in Processes, RepairWrite(p)
  PROVE  /\ Only(p) /\ proc'[p].at \in {"idle", "repairRead"}
         /\ proc'[p].at = "repairRead" => proc'[p].mesa = None
         /\ proc'[p].list \subseteq proc[p].list
         /\ proc[p].mesa \in Rankings /\ proc[p].rows \in Rows
         /\ proc[p].at = "repairWrite"
  <1> DEFINE left == proc[p].list \ {proc[p].mesa}
             x == [Idle EXCEPT !.at = "repairRead", !.list = left]
  <1>0. TypeOK /\ proc[p] \in Process
    BY DEF Typed, TypeOK
  <1>1. x \in Process /\ x.at = "repairRead" /\ x.list = left /\ x.mesa = None
    BY <1>0 DEF Idle, Process, Steps
  <1>2. Goto(p, Idle) \/ Goto(p, x)
    BY DEF RepairWrite
  <1>3. /\ proc[p].mesa \in Rankings /\ proc[p].rows \in Rows /\ proc[p].at = "repairWrite"
    BY DEF Typed, Carries, RepairWrite
  <1>4. CASE Goto(p, Idle)
    BY <1>0, <1>3, <1>4, IdleIs, GotoOnly
  <1>5. CASE Goto(p, x)
    <2> HIDE DEF x
    <2> QED BY <1>0, <1>1, <1>3, <1>5, GotoOnly
  <1> QED BY <1>2, <1>4, <1>5
LEMMA CarriesAside ==
  ASSUME NEW q \in Processes, Carries(q), Aside(q)
  PROVE  Carries(q)'
  BY DEF Carries, Aside

(* A step of nobody leaves the processes as they are.                      *)
LEMMA TypedSame ==
  ASSUME Typed, UNCHANGED proc
  PROVE  proc' \in [Processes -> Process] /\ \A q \in Processes : Carries(q)'
  BY DEF Typed, TypeOK, Carries

(* The typing of a step of one process.                                    *)
LEMMA TypedOne ==
  ASSUME Typed, NEW p \in Processes, proc' \in [Processes -> Process],
         \A q \in Processes \ {p} : Aside(q), Carries(p)'
  PROVE  proc' \in [Processes -> Process] /\ \A q \in Processes : Carries(q)'
  BY CarriesAside DEF Typed

LEMMA TypedOnly ==
  ASSUME Typed, NEW p \in Processes, Only(p), Carries(p)'
  PROVE  proc' \in [Processes -> Process] /\ \A q \in Processes : Carries(q)'
  BY TypedOne DEF Only, Aside

LEMMA EnsureTyped ==
  ASSUME RankingsAssumption, TypeOK, NEW period \in Periods, NEW asOf,
         EnsureMonthlyRankings(period, asOf)
  PROVE  /\ ranking' \in [Rankings -> {"ABSENT", "ACTIVE", "CLOSED"}]
         /\ participant' \in [Rankings -> Rows]
         /\ \A k \in Rankings, u \in Users :
              participant[k][u] # None => participant'[k][u] = participant[k][u]
         /\ UNCHANGED <<now, status, scores, snapshot, proc, torn>>
  <1> DEFINE both == {"GLOBAL", "PRO"} \X {period}
             enrols == /\ RoundsOf(period) # {}
                       /\ RegistrationOpen(period, asOf) \/ NeedsBootstrap(period)
             Enters(k, u) == enrols /\ k \in both /\ participant[k][u] = None
                             /\ u \in Eligible(k, asOf)
             Enter(k, u) == IF Enters(k, u)
                            THEN NewParticipant(ScoreInitialFor(u, period, asOf))
                            ELSE participant[k][u]
  <1>1. /\ ranking' = [k \in Rankings |->
                IF k \in both /\ ranking[k] = "ABSENT" THEN "ACTIVE" ELSE ranking[k]]
        /\ participant' = [k \in Rankings |-> [u \in Users |-> Enter(k, u)]]
        /\ UNCHANGED <<now, status, scores, snapshot, proc, torn>>
    BY DEF EnsureMonthlyRankings
  <1>2. \A u \in Users : ScoreInitialFor(u, period, asOf) \in Int
    BY BeforeIs DEF ScoreInitialFor, TypeOK
  <1>3. \A k \in Rankings, u \in Users : Enter(k, u) \in ParticipantRow \cup {None}
    <2>1. \A u \in Users : NewParticipant(ScoreInitialFor(u, period, asOf)) \in ParticipantRow
      BY <1>2 DEF NewParticipant, ParticipantRow
    <2>2. \A k \in Rankings, u \in Users : participant[k][u] \in ParticipantRow \cup {None}
      BY DEF TypeOK, Rows
    <2> HIDE DEF Enters
    <2> QED BY <2>1, <2>2
  <1>4. \A k \in Rankings, u \in Users :
          participant[k][u] # None => Enter(k, u) = participant[k][u]
    OBVIOUS
  <1> HIDE DEF Enter
  <1>5. participant' \in [Rankings -> Rows]
    BY <1>1, <1>3 DEF Rows
  <1>6. \A k \in Rankings, u \in Users :
          participant[k][u] # None => participant'[k][u] = participant[k][u]
    BY <1>1, <1>4
  <1>7. ranking' \in [Rankings -> {"ABSENT", "ACTIVE", "CLOSED"}]
    BY <1>1 DEF TypeOK
  <1> QED BY <1>1, <1>5, <1>6, <1>7

LEMMA JoinTyped ==
  ASSUME RankingsAssumption, TypeOK, NEW k \in Rankings, NEW u \in Users, Join(k, u)
  PROVE  /\ participant' \in [Rankings -> Rows]
         /\ participant[k][u] = None
         /\ \A j \in Rankings, v \in Users :
              participant[j][v] # None => participant'[j][v] = participant[j][v]
         /\ UNCHANGED <<now, status, scores, snapshot, ranking, proc, torn>>
  <1>1. JoinBaseline(k, u) \in Int
    BY BeforeIs DEF JoinBaseline
  <1>2. PICK row \in ParticipantRow : row = NewParticipant(JoinBaseline(k, u))
    <2>1. \A total \in Int : NewParticipant(total) \in ParticipantRow
      BY DEF NewParticipant, ParticipantRow
    <2> QED BY <1>1, <2>1
  <1>3. /\ participant' = [participant EXCEPT ![k][u] = row] /\ participant[k][u] = None
        /\ UNCHANGED <<now, status, scores, snapshot, ranking, proc, torn>>
    BY <1>2 DEF Join
  <1>4. participant \in [Rankings -> Rows]
    BY DEF TypeOK
  <1> QED BY <1>3, <1>4 DEF Rows

LEMMA WriteRowsTyped ==
  ASSUME RankingsAssumption, TypeOK, NEW k \in Rankings, NEW ended, WriteRows(k, ended)
  PROVE  /\ participant' \in [Rankings -> Rows]
         /\ \A j \in Rankings \ {k} : participant'[j] = participant[j]
  <1>1. BuildRows(k, ended) \in Rows /\ participant \in [Rankings -> Rows]
    BY BuildRowsTyped DEF TypeOK
  <1> QED BY <1>1 DEF WriteRows
(* The rows a step adds.                                                   *)
LEMMA BackfillTyped ==
  ASSUME RankingsAssumption, MatchCountAssumption, Typed, NEW p \in Processes, NEW u \in Users,
         BackfillTicket(p, u)
  PROVE  scoreTotal' \in [Users -> Int] /\ history' \in [Users -> Seq(HistoryRow)]
         /\ torn' \in BOOLEAN
  <1> DEFINE r == Min(proc[p].todo)
             total == scoreTotal[u] + Scored(r, u).total
             exists == \E h \in RowsOf(u) : h.round = r
             row == [NoRow EXCEPT !.round = r, !.scoreTotal = total,
                                  !.scoreRound = Scored(r, u).total]
  <1>1. TypeOK /\ r \in Rounds /\ u \in Players(r)
    BY BackfillTicketMoves DEF Typed
  <1>2. scoreTotal \in [Users -> Int] /\ history \in [Users -> Seq(HistoryRow)] /\ torn \in BOOLEAN
    BY <1>1 DEF TypeOK
  <1>3. Scored(r, u).total \in Int
    BY <1>1, ScoredIs
  <1>4. total \in Int
    BY <1>2, <1>3
  <1>5. row \in HistoryRow
    <2>1. \A n, m \in Int, q \in Rounds :
            [NoRow EXCEPT !.round = q, !.scoreTotal = n, !.scoreRound = m] \in HistoryRow
      BY DEF NoRow, HistoryRow
    <2> HIDE DEF r, total
    <2> QED BY <1>1, <1>3, <1>4, <2>1
  <1>6. \/ UNCHANGED <<scores, torn>>
        \/ /\ scoreTotal' = [scoreTotal EXCEPT ![u] = total]
           /\ history' = [history EXCEPT ![u] = Append(history[u], row)]
           /\ torn' = TRUE
    BY DEF BackfillTicket
  <1> HIDE DEF row, total
  <1>7. CASE UNCHANGED <<scores, torn>>
    BY <1>2, <1>7 DEF scores
  <1>8. CASE /\ scoreTotal' = [scoreTotal EXCEPT ![u] = total]
             /\ history' = [history EXCEPT ![u] = Append(history[u], row)]
             /\ torn' = TRUE
    <2>1. Append(history[u], row) \in Seq(HistoryRow)
      BY <1>2, <1>5
    <2> QED BY <1>2, <1>4, <1>8, <2>1
  <1> QED BY <1>6, <1>7, <1>8

LEMMA LastAre ==
  ASSUME RankingsAssumption, TypeOK, NEW u \in Users
  PROVE  /\ LastByRound(u).doubles \in Nat /\ LastByRound(u).supers \in Nat
         /\ LastCreated(u).doubles \in Nat /\ LastCreated(u).supers \in Nat
  <1>1. RowsOf(u) \in SUBSET HistoryRow /\ IsFiniteSet(RowsOf(u))
    BY SomeRows
  <1>2. history[u] \in Seq(HistoryRow)
    BY DEF TypeOK
  <1>3. LastCreated(u) \in HistoryRow \cup {NoRow}
    BY <1>2 DEF LastCreated
  <1> QED BY <1>1, <1>3, LatestIsRow DEF LastByRound, HistoryRow, NoRow

LEMMA ScoreTyped ==
  ASSUME RankingsAssumption, MatchCountAssumption, TypeOK, NEW r \in Rounds, NEW p \in Processes,
         ScoreRound(p, r)
  PROVE  scoreTotal' \in [Users -> Int] /\ history' \in [Users -> Seq(HistoryRow)]
  <1> DEFINE last == [v \in Users |-> LastByRound(v)]
  <1>1. \A v \in Users : last[v].doubles \in Nat /\ last[v].supers \in Nat
    BY LastAre
  <1>2. AddRows(r, last)
    BY DEF ScoreRound
  <1> HIDE DEF last
  <1> QED BY <1>1, <1>2, AddRowsTyped

LEMMA RebuildTyped ==
  ASSUME RankingsAssumption, MatchCountAssumption, Typed, NEW p \in Processes, RebuildRound(p)
  PROVE  scoreTotal' \in [Users -> Int] /\ history' \in [Users -> Seq(HistoryRow)]
  <1> DEFINE last == [v \in Users |-> LastCreated(v)]
             r == Min(proc[p].todo)
  <1>0. TypeOK /\ r \in Rounds
    BY RebuildMoves DEF Typed
  <1>1. \A v \in Users : last[v].doubles \in Nat /\ last[v].supers \in Nat
    BY <1>0, LastAre
  <1>2. AddRows(r, last)
    BY DEF RebuildRound
  <1> HIDE DEF last, r
  <1> QED BY <1>0, <1>1, <1>2, AddRowsTyped

LEMMA WipeTyped ==
  ASSUME TypeOK, NEW p \in Processes, WipeHistory(p)
  PROVE  history' \in [Users -> Seq(HistoryRow)]
  <1>1. \A u \in Users : Without(history[u], proc[p].ids) \in Seq(HistoryRow)
    BY WithoutIs DEF TypeOK
  <1> QED BY <1>1 DEF WipeHistory
LEMMA RepairWriteTyped ==
  ASSUME Typed, NEW p \in Processes, RepairWrite(p)
  PROVE  /\ participant' \in [Rankings -> Rows]
         /\ \A j \in Rankings \ {proc[p].mesa} : participant'[j] = participant[j]
  <1> DEFINE k == proc[p].mesa
             rows == [u \in Users |->
                        IF proc[p].rows[u] = None THEN participant[k][u] ELSE proc[p].rows[u]]
  <1>1. k \in Rankings /\ proc[p].rows \in Rows /\ participant \in [Rankings -> Rows]
    BY RepairWriteMoves DEF Typed, TypeOK
  <1>2. rows \in Rows
    BY <1>1 DEF Rows
  <1>3. participant' = [participant EXCEPT ![k] = rows]
    BY <1>1 DEF RepairWrite
  <1> QED BY <1>1, <1>2, <1>3

(* The whole of a step of a process.                                       *)
Acts(p) ==
    \/ \E r \in Rounds : ScoreRound(p, r)
    \/ ListRankings(p) \/ Finish(p) \/ Die(p)
    \/ \E k \in Rankings : Recalculate(p, k)
    \/ ReadScored(p) \/ WipeSnapshots(p) \/ WipeHistory(p) \/ ResetTotals(p)
    \/ RebuildRound(p) \/ RebuildSnapshot(p)
    \/ StartBackfill(p) \/ BackfillSnapshot(p)
    \/ \E u \in Users : BackfillTicket(p, u)
    \/ StartRepair(p) \/ RepairWrite(p)
    \/ \E k \in Rankings : RepairRead(p, k)

(* What p carries after its step.                                          *)
LEMMA StepCarries ==
  ASSUME RankingsAssumption, Typed, NEW p \in Processes, Acts(p)
  PROVE  proc' \in [Processes -> Process] /\ \A q \in Processes : Carries(q)'
  <1>0. TypeOK /\ Carries(p) /\ proc[p] \in Process
    BY DEF Typed, TypeOK
  <1>1. ASSUME Only(p), Carries(p)'
        PROVE  proc' \in [Processes -> Process] /\ \A q \in Processes : Carries(q)'
    BY <1>1, TypedOnly
  <1>2. ASSUME Moves(p, proc'[p]), Carries(p)'
        PROVE  proc' \in [Processes -> Process] /\ \A q \in Processes : Carries(q)'
    BY <1>2, TypedOne DEF Moves
  <1>3. ASSUME NEW r \in Rounds, ScoreRound(p, r)
        PROVE  proc' \in [Processes -> Process] /\ \A q \in Processes : Carries(q)'
    <2>1. Moves(p, proc'[p]) /\ proc'[p].at = "list"
      BY <1>0, <1>3, ScoreMoves DEF Moves
    <2> QED BY <1>2, <2>1 DEF Carries
  <1>4. ASSUME ListRankings(p) \/ \E k \in Rankings : Recalculate(p, k)
        PROVE  proc' \in [Processes -> Process] /\ \A q \in Processes : Carries(q)'
    <2>1. Moves(p, proc'[p]) /\ proc'[p].at = "recalculate"
      BY <1>0, <1>4, ListMoves, RecalculateMoves
    <2> QED BY <1>2, <2>1 DEF Carries
  <1>5. ASSUME Finish(p) \/ Die(p)
        PROVE  proc' \in [Processes -> Process] /\ \A q \in Processes : Carries(q)'
    <2>1. Only(p) /\ proc'[p] = Idle
      BY <1>0, <1>5, FinishMoves, DieMoves
    <2> QED BY <1>1, <2>1, IdleIs DEF Carries
  <1>6. ASSUME ReadScored(p)
        PROVE  proc' \in [Processes -> Process] /\ \A q \in Processes : Carries(q)'
    <2>1. Moves(p, proc'[p]) /\ proc'[p].at = "wipeSnapshots" /\ proc'[p].todo # {}
      BY <1>0, <1>6, ReadMoves
    <2> QED BY <1>2, <2>1 DEF Carries
  <1>7. ASSUME WipeSnapshots(p) \/ WipeHistory(p) \/ ResetTotals(p)
        PROVE  proc' \in [Processes -> Process] /\ \A q \in Processes : Carries(q)'
    <2>1. /\ Only(p) /\ proc'[p].todo = proc[p].todo
          /\ proc[p].at \in {"wipeSnapshots", "wipeHistory", "reset"}
          /\ proc'[p].at \in {"wipeHistory", "reset", "rebuild"}
      BY <1>0, <1>7, WipeMoves
    <2> QED BY <1>0, <1>1, <2>1 DEF Carries
  <1>8. ASSUME RebuildRound(p)
        PROVE  proc' \in [Processes -> Process] /\ \A q \in Processes : Carries(q)'
    <2>1. /\ Only(p) /\ proc'[p].at = "rebuildSnapshot" /\ proc'[p].round \in Rounds
      BY <1>8, RebuildMoves
    <2> QED BY <1>1, <2>1 DEF Carries
  <1>9. ASSUME RebuildSnapshot(p)
        PROVE  proc' \in [Processes -> Process] /\ \A q \in Processes : Carries(q)'
    <2>1. /\ Only(p)
          /\ \/ proc'[p].at = "list"
             \/ proc'[p].at = "rebuild" /\ proc'[p].todo # {}
      BY <1>0, <1>9, RebuildSnapshotMoves
    <2> QED BY <1>1, <2>1 DEF Carries
  <1>10. ASSUME NEW todo \in SUBSET Rounds, Only(p), proc'[p] = Backfilling(todo)
         PROVE  proc' \in [Processes -> Process] /\ \A q \in Processes : Carries(q)'
    <2>1. CASE todo = {}
      BY <1>1, <1>10, <2>1, BackfillingIs, IdleIs DEF Carries
    <2>2. CASE todo # {}
      <3>1. /\ proc'[p].at = "backfill" /\ proc'[p].todo # {}
            /\ proc'[p].users = Players(Min(proc'[p].todo))
        BY <1>10, <2>2, BackfillingIs
      <3> QED BY <1>1, <1>10, <3>1 DEF Carries
    <2> QED BY <2>1, <2>2
  <1>11. ASSUME StartBackfill(p) \/ BackfillSnapshot(p)
         PROVE  proc' \in [Processes -> Process] /\ \A q \in Processes : Carries(q)'
    <2>1. CASE StartBackfill(p)
      <3> DEFINE ids == {r \in Rounds : status[r] = "SCORED"}
      <3>1. Only(p) /\ proc'[p] = Backfilling(ids) /\ ids \in SUBSET Rounds
        BY <1>0, <2>1, StartBackfillMoves
      <3> HIDE DEF ids
      <3> QED BY <1>10, <3>1
    <2>2. CASE BackfillSnapshot(p)
      <3> DEFINE left == proc[p].todo \ {Min(proc[p].todo)}
      <3>1. Only(p) /\ proc'[p] = Backfilling(left) /\ left \in SUBSET Rounds
        BY <2>2, BackfillSnapshotMoves
      <3> HIDE DEF left
      <3> QED BY <1>10, <3>1
    <2> QED BY <1>11, <2>1, <2>2
  <1>12. ASSUME NEW u \in Users, BackfillTicket(p, u)
         PROVE  proc' \in [Processes -> Process] /\ \A q \in Processes : Carries(q)'
    <2>1. /\ Moves(p, proc'[p]) /\ proc[p].at = "backfill" /\ proc'[p].at = "backfill"
          /\ proc'[p].todo = proc[p].todo /\ proc'[p].users \subseteq proc[p].users
      BY <1>12, BackfillTicketMoves
    <2> QED BY <1>0, <1>2, <2>1 DEF Carries
  <1>13. ASSUME StartRepair(p) \/ RepairWrite(p)
         PROVE  proc' \in [Processes -> Process] /\ \A q \in Processes : Carries(q)'
    <2>1. Only(p) /\ proc'[p].at \in {"idle", "repairRead"}
      BY <1>0, <1>13, StartRepairMoves, RepairWriteMoves
    <2> QED BY <1>1, <2>1 DEF Carries
  <1>14. ASSUME NEW k \in Rankings, RepairRead(p, k)
         PROVE  proc' \in [Processes -> Process] /\ \A q \in Processes : Carries(q)'
    <2>1. /\ Only(p) /\ proc'[p].at = "repairWrite" /\ proc'[p].mesa \in Rankings
          /\ proc'[p].rows \in Rows
      BY <1>0, <1>14, RepairReadMoves
    <2> QED BY <1>1, <2>1 DEF Carries
  <1> QED BY <1>3, <1>4, <1>5, <1>6, <1>7, <1>8, <1>9, <1>11, <1>12, <1>13, <1>14 DEF Acts
(* Everything but the processes is typed.                                  *)
DataOK ==
    /\ now \in 0..LastMoment
    /\ status \in [Rounds -> {"OPEN", "CLOSED", "SCORED"}]
    /\ scoreTotal \in [Users -> Int]
    /\ history \in [Users -> Seq(HistoryRow)]
    /\ snapshot \in [Rounds -> SUBSET SnapshotRow]
    /\ ranking \in [Rankings -> {"ABSENT", "ACTIVE", "CLOSED"}]
    /\ participant \in [Rankings -> Rows]
    /\ torn \in BOOLEAN

(* The typing of the data after a step of a process.                       *)
LEMMA ActsTyped ==
  ASSUME RankingsAssumption, MatchCountAssumption, Typed, NEW p \in Processes, Acts(p)
  PROVE  DataOK'
  <1>0. TypeOK /\ DataOK /\ Carries(p)
    BY DEF Typed, TypeOK, DataOK
  <1>1. ASSUME NEW r \in Rounds, ScoreRound(p, r) PROVE DataOK'
    <2>1. scoreTotal' \in [Users -> Int] /\ history' \in [Users -> Seq(HistoryRow)]
      BY <1>0, <1>1, ScoreTyped
    <2>2. status' \in [Rounds -> {"OPEN", "CLOSED", "SCORED"}]
      BY <1>0, <1>1 DEF ScoreRound, DataOK
    <2>3. torn' \in BOOLEAN
      BY <1>0, <1>1 DEF ScoreRound, DataOK
    <2>4. UNCHANGED <<now, snapshot, competitions>>
      BY <1>1 DEF ScoreRound
    <2> QED BY <1>0, <2>1, <2>2, <2>3, <2>4 DEF DataOK, competitions
  <1>2. CASE UNCHANGED <<now, status, scores, snapshot, competitions, torn>>
    BY <1>0, <1>2 DEF DataOK, scores, competitions
  <1>3. CASE ListRankings(p) \/ StartBackfill(p) \/ StartRepair(p) \/ \E k \in Rankings : RepairRead(p, k)
    BY <1>2, <1>3 DEF ListRankings, StartBackfill, StartRepair, RepairRead
  <1>4. CASE Die(p) \/ ReadScored(p)
    <2>1. torn' \in BOOLEAN
      BY <1>0, <1>4 DEF Die, ReadScored, DataOK
    <2>2. UNCHANGED <<now, status, scores, snapshot, competitions>>
      BY <1>4 DEF Die, ReadScored
    <2> QED BY <1>0, <2>1, <2>2 DEF DataOK, scores, competitions
  <1>5. ASSUME NEW r \in Rounds, SnapshotRanking(r)
        PROVE  snapshot' \in [Rounds -> SUBSET SnapshotRow]
    BY <1>0, <1>5, SnapshotTyped
  <1>6. CASE Finish(p)
    <2>1. proc[p].round \in Rounds \cup {None}
      BY <1>0 DEF TypeOK, Process
    <2>2. snapshot' \in [Rounds -> SUBSET SnapshotRow]
      BY <1>0, <1>5, <1>6, <2>1 DEF Finish, DataOK
    <2>3. UNCHANGED <<now, status, scores, competitions, torn>>
      BY <1>6 DEF Finish
    <2> QED BY <1>0, <2>2, <2>3 DEF DataOK, scores, competitions
  <1>7. ASSUME NEW k \in Rankings, Recalculate(p, k) PROVE DataOK'
    <2>1. participant' \in [Rankings -> Rows]
      BY <1>0, <1>7, WriteRowsTyped DEF Recalculate
    <2>2. UNCHANGED <<now, status, scores, snapshot, ranking, torn>>
      BY <1>7 DEF Recalculate
    <2> QED BY <1>0, <2>1, <2>2 DEF DataOK, scores
  <1>8. CASE WipeSnapshots(p)
    <2>1. snapshot' \in [Rounds -> SUBSET SnapshotRow]
      BY <1>0, <1>8 DEF WipeSnapshots, DataOK
    <2>2. UNCHANGED <<now, status, scores, competitions, torn>>
      BY <1>8 DEF WipeSnapshots
    <2> QED BY <1>0, <2>1, <2>2 DEF DataOK, scores, competitions
  <1>9. CASE WipeHistory(p)
    <2>1. history' \in [Users -> Seq(HistoryRow)]
      BY <1>0, <1>9, WipeTyped
    <2>2. UNCHANGED <<now, status, scoreTotal, snapshot, competitions, torn>>
      BY <1>9 DEF WipeHistory
    <2> QED BY <1>0, <2>1, <2>2 DEF DataOK, competitions
  <1>10. CASE ResetTotals(p)
    <2>1. scoreTotal' \in [Users -> Int]
      BY <1>10 DEF ResetTotals
    <2>2. UNCHANGED <<now, status, history, snapshot, competitions, torn>>
      BY <1>10 DEF ResetTotals
    <2> QED BY <1>0, <2>1, <2>2 DEF DataOK, competitions
  <1>11. CASE RebuildRound(p)
    <2>1. scoreTotal' \in [Users -> Int] /\ history' \in [Users -> Seq(HistoryRow)]
      BY <1>11, RebuildTyped
    <2>2. UNCHANGED <<now, status, snapshot, competitions, torn>>
      BY <1>11 DEF RebuildRound
    <2> QED BY <1>0, <2>1, <2>2 DEF DataOK, competitions
  <1>12. CASE RebuildSnapshot(p)
    <2>1. proc[p].round \in Rounds /\ SnapshotRanking(proc[p].round)
      BY <1>0, <1>12 DEF Carries, RebuildSnapshot
    <2>2. snapshot' \in [Rounds -> SUBSET SnapshotRow]
      BY <1>5, <2>1
    <2>3. torn' \in BOOLEAN
      BY <1>0, <1>12 DEF RebuildSnapshot, DataOK
    <2>4. UNCHANGED <<now, status, scores, competitions>>
      BY <1>12 DEF RebuildSnapshot
    <2> QED BY <1>0, <2>2, <2>3, <2>4 DEF DataOK, scores, competitions
  <1>13. CASE BackfillSnapshot(p)
    <2>1. Min(proc[p].todo) \in Rounds /\ SnapshotRanking(Min(proc[p].todo))
      BY <1>13, BackfillSnapshotMoves DEF BackfillSnapshot
    <2>2. snapshot' \in [Rounds -> SUBSET SnapshotRow]
      BY <1>5, <2>1
    <2>3. UNCHANGED <<now, status, scores, competitions, torn>>
      BY <1>13 DEF BackfillSnapshot
    <2> QED BY <1>0, <2>2, <2>3 DEF DataOK, scores, competitions
  <1>14. ASSUME NEW u \in Users, BackfillTicket(p, u) PROVE DataOK'
    <2>1. /\ scoreTotal' \in [Users -> Int] /\ history' \in [Users -> Seq(HistoryRow)]
          /\ torn' \in BOOLEAN
      BY <1>14, BackfillTyped
    <2>2. UNCHANGED <<now, status, snapshot, competitions>>
      BY <1>14 DEF BackfillTicket
    <2> QED BY <1>0, <2>1, <2>2 DEF DataOK, competitions
  <1>15. CASE RepairWrite(p)
    <2>1. participant' \in [Rankings -> Rows]
      BY <1>15, RepairWriteTyped
    <2>2. UNCHANGED <<now, status, scores, snapshot, ranking, torn>>
      BY <1>15 DEF RepairWrite
    <2> QED BY <1>0, <2>1, <2>2 DEF DataOK, scores
  <1> QED
    BY <1>1, <1>3, <1>4, <1>6, <1>7, <1>8, <1>9, <1>10, <1>11, <1>12, <1>13, <1>14, <1>15
       DEF Acts

(* The steps of Next, one by one.                                          *)
LEMMA NextIs ==
  ASSUME Next
  PROVE  \/ Tick
         \/ \E r \in Rounds : CloseRound(r) \/ GenerateSnapshot(r) \/ EnsureAtClosing(r)
         \/ \E period \in Periods : EnsureCurrent(period)
         \/ \E k \in Rankings : CloseRanking(k) \/ \E u \in Users : Join(k, u)
         \/ \E p \in Processes : Acts(p)
  BY DEF Next, Acts

LEMMA TypedNext == RankingsAssumption /\ MatchCountAssumption /\ Typed /\ [Next]_vars => Typed'
  <1> SUFFICES ASSUME RankingsAssumption, MatchCountAssumption, Typed, [Next]_vars
               PROVE  DataOK' /\ proc' \in [Processes -> Process] /\ \A q \in Processes : Carries(q)'
    BY DEF Typed, TypeOK, DataOK
  <1>0. TypeOK /\ DataOK
    BY DEF Typed, TypeOK, DataOK
  <1>1. CASE UNCHANGED vars
    BY <1>0, <1>1, TypedSame DEF DataOK, vars
  <1>2. CASE Tick
    <2>1. now' \in 0..LastMoment
      BY <1>0, <1>2 DEF Tick, DataOK, RankingsAssumption
    <2>2. UNCHANGED <<status, scores, snapshot, competitions, proc, torn>>
      BY <1>2 DEF Tick
    <2> QED BY <1>0, <2>1, <2>2, TypedSame DEF DataOK, scores, competitions
  <1>3. ASSUME NEW r \in Rounds, CloseRound(r)
        PROVE  DataOK' /\ proc' \in [Processes -> Process] /\ \A q \in Processes : Carries(q)'
    <2>1. status' \in [Rounds -> {"OPEN", "CLOSED", "SCORED"}]
      BY <1>0, <1>3 DEF CloseRound, DataOK
    <2>2. UNCHANGED <<now, scores, snapshot, competitions, proc, torn>>
      BY <1>3 DEF CloseRound
    <2> QED BY <1>0, <2>1, <2>2, TypedSame DEF DataOK, scores, competitions
  <1>4. ASSUME NEW r \in Rounds, GenerateSnapshot(r)
        PROVE  DataOK' /\ proc' \in [Processes -> Process] /\ \A q \in Processes : Carries(q)'
    <2>1. snapshot' \in [Rounds -> SUBSET SnapshotRow]
      BY <1>0, <1>4, SnapshotTyped DEF GenerateSnapshot
    <2>2. UNCHANGED <<now, status, scores, competitions, proc, torn>>
      BY <1>4 DEF GenerateSnapshot
    <2> QED BY <1>0, <2>1, <2>2, TypedSame DEF DataOK, scores, competitions
  <1>5. ASSUME NEW period \in Periods, NEW asOf, EnsureMonthlyRankings(period, asOf)
        PROVE  DataOK' /\ proc' \in [Processes -> Process] /\ \A q \in Processes : Carries(q)'
    <2>1. /\ ranking' \in [Rankings -> {"ABSENT", "ACTIVE", "CLOSED"}]
          /\ participant' \in [Rankings -> Rows]
          /\ UNCHANGED <<now, status, scores, snapshot, proc, torn>>
      BY <1>0, <1>5, EnsureTyped
    <2> QED BY <1>0, <2>1, TypedSame DEF DataOK, scores
  <1>6. ASSUME NEW r \in Rounds, EnsureAtClosing(r)
        PROVE  DataOK' /\ proc' \in [Processes -> Process] /\ \A q \in Processes : Carries(q)'
    BY <1>5, <1>6 DEF EnsureAtClosing
  <1>7. ASSUME NEW period \in Periods, EnsureCurrent(period)
        PROVE  DataOK' /\ proc' \in [Processes -> Process] /\ \A q \in Processes : Carries(q)'
    BY <1>5, <1>7 DEF EnsureCurrent
  <1>8. ASSUME NEW k \in Rankings, CloseRanking(k)
        PROVE  DataOK' /\ proc' \in [Processes -> Process] /\ \A q \in Processes : Carries(q)'
    <2>1. participant' \in [Rankings -> Rows]
      BY <1>0, <1>8, WriteRowsTyped DEF CloseRanking
    <2>2. ranking' \in [Rankings -> {"ABSENT", "ACTIVE", "CLOSED"}]
      BY <1>0, <1>8 DEF CloseRanking, DataOK
    <2>3. UNCHANGED <<now, status, scores, snapshot, proc, torn>>
      BY <1>8 DEF CloseRanking
    <2> QED BY <1>0, <2>1, <2>2, <2>3, TypedSame DEF DataOK, scores
  <1>9. ASSUME NEW k \in Rankings, NEW u \in Users, Join(k, u)
        PROVE  DataOK' /\ proc' \in [Processes -> Process] /\ \A q \in Processes : Carries(q)'
    <2>1. /\ participant' \in [Rankings -> Rows]
          /\ UNCHANGED <<now, status, scores, snapshot, ranking, proc, torn>>
      BY <1>0, <1>9, JoinTyped
    <2> QED BY <1>0, <2>1, TypedSame DEF DataOK, scores
  <1>10. ASSUME NEW p \in Processes, Acts(p)
         PROVE  DataOK' /\ proc' \in [Processes -> Process] /\ \A q \in Processes : Carries(q)'
    BY <1>10, ActsTyped, StepCarries
  <1> QED BY <1>1, <1>2, <1>3, <1>4, <1>6, <1>7, <1>8, <1>9, <1>10, NextIs

(* The rows, totals, snapshots and standings keep their types, and so does  *)
(* what every request and job under way carries.                           *)
THEOREM TypeCorrect == Spec => []TypeOK
  <1>1. Init => Typed
    BY TypedInit, RankingsAssumption
  <1>2. Typed /\ [Next]_vars => Typed'
    BY TypedNext, RankingsAssumption, MatchCountAssumption
  <1>3. Typed => TypeOK
    BY DEF Typed
  <1> QED BY <1>1, <1>2, <1>3, PTL DEF Spec
(***************************************************************************)
(* The rows of the rankings.                                               *)
(***************************************************************************)

(* The steps that write them.                                              *)
LEMMA WhoWrites ==
  ASSUME [Next]_vars
  PROVE  \/ UNCHANGED <<participant, ranking>>
         \/ \E r \in Rounds : EnsureAtClosing(r)
         \/ \E period \in Periods : EnsureCurrent(period)
         \/ \E k \in Rankings : CloseRanking(k) \/ \E u \in Users : Join(k, u)
         \/ \E p \in Processes : RepairWrite(p) \/ \E k \in Rankings : Recalculate(p, k)
  <1>1. CASE UNCHANGED vars
    BY <1>1 DEF vars
  <1>2. ASSUME NEW p \in Processes, Acts(p)
        PROVE  UNCHANGED <<participant, ranking>> \/ RepairWrite(p) \/ \E k \in Rankings : Recalculate(p, k)
    BY <1>2 DEF Acts, ScoreRound, ListRankings, Finish, Die, ReadScored, WipeSnapshots, WipeHistory,
                ResetTotals, RebuildRound, RebuildSnapshot, StartBackfill, BackfillSnapshot,
                BackfillTicket, StartRepair, RepairRead, competitions
  <1>3. CASE Tick \/ \E r \in Rounds : CloseRound(r) \/ GenerateSnapshot(r)
    BY <1>3 DEF Tick, CloseRound, GenerateSnapshot, competitions
  <1> QED BY <1>1, <1>2, <1>3, NextIs

(* Nobody in a ranking leaves it, nor is anybody new in it.                *)
LEMMA BuildKeeps ==
  ASSUME RankingsAssumption, TypeOK, NEW k \in Rankings, NEW ended, NEW u \in Users
  PROVE  BuildRows(k, ended)[u] = None <=> participant[k][u] = None
  <1>1. None \notin ParticipantRow
    BY DEF RankingsAssumption
  <1>2. IF u \in In(k) THEN BuildRows(k, ended)[u] \in ParticipantRow
        ELSE BuildRows(k, ended)[u] = None
    BY BuildRowsTyped
  <1> QED BY <1>1, <1>2 DEF In

(* Who is in a ranking stays in it.                                        *)
LEMMA ParticipantsStay ==
  ASSUME RankingsAssumption, Typed, [Next]_vars, NEW k \in Rankings, NEW u \in Users,
         participant[k][u] # None
  PROVE  participant'[k][u] # None
  <1>0. TypeOK
    BY DEF Typed
  <1>1. ASSUME NEW period \in Periods, NEW asOf, EnsureMonthlyRankings(period, asOf)
        PROVE  participant'[k][u] # None
    BY <1>0, <1>1, EnsureTyped
  <1>2. CASE \E r \in Rounds : EnsureAtClosing(r)
    BY <1>1, <1>2 DEF EnsureAtClosing
  <1>3. CASE \E period \in Periods : EnsureCurrent(period)
    BY <1>1, <1>3 DEF EnsureCurrent
  <1>4. ASSUME NEW j \in Rankings, NEW v \in Users, Join(j, v) PROVE participant'[k][u] # None
    BY <1>0, <1>4, JoinTyped
  <1>5. ASSUME NEW j \in Rankings, NEW ended, WriteRows(j, ended) PROVE participant'[k][u] # None
    <2>1. CASE j = k
      <3>1. participant'[k] = BuildRows(k, ended)
        BY <1>0, <1>5, <2>1 DEF WriteRows, TypeOK
      <3> QED BY <1>0, <3>1, BuildKeeps
    <2>2. CASE j # k
      BY <1>0, <1>5, <2>2, WriteRowsTyped
    <2> QED BY <2>1, <2>2
  <1>6. ASSUME NEW j \in Rankings, CloseRanking(j) PROVE participant'[k][u] # None
    BY <1>5, <1>6 DEF CloseRanking
  <1>7. ASSUME NEW p \in Processes, NEW j \in Rankings, Recalculate(p, j) PROVE participant'[k][u] # None
    BY <1>5, <1>7 DEF Recalculate
  <1>8. ASSUME NEW p \in Processes, RepairWrite(p) PROVE participant'[k][u] # None
    <2>1. CASE proc[p].mesa = k
      <3>1. participant'[k][u] = IF proc[p].rows[u] = None THEN participant[k][u] ELSE proc[p].rows[u]
        BY <1>0, <1>8, <2>1 DEF RepairWrite, TypeOK
      <3> QED BY <3>1
    <2>2. CASE proc[p].mesa # k
      BY <1>8, <2>2, RepairWriteTyped
    <2> QED BY <2>1, <2>2
  <1> QED BY <1>2, <1>3, <1>4, <1>6, <1>7, <1>8, WhoWrites

(* A repair works on the list it started with, and writes only rows of     *)
(* users who are in.                                                       *)
Repairs(q) ==
    /\ proc[q].at = "repairRead" => proc[q].mesa = None
    /\ proc[q].at = "repairWrite" =>
         /\ proc[q].mesa \in proc[q].list
         /\ \A u \in Users : proc[q].rows[u] # None => participant[proc[q].mesa][u] # None

LEMMA RepairsInit == Init => \A q \in Processes : Repairs(q)
  BY IdleIs DEF Init, Repairs
(* A step of p moves p alone; which steps lead to a recomputation, a       *)
(* backfill and a repair.                                                  *)
LEMMA ActsMove ==
  ASSUME RankingsAssumption, Typed, NEW p \in Processes, Acts(p)
  PROVE  /\ Moves(p, proc'[p])
         /\ proc'[p].at \in {"wipeSnapshots", "wipeHistory", "reset", "rebuild", "rebuildSnapshot"} =>
              \/ ReadScored(p) \/ WipeSnapshots(p) \/ WipeHistory(p) \/ ResetTotals(p)
              \/ RebuildRound(p) \/ RebuildSnapshot(p)
         /\ proc'[p].at = "backfill" =>
              \/ StartBackfill(p) \/ BackfillSnapshot(p) \/ \E u \in Users : BackfillTicket(p, u)
         /\ proc'[p].at \in {"repairRead", "repairWrite"} =>
              StartRepair(p) \/ RepairWrite(p) \/ \E k \in Rankings : RepairRead(p, k)
  <1>0. TypeOK
    BY DEF Typed
  <1>1. Only(p) => Moves(p, proc'[p])
    BY DEF Only, Moves, Aside
  <1>2. ASSUME NEW r \in Rounds, ScoreRound(p, r)
        PROVE  Moves(p, proc'[p]) /\ proc'[p].at = "list"
    BY <1>0, <1>2, ScoreMoves DEF Moves
  <1>3. ASSUME ListRankings(p) \/ \E k \in Rankings : Recalculate(p, k)
        PROVE  Moves(p, proc'[p]) /\ proc'[p].at = "recalculate"
    BY <1>0, <1>3, ListMoves, RecalculateMoves
  <1>4. ASSUME Finish(p) \/ Die(p)
        PROVE  Moves(p, proc'[p]) /\ proc'[p].at = "idle"
    BY <1>0, <1>1, <1>4, FinishMoves, DieMoves, IdleIs
  <1>5. ASSUME ReadScored(p)
        PROVE  Moves(p, proc'[p]) /\ proc'[p].at = "wipeSnapshots"
    BY <1>0, <1>5, ReadMoves
  <1>6. ASSUME WipeSnapshots(p) \/ WipeHistory(p) \/ ResetTotals(p)
        PROVE  Moves(p, proc'[p]) /\ proc'[p].at \in {"wipeHistory", "reset", "rebuild"}
    BY <1>0, <1>1, <1>6, WipeMoves
  <1>7. ASSUME RebuildRound(p)
        PROVE  Moves(p, proc'[p]) /\ proc'[p].at = "rebuildSnapshot"
    BY <1>1, <1>7, RebuildMoves
  <1>8. ASSUME RebuildSnapshot(p)
        PROVE  Moves(p, proc'[p]) /\ proc'[p].at \in {"rebuild", "list"}
    BY <1>0, <1>1, <1>8, RebuildSnapshotMoves
  <1>9. \A todo \in SUBSET Rounds : Backfilling(todo).at \in {"idle", "backfill"}
    BY BackfillingIs, IdleIs
  <1>10. ASSUME StartBackfill(p)
         PROVE  Moves(p, proc'[p]) /\ proc'[p].at \in {"idle", "backfill"}
    BY <1>0, <1>1, <1>9, <1>10, StartBackfillMoves
  <1>11. ASSUME BackfillSnapshot(p)
         PROVE  Moves(p, proc'[p]) /\ proc'[p].at \in {"idle", "backfill"}
    <2>1. PICK left \in SUBSET Rounds : Only(p) /\ proc'[p] = Backfilling(left)
      BY <1>11, BackfillSnapshotMoves
    <2> QED BY <1>1, <1>9, <2>1
  <1>12. ASSUME NEW u \in Users, BackfillTicket(p, u)
         PROVE  Moves(p, proc'[p]) /\ proc'[p].at = "backfill"
    BY <1>12, BackfillTicketMoves
  <1>13. ASSUME StartRepair(p) \/ RepairWrite(p)
         PROVE  Moves(p, proc'[p]) /\ proc'[p].at \in {"repairRead", "idle"}
    BY <1>0, <1>1, <1>13, StartRepairMoves, RepairWriteMoves
  <1>14. ASSUME NEW k \in Rankings, RepairRead(p, k)
         PROVE  Moves(p, proc'[p]) /\ proc'[p].at = "repairWrite"
    BY <1>0, <1>1, <1>14, RepairReadMoves
  <1> QED BY <1>2, <1>3, <1>4, <1>5, <1>6, <1>7, <1>8, <1>10, <1>11, <1>12, <1>13, <1>14 DEF Acts

(* A step moves one process or none.                                       *)
LEMMA WhoMoves ==
  ASSUME [Next]_vars
  PROVE  UNCHANGED proc \/ \E p \in Processes : Acts(p)
  <1>1. CASE UNCHANGED vars
    BY <1>1 DEF vars
  <1>2. CASE Next
    BY <1>2, NextIs DEF Tick, CloseRound, GenerateSnapshot, EnsureAtClosing, EnsureCurrent,
       EnsureMonthlyRankings, CloseRanking, Join
  <1> QED BY <1>1, <1>2

(* Every step keeps it.                                                    *)
LEMMA RepairsNext ==
  ASSUME RankingsAssumption, Typed, [Next]_vars, \A q \in Processes : Repairs(q)
  PROVE  \A q \in Processes : Repairs(q)'
  <1>1. ASSUME NEW q \in Processes, Aside(q) PROVE Repairs(q)'
    <2>1. proc[q].at = "repairWrite" => proc[q].mesa \in Rankings
      BY DEF Typed, Carries
    <2> QED BY <1>1, <2>1, ParticipantsStay DEF Repairs, Aside
  <1>2. UNCHANGED proc => \A q \in Processes : Aside(q)
    BY DEF Aside
  <1>3. ASSUME NEW p \in Processes, Acts(p) PROVE \A q \in Processes : Repairs(q)'
    <2>0. TypeOK
      BY DEF Typed
    <2>1. \A q \in Processes \ {p} : Repairs(q)'
      BY <1>1, <1>3, ActsMove DEF Moves
    <2>2. ASSUME StartRepair(p) PROVE Repairs(p)'
      BY <2>0, <2>2, StartRepairMoves DEF Repairs
    <2>3. ASSUME RepairWrite(p) PROVE Repairs(p)'
      BY <2>3, RepairWriteMoves DEF Repairs
    <2>4. ASSUME NEW k \in Rankings, RepairRead(p, k) PROVE Repairs(p)'
      <3>1. /\ proc'[p].at = "repairWrite" /\ proc'[p].mesa = k /\ k \in proc'[p].list
            /\ \A u \in Users : proc'[p].rows[u] = ReadRow(k, u)
        BY <2>0, <2>4, RepairReadMoves
      <3>2. \A u \in Users : proc'[p].rows[u] # None => BuildRows(k, TRUE)[u] # None
        BY <3>1 DEF ReadRow
      <3>3. \A u \in Users : proc'[p].rows[u] # None => participant[k][u] # None
        <4>1. ASSUME NEW u \in Users
              PROVE  BuildRows(k, TRUE)[u] = None <=> participant[k][u] = None
          BY <2>0, BuildKeeps, Zenon
        <4> QED BY <3>2, <4>1
      <3>4. UNCHANGED participant
        BY <2>4 DEF RepairRead, competitions
      <3> QED BY <3>1, <3>3, <3>4 DEF Repairs
    <2>5. proc'[p].at \notin {"repairRead", "repairWrite"} => Repairs(p)'
      BY DEF Repairs
    <2> QED BY <1>3, <2>1, <2>2, <2>3, <2>4, <2>5, ActsMove
  <1> QED BY <1>1, <1>2, <1>3, WhoMoves
(* What a step may do to the row of a participant of a closed ranking.     *)
LEMMA ClosedStep ==
  ASSUME RankingsAssumption, Typed, \A q \in Processes : Repairs(q), [Next]_vars,
         NEW k \in Rankings, NEW u \in Users, ranking[k] = "CLOSED", participant[k][u] # None,
         participant'[k][u] # participant[k][u]
  PROVE  \E p \in Processes : k \in proc[p].list
  <1>0. TypeOK
    BY DEF Typed
  <1>1. ASSUME NEW period \in Periods, NEW asOf, EnsureMonthlyRankings(period, asOf) PROVE FALSE
    BY <1>0, <1>1, EnsureTyped
  <1>2. CASE \E r \in Rounds : EnsureAtClosing(r)
    BY <1>1, <1>2 DEF EnsureAtClosing
  <1>3. CASE \E period \in Periods : EnsureCurrent(period)
    BY <1>1, <1>3 DEF EnsureCurrent
  <1>4. ASSUME NEW j \in Rankings, NEW v \in Users, Join(j, v) PROVE FALSE
    BY <1>0, <1>4, JoinTyped
  <1>5. ASSUME NEW j \in Rankings, NEW ended, WriteRows(j, ended) PROVE j = k
    BY <1>0, <1>5, WriteRowsTyped
  <1>6. ASSUME NEW j \in Rankings, CloseRanking(j) PROVE FALSE
    <2>1. j = k
      BY <1>5, <1>6 DEF CloseRanking
    <2> QED BY <1>6, <2>1 DEF CloseRanking, MayClose
  <1>7. ASSUME NEW p \in Processes, NEW j \in Rankings, Recalculate(p, j) PROVE k \in proc[p].list
    <2>1. j = k
      BY <1>5, <1>7 DEF Recalculate
    <2> QED BY <1>7, <2>1 DEF Recalculate
  <1>8. ASSUME NEW p \in Processes, RepairWrite(p) PROVE k \in proc[p].list
    <2>1. proc[p].mesa = k
      BY <1>8, RepairWriteTyped
    <2> QED BY <1>8, <2>1, RepairWriteMoves DEF Repairs
  <1> QED BY <1>2, <1>3, <1>4, <1>6, <1>7, <1>8, WhoWrites

(* The row of a participant of a closed ranking is written only by a       *)
(* recalculation that listed the ranking while it ran, or by a repair that *)
(* lists it, whatever else runs at the same time.                          *)
THEOREM ClosedStays == Spec => ClosedScoresStay
  <1> DEFINE IInv == Typed /\ \A q \in Processes : Repairs(q)
             Stays == \A k \in Rankings, u \in Users :
                        /\ ranking[k] = "CLOSED" /\ participant[k][u] # None
                        /\ participant'[k][u] # participant[k][u]
                        => \E p \in Processes : k \in proc[p].list
  <1>1. Init => IInv
    BY TypedInit, RepairsInit, RankingsAssumption
  <1>2. IInv /\ [Next]_vars => IInv'
    BY TypedNext, RepairsNext, RankingsAssumption, MatchCountAssumption
  <1>3. IInv /\ [Next]_vars => [Stays]_vars
    BY ClosedStep, RankingsAssumption
  <1> HIDE DEF IInv, Stays
  <1>4. Spec => [][Stays]_vars
    BY <1>1, <1>2, <1>3, PTL DEF Spec
  <1> QED BY <1>4 DEF Stays, ClosedScoresStay
(***************************************************************************)
(* Every row of the history.                                               *)
(***************************************************************************)

AllScored == {r \in Rounds : status[r] = "SCORED"}
(* A row belongs to a scored round its user has a ticket in, with the score *)
(* of that ticket.                                                         *)
RowSound(u, h, scored) ==
    h.round \in scored /\ u \in Players(h.round) /\ h.scoreRound = Scored(h.round, u).total
(* All rows of the history.                                                *)
RowsSound == \A u \in Users : \A i \in 1..Len(history[u]) : RowSound(u, history[u][i], AllScored)
(* Recomputations and backfills go through scored rounds.                  *)
Lists(q) ==
    /\ proc[q].at \in {"wipeSnapshots", "wipeHistory", "reset", "rebuild", "rebuildSnapshot"} =>
         proc[q].todo \subseteq proc[q].ids /\ proc[q].ids \subseteq AllScored
    /\ proc[q].at = "backfill" => proc[q].todo \subseteq AllScored
    /\ proc[q].at = "rebuildSnapshot" => proc[q].round \in proc[q].ids \ proc[q].todo
(* The rows, and what the processes are about to add to them.              *)
SoundRows == RowsSound /\ \A q \in Processes : Lists(q)

LEMMA SoundInit == Init => SoundRows
  BY IdleIs DEF Init, SoundRows, RowsSound, Lists

(* A scored round stays scored.                                            *)
LEMMA ScoredStays ==
  ASSUME TypeOK, [Next]_vars
  PROVE  /\ AllScored \subseteq AllScored'
         /\ (\A p \in Processes, r \in Rounds : ~ScoreRound(p, r)) => AllScored' = AllScored
  <1>1. CASE UNCHANGED status
    BY <1>1 DEF AllScored
  <1>2. ASSUME NEW r \in Rounds, CloseRound(r) PROVE AllScored' = AllScored
    BY <1>2 DEF CloseRound, AllScored, TypeOK
  <1>3. ASSUME NEW r \in Rounds, NEW p \in Processes, ScoreRound(p, r)
        PROVE  AllScored \subseteq AllScored'
    BY <1>3 DEF ScoreRound, AllScored, TypeOK
  <1>4. ASSUME NEW p \in Processes, Acts(p)
        PROVE  UNCHANGED status \/ \E r \in Rounds : ScoreRound(p, r)
    BY <1>4 DEF Acts, ListRankings, Recalculate, Finish, Die, ReadScored, WipeSnapshots, WipeHistory,
                ResetTotals, RebuildRound, RebuildSnapshot, StartBackfill, BackfillSnapshot,
                BackfillTicket, StartRepair, RepairRead, RepairWrite
  <1>5. CASE UNCHANGED vars
    BY <1>1, <1>5 DEF vars
  <1>6. CASE Next
    <2>1. \/ UNCHANGED status
          \/ \E r \in Rounds : CloseRound(r)
          \/ \E p \in Processes : Acts(p)
      BY <1>6, NextIs DEF Tick, GenerateSnapshot, EnsureAtClosing, EnsureCurrent,
         EnsureMonthlyRankings, CloseRanking, Join
    <2> QED BY <1>1, <1>2, <1>3, <1>4, <2>1
  <1> QED BY <1>5, <1>6

LEMMA ListsNext ==
  ASSUME RankingsAssumption, Typed, [Next]_vars, \A q \in Processes : Lists(q)
  PROVE  \A q \in Processes : Lists(q)'
  <1>0. TypeOK /\ AllScored \subseteq AllScored'
    BY ScoredStays DEF Typed
  <1>1. ASSUME NEW q \in Processes, Aside(q) PROVE Lists(q)'
    <2>1. /\ proc'[q].at = proc[q].at /\ proc'[q].todo = proc[q].todo
          /\ proc'[q].ids = proc[q].ids /\ proc'[q].round = proc[q].round
      BY <1>1 DEF Aside
    <2> QED BY <1>0, <2>1 DEF Lists
  <1>2. ASSUME NEW p \in Processes, Acts(p) PROVE \A q \in Processes : Lists(q)'
    <2>1. \A q \in Processes \ {p} : Lists(q)'
      BY <1>1, <1>2, ActsMove DEF Moves
    <2>2. ASSUME ReadScored(p) PROVE Lists(p)'
      <3>1. /\ proc'[p].at = "wipeSnapshots" /\ proc'[p].ids = AllScored /\ proc'[p].todo = AllScored
        BY <1>0, <2>2, ReadMoves DEF AllScored
      <3> QED BY <1>0, <3>1 DEF Lists
    <2>3. ASSUME WipeSnapshots(p) \/ WipeHistory(p) \/ ResetTotals(p) PROVE Lists(p)'
      <3>1. /\ proc[p].at \in {"wipeSnapshots", "wipeHistory", "reset"}
            /\ proc'[p].at \in {"wipeHistory", "reset", "rebuild"}
            /\ proc'[p].todo = proc[p].todo /\ proc'[p].ids = proc[p].ids
        BY <1>0, <2>3, WipeMoves
      <3> QED BY <1>0, <3>1 DEF Lists
    <2>4. ASSUME RebuildRound(p) PROVE Lists(p)'
      <3>1. /\ proc'[p].at = "rebuildSnapshot" /\ proc'[p].round \in proc[p].todo
            /\ proc'[p].todo = proc[p].todo \ {proc'[p].round} /\ proc'[p].ids = proc[p].ids
        BY <2>4, RebuildMoves
      <3>2. proc[p].at = "rebuild"
        BY <2>4 DEF RebuildRound
      <3> QED BY <1>0, <3>1, <3>2 DEF Lists
    <2>5. ASSUME RebuildSnapshot(p) PROVE Lists(p)'
      <3>1. \/ proc'[p].at = "list"
            \/ /\ proc'[p].at = "rebuild" /\ proc'[p].todo = proc[p].todo
               /\ proc'[p].ids = proc[p].ids
        BY <1>0, <2>5, RebuildSnapshotMoves
      <3>2. proc[p].at = "rebuildSnapshot"
        BY <2>5 DEF RebuildSnapshot
      <3> QED BY <1>0, <3>1, <3>2 DEF Lists
    <2>6. ASSUME NEW todo \in SUBSET AllScored, proc'[p] = Backfilling(todo) PROVE Lists(p)'
      <3>1. todo \in SUBSET Rounds
        BY DEF AllScored
      <3>2. CASE todo = {}
        <4>1. proc'[p].at = "idle"
          BY <2>6, <3>1, <3>2, BackfillingIs, IdleIs
        <4> QED BY <4>1 DEF Lists
      <3>3. CASE todo # {}
        <4>1. proc'[p].at = "backfill" /\ proc'[p].todo = todo
          BY <2>6, <3>1, <3>3, BackfillingIs
        <4> QED BY <1>0, <4>1 DEF Lists
      <3> QED BY <3>2, <3>3
    <2>7. ASSUME StartBackfill(p) PROVE Lists(p)'
      <3>1. proc'[p] = Backfilling(AllScored)
        BY <1>0, <2>7, StartBackfillMoves DEF AllScored
      <3> QED BY <2>6, <3>1
    <2>8. ASSUME BackfillSnapshot(p) PROVE Lists(p)'
      <3>1. proc'[p] = Backfilling(proc[p].todo \ {Min(proc[p].todo)})
        BY <2>8, BackfillSnapshotMoves
      <3>2. proc[p].todo \subseteq AllScored
        BY <2>8 DEF BackfillSnapshot, Lists
      <3> QED BY <2>6, <3>1, <3>2
    <2>9. ASSUME NEW u \in Users, BackfillTicket(p, u) PROVE Lists(p)'
      <3>1. proc[p].at = "backfill" /\ proc'[p].at = "backfill" /\ proc'[p].todo = proc[p].todo
        BY <2>9, BackfillTicketMoves
      <3> QED BY <1>0, <3>1 DEF Lists
    <2>10. \/ proc'[p].at \notin {"wipeSnapshots", "wipeHistory", "reset", "rebuild",
                                  "rebuildSnapshot", "backfill"}
           \/ ReadScored(p) \/ WipeSnapshots(p) \/ WipeHistory(p) \/ ResetTotals(p)
           \/ RebuildRound(p) \/ RebuildSnapshot(p)
           \/ StartBackfill(p) \/ BackfillSnapshot(p) \/ \E u \in Users : BackfillTicket(p, u)
      BY <1>2, ActsMove
    <2>11. proc'[p].at \notin {"wipeSnapshots", "wipeHistory", "reset", "rebuild",
                               "rebuildSnapshot", "backfill"} => Lists(p)'
      BY DEF Lists
    <2>12. Lists(p)'
      BY <2>2, <2>3, <2>4, <2>5, <2>7, <2>8, <2>9, <2>10, <2>11
    <2> QED BY <2>1, <2>12
  <1>3. UNCHANGED proc => \A q \in Processes : Aside(q)
    BY DEF Aside
  <1> QED BY <1>1, <1>2, <1>3, WhoMoves
(* The steps that write the history or the totals.                         *)
LEMMA WhoScores ==
  ASSUME [Next]_vars
  PROVE  \/ UNCHANGED scores
         \/ \E p \in Processes :
              \/ \E r \in Rounds : ScoreRound(p, r)
              \/ WipeHistory(p) \/ ResetTotals(p) \/ RebuildRound(p)
              \/ \E u \in Users : BackfillTicket(p, u)
  <1>1. CASE UNCHANGED vars
    BY <1>1 DEF vars, scores
  <1>2. CASE Next
    <2>1. ASSUME NEW p \in Processes, Acts(p)
          PROVE  \/ UNCHANGED scores
                 \/ \E r \in Rounds : ScoreRound(p, r)
                 \/ WipeHistory(p) \/ ResetTotals(p) \/ RebuildRound(p)
                 \/ \E u \in Users : BackfillTicket(p, u)
      BY <2>1 DEF Acts, ListRankings, Recalculate, Finish, Die, ReadScored, WipeSnapshots,
                  RebuildSnapshot, StartBackfill, BackfillSnapshot, StartRepair, RepairRead,
                  RepairWrite
    <2> QED BY <1>2, <2>1, NextIs DEF Tick, CloseRound, GenerateSnapshot, EnsureAtClosing,
               EnsureCurrent, EnsureMonthlyRankings, CloseRanking, Join
  <1> QED BY <1>1, <1>2

(* The history of one user after a round has been added.                   *)
LEMMA AddedRow ==
  ASSUME RankingsAssumption, MatchCountAssumption, TypeOK, NEW r \in Rounds, NEW last,
         AddRows(r, last), NEW u \in Users
  PROVE  /\ u \notin Players(r) => history'[u] = history[u] /\ scoreTotal'[u] = scoreTotal[u]
         /\ u \in Players(r) =>
              /\ Len(history[u]) \in Nat /\ Len(history'[u]) = Len(history[u]) + 1
              /\ \A i \in 1..Len(history[u]) : history'[u][i] = history[u][i]
              /\ scoreTotal'[u] = scoreTotal[u] + Scored(r, u).total
              /\ history'[u][Len(history[u]) + 1].round = r
              /\ history'[u][Len(history[u]) + 1].scoreRound = Scored(r, u).total
              /\ history'[u][Len(history[u]) + 1].scoreTotal = scoreTotal[u] + Scored(r, u).total
              /\ history'[u][Len(history[u]) + 1].doubles = last[u].doubles + Scored(r, u).doubles
              /\ history'[u][Len(history[u]) + 1].supers = last[u].supers + Scored(r, u).supers
  <1>1. history[u] \in Seq(HistoryRow) /\ scoreTotal[u] \in Int
    BY DEF TypeOK
  <1>2. /\ scoreTotal'[u] = scoreTotal[u] + Increment(r, u)
        /\ history'[u] = IF u \notin Players(r) THEN history[u]
             ELSE Append(history[u],
                 [round |-> r, scoreRound |-> Scored(r, u).total,
                  scoreTotal |-> scoreTotal[u] + Scored(r, u).total,
                  doubles |-> last[u].doubles + Scored(r, u).doubles,
                  supers |-> last[u].supers + Scored(r, u).supers])
    BY DEF AddRows
  <1>3. CASE u \notin Players(r)
    BY <1>1, <1>2, <1>3 DEF Increment
  <1>4. CASE u \in Players(r)
    <2> DEFINE row == [round |-> r, scoreRound |-> Scored(r, u).total,
                       scoreTotal |-> scoreTotal[u] + Scored(r, u).total,
                       doubles |-> last[u].doubles + Scored(r, u).doubles,
                       supers |-> last[u].supers + Scored(r, u).supers]
    <2>1. /\ row.round = r /\ row.scoreRound = Scored(r, u).total
          /\ row.scoreTotal = scoreTotal[u] + Scored(r, u).total
          /\ row.doubles = last[u].doubles + Scored(r, u).doubles
          /\ row.supers = last[u].supers + Scored(r, u).supers
      OBVIOUS
    <2>2. history'[u] = Append(history[u], row) /\ scoreTotal'[u] = scoreTotal[u] + Scored(r, u).total
      BY <1>2, <1>4 DEF Increment
    <2> HIDE DEF row
    <2>3. /\ Len(history[u]) \in Nat /\ Len(history'[u]) = Len(history[u]) + 1
          /\ \A i \in 1..Len(history[u]) : history'[u][i] = history[u][i]
          /\ history'[u][Len(history[u]) + 1] = row
      BY <1>1, <2>2
    <2> QED BY <1>4, <2>1, <2>2, <2>3
  <1> QED BY <1>3, <1>4

LEMMA AddRowsSound ==
  ASSUME RankingsAssumption, MatchCountAssumption, TypeOK, RowsSound, NEW r \in Rounds, NEW last,
         AddRows(r, last), AllScored \subseteq AllScored', r \in AllScored'
  PROVE  RowsSound'
  <1> SUFFICES ASSUME NEW u \in Users, NEW i \in 1..Len(history'[u])
               PROVE  RowSound(u, history'[u][i], AllScored')
    BY DEF RowsSound
  <1>1. \A j \in 1..Len(history[u]) : RowSound(u, history[u][j], AllScored')
    BY DEF RowsSound, RowSound
  <1>2. CASE u \notin Players(r)
    <2>1. history'[u] = history[u]
      BY <1>2, AddedRow
    <2> QED BY <1>1, <2>1
  <1>3. CASE u \in Players(r)
    <2>1. /\ Len(history[u]) \in Nat /\ Len(history'[u]) = Len(history[u]) + 1
          /\ \A j \in 1..Len(history[u]) : history'[u][j] = history[u][j]
          /\ history'[u][Len(history[u]) + 1].round = r
          /\ history'[u][Len(history[u]) + 1].scoreRound = Scored(r, u).total
      BY <1>3, AddedRow
    <2>2. CASE i = Len(history[u]) + 1
      BY <1>3, <2>1, <2>2 DEF RowSound
    <2>3. CASE i # Len(history[u]) + 1
      <3>1. i \in 1..Len(history[u])
        BY <2>1, <2>3
      <3> QED BY <1>1, <2>1, <3>1
    <2> QED BY <2>2, <2>3
  <1> QED BY <1>2, <1>3

LEMMA RowsNext ==
  ASSUME RankingsAssumption, MatchCountAssumption, Typed, [Next]_vars, SoundRows
  PROVE  RowsSound'
  <1>0. TypeOK /\ AllScored \subseteq AllScored' /\ RowsSound /\ \A q \in Processes : Lists(q)
    BY ScoredStays DEF Typed, SoundRows
  <1>1. CASE UNCHANGED history
    BY <1>0, <1>1 DEF RowsSound, RowSound
  <1>2. ASSUME NEW p \in Processes, NEW r \in Rounds, ScoreRound(p, r) PROVE RowsSound'
    <2>1. r \in AllScored'
      BY <1>0, <1>2 DEF ScoreRound, AllScored, TypeOK
    <2>2. AddRows(r, [u \in Users |-> LastByRound(u)])
      BY <1>2 DEF ScoreRound
    <2> QED BY <1>0, <2>1, <2>2, AddRowsSound
  <1>3. ASSUME NEW p \in Processes, WipeHistory(p) PROVE RowsSound'
    <2> SUFFICES ASSUME NEW u \in Users, NEW i \in 1..Len(history'[u])
                 PROVE  RowSound(u, history'[u][i], AllScored')
      BY DEF RowsSound
    <2>1. history'[u] = Without(history[u], proc[p].ids) /\ history[u] \in Seq(HistoryRow)
      BY <1>0, <1>3 DEF WipeHistory, TypeOK
    <2>2. PICK j \in 1..Len(history[u]) : history'[u][i] = history[u][j]
      <3>1. \A k \in 1..Len(Without(history[u], proc[p].ids)) : \E j \in 1..Len(history[u]) :
              /\ Without(history[u], proc[p].ids)[k] = history[u][j]
              /\ history[u][j].round \notin proc[p].ids
        BY <2>1, WithoutIs
      <3> QED BY <2>1, <3>1
    <2>3. RowSound(u, history[u][j], AllScored)
      BY <1>0 DEF RowsSound
    <2> QED BY <1>0, <2>2, <2>3 DEF RowSound
  <1>4. ASSUME NEW p \in Processes, ResetTotals(p) PROVE RowsSound'
    BY <1>1, <1>4 DEF ResetTotals
  <1>5. ASSUME NEW p \in Processes, RebuildRound(p) PROVE RowsSound'
    <2> DEFINE r == Min(proc[p].todo)
    <2>1. r \in proc[p].todo /\ r \in Rounds
      BY <1>5, RebuildMoves
    <2>2. r \in AllScored'
      BY <1>0, <1>5, <2>1 DEF RebuildRound, Lists
    <2>3. AddRows(r, [u \in Users |-> LastCreated(u)])
      BY <1>5 DEF RebuildRound
    <2> HIDE DEF r
    <2> QED BY <1>0, <2>1, <2>2, <2>3, AddRowsSound
  <1>6. ASSUME NEW p \in Processes, NEW v \in Users, BackfillTicket(p, v) PROVE RowsSound'
    <2> DEFINE r == Min(proc[p].todo)
               total == scoreTotal[v] + Scored(r, v).total
               row == [NoRow EXCEPT !.round = r, !.scoreTotal = total,
                                    !.scoreRound = Scored(r, v).total]
    <2>1. r \in proc[p].todo /\ v \in Players(r) /\ proc[p].at = "backfill"
      BY <1>6, BackfillTicketMoves
    <2>2. r \in AllScored
      BY <1>0, <2>1 DEF Lists
    <2>3. UNCHANGED history \/ history' = [history EXCEPT ![v] = Append(history[v], row)]
      BY <1>6 DEF BackfillTicket, scores
    <2>4. row.round = r /\ row.scoreRound = Scored(r, v).total
      BY DEF NoRow
    <2> HIDE DEF row, r
    <2>5. CASE history' = [history EXCEPT ![v] = Append(history[v], row)]
      <3> SUFFICES ASSUME NEW u \in Users, NEW i \in 1..Len(history'[u])
                   PROVE  RowSound(u, history'[u][i], AllScored')
        BY DEF RowsSound
      <3>1. \A j \in 1..Len(history[u]) : RowSound(u, history[u][j], AllScored')
        BY <1>0 DEF RowsSound, RowSound
      <3>2. history \in [Users -> Seq(HistoryRow)] /\ history[u] \in Seq(HistoryRow)
        BY <1>0 DEF TypeOK
      <3>3. CASE u # v
        <4>1. history'[u] = history[u]
          BY <2>5, <3>2, <3>3
        <4> QED BY <3>1, <4>1
      <3>4. CASE u = v
        <4>1. history'[u] = Append(history[u], row)
          BY <2>5, <3>2, <3>4
        <4>2. /\ Len(history[u]) \in Nat /\ Len(history'[u]) = Len(history[u]) + 1
              /\ \A j \in 1..Len(history[u]) : history'[u][j] = history[u][j]
              /\ history'[u][Len(history[u]) + 1] = row
          BY <3>2, <4>1
        <4>3. CASE i = Len(history[u]) + 1
          BY <1>0, <2>1, <2>2, <2>4, <3>4, <4>2, <4>3 DEF RowSound
        <4>4. CASE i # Len(history[u]) + 1
          <5>1. i \in 1..Len(history[u])
            BY <4>2, <4>4
          <5> QED BY <3>1, <4>2, <5>1
        <4> QED BY <4>3, <4>4
      <3> QED BY <3>3, <3>4
    <2> QED BY <1>1, <2>3, <2>5
  <1> QED BY <1>1, <1>2, <1>3, <1>4, <1>5, <1>6, WhoScores DEF scores

(* Whatever scores, recomputes or backfills, in whatever order and however *)
(* it is cut short, every row of the history holds the score the published *)
(* rule gives its ticket.                                                  *)
THEOREM HistoryFollows == Spec => []HistoryFollowsRule
  <1> DEFINE IInv == Typed /\ SoundRows
  <1>1. Init => IInv
    BY TypedInit, SoundInit, RankingsAssumption
  <1>2. IInv /\ [Next]_vars => IInv'
    <2> SUFFICES ASSUME IInv, [Next]_vars PROVE IInv'
      OBVIOUS
    <2>1. Typed'
      BY TypedNext, RankingsAssumption, MatchCountAssumption
    <2>2. RowsSound'
      BY RowsNext, RankingsAssumption, MatchCountAssumption
    <2>3. \A q \in Processes : Lists(q)'
      BY ListsNext, RankingsAssumption DEF SoundRows
    <2> QED BY <2>1, <2>2, <2>3 DEF SoundRows
  <1>3. IInv => HistoryFollowsRule
    <2> SUFFICES ASSUME Typed, SoundRows, NEW u \in Users, NEW h \in RowsOf(u)
                 PROVE  h.scoreRound = RuleScore(Ticket[h.round][u], Result[h.round])
      BY DEF HistoryFollowsRule
    <2>1. PICK i \in 1..Len(history[u]) : h = history[u][i]
      BY DEF RowsOf
    <2>2. RowSound(u, h, AllScored)
      BY <2>1 DEF SoundRows, RowsSound
    <2> QED BY <2>2, ScoredIs, RankingsAssumption, MatchCountAssumption DEF RowSound, AllScored
  <1> QED BY <1>1, <1>2, <1>3, PTL DEF Spec
(***************************************************************************)
(* What rounds are worth.                                                  *)
(***************************************************************************)

Mine(u, rs) == {r \in rs : u \in Players(r)}
(* What each round is worth to a user.                                     *)
TotalOf(u) == [r \in Rounds |-> Scored(r, u).total]
SupersOf(u) == [r \in Rounds |-> Scored(r, u).supers]
DoublesOf(u) == [r \in Rounds |-> Scored(r, u).doubles]

(* Worth as a sum over the rounds that were played.                        *)
LEMMA WorthSums ==
  ASSUME NEW u, NEW rs \in SUBSET Rounds
  PROVE  /\ IsFiniteSet(Mine(u, rs))
         /\ \A r \in Mine(u, rs) : /\ TotalOf(u)[r] = Scored(r, u).total /\ TotalOf(u)[r] \in Int
                                   /\ SupersOf(u)[r] = Scored(r, u).supers /\ SupersOf(u)[r] \in Int
                                   /\ DoublesOf(u)[r] = Scored(r, u).doubles /\ DoublesOf(u)[r] \in Int
         /\ Worth(u, rs).score = SumFunctionOnSet(TotalOf(u), Mine(u, rs))
         /\ Worth(u, rs).supers = SumFunctionOnSet(SupersOf(u), Mine(u, rs))
         /\ Worth(u, rs).doubles = SumFunctionOnSet(DoublesOf(u), Mine(u, rs))
         /\ Worth(u, rs).score \in Int /\ Worth(u, rs).supers \in Int /\ Worth(u, rs).doubles \in Int
  <1> DEFINE M == Mine(u, rs)
             f == [r \in M |-> Scored(r, u).total]
             g == [r \in M |-> Scored(r, u).supers]
             h == [r \in M |-> Scored(r, u).doubles]
  <1>1. IsFiniteSet(M) /\ M \subseteq Rounds /\ \A r \in M : u \in Players(r)
    <2>1. M \subseteq Rounds /\ IsFiniteSet(Rounds)
      BY RankingsAssumption DEF Mine
    <2> QED BY <2>1, FS_Subset DEF Mine
  <1>2. Worth(u, rs) = [score |-> SumFunction(f), supers |-> SumFunction(g), doubles |-> SumFunction(h)]
    BY DEF Worth, Mine
  <1>3. \A r \in M : /\ Scored(r, u).total \in Int /\ Scored(r, u).supers \in Int
                     /\ Scored(r, u).doubles \in Int
    <2> SUFFICES ASSUME NEW r \in M
                 PROVE  /\ Scored(r, u).total \in Int /\ Scored(r, u).supers \in Int
                        /\ Scored(r, u).doubles \in Int
      OBVIOUS
    <2>1. r \in Rounds /\ u \in Players(r)
      BY <1>1
    <2> HIDE DEF M
    <2> QED BY <2>1, ScoredIs, RankingsAssumption, MatchCountAssumption
  <1>4. \A r \in M : /\ f[r] = Scored(r, u).total /\ g[r] = Scored(r, u).supers
                     /\ h[r] = Scored(r, u).doubles
    OBVIOUS
  <1>5. SumFunction(f) = SumFunctionOnSet(f, M) /\ SumFunction(g) = SumFunctionOnSet(g, M)
        /\ SumFunction(h) = SumFunctionOnSet(h, M)
    BY DEF SumFunction
  <1>6. \A r \in M : /\ TotalOf(u)[r] = Scored(r, u).total /\ SupersOf(u)[r] = Scored(r, u).supers
                     /\ DoublesOf(u)[r] = Scored(r, u).doubles
    BY <1>1 DEF TotalOf, SupersOf, DoublesOf
  <1> HIDE DEF M, f, g, h
  <1>7. /\ SumFunctionOnSet(f, M) = SumFunctionOnSet(TotalOf(u), M)
        /\ SumFunctionOnSet(g, M) = SumFunctionOnSet(SupersOf(u), M)
        /\ SumFunctionOnSet(h, M) = SumFunctionOnSet(DoublesOf(u), M)
    <2>0. IsFiniteSet(M)
      BY <1>1
    <2>1. \A r \in M : f[r] = TotalOf(u)[r]
      BY <1>4, <1>6
    <2>2. \A r \in M : g[r] = SupersOf(u)[r]
      BY <1>4, <1>6
    <2>3. \A r \in M : h[r] = DoublesOf(u)[r]
      BY <1>4, <1>6
    <2>4. SumFunctionOnSet(f, M) = SumFunctionOnSet(TotalOf(u), M)
      BY <2>0, <2>1, SumSame
    <2>5. SumFunctionOnSet(g, M) = SumFunctionOnSet(SupersOf(u), M)
      BY <2>0, <2>2, SumSame
    <2>6. SumFunctionOnSet(h, M) = SumFunctionOnSet(DoublesOf(u), M)
      BY <2>0, <2>3, SumSame
    <2> QED BY <2>4, <2>5, <2>6
  <1>8. /\ SumFunctionOnSet(TotalOf(u), M) \in Int
        /\ SumFunctionOnSet(SupersOf(u), M) \in Int
        /\ SumFunctionOnSet(DoublesOf(u), M) \in Int
    BY <1>1, <1>3, <1>6, SumInt
  <1> QED BY <1>1, <1>2, <1>3, <1>5, <1>6, <1>7, <1>8 DEF M

(* Only the rounds a user plays count.                                     *)
LEMMA WorthMine ==
  ASSUME NEW u, NEW rs, NEW ts, Mine(u, rs) = Mine(u, ts)
  PROVE  Worth(u, rs) = Worth(u, ts)
  <1>1. {r \in rs : u \in Players(r)} = {r \in ts : u \in Players(r)}
    BY DEF Mine
  <1> QED BY <1>1 DEF Worth

(* Nobody earns anything where they did not play.                          *)
LEMMA WorthNone ==
  ASSUME NEW u, NEW rs \in SUBSET Rounds, Mine(u, rs) = {}
  PROVE  Worth(u, rs).score = 0 /\ Worth(u, rs).supers = 0 /\ Worth(u, rs).doubles = 0
  <1>1. /\ SumFunctionOnSet(TotalOf(u), {}) = 0 /\ SumFunctionOnSet(SupersOf(u), {}) = 0
        /\ SumFunctionOnSet(DoublesOf(u), {}) = 0
    BY SumEmpty
  <1>2. /\ Worth(u, rs).score = SumFunctionOnSet(TotalOf(u), Mine(u, rs))
        /\ Worth(u, rs).supers = SumFunctionOnSet(SupersOf(u), Mine(u, rs))
        /\ Worth(u, rs).doubles = SumFunctionOnSet(DoublesOf(u), Mine(u, rs))
    BY WorthSums
  <1> QED BY <1>1, <1>2

(* The worth of two sets of rounds that are apart.                         *)
LEMMA WorthJoin ==
  ASSUME NEW u, NEW rs \in SUBSET Rounds,
         NEW ts \in SUBSET Rounds, rs \cap ts = {}
  PROVE  /\ Worth(u, rs \cup ts).score = Worth(u, rs).score + Worth(u, ts).score
         /\ Worth(u, rs \cup ts).supers = Worth(u, rs).supers + Worth(u, ts).supers
         /\ Worth(u, rs \cup ts).doubles = Worth(u, rs).doubles + Worth(u, ts).doubles
  <1>1. /\ Mine(u, rs \cup ts) = Mine(u, rs) \cup Mine(u, ts)
        /\ Mine(u, rs) \cap Mine(u, ts) = {} /\ rs \cup ts \in SUBSET Rounds
    BY DEF Mine
  <1>2. /\ IsFiniteSet(Mine(u, rs)) /\ IsFiniteSet(Mine(u, ts))
        /\ \A r \in Mine(u, rs) \cup Mine(u, ts) :
             TotalOf(u)[r] \in Int /\ SupersOf(u)[r] \in Int /\ DoublesOf(u)[r] \in Int
    BY WorthSums
  <1>3. /\ SumFunctionOnSet(TotalOf(u), Mine(u, rs) \cup Mine(u, ts)) =
             SumFunctionOnSet(TotalOf(u), Mine(u, rs)) + SumFunctionOnSet(TotalOf(u), Mine(u, ts))
        /\ SumFunctionOnSet(SupersOf(u), Mine(u, rs) \cup Mine(u, ts)) =
             SumFunctionOnSet(SupersOf(u), Mine(u, rs)) + SumFunctionOnSet(SupersOf(u), Mine(u, ts))
        /\ SumFunctionOnSet(DoublesOf(u), Mine(u, rs) \cup Mine(u, ts)) =
             SumFunctionOnSet(DoublesOf(u), Mine(u, rs)) + SumFunctionOnSet(DoublesOf(u), Mine(u, ts))
    BY <1>1, <1>2, SumUnion
  <1>4. /\ Worth(u, rs).score = SumFunctionOnSet(TotalOf(u), Mine(u, rs))
        /\ Worth(u, rs).supers = SumFunctionOnSet(SupersOf(u), Mine(u, rs))
        /\ Worth(u, rs).doubles = SumFunctionOnSet(DoublesOf(u), Mine(u, rs))
        /\ Worth(u, ts).score = SumFunctionOnSet(TotalOf(u), Mine(u, ts))
        /\ Worth(u, ts).supers = SumFunctionOnSet(SupersOf(u), Mine(u, ts))
        /\ Worth(u, ts).doubles = SumFunctionOnSet(DoublesOf(u), Mine(u, ts))
    BY WorthSums
  <1>5. /\ Worth(u, rs \cup ts).score = SumFunctionOnSet(TotalOf(u), Mine(u, rs \cup ts))
        /\ Worth(u, rs \cup ts).supers = SumFunctionOnSet(SupersOf(u), Mine(u, rs \cup ts))
        /\ Worth(u, rs \cup ts).doubles = SumFunctionOnSet(DoublesOf(u), Mine(u, rs \cup ts))
    BY <1>1, WorthSums
  <1> QED BY <1>1, <1>3, <1>4, <1>5

(* The worth of a single round.                                            *)
LEMMA WorthOne ==
  ASSUME NEW u, NEW r \in Rounds, u \in Players(r)
  PROVE  /\ Worth(u, {r}).score = Scored(r, u).total /\ Worth(u, {r}).supers = Scored(r, u).supers
         /\ Worth(u, {r}).doubles = Scored(r, u).doubles
  <1>1. Mine(u, {r}) = {} \cup {r} /\ r \in Mine(u, {r}) /\ {r} \in SUBSET Rounds
    BY DEF Mine
  <1>2. /\ TotalOf(u)[r] = Scored(r, u).total /\ TotalOf(u)[r] \in Int
        /\ SupersOf(u)[r] = Scored(r, u).supers /\ SupersOf(u)[r] \in Int
        /\ DoublesOf(u)[r] = Scored(r, u).doubles /\ DoublesOf(u)[r] \in Int
    BY <1>1, WorthSums
  <1>3. IsFiniteSet({}) /\ r \notin {}
    BY FS_EmptySet
  <1>4. /\ SumFunctionOnSet(TotalOf(u), {} \cup {r}) = SumFunctionOnSet(TotalOf(u), {}) + TotalOf(u)[r]
        /\ SumFunctionOnSet(SupersOf(u), {} \cup {r}) = SumFunctionOnSet(SupersOf(u), {}) + SupersOf(u)[r]
        /\ SumFunctionOnSet(DoublesOf(u), {} \cup {r}) = SumFunctionOnSet(DoublesOf(u), {}) + DoublesOf(u)[r]
    BY <1>2, <1>3, SumAdd
  <1>5. /\ SumFunctionOnSet(TotalOf(u), {}) = 0 /\ SumFunctionOnSet(SupersOf(u), {}) = 0
        /\ SumFunctionOnSet(DoublesOf(u), {}) = 0
    BY SumEmpty
  <1>6. /\ Worth(u, {r}).score = SumFunctionOnSet(TotalOf(u), Mine(u, {r}))
        /\ Worth(u, {r}).supers = SumFunctionOnSet(SupersOf(u), Mine(u, {r}))
        /\ Worth(u, {r}).doubles = SumFunctionOnSet(DoublesOf(u), Mine(u, {r}))
    <2>1. PICK rs \in SUBSET Rounds : rs = {r}
      BY <1>1
    <2>2. /\ Worth(u, rs).score = SumFunctionOnSet(TotalOf(u), Mine(u, rs))
          /\ Worth(u, rs).supers = SumFunctionOnSet(SupersOf(u), Mine(u, rs))
          /\ Worth(u, rs).doubles = SumFunctionOnSet(DoublesOf(u), Mine(u, rs))
      BY WorthSums
    <2> QED BY <2>1, <2>2, Zenon
  <1>7. Mine(u, {r}) = {} \cup {r}
    BY <1>1
  <1>8. /\ Worth(u, {r}).score = SumFunctionOnSet(TotalOf(u), {} \cup {r})
        /\ Worth(u, {r}).supers = SumFunctionOnSet(SupersOf(u), {} \cup {r})
        /\ Worth(u, {r}).doubles = SumFunctionOnSet(DoublesOf(u), {} \cup {r})
    BY <1>6, <1>7, Zenon
  <1>9. \A n \in Int : 0 + n = n
    OBVIOUS
  <1> QED BY <1>2, <1>4, <1>5, <1>8, <1>9
(***************************************************************************)
(* The history of a user, when it holds the rounds S and no other.         *)
(***************************************************************************)

RoundsUpTo(u, i) == {history[u][j].round : j \in 1..i}
(* The totals of each row are those of the rounds up to it.                *)
Accumulates(u) ==
    \A i \in 1..Len(history[u]) :
        /\ history[u][i].scoreTotal = Worth(u, RoundsUpTo(u, i)).score
        /\ history[u][i].supers = Worth(u, RoundsUpTo(u, i)).supers
        /\ history[u][i].doubles = Worth(u, RoundsUpTo(u, i)).doubles
(* The history of u is that of the rounds S: a row for each that was       *)
(* played, none twice, the total is their worth and, where they are in     *)
(* order, so is each row.                                                  *)
Exact(u, S) ==
    /\ RoundsUpTo(u, Len(history[u])) = Mine(u, S)
    /\ \A i, j \in 1..Len(history[u]) : history[u][i].round = history[u][j].round => i = j
    /\ scoreTotal[u] = Worth(u, S).score
    /\ Ascending(u) => Accumulates(u)

(* A user's history when the round added is not one he plays.              *)
LEMMA ExactSame ==
  ASSUME NEW u \in Users, NEW S, NEW T, Exact(u, S), Mine(u, S) = Mine(u, T),
         history'[u] = history[u], scoreTotal'[u] = scoreTotal[u]
  PROVE  Exact(u, T)'
  <1>1. Worth(u, S) = Worth(u, T)
    BY WorthMine
  <1>2. \A i : RoundsUpTo(u, i)' = RoundsUpTo(u, i)
    BY DEF RoundsUpTo
  <1>3. Ascending(u)' <=> Ascending(u)
    BY DEF Ascending
  <1>4. Accumulates(u)' <=> Accumulates(u)
    BY <1>2 DEF Accumulates
  <1>5. Mine(u, T)' = Mine(u, T) /\ Worth(u, T)' = Worth(u, T)
    BY DEF Mine, Worth, Players, Scored
  <1> QED BY <1>1, <1>2, <1>3, <1>4, <1>5 DEF Exact

(* A round added to the history of a user, whose last row is continued.    *)
LEMMA ExactAdd ==
  ASSUME TypeOK, NEW r \in Rounds, NEW last,
         AddRows(r, last), NEW u \in Users, NEW S \in SUBSET Rounds, r \notin S, Exact(u, S),
         history[u] = <<>> => last[u].supers = 0 /\ last[u].doubles = 0,
         history[u] # <<>> /\ Ascending(u) => last[u] = history[u][Len(history[u])]
  PROVE  Exact(u, S \cup {r})'
  <1>1. CASE u \notin Players(r)
    <2>1. Mine(u, S) = Mine(u, S \cup {r})
      BY <1>1 DEF Mine
    <2>2. history'[u] = history[u] /\ scoreTotal'[u] = scoreTotal[u]
      BY <1>1, AddedRow, RankingsAssumption, MatchCountAssumption
    <2> QED BY <2>1, <2>2, ExactSame
  <1>2. CASE u \in Players(r)
    <2>0. PICK n : n = Len(history[u])
      OBVIOUS
    <2> DEFINE T == S \cup {r}
    <2>1. /\ n \in Nat /\ Len(history'[u]) = n + 1
          /\ \A i \in 1..n : history'[u][i] = history[u][i]
          /\ scoreTotal'[u] = scoreTotal[u] + Scored(r, u).total
          /\ history'[u][n + 1].round = r
          /\ history'[u][n + 1].scoreTotal = scoreTotal[u] + Scored(r, u).total
          /\ history'[u][n + 1].doubles = last[u].doubles + Scored(r, u).doubles
          /\ history'[u][n + 1].supers = last[u].supers + Scored(r, u).supers
      BY <1>2, <2>0, AddedRow, RankingsAssumption, MatchCountAssumption
    <2>2. Mine(u, T) = Mine(u, S) \cup {r} /\ r \notin Mine(u, S)
      BY <1>2 DEF Mine
    <2>3. /\ Worth(u, T).score = Worth(u, S).score + Scored(r, u).total
          /\ Worth(u, T).supers = Worth(u, S).supers + Scored(r, u).supers
          /\ Worth(u, T).doubles = Worth(u, S).doubles + Scored(r, u).doubles
      <3>1. {r} \in SUBSET Rounds /\ S \cap {r} = {}
        OBVIOUS
      <3>2. /\ Worth(u, T).score = Worth(u, S).score + Worth(u, {r}).score
            /\ Worth(u, T).supers = Worth(u, S).supers + Worth(u, {r}).supers
            /\ Worth(u, T).doubles = Worth(u, S).doubles + Worth(u, {r}).doubles
        <4>1. ASSUME NEW R \in SUBSET Rounds, S \cap R = {}
              PROVE  /\ Worth(u, S \cup R).score = Worth(u, S).score + Worth(u, R).score
                     /\ Worth(u, S \cup R).supers = Worth(u, S).supers + Worth(u, R).supers
                     /\ Worth(u, S \cup R).doubles = Worth(u, S).doubles + Worth(u, R).doubles
          BY <4>1, WorthJoin
        <4> QED BY <3>1, <4>1, Zenon DEF T
      <3>3. /\ Worth(u, {r}).score = Scored(r, u).total /\ Worth(u, {r}).supers = Scored(r, u).supers
            /\ Worth(u, {r}).doubles = Scored(r, u).doubles
        BY <1>2, WorthOne
      <3> HIDE DEF T
      <3> QED BY <3>2, <3>3
    <2>4. /\ Mine(u, T)' = Mine(u, T) /\ \A X : Worth(u, X)' = Worth(u, X)
      BY DEF Mine, Worth, Players, Scored
    <2>5. \A i \in 1..n : RoundsUpTo(u, i)' = RoundsUpTo(u, i)
      <3> SUFFICES ASSUME NEW i \in 1..n PROVE RoundsUpTo(u, i)' = RoundsUpTo(u, i)
        OBVIOUS
      <3>1. \A j \in 1..i : history'[u][j] = history[u][j]
        BY <2>1
      <3>2. RoundsUpTo(u, i)' = {history'[u][j].round : j \in 1..i}
        BY DEF RoundsUpTo
      <3>3. RoundsUpTo(u, i) = {history[u][j].round : j \in 1..i}
        BY DEF RoundsUpTo
      <3>4. {history'[u][j].round : j \in 1..i} = {history[u][j].round : j \in 1..i}
        BY <3>1
      <3> QED BY <3>2, <3>3, <3>4, Zenon
    <2>6. RoundsUpTo(u, n + 1)' = Mine(u, T)
      <3>1. RoundsUpTo(u, n) = Mine(u, S)
        BY <2>0 DEF Exact
      <3>2. 1..(n + 1) = (1..n) \cup {n + 1}
        BY <2>1
      <3>3. RoundsUpTo(u, n + 1)' = {history[u][j].round : j \in 1..n} \cup {r}
        <4>1. RoundsUpTo(u, n + 1)' = {history'[u][j].round : j \in 1..(n + 1)}
          BY DEF RoundsUpTo
        <4>2. \A j \in 1..n : history'[u][j].round = history[u][j].round
          BY <2>1
        <4>3. /\ \A j \in 1..(n + 1) : j \in 1..n \/ j = n + 1
              /\ \A j \in 1..n : j \in 1..(n + 1)
              /\ n + 1 \in 1..(n + 1)
          BY <2>1
        <4>4. \A x : (\E j \in 1..(n + 1) : x = history'[u][j].round) <=>
                       (\E j \in 1..n : x = history[u][j].round) \/ x = r
          BY <2>1, <4>2, <4>3
        <4>5. {history'[u][j].round : j \in 1..(n + 1)} = {history[u][j].round : j \in 1..n} \cup {r}
          BY <4>4
        <4> QED BY <4>1, <4>5, Zenon
      <3> QED BY <2>2, <3>1, <3>3 DEF RoundsUpTo
    <2>7. \A i, j \in 1..(n + 1) : history'[u][i].round = history'[u][j].round => i = j
      <3>1. \A i \in 1..n : history[u][i].round \in Mine(u, S)
        BY <2>0 DEF Exact, RoundsUpTo
      <3>2. \A i \in 1..(n + 1) : i \in 1..n \/ i = n + 1
        BY <2>1
      <3>3. \A i, j \in 1..n : history[u][i].round = history[u][j].round => i = j
        BY <2>0 DEF Exact
      <3> SUFFICES ASSUME NEW i \in 1..(n + 1), NEW j \in 1..(n + 1),
                          history'[u][i].round = history'[u][j].round
                   PROVE  i = j
        OBVIOUS
      <3>4. CASE i \in 1..n /\ j \in 1..n
        BY <2>1, <3>3, <3>4
      <3>5. CASE i \in 1..n /\ j = n + 1
        BY <2>1, <2>2, <3>1, <3>5
      <3>6. CASE i = n + 1 /\ j \in 1..n
        BY <2>1, <2>2, <3>1, <3>6
      <3> QED BY <3>2, <3>4, <3>5, <3>6
    <2>8. scoreTotal'[u] = Worth(u, T).score
      BY <2>1, <2>3 DEF Exact
    <2>9. ASSUME Ascending(u)' PROVE Accumulates(u)'
      <3>1. Ascending(u)
        <4>1. \A i \in 1..n : i \in 1..(n + 1)
          BY <2>1
        <4> QED BY <2>0, <2>1, <2>9, <4>1 DEF Ascending
      <3>2. Accumulates(u)
        BY <3>1 DEF Exact
      <3>3. \A i \in 1..n :
              /\ history'[u][i].scoreTotal = Worth(u, RoundsUpTo(u, i)').score
              /\ history'[u][i].supers = Worth(u, RoundsUpTo(u, i)').supers
              /\ history'[u][i].doubles = Worth(u, RoundsUpTo(u, i)').doubles
        BY <2>0, <2>1, <2>5, <3>2 DEF Accumulates
      <3>4. Worth(u, Mine(u, T)) = Worth(u, T)
        <4>1. Mine(u, Mine(u, T)) = Mine(u, T)
          BY DEF Mine
        <4> QED BY <4>1, WorthMine
      <3>5. last[u].supers = Worth(u, S).supers /\ last[u].doubles = Worth(u, S).doubles
        <4>1. RoundsUpTo(u, n) = Mine(u, S)
          BY <2>0 DEF Exact
        <4>2. CASE history[u] = <<>>
          <5>1. Mine(u, S) = {}
            BY <2>0, <4>1, <4>2 DEF RoundsUpTo
          <5> QED BY <4>2, <5>1, WorthNone
        <4>3. CASE history[u] # <<>>
          <5>1. n \in 1..n
            <6>1. history[u] \in Seq(HistoryRow)
              BY DEF TypeOK
            <6> QED BY <2>0, <2>1, <4>3, <6>1
          <5>2. last[u] = history[u][n]
            BY <2>0, <3>1, <4>3
          <5>3. Worth(u, Mine(u, S)) = Worth(u, S)
            <6>1. Mine(u, Mine(u, S)) = Mine(u, S)
              BY DEF Mine
            <6> QED BY <6>1, WorthMine
          <5>4. /\ history[u][n].supers = Worth(u, RoundsUpTo(u, n)).supers
                /\ history[u][n].doubles = Worth(u, RoundsUpTo(u, n)).doubles
            BY <2>0, <3>2, <5>1 DEF Accumulates
          <5>5. Worth(u, RoundsUpTo(u, n)) = Worth(u, S)
            BY <4>1, <5>3, Zenon
          <5> QED BY <5>2, <5>4, <5>5
        <4> QED BY <4>2, <4>3
      <3>6. /\ history'[u][n + 1].scoreTotal = Worth(u, RoundsUpTo(u, n + 1)').score
            /\ history'[u][n + 1].supers = Worth(u, RoundsUpTo(u, n + 1)').supers
            /\ history'[u][n + 1].doubles = Worth(u, RoundsUpTo(u, n + 1)').doubles
        BY <2>1, <2>3, <2>6, <3>4, <3>5 DEF Exact
      <3>7. \A i \in 1..(n + 1) : i \in 1..n \/ i = n + 1
        BY <2>1
      <3> HIDE DEF T
      <3> QED BY <2>1, <2>4, <3>3, <3>6, <3>7 DEF Accumulates
    <2> HIDE DEF T
    <2>10. Exact(u, T)'
      BY <2>1, <2>4, <2>6, <2>7, <2>8, <2>9 DEF Exact
    <2> QED BY <2>10 DEF T
  <1> QED BY <1>1, <1>2
(* The row a scoring and a recomputation continue.                         *)
LEMMA LastRows ==
  ASSUME TypeOK, NEW u \in Users
  PROVE  /\ history[u] = <<>> => /\ LastByRound(u).supers = 0 /\ LastByRound(u).doubles = 0
                                 /\ LastCreated(u).supers = 0 /\ LastCreated(u).doubles = 0
         /\ history[u] # <<>> => LastCreated(u) = history[u][Len(history[u])]
         /\ history[u] # <<>> /\ Ascending(u) => LastByRound(u) = history[u][Len(history[u])]
  <1>1. history[u] \in Seq(HistoryRow)
    BY DEF TypeOK
  <1>2. NoRow.supers = 0 /\ NoRow.doubles = 0
    BY DEF NoRow
  <1>3. CASE history[u] = <<>>
    <2>1. RowsOf(u) = {}
      BY <1>3 DEF RowsOf
    <2> QED BY <1>2, <1>3, <2>1 DEF LastByRound, LatestByNumber, LastCreated
  <1>4. CASE history[u] # <<>>
    <2>0. PICK n : n = Len(history[u])
      OBVIOUS
    <2>1. n \in Nat /\ n \in 1..n /\ \A i \in 1..n : history[u][i] \in HistoryRow
      BY <1>1, <1>4, <2>0
    <2>2. LastCreated(u) = history[u][n]
      BY <1>4, <2>0 DEF LastCreated
    <2>3. ASSUME Ascending(u) PROVE LastByRound(u) = history[u][n]
      <3>1. RowsOf(u) \in SUBSET HistoryRow /\ IsFiniteSet(RowsOf(u)) /\ history[u][n] \in RowsOf(u)
        BY <1>1, <2>0, <2>1, RowsAre
      <3>2. /\ LastByRound(u) \in RowsOf(u)
            /\ history[u][n].round <= LastByRound(u).round
        BY <3>1, LatestIs, RankingsAssumption DEF LastByRound
      <3>3. PICK i \in 1..n : LastByRound(u) = history[u][i]
        BY <2>0, <3>2 DEF RowsOf
      <3>4. \A j \in 1..n : history[u][j].round \in Int
        <4>1. \A h \in HistoryRow : h.round \in Rounds
          BY DEF HistoryRow
        <4>2. \A r \in Rounds : r \in Int
          BY RankingsAssumption
        <4> QED BY <2>1, <4>1, <4>2
      <3>5. i < n => history[u][i].round < history[u][n].round
        BY <2>0, <2>1, <2>3 DEF Ascending
      <3> QED BY <2>1, <3>2, <3>3, <3>4, <3>5
    <2> QED BY <1>4, <2>0, <2>2, <2>3
  <1> QED BY <1>3, <1>4

(***************************************************************************)
(* What is known of the history at each moment of a recomputation: until   *)
(* one that runs alone has ended it holds the rounds gone through so far;  *)
(* when none runs and none was cut short, all the scored ones.             *)
(***************************************************************************)
Alone(p) == Rebuilding(p) /\ proc[p].clean
Rebuilt(S) == \A u \in Users : Exact(u, S)
Done(p) == proc[p].ids \ proc[p].todo
Repair(p) ==
    /\ Rebuilding(p) /\ ~proc[p].clean => torn
    /\ Alone(p) =>
         /\ \A q \in Processes \ {p} : ~Rebuilding(q)
         /\ proc[p].ids = AllScored
         /\ proc[p].at \in {"wipeSnapshots", "wipeHistory", "reset"} => proc[p].todo = proc[p].ids
         /\ proc[p].at = "reset" => \A u \in Users : history[u] = <<>>
         /\ proc[p].at \in {"rebuild", "rebuildSnapshot"} =>
              \A S \in SUBSET Rounds : S = Done(p) => Rebuilt(S)
         /\ proc[p].at = "rebuild" => \A x \in Done(p), y \in proc[p].todo : x < y
         /\ proc[p].at = "rebuildSnapshot" =>
              Done(p) = {x \in proc[p].ids : x <= proc[p].round}
Kept == Quiet => \A S \in SUBSET Rounds : S = AllScored => Rebuilt(S)
HistoryHolds == Kept /\ \A p \in Processes : Repair(p)

(* The history of nobody.                                                  *)
LEMMA ExactEmpty ==
  ASSUME NEW u \in Users, history[u] = <<>>, scoreTotal[u] = 0
  PROVE  Exact(u, {})
  <1>1. Mine(u, {}) = {} /\ {} \in SUBSET Rounds
    BY DEF Mine
  <1>2. Worth(u, {}).score = 0
    BY <1>1, WorthNone
  <1>3. RoundsUpTo(u, Len(history[u])) = {}
    BY DEF RoundsUpTo
  <1>4. \A i \in 1..Len(history[u]) : FALSE
    OBVIOUS
  <1>5. RoundsUpTo(u, Len(history[u])) = Mine(u, {}) /\ scoreTotal[u] = Worth(u, {}).score
    BY <1>1, <1>2, <1>3, Zenon
  <1> QED BY <1>4, <1>5 DEF Exact, Accumulates

LEMMA HoldsInit == Init => HistoryHolds
  <1> SUFFICES ASSUME Init PROVE HistoryHolds
    OBVIOUS
  <1>1. \A p \in Processes : ~Rebuilding(p)
    BY IdleIs DEF Init, Rebuilding
  <1>2. \A p \in Processes : Repair(p)
    BY <1>1 DEF Repair, Alone
  <1>3. AllScored = {}
    BY DEF Init, AllScored
  <1>4. \A u \in Users : Exact(u, {})
    BY ExactEmpty DEF Init
  <1> QED BY <1>2, <1>3, <1>4 DEF HistoryHolds, Kept, Rebuilt

(* Steps that leave the scores as they are.                                *)
LEMMA RebuiltSame ==
  ASSUME UNCHANGED scores, NEW S
  PROVE  Rebuilt(S)' <=> Rebuilt(S)
  <1>1. UNCHANGED <<history, scoreTotal>>
    BY DEF scores
  <1> QED BY <1>1 DEF Rebuilt, Exact, RoundsUpTo, Accumulates, Ascending

(* A process that takes no part in a recomputation does not disturb one.   *)
LEMMA HoldsAside ==
  ASSUME HistoryHolds, UNCHANGED <<scores, torn>>, AllScored' = AllScored,
         \A q \in Processes : Rebuilding(q)' <=> Rebuilding(q),
         \A q \in Processes : Rebuilding(q) => Aside(q) /\ proc'[q].clean = proc[q].clean
  PROVE  HistoryHolds'
  <1>1. Kept'
    <2>1. Quiet' => Quiet
      BY DEF Quiet
    <2> QED BY <2>1, RebuiltSame DEF HistoryHolds, Kept
  <1>2. ASSUME NEW p \in Processes, Rebuilding(p)' PROVE Repair(p)'
    <2>1. Rebuilding(p) /\ Repair(p) /\ Aside(p) /\ proc'[p].clean = proc[p].clean
      BY <1>2 DEF HistoryHolds
    <2>2. UNCHANGED history
      BY DEF scores
    <2> QED BY <2>1, <2>2, RebuiltSame DEF Repair, Alone, Aside, Done
  <1>3. \A p \in Processes : ~Rebuilding(p)' => Repair(p)'
    BY DEF Repair, Alone
  <1> QED BY <1>1, <1>2, <1>3 DEF HistoryHolds

(* Once it is known that a recomputation was disturbed, nothing more is    *)
(* claimed until one has run alone.                                        *)
LEMMA HoldsTorn ==
  ASSUME torn', \A q \in Processes : ~Alone(q)'
  PROVE  HistoryHolds'
  BY DEF HistoryHolds, Kept, Quiet, Repair
(* A round is scored.                                                      *)
LEMMA HoldsScore ==
  ASSUME Typed, HistoryHolds, NEW p \in Processes, NEW r \in Rounds, ScoreRound(p, r)
  PROVE  HistoryHolds'
  <1>0. TypeOK /\ torn \in BOOLEAN /\ r \notin AllScored /\ ~Rebuilding(p)
    BY DEF Typed, TypeOK, ScoreRound, AllScored, Rebuilding
  <1>1. /\ proc'[p].at = "list"
        /\ \A q \in Processes \ {p} : /\ proc'[q].at = proc[q].at
                                      /\ proc'[q].clean <=> proc[q].clean /\ ~Rebuilding(q)
    BY <1>0, ScoreMoves DEF Moves, Aside
  <1>2. ~Rebuilding(p)' /\ \A q \in Processes \ {p} : Rebuilding(q)' <=> Rebuilding(q)
    BY <1>1 DEF Rebuilding
  <1>3. torn' <=> torn \/ \E q \in Processes : Rebuilding(q)
    BY DEF ScoreRound
  <1>4. \A q \in Processes : ~Alone(q)'
    BY <1>1, <1>2 DEF Alone
  <1>5. CASE torn'
    BY <1>4, <1>5, HoldsTorn
  <1>6. CASE ~torn'
    <2>1. Quiet
      BY <1>3, <1>6 DEF Quiet
    <2>2. PICK S \in SUBSET Rounds : S = AllScored
      BY DEF AllScored
    <2>3. PICK last : last = [u \in Users |-> LastByRound(u)]
      OBVIOUS
    <2>4. AddRows(r, last)
      BY <2>3 DEF ScoreRound
    <2>5. ASSUME NEW u \in Users PROVE Exact(u, S \cup {r})'
      <3>1. Exact(u, S)
        BY <2>1, <2>2 DEF HistoryHolds, Kept, Rebuilt
      <3>2. /\ history[u] = <<>> => last[u].supers = 0 /\ last[u].doubles = 0
            /\ history[u] # <<>> /\ Ascending(u) => last[u] = history[u][Len(history[u])]
        BY <1>0, <2>3, LastRows
      <3>3. r \notin S
        BY <1>0, <2>2
      <3> QED BY <1>0, <2>4, <3>1, <3>2, <3>3, ExactAdd
    <2>6. AllScored' = S \cup {r}
      <3>1. status' = [status EXCEPT ![r] = "SCORED"] /\ DOMAIN status = Rounds
        BY <1>0 DEF ScoreRound, TypeOK
      <3> QED BY <2>2, <3>1 DEF AllScored
    <2>7. ASSUME NEW T \in SUBSET Rounds, T = AllScored' PROVE Rebuilt(T)'
      <3>1. T = S \cup {r}
        BY <2>6, <2>7
      <3>2. \A u \in Users : Exact(u, T)'
        BY <2>5, <3>1, Zenon
      <3> QED BY <3>2 DEF Rebuilt
    <2>8. Kept'
      BY <2>7 DEF Kept
    <2>9. \A q \in Processes : ~Rebuilding(q)'
      BY <1>2, <1>3, <1>6
    <2> QED BY <2>8, <2>9 DEF HistoryHolds, Repair, Alone
  <1> QED BY <1>5, <1>6

(* A recomputation begins.                                                 *)
LEMMA HoldsRead ==
  ASSUME Typed, HistoryHolds, NEW p \in Processes, ReadScored(p)
  PROVE  HistoryHolds'
  <1>0. TypeOK /\ torn \in BOOLEAN
    BY DEF Typed, TypeOK
  <1>1. /\ proc'[p].at = "wipeSnapshots" /\ proc'[p].ids = AllScored /\ proc'[p].todo = AllScored
        /\ proc'[p].clean <=> ~Overlapped(p)
        /\ \A q \in Processes \ {p} : /\ proc'[q].at = proc[q].at
                                      /\ proc'[q].clean <=> proc[q].clean /\ ~Rebuilding(q)
    BY <1>0, ReadMoves DEF Moves, Aside, AllScored
  <1>2. Rebuilding(p)' /\ \A q \in Processes \ {p} : Rebuilding(q)' <=> Rebuilding(q)
    BY <1>1 DEF Rebuilding
  <1>3. /\ torn' <=> torn \/ Overlapped(p)
        /\ UNCHANGED status
    BY DEF ReadScored
  <1>4. \A q \in Processes \ {p} : ~Alone(q)'
    BY <1>1, <1>2 DEF Alone
  <1>5. CASE Overlapped(p)
    <2>1. ~Alone(p)' /\ torn'
      BY <1>1, <1>3, <1>5 DEF Alone
    <2> QED BY <1>4, <2>1, HoldsTorn
  <1>6. CASE ~Overlapped(p)
    <2>1. \A q \in Processes \ {p} : ~Rebuilding(q)'
      BY <1>2, <1>6 DEF Overlapped
    <2>2. AllScored' = AllScored
      BY <1>3 DEF AllScored
    <2>3. Repair(p)'
      BY <1>1, <1>6, <2>1, <2>2 DEF Repair, Alone
    <2>4. \A q \in Processes \ {p} : Repair(q)'
      BY <2>1 DEF Repair, Alone
    <2>5. Kept'
      BY <1>2 DEF Kept, Quiet
    <2> QED BY <2>3, <2>4, <2>5 DEF HistoryHolds
  <1> QED BY <1>5, <1>6

(* A recomputation that runs alone takes a step and goes on.               *)
LEMMA HoldsOn ==
  ASSUME HistoryHolds, NEW p \in Processes, Only(p), Rebuilding(p), Rebuilding(p)',
         proc'[p].clean = proc[p].clean, UNCHANGED torn, Alone(p) => Repair(p)'
  PROVE  HistoryHolds'
  <1>1. Kept'
    BY DEF Kept, Quiet
  <1>2. Repair(p)'
    <2>1. CASE Alone(p)
      BY <2>1
    <2>2. CASE ~Alone(p)
      BY <2>2 DEF HistoryHolds, Repair, Alone
    <2> QED BY <2>1, <2>2
  <1>3. ASSUME NEW q \in Processes \ {p}, Rebuilding(q)' PROVE Repair(q)'
    <2>1. proc'[q] = proc[q] /\ Rebuilding(q) /\ Repair(q)
      BY <1>3 DEF Only, Rebuilding, HistoryHolds
    <2>2. ~Alone(q)
      BY <2>1 DEF Repair
    <2> QED BY <2>1, <2>2 DEF Repair, Alone
  <1>4. \A q \in Processes : ~Rebuilding(q)' => Repair(q)'
    BY DEF Repair, Alone
  <1> QED BY <1>1, <1>2, <1>3, <1>4 DEF HistoryHolds

(* The history of a user whose rows were deleted and total reset.          *)
LEMMA ExactEmptied ==
  ASSUME NEW u \in Users, history'[u] = <<>>, scoreTotal'[u] = 0
  PROVE  Exact(u, {})'
  <1>1. Mine(u, {}) = {} /\ {} \in SUBSET Rounds
    BY DEF Mine
  <1>2. Worth(u, {}).score = 0
    BY <1>1, WorthNone
  <1>3. RoundsUpTo(u, Len(history[u]))' = {}
    BY DEF RoundsUpTo
  <1>4. \A i \in 1..Len(history'[u]) : FALSE
    OBVIOUS
  <1>5. Mine(u, {})' = {} /\ Worth(u, {})' = Worth(u, {})
    BY <1>1 DEF Mine, Worth, Players, Scored
  <1>6. RoundsUpTo(u, Len(history[u]))' = Mine(u, {})' /\ scoreTotal'[u] = Worth(u, {})'.score
    BY <1>2, <1>3, <1>5, Zenon
  <1> QED BY <1>4, <1>6 DEF Exact, Accumulates

(* The history is deleted and the totals are set to zero.                  *)
LEMMA HoldsWipe ==
  ASSUME Typed, SoundRows, HistoryHolds, NEW p \in Processes,
         WipeSnapshots(p) \/ WipeHistory(p) \/ ResetTotals(p)
  PROVE  HistoryHolds'
  <1>0. TypeOK
    BY DEF Typed
  <1>1. /\ Only(p) /\ proc'[p].todo = proc[p].todo /\ proc'[p].ids = proc[p].ids
        /\ proc'[p].clean = proc[p].clean
        /\ WipeSnapshots(p) => proc[p].at = "wipeSnapshots" /\ proc'[p].at = "wipeHistory"
        /\ WipeHistory(p) => proc[p].at = "wipeHistory" /\ proc'[p].at = "reset"
        /\ ResetTotals(p) => proc[p].at = "reset" /\ proc'[p].at = "rebuild"
    BY <1>0, WipeMoves
  <1>2. Rebuilding(p) /\ Rebuilding(p)'
    BY <1>1 DEF Rebuilding
  <1>3. UNCHANGED <<status, torn>>
    BY DEF WipeSnapshots, WipeHistory, ResetTotals
  <1>4. AllScored' = AllScored
    BY <1>3 DEF AllScored
  <1>5. ASSUME Alone(p) PROVE Repair(p)'
    <2>1. /\ \A q \in Processes \ {p} : ~Rebuilding(q)
          /\ proc[p].ids = AllScored
          /\ proc[p].todo = proc[p].ids
          /\ proc[p].at = "reset" => \A u \in Users : history[u] = <<>>
      BY <1>1, <1>5 DEF HistoryHolds, Repair
    <2>2. \A q \in Processes \ {p} : ~Rebuilding(q)'
      BY <1>1, <2>1 DEF Only, Rebuilding
    <2>3. CASE WipeSnapshots(p)
      BY <1>1, <1>4, <1>5, <2>1, <2>2, <2>3 DEF Repair, Alone
    <2>4. CASE WipeHistory(p)
      <3>1. ASSUME NEW u \in Users PROVE history'[u] = <<>>
        <4>1. history[u] \in Seq(HistoryRow) /\ history'[u] = Without(history[u], proc[p].ids)
          BY <1>0, <2>4 DEF TypeOK, WipeHistory
        <4>2. /\ Without(history[u], proc[p].ids) \in Seq(HistoryRow)
              /\ \A i \in 1..Len(Without(history[u], proc[p].ids)) :
                   \E j \in 1..Len(history[u]) :
                     /\ Without(history[u], proc[p].ids)[i] = history[u][j]
                     /\ history[u][j].round \notin proc[p].ids
          BY <4>1, WithoutIs
        <4>3. \A j \in 1..Len(history[u]) : history[u][j].round \in proc[p].ids
          BY <2>1 DEF SoundRows, RowsSound, RowSound
        <4>4. ~ (1 \in 1..Len(Without(history[u], proc[p].ids)))
          BY <4>2, <4>3
        <4> HIDE DEF HistoryRow
        <4> QED BY <4>1, <4>2, <4>4
      <3> QED BY <1>1, <1>4, <1>5, <2>1, <2>2, <2>4, <3>1 DEF Repair, Alone
    <2>5. CASE ResetTotals(p)
      <3>1. ASSUME NEW u \in Users PROVE Exact(u, {})'
        <4>1. history'[u] = <<>> /\ scoreTotal'[u] = 0
          BY <1>1, <2>1, <2>5 DEF ResetTotals
        <4> QED BY <4>1, ExactEmptied
      <3>2. Done(p)' = {}
        BY <1>1, <2>1 DEF Done
      <3>3. \A S \in SUBSET Rounds : S = Done(p)' => Rebuilt(S)'
        BY <3>1, <3>2 DEF Rebuilt
      <3> QED BY <1>1, <1>4, <1>5, <2>1, <2>2, <2>5, <3>2, <3>3 DEF Repair, Alone
    <2> QED BY <2>3, <2>4, <2>5
  <1> QED BY <1>1, <1>2, <1>3, <1>5, HoldsOn
(* A recomputation adds its next round.                                    *)
LEMMA HoldsRebuild ==
  ASSUME Typed, SoundRows, HistoryHolds, NEW p \in Processes, RebuildRound(p)
  PROVE  HistoryHolds'
  <1>0. TypeOK /\ proc[p] \in Process
    BY DEF Typed, TypeOK
  <1>1. PICK r \in Rounds : r = Min(proc[p].todo)
    BY <1>0, RankingsAssumption, RebuildMoves DEF Process
  <1>2. /\ Only(p) /\ r \in proc[p].todo
        /\ proc[p].at = "rebuild" /\ proc'[p].at = "rebuildSnapshot" /\ proc'[p].round = r
        /\ proc'[p].todo = proc[p].todo \ {r} /\ proc'[p].ids = proc[p].ids
        /\ proc'[p].clean = proc[p].clean
    BY <1>1, RankingsAssumption, RebuildMoves DEF RebuildRound
  <1>3. Rebuilding(p) /\ Rebuilding(p)'
    BY <1>2 DEF Rebuilding
  <1>4. UNCHANGED <<status, torn>> /\ AddRows(r, [u \in Users |-> LastCreated(u)])
    BY <1>1 DEF RebuildRound
  <1>5. AllScored' = AllScored
    BY <1>4 DEF AllScored
  <1>6. ASSUME Alone(p) PROVE Repair(p)'
    <2>1. /\ \A q \in Processes \ {p} : ~Rebuilding(q)
          /\ proc[p].ids = AllScored
          /\ \A S \in SUBSET Rounds : S = Done(p) => Rebuilt(S)
          /\ \A x \in Done(p), y \in proc[p].todo : x < y
      BY <1>2, <1>6 DEF HistoryHolds, Repair
    <2>2. \A q \in Processes \ {p} : ~Rebuilding(q)'
      BY <1>2, <2>1 DEF Only, Rebuilding
    <2>3. PICK S \in SUBSET Rounds : S = Done(p)
      BY <1>0 DEF Done, Process
    <2>4. r \notin S
      BY <1>2, <2>3 DEF Done
    <2>5. PICK last : last = [u \in Users |-> LastCreated(u)]
      OBVIOUS
    <2>6. AddRows(r, last)
      BY <1>4, <2>5
    <2>7. ASSUME NEW u \in Users PROVE Exact(u, S \cup {r})'
      <3>1. Exact(u, S)
        BY <2>1, <2>3 DEF Rebuilt
      <3>2. /\ history[u] = <<>> => last[u].supers = 0 /\ last[u].doubles = 0
            /\ history[u] # <<>> /\ Ascending(u) => last[u] = history[u][Len(history[u])]
        BY <1>0, <2>5, LastRows
      <3> QED BY <1>0, <2>4, <2>6, <3>1, <3>2, ExactAdd
    <2>12. proc[p].todo \subseteq proc[p].ids
      <3>1. Lists(p)
        BY DEF SoundRows
      <3> QED BY <1>2, <3>1 DEF Lists
    <2>8. Done(p)' = S \cup {r}
      BY <1>2, <2>3, <2>12 DEF Done
    <2>9. \A T \in SUBSET Rounds : T = Done(p)' => Rebuilt(T)'
      <3>1. ASSUME NEW T \in SUBSET Rounds, T = S \cup {r} PROVE Rebuilt(T)'
        BY <2>7, <3>1 DEF Rebuilt
      <3> QED BY <2>8, <3>1
    <2>10. S \cup {r} = {x \in proc[p].ids : x <= r}
      <3>1. proc[p].todo \in SUBSET Rounds /\ proc[p].ids \in SUBSET Rounds /\ proc[p].todo \subseteq proc[p].ids
        BY <1>0, <2>12 DEF Process
      <3>2. \A x \in proc[p].todo : r <= x
        <4>1. PICK T \in SUBSET Rounds : T = proc[p].todo
          BY <3>1
        <4>2. T # {}
          BY <1>2, <4>1
        <4>3. \A x \in T : Min(T) <= x
          BY <4>2, MinIs, RankingsAssumption
        <4>4. Min(T) = r
          BY <1>1, <4>1
        <4> QED BY <4>1, <4>3, <4>4
      <3>3. Rounds \subseteq Nat
        BY RankingsAssumption
      <3>4. \A x \in S : x < r
        BY <1>2, <2>1, <2>3
      <3> QED BY <1>2, <2>3, <3>1, <3>2, <3>3, <3>4 DEF Done
    <2>11. Done(p)' = {x \in proc[p].ids : x <= proc[p].round}'
      BY <1>2, <2>8, <2>10
    <2> QED BY <1>2, <1>5, <1>6, <2>1, <2>2, <2>9, <2>11 DEF Repair, Alone
  <1> QED BY <1>2, <1>3, <1>4, <1>6, HoldsOn

(* A recomputation writes the snapshot of the round it has added, and after *)
(* the last one is over.                                                    *)
LEMMA HoldsRebuildSnapshot ==
  ASSUME Typed, SoundRows, HistoryHolds, NEW p \in Processes, RebuildSnapshot(p)
  PROVE  HistoryHolds'
  <1>0. TypeOK /\ proc[p] \in Process /\ torn \in BOOLEAN
    BY DEF Typed, TypeOK
  <1>1. /\ Only(p) /\ proc[p].at = "rebuildSnapshot"
        /\ UNCHANGED <<status, scores>>
        /\ torn' <=> torn /\ ~(proc[p].todo = {} /\ proc[p].clean)
    BY <1>0, RebuildSnapshotMoves DEF RebuildSnapshot
  <1>2. AllScored' = AllScored
    BY <1>1 DEF AllScored
  <1>3. Rebuilding(p)
    BY <1>1 DEF Rebuilding
  <1>4. \A q \in Processes \ {p} : Rebuilding(q)' <=> Rebuilding(q)
    BY <1>1 DEF Only, Rebuilding
  <1>5. CASE proc[p].todo # {}
    <2>1. /\ proc'[p].at = "rebuild" /\ proc'[p].todo = proc[p].todo
          /\ proc'[p].ids = proc[p].ids /\ proc'[p].clean = proc[p].clean
      BY <1>0, <1>5, RebuildSnapshotMoves
    <2>2. UNCHANGED torn
      BY <1>0, <1>1, <1>5 DEF RebuildSnapshot
    <2>3. Rebuilding(p)'
      BY <2>1 DEF Rebuilding
    <2>4. ASSUME Alone(p) PROVE Repair(p)'
      <3>1. /\ \A q \in Processes \ {p} : ~Rebuilding(q)
            /\ proc[p].ids = AllScored
            /\ \A S \in SUBSET Rounds : S = Done(p) => Rebuilt(S)
            /\ Done(p) = {x \in proc[p].ids : x <= proc[p].round}
        BY <1>1, <2>4 DEF HistoryHolds, Repair
      <3>2. \A q \in Processes \ {p} : ~Rebuilding(q)'
        BY <1>4, <3>1
      <3>3. Done(p)' = Done(p)
        BY <2>1 DEF Done
      <3>4. \A S \in SUBSET Rounds : S = Done(p)' => Rebuilt(S)'
        BY <1>1, <3>1, <3>3, RebuiltSame
      <3>5. \A x \in Done(p), y \in proc[p].todo : x < y
        <4>1. /\ Rounds \subseteq Nat /\ proc[p].round \in Rounds /\ proc[p].ids \in SUBSET Rounds
              /\ proc[p].todo \subseteq proc[p].ids
          BY <1>0, <1>1, RankingsAssumption DEF Typed, Carries, SoundRows, Lists, Process
        <4>2. \A x \in Done(p) : x <= proc[p].round
          BY <3>1
        <4>3. \A y \in proc[p].todo : y \in proc[p].ids /\ y \notin Done(p)
          BY <4>1 DEF Done
        <4>4. \A y \in proc[p].todo : ~(y <= proc[p].round)
          BY <3>1, <4>3
        <4>5. \A x \in Done(p) : x \in Nat
          BY <4>1 DEF Done
        <4>6. \A y \in proc[p].todo : y \in Nat
          BY <4>1
        <4>7. proc[p].round \in Nat
          BY <4>1
        <4> QED BY <4>2, <4>4, <4>5, <4>6, <4>7
      <3> QED BY <1>2, <2>1, <2>4, <3>1, <3>2, <3>3, <3>4, <3>5 DEF Repair, Alone
    <2> QED BY <1>1, <1>3, <2>1, <2>2, <2>3, <2>4, HoldsOn
  <1>6. CASE proc[p].todo = {}
    <2>1. proc'[p].at = "list" /\ ~Rebuilding(p)'
      BY <1>0, <1>6, RebuildSnapshotMoves DEF Rebuilding
    <2>2. CASE proc[p].clean
      <3>1. /\ \A q \in Processes \ {p} : ~Rebuilding(q)
            /\ proc[p].ids = AllScored
            /\ \A S \in SUBSET Rounds : S = Done(p) => Rebuilt(S)
        BY <1>1, <1>3, <2>2 DEF HistoryHolds, Repair, Alone
      <3>2. \A q \in Processes : ~Rebuilding(q)'
        BY <1>4, <2>1, <3>1
      <3>3. Done(p) = AllScored
        BY <1>6, <3>1 DEF Done
      <3>4. \A S \in SUBSET Rounds : S = AllScored' => Rebuilt(S)'
        BY <1>1, <1>2, <3>1, <3>3, RebuiltSame
      <3> QED BY <3>2, <3>4 DEF HistoryHolds, Kept, Repair, Alone
    <2>3. CASE ~proc[p].clean
      <3>1. torn /\ torn'
        BY <1>1, <1>3, <2>3 DEF HistoryHolds, Repair
      <3>2. \A q \in Processes \ {p} : ~Alone(q)'
        <4>1. \A q \in Processes \ {p} : Alone(q)' => Alone(q)
          BY <1>1, <1>4 DEF Only, Alone
        <4>2. \A q \in Processes \ {p} : ~Alone(q)
          BY <1>3 DEF HistoryHolds, Repair
        <4> QED BY <4>1, <4>2
      <3> QED BY <2>1, <3>1, <3>2, HoldsTorn DEF Alone
    <2> QED BY <2>2, <2>3
  <1> QED BY <1>5, <1>6
(* A process dies: a recomputation that does leaves the history torn.      *)
LEMMA HoldsDie ==
  ASSUME Typed, HistoryHolds, NEW p \in Processes, Die(p)
  PROVE  HistoryHolds'
  <1>0. TypeOK /\ torn \in BOOLEAN
    BY DEF Typed, TypeOK
  <1>1. /\ Only(p) /\ proc'[p] = Idle /\ UNCHANGED <<status, scores>>
        /\ torn' <=> torn \/ Rebuilding(p)
    BY <1>0, DieMoves DEF Die
  <1>2. AllScored' = AllScored
    BY <1>1 DEF AllScored
  <1>3. ~Rebuilding(p)'
    BY <1>1, IdleIs DEF Rebuilding
  <1>4. \A q \in Processes \ {p} : proc'[q] = proc[q] /\ (Rebuilding(q)' <=> Rebuilding(q))
    BY <1>1 DEF Only, Rebuilding
  <1>5. CASE Rebuilding(p)
    <2>1. ASSUME NEW q \in Processes, Alone(q)' PROVE FALSE
      <3>1. q # p
        BY <1>3, <2>1 DEF Alone
      <3>2. Alone(q)
        BY <1>4, <2>1, <3>1 DEF Alone
      <3> QED BY <1>5, <3>1, <3>2 DEF HistoryHolds, Repair
    <2>2. torn'
      BY <1>1, <1>5
    <2> QED BY <2>1, <2>2, HoldsTorn
  <1>6. CASE ~Rebuilding(p)
    <2>1. \A q \in Processes : Rebuilding(q)' <=> Rebuilding(q)
      BY <1>3, <1>4, <1>6
    <2>2. \A q \in Processes : Rebuilding(q) => Aside(q) /\ proc'[q].clean = proc[q].clean
      BY <1>4, <1>6 DEF Aside
    <2>3. UNCHANGED torn
      BY <1>0, <1>6 DEF Die
    <2>4. UNCHANGED scores
      BY <1>1
    <2> QED BY <1>2, <2>1, <2>2, <2>3, <2>4, HoldsAside
  <1> QED BY <1>5, <1>6

(* A backfill that finds a row missing leaves the history torn.            *)
LEMMA HoldsBackfill ==
  ASSUME Typed, HistoryHolds, NEW p \in Processes, NEW u \in Users, BackfillTicket(p, u)
  PROVE  HistoryHolds'
  <1>0. TypeOK /\ proc \in [Processes -> Process]
    BY DEF Typed, TypeOK
  <1>1. PICK exists \in BOOLEAN : exists <=> \E h \in RowsOf(u) : h.round = Min(proc[p].todo)
    OBVIOUS
  <1>2. /\ Moves(p, proc'[p]) /\ proc[p].at = "backfill" /\ proc'[p].at = "backfill"
        /\ \A q \in Processes \ {p} :
              (proc'[q].clean <=> proc[q].clean /\ (exists \/ ~Rebuilding(q)))
    BY <1>1, RankingsAssumption, BackfillTicketMoves
  <1>3. \A q \in Processes : Rebuilding(q)' <=> Rebuilding(q)
    BY <1>2 DEF Moves, Aside, Rebuilding
  <1>4. ~Rebuilding(p)
    BY <1>2 DEF Rebuilding
  <1>5. AllScored' = AllScored
    BY DEF BackfillTicket, AllScored
  <1>6. CASE exists
    <2>1. UNCHANGED <<scores, torn>>
      BY <1>1, <1>6 DEF BackfillTicket
    <2>2. \A q \in Processes \ {p} : proc[q].clean \in BOOLEAN /\ proc'[q].clean \in BOOLEAN
      BY <1>0, <1>2 DEF Moves, Process
    <2>3. \A q \in Processes : Rebuilding(q) => Aside(q) /\ proc'[q].clean = proc[q].clean
      BY <1>2, <1>4, <1>6, <2>2 DEF Moves
    <2> QED BY <1>3, <1>5, <2>1, <2>3, HoldsAside
  <1>7. CASE ~exists
    <2>1. torn'
      BY <1>1, <1>7 DEF BackfillTicket
    <2>2. \A q \in Processes : ~Alone(q)'
      BY <1>2, <1>3, <1>4, <1>7 DEF Alone
    <2> QED BY <2>1, <2>2, HoldsTorn
  <1> QED BY <1>6, <1>7

(* A process that takes no part in a recomputation before or after its step *)
(* does not disturb the history.                                            *)
LEMMA HoldsOther ==
  ASSUME HistoryHolds, NEW p \in Processes, Only(p), UNCHANGED <<status, scores, torn>>,
         ~Rebuilding(p), ~Rebuilding(p)'
  PROVE  HistoryHolds'
  <1>1. AllScored' = AllScored
    BY DEF AllScored
  <1>2. \A q \in Processes \ {p} : proc'[q] = proc[q]
    BY DEF Only
  <1>3. \A q \in Processes : Rebuilding(q)' <=> Rebuilding(q)
    BY <1>2 DEF Rebuilding
  <1>4. \A q \in Processes : Rebuilding(q) => Aside(q) /\ proc'[q].clean = proc[q].clean
    BY <1>2 DEF Aside
  <1>5. UNCHANGED <<scores, torn>>
    OBVIOUS
  <1> QED BY <1>1, <1>3, <1>4, <1>5, HoldsAside

(* Every step of a process keeps what is known of the history.             *)
LEMMA HoldsActs ==
  ASSUME Typed, SoundRows, HistoryHolds, NEW p \in Processes, Acts(p)
  PROVE  HistoryHolds'
  <1>0. TypeOK /\ proc[p] \in Process
    BY DEF Typed, TypeOK
  <1>1. ASSUME NEW r \in Rounds, ScoreRound(p, r) PROVE HistoryHolds'
    BY <1>1, HoldsScore
  <1>2. CASE ReadScored(p)
    BY <1>2, HoldsRead
  <1>3. CASE WipeSnapshots(p) \/ WipeHistory(p) \/ ResetTotals(p)
    BY <1>3, HoldsWipe
  <1>4. CASE RebuildRound(p)
    BY <1>4, HoldsRebuild
  <1>5. CASE RebuildSnapshot(p)
    BY <1>5, HoldsRebuildSnapshot
  <1>6. CASE Die(p)
    BY <1>6, HoldsDie
  <1>7. ASSUME NEW u \in Users, BackfillTicket(p, u) PROVE HistoryHolds'
    BY <1>7, HoldsBackfill
  <1>8. CASE ListRankings(p)
    <2>1. Only(p) /\ proc[p].at = "list" /\ proc'[p].at = "recalculate" /\ UNCHANGED <<status, scores, torn>>
      BY <1>0, <1>8, ListMoves DEF ListRankings, Only, Moves
    <2> QED BY <2>1, HoldsOther DEF Rebuilding
  <1>9. ASSUME NEW k \in Rankings, Recalculate(p, k) PROVE HistoryHolds'
    <2>1. Only(p) /\ proc[p].at = "recalculate" /\ proc'[p].at = "recalculate" /\ UNCHANGED <<status, scores, torn>>
      BY <1>0, <1>9, RecalculateMoves DEF Recalculate, Only, Moves
    <2> QED BY <2>1, HoldsOther DEF Rebuilding
  <1>10. CASE Finish(p)
    <2>1. Only(p) /\ proc[p].at = "recalculate" /\ proc'[p].at = "idle" /\ UNCHANGED <<status, scores, torn>>
      BY <1>0, <1>10, FinishMoves, IdleIs DEF Finish
    <2> QED BY <2>1, HoldsOther DEF Rebuilding
  <1>11. CASE StartBackfill(p)
    <2>1. AllScored \in SUBSET Rounds /\ AllScored # {} /\ proc'[p] = Backfilling(AllScored) /\ Only(p)
      BY <1>0, <1>11, RankingsAssumption, StartBackfillMoves DEF AllScored
    <2>2. proc[p].at = "idle" /\ proc'[p].at = "backfill" /\ UNCHANGED <<status, scores, torn>>
      BY <1>11, <2>1, RankingsAssumption, BackfillingIs DEF StartBackfill
    <2> QED BY <2>1, <2>2, HoldsOther DEF Rebuilding
  <1>12. CASE BackfillSnapshot(p)
    <2>1. proc[p].at = "backfill" /\ UNCHANGED <<status, scores, torn>>
      BY <1>12 DEF BackfillSnapshot
    <2>2. PICK T \in SUBSET Rounds : T = proc[p].todo \ {Min(proc[p].todo)}
      BY <1>0 DEF Process
    <2>3. Only(p) /\ proc'[p] = Backfilling(T)
      BY <1>12, <2>2, RankingsAssumption, BackfillSnapshotMoves
    <2>4. proc'[p].at \in {"idle", "backfill"}
      BY <2>3, IdleIs, RankingsAssumption, BackfillingIs
    <2> QED BY <2>1, <2>3, <2>4, HoldsOther DEF Rebuilding
  <1>13. CASE StartRepair(p)
    <2>1. Only(p) /\ proc[p].at = "idle" /\ proc'[p].at = "repairRead" /\ UNCHANGED <<status, scores, torn>>
      BY <1>0, <1>13, StartRepairMoves DEF StartRepair
    <2> QED BY <2>1, HoldsOther DEF Rebuilding
  <1>14. CASE RepairWrite(p)
    <2>1. Only(p) /\ proc[p].at = "repairWrite" /\ proc'[p].at \in {"idle", "repairRead"} /\ UNCHANGED <<status, scores, torn>>
      BY <1>14, RepairWriteMoves DEF RepairWrite
    <2> QED BY <2>1, HoldsOther DEF Rebuilding
  <1>15. ASSUME NEW k \in Rankings, RepairRead(p, k) PROVE HistoryHolds'
    <2>1. Only(p) /\ proc[p].at = "repairRead" /\ proc'[p].at = "repairWrite" /\ UNCHANGED <<status, scores, torn>>
      BY <1>0, <1>15, RankingsAssumption, RepairReadMoves DEF RepairRead
    <2> QED BY <2>1, HoldsOther DEF Rebuilding
  <1> QED BY <1>1, <1>2, <1>3, <1>4, <1>5, <1>6, <1>7, <1>8, <1>9, <1>10, <1>11, <1>12, <1>13,
             <1>14, <1>15 DEF Acts
(* Every step of the specification does.                                   *)
LEMMA HoldsNext ==
  ASSUME Typed, SoundRows, HistoryHolds, [Next]_vars
  PROVE  HistoryHolds'
  <1>0. TypeOK
    BY DEF Typed
  <1>1. ASSUME UNCHANGED <<scores, torn, proc>>, AllScored' = AllScored PROVE HistoryHolds'
    <2>1. \A q \in Processes : Rebuilding(q)' <=> Rebuilding(q)
      BY <1>1 DEF Rebuilding
    <2>2. \A q \in Processes : Rebuilding(q) => Aside(q) /\ proc'[q].clean = proc[q].clean
      BY <1>1 DEF Aside
    <2>3. UNCHANGED <<scores, torn>>
      BY <1>1
    <2> QED BY <1>1, <2>1, <2>2, <2>3, HoldsAside
  <1>2. ASSUME UNCHANGED <<scores, torn, proc, status>> PROVE HistoryHolds'
    BY <1>1, <1>2 DEF AllScored
  <1>3. CASE UNCHANGED vars
    <2>1. UNCHANGED <<scores, torn, proc, status>>
      BY <1>3 DEF vars, scores
    <2> QED BY <1>2, <2>1
  <1>4. CASE Tick
    BY <1>2, <1>4 DEF Tick
  <1>5. ASSUME NEW r \in Rounds, CloseRound(r) PROVE HistoryHolds'
    <2>1. AllScored' = AllScored
      BY <1>0, <1>5 DEF CloseRound, AllScored, TypeOK
    <2> QED BY <1>1, <1>5, <2>1 DEF CloseRound
  <1>6. ASSUME NEW r \in Rounds, GenerateSnapshot(r) PROVE HistoryHolds'
    BY <1>2, <1>6 DEF GenerateSnapshot
  <1>7. ASSUME NEW r \in Rounds, EnsureAtClosing(r) PROVE HistoryHolds'
    BY <1>2, <1>7 DEF EnsureAtClosing, EnsureMonthlyRankings
  <1>8. ASSUME NEW period \in Periods, EnsureCurrent(period) PROVE HistoryHolds'
    BY <1>2, <1>8 DEF EnsureCurrent, EnsureMonthlyRankings
  <1>9. ASSUME NEW k \in Rankings, CloseRanking(k) PROVE HistoryHolds'
    BY <1>2, <1>9 DEF CloseRanking
  <1>10. ASSUME NEW k \in Rankings, NEW u \in Users, Join(k, u) PROVE HistoryHolds'
    BY <1>2, <1>10 DEF Join
  <1>11. ASSUME NEW p \in Processes, Acts(p) PROVE HistoryHolds'
    BY <1>11, HoldsActs
  <1> QED BY <1>3, <1>4, <1>5, <1>6, <1>7, <1>8, <1>9, <1>10, <1>11, NextIs

(* The invariant in the terms of the property: one row for each scored     *)
(* ticket, the total is the sum of the rows.                               *)
LEMMA ExactTotals ==
  ASSUME TypeOK, RowsSound, NEW u \in Users, NEW S \in SUBSET Rounds, Exact(u, S)
  PROVE  /\ {h.round : h \in RowsOf(u)} = Mine(u, S)
         /\ Len(history[u]) = Cardinality(Mine(u, S))
         /\ scoreTotal[u] = SumFunction([h \in RowsOf(u) |-> h.scoreRound])
  <1>0. history[u] \in Seq(HistoryRow) /\ Len(history[u]) \in Nat
    BY DEF TypeOK
  <1> DEFINE n == Len(history[u])
             b == [h \in RowsOf(u) |-> h.round]
             f == [h \in RowsOf(u) |-> h.scoreRound]
  <1>1. n \in Nat /\ n = Len(history[u])
    BY <1>0
  <1>2. /\ RoundsUpTo(u, n) = Mine(u, S)
        /\ \A i, j \in 1..n : history[u][i].round = history[u][j].round => i = j
        /\ scoreTotal[u] = Worth(u, S).score
    BY DEF Exact
  <1>3. /\ RowsOf(u) \in SUBSET HistoryRow /\ IsFiniteSet(RowsOf(u))
        /\ \A i \in 1..n : history[u][i] \in RowsOf(u)
        /\ \A h \in RowsOf(u) : \E i \in 1..n : h = history[u][i]
    BY <1>0, RowsAre
  <1>4. \A x, y \in RowsOf(u) : b[x] = b[y] => x = y
    BY <1>2, <1>3
  <1>5. {b[x] : x \in RowsOf(u)} = Mine(u, S)
    <2>1. ASSUME NEW x \in RowsOf(u) PROVE b[x] \in Mine(u, S)
      <3>1. PICK i \in 1..n : x = history[u][i]
        BY <1>3
      <3> QED BY <1>2, <3>1 DEF RoundsUpTo
    <2>2. ASSUME NEW r \in Mine(u, S) PROVE \E x \in RowsOf(u) : b[x] = r
      <3>1. PICK i \in 1..n : r = history[u][i].round
        BY <1>2, <2>2 DEF RoundsUpTo
      <3> QED BY <1>3, <3>1
    <2> QED BY <2>1, <2>2
  <1>6. {h.round : h \in RowsOf(u)} = Mine(u, S)
    BY <1>5
  <1>7. \A x \in RowsOf(u) : f[x] \in Int /\ TotalOf(u)[b[x]] = f[x]
    <2>1. ASSUME NEW x \in RowsOf(u) PROVE f[x] \in Int /\ TotalOf(u)[b[x]] = f[x]
      <3>1. PICK i \in 1..n : x = history[u][i]
        BY <1>3
      <3>2. x.round \in Rounds /\ x.scoreRound \in Int
        BY <1>3 DEF HistoryRow
      <3>3. x.scoreRound = Scored(x.round, u).total
        BY <3>1 DEF RowsSound, RowSound
      <3> QED BY <3>2, <3>3 DEF TotalOf
    <2> QED BY <2>1
  <1>8. SumFunctionOnSet(TotalOf(u), {b[x] : x \in RowsOf(u)}) = SumFunctionOnSet(f, RowsOf(u))
    <2> HIDE DEF b, f, n
    <2> QED BY <1>3, <1>4, <1>7, SumRenamed
  <1>9. SumFunctionOnSet(f, RowsOf(u)) = SumFunction(f)
    BY DEF SumFunction
  <1>10. Worth(u, S).score = SumFunctionOnSet(TotalOf(u), Mine(u, S))
    BY WorthSums
  <1>11. scoreTotal[u] = SumFunction(f)
    BY <1>2, <1>5, <1>8, <1>9, <1>10, Zenon
  <1>12. Len(history[u]) = Cardinality(Mine(u, S))
    <2> DEFINE c == [i \in 1..n |-> history[u][i].round]
    <2>1. c \in Bijection(1..n, Mine(u, S))
      <3>1. c \in [1..n -> Mine(u, S)]
        BY <1>2 DEF RoundsUpTo
      <3>2. \A r \in Mine(u, S) : \E i \in 1..n : c[i] = r
        BY <1>2 DEF RoundsUpTo
      <3>3. \A i, j \in 1..n : c[i] = c[j] => i = j
        BY <1>2
      <3> QED BY <3>1, <3>2, <3>3 DEF Bijection, Injection, Surjection, IsInjective
    <2>2. Cardinality(1..n) = n /\ IsFiniteSet(1..n)
      BY <1>1, FS_Interval
    <2>3. ExistsBijection(1..n, Mine(u, S))
      BY <2>1 DEF ExistsBijection
    <2>4. Cardinality(1..n) = Cardinality(Mine(u, S))
      BY <2>2, <2>3, FS_Bijection
    <2> QED BY <1>1, <2>2, <2>4
  <1> QED BY <1>6, <1>11, <1>12

(* And each of its rows to the rounds so far.                              *)
LEMMA ExactPrefix ==
  ASSUME NEW u \in Users, NEW S \in SUBSET Rounds, Exact(u, S), Ascending(u),
         NEW i \in 1..Len(history[u])
  PROVE  LET w == Worth(u, {history[u][j].round : j \in 1..i})
         IN  /\ history[u][i].scoreTotal = w.score
             /\ history[u][i].supers = w.supers
             /\ history[u][i].doubles = w.doubles
  BY DEF Exact, Accumulates, RoundsUpTo

(* The property follows from the invariant.                                *)
LEMMA HistoryIsExactHolds ==
  ASSUME TypeOK, RowsSound, HistoryHolds
  PROVE  HistoryIsExact
  <1>1. ASSUME Quiet, NEW u \in Users
        PROVE  LET mine == {r \in Rounds : IsScored(r) /\ u \in Players(r)}
               IN  /\ {h.round : h \in RowsOf(u)} = mine
                   /\ Len(history[u]) = Cardinality(mine)
                   /\ scoreTotal[u] = SumFunction([h \in RowsOf(u) |-> h.scoreRound])
    <2>1. PICK S \in SUBSET Rounds : S = AllScored
      BY DEF AllScored
    <2>2. Exact(u, S)
      BY <1>1, <2>1 DEF HistoryHolds, Kept, Rebuilt
    <2>3. Mine(u, S) = {r \in Rounds : IsScored(r) /\ u \in Players(r)}
      BY <2>1 DEF Mine, IsScored, AllScored
    <2> QED BY <2>2, <2>3, ExactTotals
  <1>2. HistoryIsPrefixSum
    <2>1. PICK S \in SUBSET Rounds : S = AllScored
      BY DEF AllScored
    <2>2. Quiet => \A u \in Users : Exact(u, S)
      BY <2>1 DEF HistoryHolds, Kept, Rebuilt
    <2> QED BY <2>1, <2>2, ExactPrefix DEF HistoryIsPrefixSum
  <1>3. TotalsAgree
    BY <1>1 DEF TotalsAgree
  <1> QED BY <1>2, <1>3 DEF HistoryIsExact

(* The history agrees with what the rounds are worth, whatever recomputed  *)
(* it, as long as no recomputation was cut short or overlapped             *)
(* (ScoreRoundService, RecomputeScoredRoundsService).                       *)
THEOREM HistoryExact == Spec => []HistoryIsExact
  <1>1. Init => Typed /\ SoundRows /\ HistoryHolds
    BY RankingsAssumption, TypedInit, SoundInit, HoldsInit
  <1>2. Typed /\ SoundRows /\ HistoryHolds /\ [Next]_vars => (Typed /\ SoundRows /\ HistoryHolds)'
    <2> SUFFICES ASSUME Typed, SoundRows, HistoryHolds, [Next]_vars
                 PROVE  (Typed /\ SoundRows /\ HistoryHolds)'
      OBVIOUS
    <2>1. Typed'
      BY RankingsAssumption, MatchCountAssumption, TypedNext
    <2>2. RowsSound'
      BY RankingsAssumption, MatchCountAssumption, RowsNext
    <2>3. \A q \in Processes : Lists(q)'
      BY RankingsAssumption, ListsNext DEF SoundRows
    <2> QED BY <2>1, <2>2, <2>3, HoldsNext DEF SoundRows
  <1>3. Typed /\ SoundRows /\ HistoryHolds => HistoryIsExact
    BY HistoryIsExactHolds DEF Typed, SoundRows
  <1> QED BY <1>1, <1>2, <1>3, PTL DEF Spec
-----------------------------------------------------------------------------
(***************************************************************************)
(* The history read up to a date or a round.                               *)
(***************************************************************************)

(* Where the first i rows are those of the rounds of a set, the last of    *)
(* them holds what the set is worth.                                       *)
LEMMA CutIs ==
  ASSUME NEW u \in Users, NEW S \in SUBSET Rounds, NEW cut \in SUBSET Rounds,
         Exact(u, S), Ascending(u), Mine(u, cut) \subseteq S,
         NEW i \in 1..Len(history[u]),
         \A j \in 1..Len(history[u]) : history[u][j].round \in cut <=> j \in 1..i
  PROVE  /\ history[u][i].scoreTotal = Worth(u, cut).score
         /\ history[u][i].supers = Worth(u, cut).supers
         /\ history[u][i].doubles = Worth(u, cut).doubles
  <1>1. /\ RoundsUpTo(u, Len(history[u])) = Mine(u, S)
        /\ history[u][i].scoreTotal = Worth(u, RoundsUpTo(u, i)).score
        /\ history[u][i].supers = Worth(u, RoundsUpTo(u, i)).supers
        /\ history[u][i].doubles = Worth(u, RoundsUpTo(u, i)).doubles
    BY DEF Exact, Accumulates
  <1>0. \A j \in 1..i : j \in 1..Len(history[u])
    OBVIOUS
  <1>2. ASSUME NEW r \in RoundsUpTo(u, i) PROVE r \in Mine(u, cut)
    <2>1. PICK j \in 1..i : r = history[u][j].round
      BY <1>2 DEF RoundsUpTo
    <2>2. r \in cut
      BY <1>0, <2>1
    <2>3. r \in RoundsUpTo(u, Len(history[u]))
      BY <1>0, <2>1 DEF RoundsUpTo
    <2> QED BY <1>1, <2>2, <2>3 DEF Mine
  <1>3. ASSUME NEW r \in Mine(u, cut) PROVE r \in RoundsUpTo(u, i)
    <2>1. r \in Mine(u, S)
      BY <1>3 DEF Mine
    <2>2. PICK j \in 1..Len(history[u]) : r = history[u][j].round
      BY <1>1, <2>1 DEF RoundsUpTo
    <2>3. j \in 1..i
      BY <1>3, <2>2 DEF Mine
    <2> QED BY <2>2, <2>3 DEF RoundsUpTo
  <1>4. RoundsUpTo(u, i) = Mine(u, cut)
    BY <1>2, <1>3
  <1>5. Mine(u, RoundsUpTo(u, i)) = Mine(u, cut)
    BY <1>4 DEF Mine
  <1>6. Worth(u, RoundsUpTo(u, i)) = Worth(u, cut)
    BY <1>5, WorthMine
  <1> QED BY <1>1, <1>6

(* A set of rounds none of which has a row is worth nothing.               *)
LEMMA CutNone ==
  ASSUME NEW u \in Users, NEW S \in SUBSET Rounds, NEW cut \in SUBSET Rounds,
         Exact(u, S), Mine(u, cut) \subseteq S,
         \A j \in 1..Len(history[u]) : history[u][j].round \notin cut
  PROVE  Mine(u, cut) = {}
  <1>1. RoundsUpTo(u, Len(history[u])) = Mine(u, S)
    BY DEF Exact
  <1>2. ASSUME NEW r \in Mine(u, cut) PROVE FALSE
    <2>1. r \in RoundsUpTo(u, Len(history[u])) /\ r \in cut
      BY <1>1, <1>2 DEF Mine
    <2> QED BY <2>1 DEF RoundsUpTo
  <1> QED BY <1>2

(* The latest row before a date holds what the rounds before it are worth. *)
LEMMA BeforeStands ==
  ASSUME TypeOK, NEW u \in Users, NEW S \in SUBSET Rounds, NEW date \in Int,
         Exact(u, S), Ascending(u), NEW cut \in SUBSET Rounds,
         cut = {r \in Rounds : CloseAt[r] < date}, Mine(u, cut) \subseteq S
  PROVE  /\ LatestByClose(ClosingBefore(u, date)).scoreTotal = Worth(u, cut).score
         /\ LatestByClose(ClosingBefore(u, date)).supers = Worth(u, cut).supers
         /\ LatestByClose(ClosingBefore(u, date)).doubles = Worth(u, cut).doubles
         /\ LatestByClose(ClosingBefore(u, date)) = NoRow => Mine(u, cut) = {}
  <1>0. history[u] \in Seq(HistoryRow) /\ Len(history[u]) \in Nat
    BY DEF TypeOK
  <1>1. PICK rows : rows = ClosingBefore(u, date)
    OBVIOUS
  <1>2. rows \in SUBSET RowsOf(u)
    BY <1>1 DEF ClosingBefore
  <1>3. rows \in SUBSET HistoryRow /\ IsFiniteSet(rows)
    BY <1>2, SomeRows
  <1>4. /\ RowsOf(u) \in SUBSET HistoryRow
        /\ \A i \in 1..Len(history[u]) : history[u][i] \in RowsOf(u)
        /\ \A h \in RowsOf(u) : \E i \in 1..Len(history[u]) : h = history[u][i]
    BY <1>0, RowsAre
  <1>5. \A i \in 1..Len(history[u]) : history[u][i].round \in Rounds
    BY <1>4 DEF HistoryRow
  <1>6. \A r \in Rounds : CloseAt[r] \in Int
    BY RankingsAssumption
  <1>7. CASE rows = {}
    <2>1. \A j \in 1..Len(history[u]) : history[u][j].round \notin cut
      BY <1>1, <1>4, <1>7 DEF ClosingBefore
    <2>2. Mine(u, cut) = {}
      BY <2>1, CutNone
    <2>3. LatestByClose(rows) = NoRow
      BY <1>3, <1>7, LatestIs, RankingsAssumption
    <2> QED BY <1>1, <2>2, <2>3, WorthNone DEF NoRow
  <1>8. CASE rows # {}
    <2>1. PICK last : last = LatestByClose(rows)
      OBVIOUS
    <2>2. /\ last \in rows
          /\ \A g \in rows : CloseAt[g.round] <= CloseAt[last.round]
      BY <1>3, <1>8, <2>1, LatestIs, RankingsAssumption
    <2>3. PICK i \in 1..Len(history[u]) : last = history[u][i]
      BY <1>2, <1>4, <2>2
    <2>4. ASSUME NEW j \in 1..Len(history[u]) PROVE history[u][j].round \in cut <=> j \in 1..i
      <3>1. history[u][j].round \in cut <=> CloseAt[history[u][j].round] < date
        BY <1>5
      <3>2. CloseAt[history[u][i].round] < date
        BY <1>1, <2>2, <2>3 DEF ClosingBefore
      <3>3. CloseAt[history[u][j].round] \in Int /\ CloseAt[history[u][i].round] \in Int
        BY <1>5, <1>6
      <3>4. CASE j < i
        <4>1. CloseAt[history[u][j].round] < CloseAt[history[u][i].round]
          BY <3>4 DEF Ascending
        <4> QED BY <3>1, <3>2, <3>3, <3>4, <4>1
      <3>5. CASE j = i
        BY <3>1, <3>2, <3>5
      <3>6. CASE i < j
        <4>1. CloseAt[history[u][i].round] < CloseAt[history[u][j].round]
          BY <3>6 DEF Ascending
        <4>2. ~(CloseAt[history[u][j].round] < date)
          <5>1. SUFFICES ASSUME CloseAt[history[u][j].round] < date PROVE FALSE
            OBVIOUS
          <5>2. history[u][j] \in rows
            BY <1>1, <1>4, <5>1 DEF ClosingBefore
          <5>3. CloseAt[history[u][j].round] <= CloseAt[history[u][i].round]
            BY <2>2, <2>3, <5>2
          <5> QED BY <3>3, <4>1, <5>3
        <4> QED BY <3>1, <3>6, <4>2
      <3> QED BY <3>4, <3>5, <3>6
    <2>5. /\ last.scoreTotal = Worth(u, cut).score
          /\ last.supers = Worth(u, cut).supers
          /\ last.doubles = Worth(u, cut).doubles
      BY <2>3, <2>4, CutIs
    <2>6. last # NoRow
      <3>1. last.round \in Rounds
        BY <1>5, <2>3
      <3>2. NoRow.round = None /\ None \notin Rounds
        BY RankingsAssumption DEF NoRow
      <3> QED BY <3>1, <3>2
    <2> QED BY <1>1, <2>1, <2>5, <2>6
  <1> QED BY <1>7, <1>8

(* The rows of a user for a set of rounds.                                 *)
RowsIn(u, cut) == {h \in RowsOf(u) : h.round \in cut}

(* The row of the highest round up to a round holds what the rounds up to  *)
(* it are worth.                                                           *)
LEMMA UpToStands ==
  ASSUME TypeOK, NEW u \in Users, NEW S \in SUBSET Rounds, NEW r \in Rounds,
         Exact(u, S), Ascending(u), NEW cut \in SUBSET Rounds, Mine(u, cut) \subseteq S,
         \A q \in S : q \in cut <=> q <= r,
         NEW rows, rows = RowsIn(u, cut)
  PROVE  /\ rows = {} => Mine(u, cut) = {}
         /\ rows # {} =>
              /\ Mine(u, cut) # {}
              /\ LatestByNumber(rows).scoreTotal = Worth(u, cut).score
              /\ LatestByNumber(rows).supers = Worth(u, cut).supers
              /\ LatestByNumber(rows).doubles = Worth(u, cut).doubles
  <1>0. history[u] \in Seq(HistoryRow) /\ Len(history[u]) \in Nat
    BY DEF TypeOK
  <1>1. rows = {h \in RowsOf(u) : h.round \in cut}
    BY DEF RowsIn
  <1>2. rows \in SUBSET RowsOf(u)
    BY <1>1
  <1>3. rows \in SUBSET HistoryRow /\ IsFiniteSet(rows)
    BY <1>2, SomeRows
  <1>4. /\ RowsOf(u) \in SUBSET HistoryRow
        /\ \A i \in 1..Len(history[u]) : history[u][i] \in RowsOf(u)
        /\ \A h \in RowsOf(u) : \E i \in 1..Len(history[u]) : h = history[u][i]
    BY <1>0, RowsAre
  <1>5. \A i \in 1..Len(history[u]) : history[u][i].round \in Mine(u, S)
    BY DEF Exact, RoundsUpTo
  <1>6. r \in Int /\ \A i \in 1..Len(history[u]) : history[u][i].round \in Int
    <2>1. Rounds \subseteq Int
      BY RankingsAssumption
    <2> QED BY <1>5, <2>1 DEF Mine
  <1>7. CASE rows = {}
    <2>1. \A j \in 1..Len(history[u]) : history[u][j].round \notin cut
      BY <1>1, <1>4, <1>7
    <2> QED BY <1>7, <2>1, CutNone
  <1>8. CASE rows # {}
    <2>1. PICK last : last = LatestByNumber(rows)
      OBVIOUS
    <2>2. last \in rows /\ \A g \in rows : g.round <= last.round
      BY <1>3, <1>8, <2>1, LatestIs, RankingsAssumption
    <2>3. PICK i \in 1..Len(history[u]) : last = history[u][i]
      BY <1>2, <1>4, <2>2
    <2>4. ASSUME NEW j \in 1..Len(history[u]) PROVE history[u][j].round \in cut <=> j \in 1..i
      <3>1. history[u][j].round \in cut <=> history[u][j].round <= r
        BY <1>5 DEF Mine
      <3>2. history[u][i].round <= r
        BY <1>1, <1>5, <2>2, <2>3 DEF Mine
      <3>3. history[u][j].round \in Int /\ history[u][i].round \in Int /\ r \in Int
        BY <1>6
      <3>4. CASE j < i
        <4>1. history[u][j].round < history[u][i].round
          BY <3>4 DEF Ascending
        <4> QED BY <3>1, <3>2, <3>3, <3>4, <4>1
      <3>5. CASE j = i
        BY <3>1, <3>2, <3>5
      <3>6. CASE i < j
        <4>1. history[u][i].round < history[u][j].round
          BY <3>6 DEF Ascending
        <4>2. history[u][j].round \notin cut
          <5>1. SUFFICES ASSUME history[u][j].round \in cut PROVE FALSE
            OBVIOUS
          <5>2. history[u][j] \in rows
            BY <1>1, <1>4, <5>1
          <5>3. history[u][j].round <= history[u][i].round
            BY <2>2, <2>3, <5>2
          <5> QED BY <3>3, <4>1, <5>3
        <4> QED BY <3>6, <4>2
      <3> QED BY <3>4, <3>5, <3>6
    <2>5. /\ last.scoreTotal = Worth(u, cut).score
          /\ last.supers = Worth(u, cut).supers
          /\ last.doubles = Worth(u, cut).doubles
      BY <2>3, <2>4, CutIs
    <2>6. last.round \in Mine(u, cut)
      BY <1>1, <1>5, <2>2, <2>3 DEF Mine
    <2> QED BY <1>8, <2>1, <2>5, <2>6
  <1> QED BY <1>7, <1>8
(***************************************************************************)
(* Baselines.                                                              *)
(***************************************************************************)

(* The first round of a month.                                             *)
LEMMA FirstIs ==
  ASSUME NEW period \in Periods, RoundsOf(period) # {}
  PROVE  /\ FirstRound(period) \in RoundsOf(period)
         /\ \A q \in RoundsOf(period) : CloseAt[FirstRound(period)] <= CloseAt[q]
  <1>1. RoundsOf(period) \subseteq Rounds /\ IsFiniteSet(Rounds) /\ \A r \in Rounds : CloseAt[r] \in Nat
    BY RankingsAssumption DEF RoundsOf
  <1>2. IsFiniteSet(RoundsOf(period))
    BY <1>1, FS_Subset
  <1> DEFINE f == [r \in RoundsOf(period) |-> 0 - CloseAt[r]]
  <1>3. \A r \in RoundsOf(period) : f[r] \in Int /\ f[r] = 0 - CloseAt[r] /\ CloseAt[r] \in Nat
    BY <1>1
  <1> HIDE DEF f
  <1>4. PICK r \in RoundsOf(period) : \A q \in RoundsOf(period) : f[q] <= f[r]
    BY <1>2, <1>3, Highest
  <1>5. \A q \in RoundsOf(period) : CloseAt[r] <= CloseAt[q]
    BY <1>3, <1>4
  <1>6. \E x \in RoundsOf(period) : \A q \in RoundsOf(period) : CloseAt[x] <= CloseAt[q]
    BY <1>5
  <1> QED BY <1>6 DEF FirstRound

(* Nothing lies between the start of a month and its first round.          *)
LEMMA FirstCuts ==
  ASSUME NEW period \in Periods, RoundsOf(period) # {}
  PROVE  {r \in Rounds : CloseAt[r] < CloseAt[FirstRound(period)]} =
           {r \in Rounds : CloseAt[r] < Start[period]}
  <1>1. PICK first : first = FirstRound(period)
    OBVIOUS
  <1>2. /\ first \in Rounds /\ CloseAt[first] \in Start[period]..End[period]
        /\ \A q \in RoundsOf(period) : CloseAt[first] <= CloseAt[q]
    BY <1>1, FirstIs DEF RoundsOf
  <1>3. /\ Start[period] \in Nat /\ End[period] \in Nat
        /\ \A r \in Rounds : CloseAt[r] \in Nat
    BY RankingsAssumption
  <1>4. ASSUME NEW r \in Rounds PROVE CloseAt[r] < CloseAt[first] <=> CloseAt[r] < Start[period]
    <2>1. CASE CloseAt[r] < Start[period]
      BY <1>2, <1>3, <2>1
    <2>2. CASE ~(CloseAt[r] < Start[period])
      <3>1. SUFFICES ASSUME CloseAt[r] < CloseAt[first] PROVE FALSE
        BY <2>2
      <3>2. r \in RoundsOf(period)
        BY <1>2, <1>3, <2>2, <3>1 DEF RoundsOf
      <3>3. CloseAt[first] <= CloseAt[r]
        BY <1>2, <3>2
      <3> QED BY <1>2, <1>3, <3>1, <3>3
    <2> QED BY <2>1, <2>2
  <1> QED BY <1>1, <1>4

(* What the history says was scored before a date is what the rounds       *)
(* before it are worth.                                                    *)
LEMMA BaselineIs ==
  ASSUME TypeOK, HistoryHolds, Quiet, InOrder, NEW u \in Users, NEW date \in Int,
         NEW cut \in SUBSET Rounds, cut = {r \in Rounds : CloseAt[r] < date},
         \A r \in cut : IsScored(r)
  PROVE  /\ LatestByClose(ClosingBefore(u, date)).scoreTotal = Worth(u, cut).score
         /\ LatestByClose(ClosingBefore(u, date)).supers = Worth(u, cut).supers
         /\ LatestByClose(ClosingBefore(u, date)).doubles = Worth(u, cut).doubles
         /\ LatestByClose(ClosingBefore(u, date)) = NoRow => Mine(u, cut) = {}
  <1>1. PICK S \in SUBSET Rounds : S = AllScored
    BY DEF AllScored
  <1>2. Exact(u, S)
    BY <1>1 DEF HistoryHolds, Kept, Rebuilt
  <1>3. Mine(u, cut) \subseteq S
    BY <1>1 DEF Mine, AllScored, IsScored
  <1>4. Ascending(u)
    BY DEF InOrder
  <1> QED BY <1>2, <1>3, <1>4, BeforeStands

(* The baseline of a month, read either way.                               *)
LEMMA ScoreInitialIs ==
  ASSUME TypeOK, HistoryHolds, Quiet, InOrder, NEW u \in Users, NEW period \in Periods, NEW asOf,
         RoundsOf(period) # {}, NEW before \in SUBSET Rounds,
         before = {r \in Rounds : CloseAt[r] < Start[period]}, \A r \in before : IsScored(r)
  PROVE  ScoreInitialFor(u, period, asOf) = Worth(u, before).score
  <1>1. PICK first : first = FirstRound(period)
    OBVIOUS
  <1>2. /\ first \in Rounds /\ CloseAt[first] \in Nat /\ CloseAt[first] \in Int
        /\ before = {r \in Rounds : CloseAt[r] < CloseAt[first]}
    <2>1. first \in Rounds
      BY <1>1, FirstIs DEF RoundsOf
    <2>2. before = {r \in Rounds : CloseAt[r] < CloseAt[first]}
      BY <1>1, FirstCuts
    <2> QED BY <2>1, <2>2, RankingsAssumption
  <1>3. CASE RegistrationOpen(period, asOf)
    <2>1. status[first] = "OPEN"
      BY <1>1, <1>3 DEF RegistrationOpen
    <2>2. PICK S \in SUBSET Rounds : S = AllScored
      BY DEF AllScored
    <2>3. S = before
      <3>1. ASSUME NEW r \in S PROVE r \in before
        <4>1. IsScored(r) /\ r \in Rounds /\ r # first
          BY <2>1, <2>2, <3>1 DEF AllScored, IsScored
        <4>2. ~(CloseAt[first] <= CloseAt[r])
          BY <1>2, <2>1, <4>1 DEF InOrder, IsScored
        <4>3. CloseAt[r] \in Nat
          BY <4>1, RankingsAssumption
        <4> QED BY <1>2, <4>1, <4>2, <4>3
      <3>2. before \subseteq S
        BY <2>2 DEF AllScored, IsScored
      <3> QED BY <3>1, <3>2
    <2>4. Exact(u, S)
      BY <2>2 DEF HistoryHolds, Kept, Rebuilt
    <2> QED BY <1>3, <2>3, <2>4 DEF ScoreInitialFor, Exact
  <1>4. CASE ~RegistrationOpen(period, asOf)
    <2>1. ScoreInitialFor(u, period, asOf) = LatestByClose(ClosingBefore(u, CloseAt[first])).scoreTotal
      BY <1>1, <1>4 DEF ScoreInitialFor, GetScoreTotalBefore
    <2> QED BY <1>2, <2>1, BaselineIs
  <1> QED BY <1>3, <1>4

(* Who enters with EnsureMonthlyRankings does with ScoreInitialFor.        *)
LEMMA EnsureEnters ==
  ASSUME NEW period \in Periods, NEW asOf, EnsureMonthlyRankings(period, asOf),
         NEW k \in Rankings, NEW u \in Users, participant[k][u] = None, participant'[k][u] # None
  PROVE  /\ k[2] = period /\ RoundsOf(period) # {}
         /\ participant'[k][u].scoreInitial = ScoreInitialFor(u, period, asOf)
  <1> DEFINE both == {"GLOBAL", "PRO"} \X {period}
             enrols == /\ RoundsOf(period) # {}
                       /\ RegistrationOpen(period, asOf) \/ NeedsBootstrap(period)
  <1>1. participant'[k][u] =
          IF enrols /\ k \in both /\ participant[k][u] = None /\ u \in Eligible(k, asOf)
          THEN NewParticipant(ScoreInitialFor(u, period, asOf))
          ELSE participant[k][u]
    BY DEF EnsureMonthlyRankings
  <1>2. enrols /\ k \in both /\ participant'[k][u] = NewParticipant(ScoreInitialFor(u, period, asOf))
    BY <1>1
  <1> QED BY <1>2 DEF NewParticipant

(* Whoever enters gets the worth of the rounds before the start.           *)
LEMMA BaselineStep ==
  ASSUME Typed, HistoryHolds, \A q \in Processes : Repairs(q), [Next]_vars,
         NEW k \in Rankings, NEW u \in Users, participant[k][u] = None, participant'[k][u] # None,
         Quiet, InOrder, NEW before \in SUBSET Rounds,
         before = {r \in Rounds : CloseAt[r] < StartDate(k)}, \A r \in before : IsScored(r)
  PROVE  participant'[k][u].scoreInitial = Worth(u, before).score
  <1>0. TypeOK
    BY DEF Typed
  <1>1. ASSUME NEW period \in Periods, NEW asOf, EnsureMonthlyRankings(period, asOf)
        PROVE  participant'[k][u].scoreInitial = Worth(u, before).score
    <2>1. /\ k[2] = period /\ RoundsOf(period) # {}
          /\ participant'[k][u].scoreInitial = ScoreInitialFor(u, period, asOf)
      BY <1>1, EnsureEnters
    <2>2. before = {r \in Rounds : CloseAt[r] < Start[period]}
      BY <2>1 DEF StartDate
    <2> QED BY <1>0, <2>1, <2>2, ScoreInitialIs
  <1>2. CASE \E r \in Rounds : EnsureAtClosing(r)
    BY <1>1, <1>2 DEF EnsureAtClosing
  <1>3. CASE \E period \in Periods : EnsureCurrent(period)
    BY <1>1, <1>3 DEF EnsureCurrent
  <1>4. ASSUME NEW j \in Rankings, NEW v \in Users, Join(j, v)
        PROVE  participant'[k][u].scoreInitial = Worth(u, before).score
    <2>1. participant' = [participant EXCEPT ![j][v] = NewParticipant(JoinBaseline(j, v))]
          /\ participant \in [Rankings -> [Users -> ParticipantRow \cup {None}]]
      BY <1>0, <1>4 DEF Join, TypeOK, Rows
    <2>2. participant'[k][u] = NewParticipant(JoinBaseline(k, u))
      BY <2>1
    <2>3. StartDate(k) \in Int
      <3>1. k[2] \in Periods \cup Mesas
        BY DEF Rankings, Monthly
      <3> QED BY <3>1, RankingsAssumption DEF StartDate
    <2>4. LatestByClose(ClosingBefore(u, StartDate(k))).scoreTotal = Worth(u, before).score
      BY <1>0, <2>3, BaselineIs
    <2> QED BY <2>2, <2>4 DEF NewParticipant, JoinBaseline, GetScoreTotalBefore
  <1>5. ASSUME NEW j \in Rankings, NEW ended, WriteRows(j, ended) PROVE FALSE
    <2>1. j = k
      BY <1>0, <1>5, WriteRowsTyped, RankingsAssumption
    <2>2. participant'[k] = BuildRows(k, ended)
      BY <1>0, <1>5, <2>1 DEF WriteRows, TypeOK
    <2> QED BY <1>0, <2>2, BuildKeeps, RankingsAssumption
  <1>6. ASSUME NEW j \in Rankings, CloseRanking(j) PROVE FALSE
    BY <1>5, <1>6 DEF CloseRanking
  <1>7. ASSUME NEW p \in Processes, NEW j \in Rankings, Recalculate(p, j) PROVE FALSE
    BY <1>5, <1>7 DEF Recalculate
  <1>8. ASSUME NEW p \in Processes, RepairWrite(p) PROVE FALSE
    <2>1. PICK j \in Rankings : j = proc[p].mesa
      BY <1>8, RepairWriteMoves
    <2>2. j = k
      BY <1>8, <2>1, RepairWriteTyped
    <2>3. participant'[k][u] = IF proc[p].rows[u] = None THEN participant[k][u] ELSE proc[p].rows[u]
      BY <1>0, <1>8, <2>1, <2>2 DEF RepairWrite, TypeOK, Rows
    <2>4. proc[p].rows[u] # None => participant[k][u] # None
      BY <1>8, <2>1, <2>2 DEF Repairs, RepairWrite
    <2> QED BY <2>3, <2>4
  <1> QED BY <1>2, <1>3, <1>4, <1>6, <1>7, <1>8, WhoWrites
(* The invariant the properties of steps rest on.                          *)
Standing == Typed /\ SoundRows /\ HistoryHolds /\ \A q \in Processes : Repairs(q)

(* It is an invariant of the specification.                                *)
LEMMA StandingHolds == Spec => []Standing
  <1>1. Init => Standing
    BY RankingsAssumption, TypedInit, SoundInit, HoldsInit, RepairsInit DEF Standing
  <1>2. Standing /\ [Next]_vars => Standing'
    <2> SUFFICES ASSUME Typed, SoundRows, HistoryHolds, \A q \in Processes : Repairs(q),
                        [Next]_vars
                 PROVE  Standing'
      BY DEF Standing
    <2>1. Typed'
      BY RankingsAssumption, MatchCountAssumption, TypedNext
    <2>2. RowsSound'
      BY RankingsAssumption, MatchCountAssumption, RowsNext
    <2>3. \A q \in Processes : Lists(q)'
      BY RankingsAssumption, ListsNext DEF SoundRows
    <2>4. \A q \in Processes : Repairs(q)'
      BY RankingsAssumption, RepairsNext
    <2>5. HistoryHolds'
      BY HoldsNext
    <2> QED BY <2>1, <2>2, <2>3, <2>4, <2>5 DEF Standing, SoundRows
  <1> QED BY <1>1, <1>2, PTL DEF Spec

(* Whoever enters a month or a Mesa when the rounds before its start were  *)
(* scored, in order, has as baseline exactly what they are worth           *)
(* (JoinBolaoService, EnsureMonthlyRankingsService).                        *)
THEOREM BaselinesExact == Spec => BaselineExact
  <1> DEFINE Enters == \A k \in Rankings, u \in Users :
               LET before == {r \in Rounds : CloseAt[r] < StartDate(k)}
               IN  /\ participant[k][u] = None /\ participant'[k][u] # None
                   /\ Quiet /\ InOrder /\ \A r \in before : IsScored(r)
                   => participant'[k][u].scoreInitial = Worth(u, before).score
  <1>1. Standing /\ [Next]_vars => [Enters]_vars
    <2> SUFFICES ASSUME Standing, [Next]_vars PROVE Enters
      OBVIOUS
    <2> SUFFICES ASSUME NEW k \in Rankings, NEW u \in Users,
                        participant[k][u] = None, participant'[k][u] # None, Quiet, InOrder,
                        \A r \in {r \in Rounds : CloseAt[r] < StartDate(k)} : IsScored(r)
                 PROVE  participant'[k][u].scoreInitial =
                          Worth(u, {r \in Rounds : CloseAt[r] < StartDate(k)}).score
      OBVIOUS
    <2>1. PICK before \in SUBSET Rounds : before = {r \in Rounds : CloseAt[r] < StartDate(k)}
      OBVIOUS
    <2>2. participant'[k][u].scoreInitial = Worth(u, before).score
      BY <2>1, BaselineStep DEF Standing
    <2> QED BY <2>1, <2>2
  <1> HIDE DEF Enters
  <1>2. Spec => [][Enters]_vars
    BY <1>1, StandingHolds, PTL DEF Spec
  <1> QED BY <1>2, PTL DEF Enters, BaselineExact

(***************************************************************************)
(* Windows.                                                                *)
(***************************************************************************)

LEMMA WindowIs ==
  ASSUME TypeOK, HistoryHolds, NEW k \in Rankings, ResultsAreIn(k), NEW u \in In(k),
         participant[k][u].scoreInitial =
           Worth(u, {r \in Rounds : CloseAt[r] < StartDate(k)}).score
  PROVE  WindowMetrics(k, TRUE)[u] = Worth(u, WindowOf(k))
  <1>0. u \in Users /\ Quiet /\ InOrder
    BY DEF In, ResultsAreIn
  <1>1. PICK start, end : start = StartDate(k) /\ end = EndDate(k)
    OBVIOUS
  <1>2. /\ start \in Nat /\ end \in Nat /\ start < end
        /\ \A r \in Rounds : CloseAt[r] \in Nat
    <2>1. k[2] \in Periods \cup Mesas
      BY DEF Rankings, Monthly
    <2> QED BY <1>1, <2>1, RankingsAssumption DEF StartDate, EndDate
  <1>3. PICK before \in SUBSET Rounds : before = {r \in Rounds : CloseAt[r] < start}
    OBVIOUS
  <1>4. PICK upTo \in SUBSET Rounds : upTo = {r \in Rounds : CloseAt[r] < end + 1}
    OBVIOUS
  <1>5. PICK window \in SUBSET Rounds : window = WindowOf(k)
    BY DEF WindowOf
  <1>6. upTo = before \cup window /\ before \cap window = {}
    <2>1. \A r \in Rounds : /\ r \in before <=> CloseAt[r] < start
                            /\ r \in window <=> CloseAt[r] >= start /\ CloseAt[r] <= end
                            /\ r \in upTo <=> CloseAt[r] < end + 1
      BY <1>1, <1>2, <1>3, <1>4, <1>5 DEF WindowOf
    <2> QED BY <1>2, <2>1
  <1>7. \A r \in upTo : IsScored(r)
    BY <1>1, <1>2, <1>4 DEF ResultsAreIn
  <1>8. PICK latest : latest = LatestByClose(ClosingBefore(u, end + 1))
    OBVIOUS
  <1>9. PICK first : first = LatestByClose(ClosingBefore(u, start))
    OBVIOUS
  <1>10. /\ latest.scoreTotal = Worth(u, upTo).score
         /\ latest.supers = Worth(u, upTo).supers
         /\ latest.doubles = Worth(u, upTo).doubles
         /\ latest = NoRow => Mine(u, upTo) = {}
    <2>1. PICK date \in Int : date = end + 1
      BY <1>2
    <2>2. upTo = {r \in Rounds : CloseAt[r] < date} /\ latest = LatestByClose(ClosingBefore(u, date))
      BY <1>4, <1>8, <2>1
    <2> QED BY <1>0, <1>7, <2>2, BaselineIs
  <1>11. /\ first.supers = Worth(u, before).supers
         /\ first.doubles = Worth(u, before).doubles
    <2>1. start \in Int /\ \A r \in before : IsScored(r)
      BY <1>2, <1>6, <1>7
    <2> QED BY <1>0, <1>3, <1>9, <2>1, BaselineIs
  <1>12. /\ Worth(u, upTo).score = Worth(u, before).score + Worth(u, window).score
         /\ Worth(u, upTo).supers = Worth(u, before).supers + Worth(u, window).supers
         /\ Worth(u, upTo).doubles = Worth(u, before).doubles + Worth(u, window).doubles
    BY <1>6, WorthJoin
  <1>13. /\ Worth(u, before).score \in Int /\ Worth(u, before).supers \in Int
         /\ Worth(u, before).doubles \in Int
         /\ Worth(u, window).score \in Int /\ Worth(u, window).supers \in Int
         /\ Worth(u, window).doubles \in Int
    BY WorthSums
  <1>14. PICK initial : initial = participant[k][u].scoreInitial
    OBVIOUS
  <1>15. initial = Worth(u, before).score
    BY <1>1, <1>3, <1>14
  <1>16. PICK total : total = WindowTotal(k, u, TRUE)
    OBVIOUS
  <1>17. total = IF latest = NoRow THEN initial ELSE latest.scoreTotal
    BY <1>1, <1>8, <1>14, <1>16 DEF WindowTotal
  <1>18. total - initial = Worth(u, window).score
    <2>1. CASE latest = NoRow
      <3>1. Mine(u, window) = {}
        BY <1>6, <1>10, <2>1 DEF Mine
      <3>2. Worth(u, window).score = 0
        BY <3>1, WorthNone
      <3> QED BY <1>13, <1>15, <1>17, <2>1, <3>2
    <2>2. CASE latest # NoRow
      BY <1>10, <1>12, <1>13, <1>15, <1>17, <2>2
    <2> QED BY <2>1, <2>2
  <1>19. WindowMetrics(k, TRUE)[u] =
           [score |-> total - initial, supers |-> latest.supers - first.supers,
            doubles |-> latest.doubles - first.doubles]
    BY <1>1, <1>8, <1>9, <1>14, <1>16 DEF WindowMetrics
  <1>20. /\ latest.supers - first.supers = Worth(u, window).supers
         /\ latest.doubles - first.doubles = Worth(u, window).doubles
    BY <1>10, <1>11, <1>12, <1>13
  <1>21. Worth(u, window) = [score |-> Worth(u, window).score, supers |-> Worth(u, window).supers,
                             doubles |-> Worth(u, window).doubles]
    BY DEF Worth
  <1> QED BY <1>5, <1>18, <1>19, <1>20, <1>21

(* The rows built after the end, with exact baselines.                     *)
LEMMA BuildCounts ==
  ASSUME TypeOK, HistoryHolds, NEW k \in Rankings, ResultsAreIn(k),
         \A u \in In(k) : participant[k][u].scoreInitial =
           Worth(u, {r \in Rounds : CloseAt[r] < StartDate(k)}).score
  PROVE  CountsWindow(k, BuildRows(k, TRUE))
  <1> DEFINE metrics == [u \in In(k) |-> Worth(u, WindowOf(k))]
  <1>1. WindowMetrics(k, TRUE) = metrics
    <2>1. \A u \in In(k) : WindowMetrics(k, TRUE)[u] = metrics[u]
      BY WindowIs
    <2>2. PICK f : f = WindowMetrics(k, TRUE)
      OBVIOUS
    <2>3. f = [u \in In(k) |-> f[u]]
      BY <2>2 DEF WindowMetrics
    <2> QED BY <2>1, <2>2, <2>3
  <1>2. ASSUME NEW u \in In(k)
        PROVE  /\ BuildRows(k, TRUE)[u].score = metrics[u].score
               /\ BuildRows(k, TRUE)[u].position = Position(metrics, u)
    <2>1. u \in Users /\ participant[k][u] # None /\ participant[k][u] \in ParticipantRow
      BY DEF In, TypeOK, Rows
    <2>2. PICK row \in ParticipantRow : row = participant[k][u]
      BY <2>1
    <2>3. BuildRows(k, TRUE)[u] =
            [row EXCEPT !.score = WindowMetrics(k, TRUE)[u].score,
                        !.position = Position(WindowMetrics(k, TRUE), u)]
      BY <2>1, <2>2, Zenon DEF BuildRows
    <2>4. BuildRows(k, TRUE)[u] =
            [row EXCEPT !.score = metrics[u].score, !.position = Position(metrics, u)]
      BY <1>1, <2>3, Zenon
    <2> HIDE DEF metrics
    <2> QED BY <2>2, <2>4 DEF ParticipantRow
  <1> QED BY <1>2 DEF CountsWindow
(* A process that is about to read a closed Mesa reads it or dies.         *)
LEMMA WhoReads ==
  ASSUME Typed, \A q \in Processes : Repairs(q), [Next]_vars, NEW k \in Rankings,
         NEW p \in Processes, ReadForRepair(p, k)
  PROVE  RepairRead(p, k)
  <1>0. TypeOK /\ k # None
    BY RankingsAssumption DEF Typed
  <1>1. proc[p].at = "repairRead" /\ proc[p].mesa = None /\ proc'[p].mesa = k
    BY DEF ReadForRepair, Repairs
  <1>2. PICK q \in Processes : Acts(q)
    BY <1>0, <1>1, WhoMoves
  <1>3. q = p
    BY <1>0, <1>1, <1>2, ActsMove, RankingsAssumption DEF Moves, Aside
  <1>4. ~Die(p)
    BY <1>0, <1>1, DieMoves DEF Idle
  <1>5. \A j \in Rankings : RepairRead(p, j) => j = k
    BY <1>0, <1>1, RepairReadMoves, RankingsAssumption
  <1>6. /\ \A r \in Rounds : ~ScoreRound(p, r)
        /\ ~ListRankings(p) /\ ~Finish(p) /\ \A j \in Rankings : ~Recalculate(p, j)
        /\ ~ReadScored(p) /\ ~WipeSnapshots(p) /\ ~WipeHistory(p) /\ ~ResetTotals(p)
        /\ ~RebuildRound(p) /\ ~RebuildSnapshot(p)
        /\ ~StartBackfill(p) /\ ~BackfillSnapshot(p)
        /\ \A u \in Users : ~BackfillTicket(p, u)
        /\ ~StartRepair(p) /\ ~RepairWrite(p)
    BY <1>1 DEF ScoreRound, ListRankings, Finish, Recalculate, ReadScored, WipeSnapshots,
         WipeHistory, ResetTotals, RebuildRound, RebuildSnapshot, StartBackfill,
         BackfillSnapshot, BackfillTicket, StartRepair, RepairWrite
  <1> QED BY <1>2, <1>3, <1>4, <1>5, <1>6 DEF Acts

(* A ranking that runs is closed only by CloseRanking.                     *)
LEMMA WhoCloses ==
  ASSUME TypeOK, [Next]_vars, NEW k \in Rankings, Closes(k)
  PROVE  participant'[k] = BuildRows(k, TRUE)
  <1>0. ranking[k] = "ACTIVE" /\ ranking'[k] = "CLOSED" /\ now > EndDate(k)
        /\ ranking \in [Rankings -> {"ABSENT", "ACTIVE", "CLOSED"}]
        /\ participant \in [Rankings -> Rows]
    BY DEF Closes, TypeOK
  <1>1. ASSUME NEW period \in Periods, NEW asOf, EnsureMonthlyRankings(period, asOf) PROVE FALSE
    <2>1. ranking'[k] \in {"ACTIVE", ranking[k]}
      BY <1>1 DEF EnsureMonthlyRankings
    <2> QED BY <1>0, <2>1
  <1>2. CASE \E r \in Rounds : EnsureAtClosing(r)
    BY <1>1, <1>2 DEF EnsureAtClosing
  <1>3. CASE \E period \in Periods : EnsureCurrent(period)
    BY <1>1, <1>3 DEF EnsureCurrent
  <1>4. ASSUME NEW j \in Rankings, CloseRanking(j) PROVE participant'[k] = BuildRows(k, TRUE)
    <2>1. j = k
      BY <1>0, <1>4 DEF CloseRanking
    <2>2. participant' = [participant EXCEPT ![k] = BuildRows(k, now > EndDate(k))]
      BY <1>4, <2>1 DEF CloseRanking, WriteRows
    <2>3. (now > EndDate(k)) = TRUE
      BY <1>0
    <2>4. participant'[k] = BuildRows(k, now > EndDate(k))
      BY <1>0, <2>2
    <2> QED BY <2>3, <2>4, Zenon
  <1>5. ASSUME NEW j \in Rankings, NEW v \in Users, Join(j, v) PROVE FALSE
    BY <1>0, <1>5 DEF Join
  <1>6. ASSUME NEW p \in Processes, RepairWrite(p) PROVE FALSE
    BY <1>0, <1>6 DEF RepairWrite
  <1>7. ASSUME NEW p \in Processes, NEW j \in Rankings, Recalculate(p, j) PROVE FALSE
    BY <1>0, <1>7 DEF Recalculate
  <1>8. CASE UNCHANGED <<participant, ranking>>
    BY <1>0, <1>8
  <1> QED BY <1>2, <1>3, <1>4, <1>5, <1>6, <1>7, <1>8, WhoWrites

(* What a repair has read is what it would write.                          *)
LEMMA RepairedIs ==
  ASSUME TypeOK, NEW k \in Rankings, NEW p \in Processes, RepairRead(p, k),
         CountsWindow(k, BuildRows(k, TRUE))
  PROVE  CountsWindow(k, Repaired(p, k))
  <1>1. \A u \in Users : proc'[p].rows[u] = ReadRow(k, u)
    BY RepairReadMoves, RankingsAssumption
  <1>2. ASSUME NEW u \in In(k) PROVE Repaired(p, k)[u] = BuildRows(k, TRUE)[u]
    <2>1. u \in Users /\ participant[k][u] # None
      BY DEF In
    <2>2. PICK row : row = BuildRows(k, TRUE)[u]
      OBVIOUS
    <2>3. row # None
      <3>1. BuildRows(k, TRUE)[u] = None <=> participant[k][u] = None
        BY <2>1, BuildKeeps, RankingsAssumption
      <3> QED BY <2>1, <2>2, <3>1
    <2>4. proc'[p].rows[u] = IF row = participant[k][u] THEN None ELSE row
      BY <1>1, <2>1, <2>2 DEF ReadRow
    <2>5. Repaired(p, k)[u] = IF proc'[p].rows[u] = None THEN participant[k][u] ELSE proc'[p].rows[u]
      BY <2>1 DEF Repaired
    <2> QED BY <2>2, <2>3, <2>4, <2>5
  <1>3. PICK rows, read : rows = BuildRows(k, TRUE) /\ read = Repaired(p, k)
    OBVIOUS
  <1>4. \A u \in In(k) : read[u] = rows[u]
    BY <1>2, <1>3
  <1>5. CountsWindow(k, rows)
    BY <1>3, Zenon
  <1>6. CountsWindow(k, read)
    BY <1>4, <1>5 DEF CountsWindow
  <1> QED BY <1>3, <1>6, Zenon

(* A ranking that is closed when the rounds of its window are scored, or a *)
(* closed Mesa that is repaired, shows what the window is worth, and the   *)
(* positions that follow (CloseRankingService, repair-closed-bolao-scores).  *)
THEOREM ClosingsCount == Spec => ClosingCountsWindow
  <1> DEFINE Counts == \A k \in Rankings :
        /\ Closes(k) \/ \E p \in Processes : ReadForRepair(p, k)
        /\ ResultsAreIn(k)
        /\ \A u \in In(k) : participant[k][u].scoreInitial =
              Worth(u, {r \in Rounds : CloseAt[r] < StartDate(k)}).score
        => /\ Closes(k) => CountsWindow(k, participant'[k])
           /\ \A p \in Processes :
                 ReadForRepair(p, k) => CountsWindow(k, Repaired(p, k))
  <1>1. Standing /\ [Next]_vars => [Counts]_vars
    <2> SUFFICES ASSUME Standing, [Next]_vars PROVE Counts
      OBVIOUS
    <2> SUFFICES ASSUME NEW k \in Rankings, ResultsAreIn(k),
                        \A u \in In(k) : participant[k][u].scoreInitial =
                          Worth(u, {r \in Rounds : CloseAt[r] < StartDate(k)}).score
                 PROVE  /\ Closes(k) => CountsWindow(k, participant'[k])
                        /\ \A p \in Processes :
                             ReadForRepair(p, k) => CountsWindow(k, Repaired(p, k))
      OBVIOUS
    <2>0. Typed /\ TypeOK /\ HistoryHolds /\ \A q \in Processes : Repairs(q)
      BY DEF Standing, Typed
    <2>1. CountsWindow(k, BuildRows(k, TRUE))
      BY <2>0, BuildCounts
    <2>2. ASSUME Closes(k) PROVE CountsWindow(k, participant'[k])
      <3>1. participant'[k] = BuildRows(k, TRUE)
        BY <2>0, <2>2, WhoCloses
      <3> QED BY <2>1, <3>1, Zenon
    <2>3. ASSUME NEW p \in Processes, ReadForRepair(p, k) PROVE CountsWindow(k, Repaired(p, k))
      <3>1. RepairRead(p, k)
        BY <2>0, <2>3, WhoReads
      <3> QED BY <2>0, <2>1, <3>1, RepairedIs
    <2> QED BY <2>2, <2>3
  <1> HIDE DEF Counts
  <1>2. Spec => [][Counts]_vars
    BY <1>1, StandingHolds, PTL DEF Spec
  <1> QED BY <1>2, PTL DEF Counts, ClosingCountsWindow
(***************************************************************************)
(* Snapshots.                                                              *)
(***************************************************************************)

(* Who ends a scoring has scored its round.                                *)
Finishes(q) ==
    proc[q].at \in {"list", "recalculate"} =>
        proc[q].round = None \/ proc[q].round \in AllScored

LEMMA FinishesInit == Init => \A q \in Processes : Finishes(q)
  BY IdleIs DEF Init, Finishes

(* Every step keeps it.                                                    *)
LEMMA FinishesNext ==
  ASSUME Typed, [Next]_vars, \A q \in Processes : Finishes(q)
  PROVE  \A q \in Processes : Finishes(q)'
  <1>0. TypeOK /\ AllScored \subseteq AllScored'
    BY ScoredStays DEF Typed
  <1>1. ASSUME NEW q \in Processes, Aside(q) PROVE Finishes(q)'
    BY <1>0, <1>1 DEF Finishes, Aside
  <1>2. UNCHANGED proc => \A q \in Processes : Aside(q)
    BY DEF Aside
  <1>3. ASSUME NEW p \in Processes, Acts(p) PROVE \A q \in Processes : Finishes(q)'
    <2>1. \A q \in Processes \ {p} : Finishes(q)'
      BY <1>1, <1>3, ActsMove, RankingsAssumption DEF Moves
    <2>2. ASSUME NEW r \in Rounds, ScoreRound(p, r) PROVE Finishes(p)'
      <3>1. proc'[p] = [Idle EXCEPT !.at = "list", !.round = r]
        BY <1>0, <2>2, ScoreMoves DEF Moves
      <3>2. proc'[p].round = r
        BY <3>1 DEF Idle
      <3>3. status' = [status EXCEPT ![r] = "SCORED"] /\ DOMAIN status = Rounds
        BY <1>0, <2>2 DEF ScoreRound, TypeOK
      <3>4. r \in AllScored'
        BY <3>3 DEF AllScored
      <3> QED BY <3>2, <3>4 DEF Finishes
    <2>3. ASSUME ListRankings(p) PROVE Finishes(p)'
      <3>1. proc[p].at = "list" /\ proc'[p].round = proc[p].round
        BY <1>0, <2>3, ListMoves DEF ListRankings
      <3> QED BY <1>0, <3>1 DEF Finishes
    <2>4. ASSUME NEW k \in Rankings, Recalculate(p, k) PROVE Finishes(p)'
      <3>1. proc[p].at = "recalculate" /\ proc'[p].round = proc[p].round
        BY <1>0, <2>4, RecalculateMoves DEF Recalculate
      <3> QED BY <1>0, <3>1 DEF Finishes
    <2>5. ASSUME RebuildSnapshot(p) PROVE Finishes(p)'
      <3>1. proc'[p].round = None
        BY <1>0, <2>5, RebuildSnapshotMoves
      <3> QED BY <3>1 DEF Finishes
    <2>6. ASSUME Finish(p) \/ Die(p) PROVE Finishes(p)'
      <3>1. proc'[p] = Idle
        BY <1>0, <2>6, FinishMoves, DieMoves
      <3> QED BY <3>1, IdleIs DEF Finishes
    <2>7. \/ \E r \in Rounds : ScoreRound(p, r)
          \/ ListRankings(p) \/ Finish(p) \/ Die(p)
          \/ \E k \in Rankings : Recalculate(p, k)
          \/ RebuildSnapshot(p)
          \/ proc'[p].at \notin {"list", "recalculate"}
      <3>1. ASSUME ReadScored(p) PROVE proc'[p].at = "wipeSnapshots"
        BY <1>0, <3>1, ReadMoves
      <3>2. ASSUME WipeSnapshots(p) \/ WipeHistory(p) \/ ResetTotals(p)
            PROVE  proc'[p].at \in {"wipeHistory", "reset", "rebuild"}
        BY <1>0, <3>2, WipeMoves
      <3>3. ASSUME RebuildRound(p) PROVE proc'[p].at = "rebuildSnapshot"
        BY <3>3, RebuildMoves, RankingsAssumption
      <3>4. ASSUME NEW todo \in SUBSET Rounds, proc'[p] = Backfilling(todo)
            PROVE  proc'[p].at \in {"idle", "backfill"}
        BY <3>4, BackfillingIs, IdleIs, RankingsAssumption
      <3>5. ASSUME StartBackfill(p) PROVE proc'[p].at \in {"idle", "backfill"}
        <4>1. {r \in Rounds : status[r] = "SCORED"} \in SUBSET Rounds
          OBVIOUS
        <4>2. proc'[p] = Backfilling({r \in Rounds : status[r] = "SCORED"})
          BY <1>0, <3>5, StartBackfillMoves, RankingsAssumption
        <4> QED BY <3>4, <4>1, <4>2
      <3>6. ASSUME BackfillSnapshot(p) PROVE proc'[p].at \in {"idle", "backfill"}
        <4>1. /\ proc'[p] = Backfilling(proc[p].todo \ {Min(proc[p].todo)})
              /\ proc[p].todo \in (SUBSET Rounds) \ {{}}
          BY <3>6, BackfillSnapshotMoves, RankingsAssumption
        <4>2. proc[p].todo \ {Min(proc[p].todo)} \in SUBSET Rounds
          BY <4>1
        <4> QED BY <3>4, <4>1, <4>2
      <3>7. ASSUME NEW u \in Users, BackfillTicket(p, u) PROVE proc'[p].at = "backfill"
        BY <3>7, BackfillTicketMoves, RankingsAssumption
      <3>8. ASSUME StartRepair(p) PROVE proc'[p].at = "repairRead"
        BY <1>0, <3>8, StartRepairMoves
      <3>9. ASSUME RepairWrite(p) PROVE proc'[p].at \in {"idle", "repairRead"}
        BY <3>9, RepairWriteMoves
      <3>10. ASSUME NEW k \in Rankings, RepairRead(p, k) PROVE proc'[p].at = "repairWrite"
        BY <1>0, <3>10, RepairReadMoves, RankingsAssumption
      <3> QED BY <1>3, <3>1, <3>2, <3>3, <3>5, <3>6, <3>7, <3>8, <3>9, <3>10 DEF Acts
    <2>8. proc'[p].at \notin {"list", "recalculate"} => Finishes(p)'
      BY DEF Finishes
    <2> QED BY <2>1, <2>2, <2>3, <2>4, <2>5, <2>6, <2>7, <2>8
  <1> QED BY <1>1, <1>2, <1>3, WhoMoves

(* A snapshot appears where a scored round had none, with the rows of that *)
(* moment.                                                                 *)
LEMMA MadeSnapshot ==
  ASSUME TypeOK, NEW r \in Rounds, snapshot[r] = {}, snapshot'[r] # {},
         NEW x \in Rounds, SnapshotRanking(x)
  PROVE  x = r /\ snapshot'[r] = SnapshotRows(r)
  <1>1. DOMAIN snapshot = Rounds
    BY DEF TypeOK
  <1>2. snapshot' = [snapshot EXCEPT ![x] = SnapshotRows(x)]
    BY DEF SnapshotRanking
  <1>3. x = r
    BY <1>1, <1>2
  <1> QED BY <1>1, <1>2, <1>3

(* The only writers of snapshots.                                          *)
LEMMA WhoSnapshots ==
  ASSUME [Next]_vars
  PROVE  \/ UNCHANGED snapshot
         \/ \E x \in Rounds : GenerateSnapshot(x)
         \/ \E p \in Processes :
              Finish(p) \/ WipeSnapshots(p) \/ RebuildSnapshot(p) \/ BackfillSnapshot(p)
  <1>1. CASE UNCHANGED vars
    BY <1>1 DEF vars
  <1>2. Tick => UNCHANGED snapshot
    BY DEF Tick
  <1>3. ASSUME NEW r \in Rounds, CloseRound(r) PROVE UNCHANGED snapshot
    BY <1>3 DEF CloseRound
  <1>4. ASSUME NEW r \in Rounds, EnsureAtClosing(r) PROVE UNCHANGED snapshot
    BY <1>4 DEF EnsureAtClosing, EnsureMonthlyRankings
  <1>5. ASSUME NEW period \in Periods, EnsureCurrent(period) PROVE UNCHANGED snapshot
    BY <1>5 DEF EnsureCurrent, EnsureMonthlyRankings
  <1>6. ASSUME NEW k \in Rankings, CloseRanking(k) PROVE UNCHANGED snapshot
    BY <1>6 DEF CloseRanking
  <1>7. ASSUME NEW k \in Rankings, NEW u \in Users, Join(k, u) PROVE UNCHANGED snapshot
    BY <1>7 DEF Join
  <1>8. ASSUME NEW p \in Processes, Acts(p)
        PROVE  \/ UNCHANGED snapshot
               \/ Finish(p) \/ WipeSnapshots(p) \/ RebuildSnapshot(p) \/ BackfillSnapshot(p)
    BY <1>8 DEF Acts, ScoreRound, ListRankings, Die, Recalculate, ReadScored, WipeHistory,
         ResetTotals, RebuildRound, StartBackfill, BackfillTicket, StartRepair, RepairWrite,
         RepairRead
  <1> QED BY <1>1, <1>2, <1>3, <1>4, <1>5, <1>6, <1>7, <1>8, NextIs

(* A snapshot appears only for a scored round, with its rows.              *)
LEMMA SnapshotStep ==
  ASSUME Typed, SoundRows, \A q \in Processes : Finishes(q), [Next]_vars,
         NEW r \in Rounds, snapshot[r] = {}, snapshot'[r] # {}
  PROVE  r \in AllScored /\ snapshot'[r] = SnapshotRows(r)
  <1>0. TypeOK
    BY DEF Typed
  <1>1. ASSUME NEW x \in Rounds, GenerateSnapshot(x)
        PROVE  r \in AllScored /\ snapshot'[r] = SnapshotRows(r)
    <2>1. SnapshotRanking(x) /\ x \in AllScored
      BY <1>1 DEF GenerateSnapshot, AllScored
    <2> QED BY <1>0, <2>1, MadeSnapshot
  <1>2. ASSUME NEW p \in Processes, Finish(p)
        PROVE  r \in AllScored /\ snapshot'[r] = SnapshotRows(r)
    <2>1. proc[p].at = "recalculate" /\ proc[p].round # None /\ SnapshotRanking(proc[p].round)
      BY <1>2 DEF Finish
    <2>2. PICK x : x = proc[p].round
      OBVIOUS
    <2>3. x \in AllScored /\ x \in Rounds /\ SnapshotRanking(x)
      BY <2>1, <2>2 DEF Finishes, AllScored
    <2> QED BY <1>0, <2>3, MadeSnapshot
  <1>3. ASSUME NEW p \in Processes, WipeSnapshots(p) PROVE FALSE
    BY <1>0, <1>3 DEF WipeSnapshots, TypeOK
  <1>4. ASSUME NEW p \in Processes, RebuildSnapshot(p)
        PROVE  r \in AllScored /\ snapshot'[r] = SnapshotRows(r)
    <2>1. proc[p].at = "rebuildSnapshot" /\ SnapshotRanking(proc[p].round)
      BY <1>4 DEF RebuildSnapshot
    <2>2. PICK x : x = proc[p].round
      OBVIOUS
    <2>3. x \in AllScored /\ x \in Rounds /\ SnapshotRanking(x)
      BY <2>1, <2>2 DEF SoundRows, Lists, AllScored
    <2> QED BY <1>0, <2>3, MadeSnapshot
  <1>5. ASSUME NEW p \in Processes, BackfillSnapshot(p)
        PROVE  r \in AllScored /\ snapshot'[r] = SnapshotRows(r)
    <2>1. /\ proc[p].at = "backfill" /\ SnapshotRanking(Min(proc[p].todo))
          /\ Min(proc[p].todo) \in proc[p].todo
      BY <1>5, BackfillSnapshotMoves, RankingsAssumption DEF BackfillSnapshot
    <2>2. PICK x : x = Min(proc[p].todo)
      OBVIOUS
    <2>3. x \in AllScored /\ x \in Rounds /\ SnapshotRanking(x)
      BY <2>1, <2>2 DEF SoundRows, Lists, AllScored
    <2> QED BY <1>0, <2>3, MadeSnapshot
  <1> QED BY <1>1, <1>2, <1>3, <1>4, <1>5, WhoSnapshots
(* The rows of a user for one round: one where it was played, else none.   *)
LEMMA OneRow ==
  ASSUME TypeOK, RowsSound, NEW u \in Users, NEW S \in SUBSET Rounds, Exact(u, S), NEW r \in S,
         NEW rows, rows = {h \in RowsOf(u) : h.round = r}
  PROVE  SumFunction([h \in rows |-> h.scoreRound]) = Increment(r, u)
  <1> DEFINE f == [h \in rows |-> h.scoreRound]
  <1>0. history[u] \in Seq(HistoryRow)
    BY DEF TypeOK
  <1>1. /\ RowsOf(u) \in SUBSET HistoryRow
        /\ \A i \in 1..Len(history[u]) : history[u][i] \in RowsOf(u)
        /\ \A h \in RowsOf(u) : \E i \in 1..Len(history[u]) : h = history[u][i]
    BY <1>0, RowsAre
  <1>2. /\ RoundsUpTo(u, Len(history[u])) = Mine(u, S)
        /\ \A i, j \in 1..Len(history[u]) : history[u][i].round = history[u][j].round => i = j
    BY DEF Exact
  <1>3. SumFunction(f) = SumFunctionOnSet(f, rows)
    BY DEF SumFunction
  <1>4. CASE u \in Players(r)
    <2>1. r \in Mine(u, S)
      BY <1>4 DEF Mine
    <2>2. PICK i \in 1..Len(history[u]) : r = history[u][i].round
      BY <1>2, <2>1 DEF RoundsUpTo
    <2>3. PICK h : h = history[u][i]
      OBVIOUS
    <2>4. rows = {h}
      BY <1>1, <1>2, <2>2, <2>3
    <2>5. h.round = r /\ h.scoreRound = Scored(r, u).total /\ h.scoreRound \in Int
      <3>1. RowSound(u, h, AllScored) /\ h \in HistoryRow
        BY <1>1, <2>3 DEF RowsSound
      <3> QED BY <2>2, <2>3, <3>1 DEF RowSound, HistoryRow
    <2>6. f[h] = h.scoreRound
      BY <2>4
    <2> HIDE DEF f
    <2>7. IsFiniteSet({h}) /\ h \in {h} /\ {h} \ {h} = {}
      BY FS_Singleton
    <2>8. SumFunctionOnSet(f, {h}) = SumFunctionOnSet(f, {h} \ {h}) + f[h]
      <3>1. \A x \in {h} : f[x] \in Int
        BY <2>5, <2>6
      <3> QED BY <2>7, <3>1, SumRemove
    <2>9. SumFunctionOnSet(f, {}) = 0
      BY SumEmpty
    <2>10. SumFunctionOnSet(f, {h}) = 0 + f[h]
      BY <2>7, <2>8, <2>9
    <2>11. SumFunctionOnSet(f, {h}) = Scored(r, u).total
      BY <2>5, <2>6, <2>10
    <2>12. SumFunction(f) = Scored(r, u).total
      BY <1>3, <2>4, <2>11, Zenon
    <2> QED BY <1>4, <2>12 DEF f, Increment
  <1>5. CASE u \notin Players(r)
    <2>1. ASSUME NEW h \in rows PROVE FALSE
      <3>1. PICK i \in 1..Len(history[u]) : h = history[u][i]
        BY <1>1
      <3>2. r \in RoundsUpTo(u, Len(history[u]))
        BY <3>1 DEF RoundsUpTo
      <3> QED BY <1>2, <1>5, <3>2 DEF Mine
    <2>2. rows = {}
      BY <2>1
    <2>3. SumFunctionOnSet(f, {}) = 0
      BY SumEmpty
    <2>4. SumFunction(f) = 0
      BY <1>3, <2>2, <2>3, Zenon
    <2> QED BY <1>5, <2>4 DEF Increment
  <1> QED BY <1>4, <1>5

(* The same for the rounds a snapshot goes up to.                          *)
LEMMA UpToScored ==
  ASSUME TypeOK, NEW u \in Users, NEW S \in SUBSET Rounds, NEW r \in Rounds,
         Exact(u, S), Ascending(u), NEW upTo \in SUBSET S, upTo = {q \in S : q <= r},
         NEW rows, rows = RowsIn(u, upTo)
  PROVE  /\ rows = {} => Mine(u, upTo) = {}
         /\ rows # {} =>
              /\ Mine(u, upTo) # {}
              /\ LatestByNumber(rows).scoreTotal = Worth(u, upTo).score
              /\ LatestByNumber(rows).supers = Worth(u, upTo).supers
              /\ LatestByNumber(rows).doubles = Worth(u, upTo).doubles
  <1>1. upTo \in SUBSET Rounds /\ Mine(u, upTo) \subseteq S
    BY DEF Mine
  <1>2. \A q \in S : q \in upTo <=> q <= r
    OBVIOUS
  <1>3. upTo \in SUBSET Rounds
    BY <1>1
  <1>4. Mine(u, upTo) \subseteq S
    BY <1>1
  <1> QED BY <1>2, <1>3, <1>4, UpToStands, Zenon

(* The rounds a snapshot goes up to, and the standing after some rounds.   *)
UpTo(r) == {q \in Rounds : q <= r /\ IsScored(q)}
StandingRows(r, rs) ==
    LET users == UNION {Players(q) : q \in rs}
        metrics == [u \in users |-> Worth(u, rs)]
    IN  {[user |-> u, scoreTotal |-> metrics[u].score, scoreRound |-> Increment(r, u),
          doubles |-> metrics[u].doubles, supers |-> metrics[u].supers,
          position |-> Position(metrics, u)] : u \in users}

(* The rows of a snapshot.                                                 *)
LEMMA SnapshotIs ==
  ASSUME TypeOK, RowsSound, InOrder, NEW S \in SUBSET Rounds, \A u \in Users : Exact(u, S),
         NEW r \in S, UpTo(r) \subseteq S, \A q \in S : IsScored(q)
  PROVE  SnapshotRows(r) = StandingRows(r, UpTo(r))
  <1> DEFINE upTo == UpTo(r)
             users == UNION {Players(q) : q \in upTo}
             metrics == [u \in users |-> Worth(u, upTo)]
  <1>a. upTo \in SUBSET S /\ upTo = {q \in Rounds : q <= r /\ IsScored(q)}
    BY DEF UpTo
  <1>b. users = UNION {Players(q) : q \in upTo}
    OBVIOUS
  <1>c. metrics = [u \in users |-> Worth(u, upTo)]
    OBVIOUS
  <1> HIDE DEF upTo, users, metrics
  <1>0. r \in Rounds /\ upTo \in SUBSET Rounds /\ users \subseteq Users
    BY <1>a, <1>b DEF Players
  <1>1. ValidRounds(r) = upTo
    BY <1>a DEF ValidRounds, IsScored
  <1>2. PICK rows : rows = [u \in Users |-> {h \in RowsOf(u) : h.round \in upTo}]
    OBVIOUS
  <1>3. PICK mine : mine = [u \in Users |-> {h \in RowsOf(u) : h.round = r}]
    OBVIOUS
  <1>4. ASSUME NEW u \in Users
        PROVE  /\ rows[u] = {} => Mine(u, upTo) = {}
               /\ rows[u] # {} =>
                    /\ Mine(u, upTo) # {}
                    /\ LatestByNumber(rows[u]).scoreTotal = Worth(u, upTo).score
                    /\ LatestByNumber(rows[u]).supers = Worth(u, upTo).supers
                    /\ LatestByNumber(rows[u]).doubles = Worth(u, upTo).doubles
    <2>1. Exact(u, S) /\ Ascending(u)
      BY DEF InOrder
    <2>2. Mine(u, upTo) \subseteq S
      BY <1>a DEF Mine
    <2>3. \A q \in S : q \in upTo <=> q <= r
      BY <1>a
    <2>4. PICK x : x = rows[u]
      OBVIOUS
    <2>5. x = RowsIn(u, upTo)
      BY <1>2, <2>4 DEF RowsIn
    <2>6. /\ x = {} => Mine(u, upTo) = {}
          /\ x # {} =>
               /\ Mine(u, upTo) # {}
               /\ LatestByNumber(x).scoreTotal = Worth(u, upTo).score
               /\ LatestByNumber(x).supers = Worth(u, upTo).supers
               /\ LatestByNumber(x).doubles = Worth(u, upTo).doubles
      <3>1. r \in Rounds
        BY <1>0
      <3>2. upTo \in SUBSET S /\ upTo = {q \in S : q <= r}
        BY <1>a
      <3>3. upTo \in SUBSET S
        BY <3>2
      <3>4. upTo = {q \in S : q <= r}
        BY <3>2
      <3> QED BY <3>3, <3>4, <2>1, <2>5, <3>1, <3>2, UpToScored, Zenon
    <2> QED BY <2>4, <2>6
  <1>5. users = {u \in Users : rows[u] # {}}
    <2>1. \A u \in Users : rows[u] # {} <=> Mine(u, upTo) # {}
      BY <1>4
    <2>2. \A u \in Users : Mine(u, upTo) # {} <=> \E q \in upTo : u \in Players(q)
      BY DEF Mine
    <2> QED BY <1>0, <1>b, <2>1, <2>2
  <1>6. PICK found : found = [u \in users |->
           [score |-> LatestByNumber(rows[u]).scoreTotal,
            supers |-> LatestByNumber(rows[u]).supers,
            doubles |-> LatestByNumber(rows[u]).doubles]]
    OBVIOUS
  <1>7. found = metrics
    <2>1. ASSUME NEW u \in users PROVE found[u] = metrics[u]
      <3>1. u \in Users /\ rows[u] # {}
        BY <1>5
      <3>2. /\ LatestByNumber(rows[u]).scoreTotal = Worth(u, upTo).score
            /\ LatestByNumber(rows[u]).supers = Worth(u, upTo).supers
            /\ LatestByNumber(rows[u]).doubles = Worth(u, upTo).doubles
        BY <1>4, <3>1
      <3>3. found[u] = [score |-> Worth(u, upTo).score, supers |-> Worth(u, upTo).supers,
                        doubles |-> Worth(u, upTo).doubles]
        BY <1>6, <3>2
      <3>4. metrics[u] = [score |-> Worth(u, upTo).score, supers |-> Worth(u, upTo).supers,
                              doubles |-> Worth(u, upTo).doubles]
        BY <1>c DEF Worth
      <3> QED BY <3>3, <3>4
    <2>2. found = [u \in users |-> found[u]]
      BY <1>6
    <2> QED BY <1>c, <2>1, <2>2
  <1>8. \A u \in Users : SumFunction([h \in mine[u] |-> h.scoreRound]) = Increment(r, u)
    <2>1. ASSUME NEW u \in Users
          PROVE  SumFunction([h \in mine[u] |-> h.scoreRound]) = Increment(r, u)
      <3>1. mine[u] = {h \in RowsOf(u) : h.round = r} /\ Exact(u, S)
        BY <1>3
      <3> QED BY <3>1, OneRow
    <2> QED BY <2>1
  <1>9. PICK A : A = {u \in Users : {h \in RowsOf(u) : h.round \in ValidRounds(r)} # {}}
    OBVIOUS
  <1>10. PICK F : F = [u \in A |->
            LET latest == LatestByNumber({h \in RowsOf(u) : h.round \in ValidRounds(r)})
            IN  [score |-> latest.scoreTotal, supers |-> latest.supers,
                 doubles |-> latest.doubles]]
    OBVIOUS
  <1>11. SnapshotRows(r) =
          {[user |-> u, scoreTotal |-> F[u].score,
            scoreRound |-> SumFunction([h \in {h \in RowsOf(u) : h.round = r} |-> h.scoreRound]),
            doubles |-> F[u].doubles, supers |-> F[u].supers,
            position |-> Position(F, u)] : u \in A}
    BY <1>9, <1>10, Zenon DEF SnapshotRows
  <1>12. \A u \in Users : {h \in RowsOf(u) : h.round \in ValidRounds(r)} = rows[u]
    BY <1>1, <1>2
  <1>13. A = users
    BY <1>5, <1>9, <1>12
  <1>14. F = found
    <2>1. ASSUME NEW u \in A PROVE F[u] = found[u]
      <3>1. u \in Users /\ u \in users
        BY <1>9, <1>13
      <3>2. F[u] = [score |-> LatestByNumber(rows[u]).scoreTotal,
                    supers |-> LatestByNumber(rows[u]).supers,
                    doubles |-> LatestByNumber(rows[u]).doubles]
        BY <1>10, <1>12, <3>1
      <3> QED BY <1>6, <3>1, <3>2
    <2>2. F = [u \in A |-> F[u]] /\ found = [u \in A |-> found[u]]
      BY <1>6, <1>10, <1>13
    <2> QED BY <2>1, <2>2
  <1>15. F = metrics
    BY <1>7, <1>14
  <1>16. \A u \in users : SumFunction([h \in {h \in RowsOf(u) : h.round = r} |-> h.scoreRound])
                            = Increment(r, u)
    <2>1. ASSUME NEW u \in users
          PROVE  SumFunction([h \in {h \in RowsOf(u) : h.round = r} |-> h.scoreRound])
                   = Increment(r, u)
      <3>1. mine[u] = {h \in RowsOf(u) : h.round = r}
        BY <1>0, <1>3
      <3>2. SumFunction([h \in mine[u] |-> h.scoreRound]) = Increment(r, u)
        BY <1>0, <1>8
      <3> QED BY <3>1, <3>2, Zenon
    <2> QED BY <2>1
  <1>17. ASSUME NEW u \in users
         PROVE  [user |-> u, scoreTotal |-> metrics[u].score,
                 scoreRound |-> SumFunction([h \in {h \in RowsOf(u) : h.round = r} |-> h.scoreRound]),
                 doubles |-> metrics[u].doubles, supers |-> metrics[u].supers,
                 position |-> Position(metrics, u)]
              = [user |-> u, scoreTotal |-> metrics[u].score, scoreRound |-> Increment(r, u),
                 doubles |-> metrics[u].doubles, supers |-> metrics[u].supers,
                 position |-> Position(metrics, u)]
    BY <1>16, Zenon
  <1>18. SnapshotRows(r) =
          {[user |-> u, scoreTotal |-> metrics[u].score,
            scoreRound |-> SumFunction([h \in {h \in RowsOf(u) : h.round = r} |-> h.scoreRound]),
            doubles |-> metrics[u].doubles, supers |-> metrics[u].supers,
            position |-> Position(metrics, u)] : u \in users}
    BY <1>11, <1>13, <1>15, Zenon
  <1>19. PICK rec : rec = [u \in users |->
            [user |-> u, scoreTotal |-> metrics[u].score,
             scoreRound |-> SumFunction([h \in {h \in RowsOf(u) : h.round = r} |-> h.scoreRound]),
             doubles |-> metrics[u].doubles, supers |-> metrics[u].supers,
             position |-> Position(metrics, u)]]
    OBVIOUS
  <1>20. SnapshotRows(r) = {rec[u] : u \in users}
    BY <1>18, <1>19, Zenon
  <1>21. PICK want : want = [u \in users |->
            [user |-> u, scoreTotal |-> metrics[u].score, scoreRound |-> Increment(r, u),
             doubles |-> metrics[u].doubles, supers |-> metrics[u].supers,
             position |-> Position(metrics, u)]]
    OBVIOUS
  <1>22. {[user |-> u, scoreTotal |-> metrics[u].score, scoreRound |-> Increment(r, u),
           doubles |-> metrics[u].doubles, supers |-> metrics[u].supers,
           position |-> Position(metrics, u)] : u \in users} = {want[u] : u \in users}
    BY <1>21, Zenon
  <1>23. ASSUME NEW u \in users PROVE rec[u] = want[u]
    <2>1. rec[u] = [user |-> u, scoreTotal |-> metrics[u].score,
             scoreRound |-> SumFunction([h \in {h \in RowsOf(u) : h.round = r} |-> h.scoreRound]),
             doubles |-> metrics[u].doubles, supers |-> metrics[u].supers,
             position |-> Position(metrics, u)]
      BY <1>19, Zenon
    <2>2. want[u] = [user |-> u, scoreTotal |-> metrics[u].score, scoreRound |-> Increment(r, u),
             doubles |-> metrics[u].doubles, supers |-> metrics[u].supers,
             position |-> Position(metrics, u)]
      BY <1>21, Zenon
    <2> QED BY <1>17, <2>1, <2>2, Zenon
  <1>24. {rec[u] : u \in users} = {want[u] : u \in users}
    BY <1>23, Zenon
  <1>25. SnapshotRows(r) =
          {[user |-> u, scoreTotal |-> metrics[u].score, scoreRound |-> Increment(r, u),
            doubles |-> metrics[u].doubles, supers |-> metrics[u].supers,
            position |-> Position(metrics, u)] : u \in users}
    BY <1>20, <1>22, <1>24, Zenon
  <1> QED BY <1>25 DEF StandingRows, upTo, users, metrics
(* A snapshot made in order is the standing after its round.               *)
LEMMA StandingStep ==
  ASSUME Standing, \A q \in Processes : Finishes(q), [Next]_vars, InOrder,
         NEW r \in Rounds, snapshot[r] = {}, snapshot'[r] # {},
         Quiet \/ \E p \in Processes : /\ proc[p].at = "rebuildSnapshot"
                                       /\ proc[p].clean /\ proc[p].round = r
  PROVE  snapshot'[r] = StandingRows(r, UpTo(r))
  <1>1. /\ Typed /\ SoundRows /\ HistoryHolds /\ TypeOK /\ RowsSound
        /\ Rounds \subseteq Int
    BY RankingsAssumption DEF Standing, Typed, SoundRows
  <1>2. r \in AllScored /\ snapshot'[r] = SnapshotRows(r)
    BY <1>1, SnapshotStep
  <1>0. PICK upTo : upTo = UpTo(r)
    OBVIOUS
  <1>3. PICK all \in SUBSET Rounds : all = AllScored
    BY DEF AllScored
  <1>4. \E S \in SUBSET all : /\ \A u \in Users : Exact(u, S)
                              /\ r \in S /\ upTo = {q \in S : q <= r}
    <2>1. r \in all /\ r \in upTo /\ upTo = {q \in all : q <= r}
      BY <1>0, <1>1, <1>2, <1>3 DEF UpTo, AllScored, IsScored
    <2>2. CASE Quiet
      <3>1. \A u \in Users : Exact(u, all)
        BY <1>1, <1>3, <2>2 DEF HistoryHolds, Kept, Rebuilt
      <3> QED BY <2>1, <3>1
    <2>3. CASE ~Quiet
      <3>1. PICK p \in Processes : /\ proc[p].at = "rebuildSnapshot"
                                   /\ proc[p].clean /\ proc[p].round = r
        BY <2>3
      <3>2. Alone(p) /\ Repair(p)
        BY <1>1, <3>1 DEF Alone, Rebuilding, HistoryHolds
      <3>3. proc[p].ids = all /\ Done(p) = {x \in proc[p].ids : x <= r}
        BY <1>3, <3>1, <3>2 DEF Repair
      <3>4. PICK S \in SUBSET Rounds : S = Done(p)
        BY <3>3
      <3>5. \A u \in Users : Exact(u, S)
        BY <3>1, <3>2, <3>4 DEF Repair, Rebuilt
      <3>6. S = upTo /\ upTo = {q \in S : q <= r}
        BY <2>1, <3>3, <3>4
      <3> QED BY <2>1, <3>5, <3>6
    <2> QED BY <2>2, <2>3
  <1>5. PICK S \in SUBSET all : /\ \A u \in Users : Exact(u, S)
                                /\ r \in S /\ upTo = {q \in S : q <= r}
    BY <1>4
  <1>6. S \in SUBSET Rounds /\ upTo \in SUBSET S
    BY <1>3, <1>5
  <1>7. \A q \in S : IsScored(q)
    BY <1>3, <1>5 DEF AllScored, IsScored
  <1>8. SnapshotRows(r) = StandingRows(r, UpTo(r))
    <2>1. S \in SUBSET Rounds
      BY <1>6
    <2>2. UpTo(r) \subseteq S
      BY <1>0, <1>6
    <2>3. r \in S
      BY <1>5
    <2> QED BY <1>1, <1>5, <1>7, <2>1, <2>2, <2>3, SnapshotIs
  <1> QED BY <1>2, <1>8

(* A snapshot made while scoring is in order shows the standing after its  *)
(* round, whenever and by whomever it is made (SnapshotRankingService,     *)
(* RecomputeScoredRoundsService).                                          *)
THEOREM SnapshotsStand == Spec => SnapshotIsStanding
  <1> DEFINE All == \A q \in Processes : Finishes(q)
             Stands == \A r \in Rounds :
        LET upTo == {q \in Rounds : q <= r /\ IsScored(q)}
            users == UNION {Players(q) : q \in upTo}
            metrics == [u \in users |-> Worth(u, upTo)]
        IN  /\ snapshot[r] = {} /\ snapshot'[r] # {} /\ InOrder
            /\ Quiet \/ \E p \in Processes : /\ proc[p].at = "rebuildSnapshot"
                                             /\ proc[p].clean /\ proc[p].round = r
            => snapshot'[r] = {[user |-> u, scoreTotal |-> metrics[u].score,
                                scoreRound |-> Increment(r, u),
                                doubles |-> metrics[u].doubles,
                                supers |-> metrics[u].supers,
                                position |-> Position(metrics, u)] : u \in users}
  <1>1. Init => All
    BY FinishesInit
  <1>2. Standing /\ All /\ [Next]_vars => All'
    BY FinishesNext DEF Standing
  <1>3. Standing /\ All /\ [Next]_vars => [Stands]_vars
    <2> SUFFICES ASSUME Standing, All, [Next]_vars, NEW r \in Rounds,
                        snapshot[r] = {}, snapshot'[r] # {}, InOrder,
                        Quiet \/ \E p \in Processes : /\ proc[p].at = "rebuildSnapshot"
                                                      /\ proc[p].clean /\ proc[p].round = r
                 PROVE  snapshot'[r] = StandingRows(r, UpTo(r))
      BY Zenon DEF StandingRows, UpTo
    <2> QED BY StandingStep
  <1> HIDE DEF All, Stands
  <1>4. Spec => []All
    BY <1>1, <1>2, StandingHolds, PTL DEF Spec
  <1>5. Spec => [][Stands]_vars
    BY <1>3, <1>4, StandingHolds, PTL DEF Spec
  <1> QED BY <1>5, PTL DEF Stands, SnapshotIsStanding
=============================================================================
