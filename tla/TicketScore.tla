---------------------------- MODULE TicketScore ----------------------------
(***************************************************************************)
(* CalculateTicketScoreService.detail: the score of one ticket. A ticket   *)
(* predicts every match and puts a multiplier of 1, 2 (Dupla) or 4 (Super  *)
(* Dupla) on each; a cancelled match ("C") counts for nothing.             *)
(***************************************************************************)
EXTENDS Integers, FiniteSets, FiniteSetsExt

CONSTANT MatchCount      \* 12 in the code

ASSUME MatchCountAssumption == MatchCount \in Nat

Matches == 1..MatchCount
Tickets == [prediction : [Matches -> {"1", "X", "2"}],
            multipliers : [Matches -> {1, 2, 4}]]
MatchResults == [Matches -> {"1", "X", "2", "C"}]

Counted(result) == {i \in Matches : result[i] # "C"}
Hits(ticket, result) ==
    {i \in Counted(result) : ticket.prediction[i] = result[i]}
Misses(ticket, result) == Counted(result) \ Hits(ticket, result)
With(ticket, matches, m) ==
    Cardinality({i \in matches : ticket.multipliers[i] = m})

(* A cancelled match that keeps its multiplier's penalty.                   *)
MultiplierPenalty_Cancelled(ticket, result) ==
    LET misses == Matches \ Hits(ticket, result)
    IN  2 * With(ticket, misses, 2) + 4 * With(ticket, misses, 4)
MultiplierPenalty(ticket, result) ==
    LET misses == Misses(ticket, result)
    IN  2 * With(ticket, misses, 2) + 4 * With(ticket, misses, 4)

Detail(ticket, result) ==
    LET hits   == Hits(ticket, result)
        bonus  == With(ticket, hits, 2) + 3 * With(ticket, hits, 4)
    IN  [total |-> Cardinality(hits) + bonus - MultiplierPenalty(ticket, result),
         doubles |-> With(ticket, hits, 2),
         supers |-> With(ticket, hits, 4)]

(* The published rule, match by match: "+1/0, Dupla +2/-2, Super Dupla      *)
(* +4/-4 e jogo cancelado com zero".                                        *)
RuleScore(ticket, result) ==
    SumFunction([i \in Matches |->
        IF result[i] = "C" THEN 0
        ELSE IF ticket.prediction[i] = result[i] THEN ticket.multipliers[i]
        ELSE IF ticket.multipliers[i] = 1 THEN 0 ELSE -ticket.multipliers[i]])
=============================================================================
