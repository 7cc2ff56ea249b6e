------------------------------ MODULE MCRounds ------------------------------
(* A small instance of Rounds for TLC.                                      *)
EXTENDS Rounds, TLC

CONSTANTS u1, u2, p1, p2, va, vb

ProcessSymmetry == Permutations(Processes)

Amount(d, s) == ("DOUBLE" :> d) @@ ("SUPER_DOUBLE" :> s)
Scores == [u \in Users |-> [v \in Results |->
              IF v = va THEN (IF u = u1 THEN 1 ELSE 2) ELSE -1]]

(* A round grants u1 a Dupla and u1 holds another paid one, which is enough  *)
(* for a ticket of one Dupla in each round; u2 plays without multipliers.   *)
Grants == [u \in Users |-> IF u = u1 THEN Amount(1, 0) ELSE Amount(0, 0)]
Needs == Grants
Paid == Grants

-----------------------------------------------------------------------------
(* Two instances in one. The calendar: two rounds that compete to be open   *)
(* and one user who spends benefits in both. The score: one round that is   *)
(* closed, given results, changed and scored by several at once, with two   *)
(* users.                                                                   *)
Used(j) == \/ \E r \in Rounds : execution[j][r] # [running |-> 0, success |-> FALSE]
           \/ \E p \in Processes : proc[p].job = j
Calendar ==
    \/ \E r \in Rounds : r > 1 /\ round[r].status # "ABSENT"
    \/ Used("OPEN_SCHEDULED_ROUND")
Score ==
    \/ \E r \in Rounds : round[r].result # None \/ ticket[r][u2] # NoTicket
    \/ \E p \in Processes : At(p, "resultWrite") \/
                            (At(p, "ticketCommit") /\ u2 \in proc[p].users)
    \/ Used("SCORE_ROUND") \/ Used("CLOSE_ROUND_PREDICTIONS")
OneAtATime == ~(Calendar /\ Score)

(* u2, who is granted nothing, is granted it after u1 and at once.          *)
GrantedAtOnce ==
    \A p \in Processes :
        At(p, "grant") /\ proc[p].users = {u2} => GrantBenefits(p, u2)

(* When the score is of interest the round was opened and granted, it is    *)
(* not rescheduled or cancelled, and u1 plays before u2.                    *)
Apart == {"grant", "editWrite", "openWrite", "cancelDraft", "cancelCount", "cancelOpen"}
Ordered ==
    /\ \A p \in Processes : At(p, "grant") => proc[p].users # {u1}
    /\ Score => /\ granted[1] = Users
                /\ \A p \in Processes : proc[p].at \notin Apart
                /\ ticket[1][u2] # NoTicket => ticket[1][u1] # NoTicket

(* One process may die while it runs the job that opens rounds.             *)
OneCrash ==
    MapThenSumSet(LAMBDA r : execution["OPEN_SCHEDULED_ROUND"][r].running, Rounds)
        <= 1 + Cardinality({p \in Processes : proc[p].counted})
=============================================================================
