----------------------------- MODULE MCAccounts -----------------------------
(* A small instance of Accounts for TLC.                                    *)
EXTENDS Accounts, TLC

CONSTANTS u1, adm, s1, s2, w1, w2, t1, p1, p2

Symmetry == Permutations(Processes) \cup Permutations(Sids)
FirstPassword == [x \in Users |-> w1]

(* Three instances in one: guesses and logins; the sessions of u1, whose    *)
(* password is changed or reset once; and the administrator adm, with a    *)
(* session of each, who blocks and unblocks u1 and gives out roles.         *)
Guesses == \E x \in Users : account[x].attempts > 0 \/ lapses[x] > 0
              \/ \E p \in Processes : At(p, "wrong")
Administration == \E s \in Sids : owner[s] = adm
Changed == \/ \E x \in Users : account[x].version > 0 \/ account[x].password # w1
           \/ \E t \in Tokens : token[t].user # None
           \/ \E p \in Processes : proc[p].token # None \/ proc[p].secret # None
Quiet == expired = {} /\ \A p \in Processes : ~proc[p].logout
Guessing ==
    Guesses => /\ ~Administration /\ ~Changed /\ Quiet
               /\ account[adm].attempts = 0 /\ lapses[u1] <= 1
               /\ \A p \in Processes : proc[p].at # "auth"
                                      /\ (At(p, "wrong") => proc[p].user = u1)
Sessions ==
    /\ Changed => Quiet
    /\ \A t \in Tokens : token[t].user # adm
Administering ==
    Administration => /\ \A x \in Users : account[x].password = w1
                      /\ \A t \in Tokens : token[t].user = None
                      /\ \A p \in Processes : proc[p].token = None /\ proc[p].secret = None
                      /\ \A s, r \in Sids : owner[s] = adm /\ owner[r] = adm => s = r
                      /\ account[adm].version = 0 /\ Quiet
(* A second change only of those that overlap the first, or with its token. *)
ChangedOnce ==
    \A x \in Users : account[x].version < 2 \/ \E t \in Tokens : token[t].spent >= 2
=============================================================================
