-------------------------- MODULE MCMesaPayoutLoop --------------------------
(* Every division of five pools among up to four rows with every tie, under *)
(* five distributions.                                                      *)
EXTENDS MesaPayoutLoop

FourRows == {"a", "b", "c", "d"}
ById == [u \in FourRows |-> CASE u = "a" -> 1 [] u = "b" -> 2
                              [] u = "c" -> 3 [] u = "d" -> 4]
AnyStanding == [FourRows -> 1..3]
SomePools == {0, 1, 7, 10, 100}
SomeDistributions ==
    {<<100>>, <<60, 100>>, <<50, 83, 100>>, <<34, 67, 100>>, <<10, 30, 60, 95, 100>>}
=============================================================================
