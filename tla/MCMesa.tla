------------------------------- MODULE MCMesa -------------------------------
(* Small instances of Mesa for TLC.                                         *)
EXTENDS Mesa, TLC

CONSTANTS m1, m2, u1, u2, u3, owner, i1, t1, t2, t3

SlotSymmetry == Permutations(Slots)

-----------------------------------------------------------------------------
(* Paid: m1 has two seats and m2 one, and their costs share the wallets: u1 *)
(* can afford one of them, u2 both. u1 and u2 tie; u2 created m2.           *)
TwoMesas == {m1, m2}
TwoUsers == {u1, u2}
PaidCategory == [m \in Mesas |-> "PAID"]
PaidCost == (m1 :> 7) @@ (m2 :> 3)
NoSponsor == [m \in Mesas |-> 0]
PaidSeats == (m1 :> 2) @@ (m2 :> 1)
PaidPrizes == (m1 :> <<60, 100>>) @@ (m2 :> <<100>>)
PaidCreator == (m1 :> owner) @@ (m2 :> u2)
SingleUse == i1 :> 1
PaidBalances == (u1 :> 9) @@ (u2 :> 12)
PaidPending == [m \in Mesas |-> {}]
PaidStanding == (u1 :> 1) @@ (u2 :> 1)
PaidOrder == (u1 :> 1) @@ (u2 :> 2)

-----------------------------------------------------------------------------
(* Mixed: m1 is paid, m2 sponsored and entered by invite; u1 asked to join  *)
(* m1 and m2 under an earlier release. Each has one seat less than users.   *)
MixedCategory == (m1 :> "PAID") @@ (m2 :> "SPONSORED_FREE")
MixedCost == (m1 :> 11) @@ (m2 :> 0)
MixedSponsor == (m1 :> 0) @@ (m2 :> 11)
MixedSeats == (m1 :> 1) @@ (m2 :> 2)
MixedPrizes == (m1 :> <<100>>) @@ (m2 :> <<60, 100>>)
MixedCreator == (m1 :> owner) @@ (m2 :> owner)
MixedInvite == i1 :> m2
MixedBalances == (u1 :> 11) @@ (u2 :> 0)
MixedPending == [m \in Mesas |-> {u1}]

-----------------------------------------------------------------------------
(* One paid Mesa without invites, two seats for three users.                *)
OneMesa == {m1}
ThreeUsers == {u1, u2, u3}
NoInvite == <<>>
Balances == (u1 :> 7) @@ (u2 :> 8) @@ (u3 :> 6)
Tie == (u1 :> 1) @@ (u2 :> 1) @@ (u3 :> 2)
ById == (u1 :> 1) @@ (u2 :> 2) @@ (u3 :> 3)
OnePending == m1 :> {}
OneCategory == m1 :> "PAID"
OneCost == m1 :> 7
OneSponsor == m1 :> 0
OneSeats == m1 :> 2
OnePrizes == m1 :> <<60, 100>>
OneCreator == m1 :> owner
=============================================================================
