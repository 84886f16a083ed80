----------------------------- MODULE MCCheckout -----------------------------
(* Two attempts of one price, or one attempt, worked by two handlers. *)
EXTENDS Checkout, TLC

CONSTANTS o1, o2, w1, w2

TwoOrders == {o1, o2}
OneOrder == {o1}
TwoWorkers == {w1, w2}
TwoEach == o1 :> 2 @@ o2 :> 2
One == o1 :> 1
Always == {{}}
AllOrNone == {{}, Resolved}
SamePrice == o1 :> 1 @@ o2 :> 1

Symmetry == Permutations(TwoWorkers) \cup Permutations(TwoOrders)
=============================================================================
