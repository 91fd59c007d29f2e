-------------------------- MODULE MCManualPayment --------------------------
(* A small business for model checking ManualPayment.                      *)
EXTENDS ManualPayment, TLC

(* The lower plan, and the higher one with the coupon.                     *)
SmallWants == {[plan |-> "STARTER", coupon |-> FALSE],
               [plan |-> "PRO", coupon |-> TRUE]}

Symmetric == Permutations(Payments) \union Permutations(Tabs)
============================================================================
