------------------------- MODULE MCFinancialOutbox -------------------------
(* Two workers and the events of a few payments.                           *)
EXTENDS FinancialOutbox, TLC

Symmetric == Permutations(Payments) \union Permutations(Posters)
============================================================================
