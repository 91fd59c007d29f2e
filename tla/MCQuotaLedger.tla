--------------------------- MODULE MCQuotaLedger ---------------------------
(* A business on FREE that may buy the plan "paid".                         *)
EXTENDS QuotaLedger, TLC

CONSTANTS free, paid

(* FREE allows one AI reply a month, the paid plan two; WhatsApp sends are *)
(* limited on FREE only.                                                   *)
TwoPlans ==
  [p \in {free, paid} |->
     IF p = free THEN [ai |-> 1, wa |-> 1] ELSE [ai |-> 2, wa |-> Unlimited]]

Symmetric == Permutations(Workers) \union Permutations(AiKeys)
============================================================================
