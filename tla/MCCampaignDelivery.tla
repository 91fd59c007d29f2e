------------------------ MODULE MCCampaignDelivery ------------------------
(* Small accounts for model checking CampaignDelivery.                     *)
EXTENDS CampaignDelivery, TLC

Symmetric == Permutations(Runs) \union Permutations(Phones)
             \union Permutations(Workers)
===========================================================================
