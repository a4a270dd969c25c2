--------------------------------- MODULE MCCampaign ---------------------------------
(* The requests to run the Campaign are alike.                                       *)
EXTENDS Campaign, TLC
Symmetry == Permutations(Call)
================================================================================
