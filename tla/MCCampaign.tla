----------------------------- MODULE MCCampaign -----------------------------
(* Instances of Campaign.                                                  *)
EXTENDS Campaign
=============================================================================
