-------------------------- MODULE MCCampaignEngine --------------------------
(* The sequential engine on a small campaign, for TLC. *)
EXTENDS CampaignEngine
=============================================================================
