-------------------------- MODULE MCCampaignWrite --------------------------
(* Small instances of CampaignWrite for TLC. *)
EXTENDS CampaignWrite, TLC

CONSTANTS c1, c2, c3, i1, i2, i3, full, pending

Overlap == Permutations(Calls)

=============================================================================
