---------------------------- MODULE MCUpdateCampaign ----------------------------
(* Campaigns over three nodes: a canary that is not the first by name and a  *)
(* batch of two; and a canary alone that is online but not active.           *)
EXTENDS UpdateCampaign

MCSelections == {<<{1, 2, 3}, {2, 3}, {1, 2, 3}>>, <<{3}, {3}, {}>>}
=================================================================================
