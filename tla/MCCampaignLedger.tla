--------------------------- MODULE MCCampaignLedger ---------------------------
(***************************************************************************)
(* Small instances of the campaign: points scaled down, caps of one award  *)
(* or two claims, so that both sides of every limit are reached.           *)
(***************************************************************************)
EXTENDS CampaignLedger


MCBasePoints == [swap |-> 50]
MCDailyCap   == [swap |-> 1]
MCTiers      == [early |-> 40]
NoTiers      == [p \in {} |-> 1]
MCTaskPoints == [t \in Tasks |-> 20]

===============================================================================
