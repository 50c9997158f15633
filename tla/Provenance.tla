------------------------------ MODULE Provenance -----------------------------
(***************************************************************************)
(* Campaign labels and timing windows, as two systems spell them            *)
(* (tools/campaign_tool.py, normalize_campaign_id and                       *)
(* canonical_timing_window): spellings of one campaign or of the afternoon  *)
(* are one value, anything else is kept as it is.                           *)
(***************************************************************************)

Afternoon == {"12 PM - 6 PM", "12pm-6pm", "12:00-18:00", "12-18", "afternoon", "12:00-17:59"}
CanonicalTiming(timing) == IF timing \in Afternoon THEN "12 PM - 6 PM" ELSE timing

CampaignEighteen == {"18", "Campaign 18", "campaign-18", "campaign_18"}
CanonicalCampaign(label) == IF label \in CampaignEighteen THEN "18" ELSE label
=============================================================================
