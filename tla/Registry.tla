------------------------------ MODULE Registry ------------------------------
(***************************************************************************)
(* What the features around the money (bookmarks, comment moderation,      *)
(* pausing) see of campaigns: ids in use, the creator and the two flags.   *)
(* Creation, cancellation and withdrawal are reduced to their effect on    *)
(* these; Funding has the rest of them.                                    *)
(***************************************************************************)
EXTENDS Integers, Sequences, FiniteSets, SequencesExt

CONSTANTS
  Creators,        \* addresses that open campaigns
  None,
  MaxCampaigns     \* bound: campaigns created

ASSUME RegistryAssumption == None \notin Creators /\ MaxCampaigns \in Nat

CampaignIds == 1..MaxCampaigns

VARIABLES
  paused,          \* AdminKey::Paused
  auto_paused,     \* AdminKey::AutoPaused
  campaign_count,
  campaign         \* creator, is_active and is_cancelled of every campaign

registryVars == <<paused, auto_paused, campaign_count, campaign>>

NoCampaign == [creator |-> None, is_active |-> FALSE, is_cancelled |-> FALSE]

RegistryInit ==
  /\ paused = FALSE
  /\ auto_paused = FALSE
  /\ campaign_count = 0
  /\ campaign = [c \in CampaignIds |-> NoCampaign]

\* require_not_paused.
NotPaused == ~paused /\ ~auto_paused

\* get_campaign_or_error: ids are consecutive and no campaign is ever removed.
Created(c) == c \in 1..campaign_count

\* require_active_campaign.
RequireActive(c) ==
  Created(c) /\ campaign[c].is_active /\ ~campaign[c].is_cancelled

create_campaign(u) ==
  LET c == campaign_count + 1 IN
  /\ NotPaused
  /\ c \in CampaignIds
  /\ campaign_count' = c
  /\ campaign' = [campaign EXCEPT ![c] =
                    [creator |-> u, is_active |-> TRUE, is_cancelled |-> FALSE]]
  /\ UNCHANGED <<paused, auto_paused>>

\* Mutant: the campaign stays active.
CancelledStillActive(r) == [r EXCEPT !.is_cancelled = TRUE]

\* The flags of a cancelled campaign.
Cancelled(r) == [r EXCEPT !.is_active = FALSE, !.is_cancelled = TRUE]

\* cancel_campaign and admin_cancel_campaign.
cancel_campaign(c) ==
  /\ NotPaused
  /\ RequireActive(c)
  /\ campaign' = [campaign EXCEPT ![c] = Cancelled(@)]
  /\ UNCHANGED <<paused, auto_paused, campaign_count>>

\* withdraw_funds, or the claim of the last milestone.
withdraw_funds(c) ==
  /\ NotPaused
  /\ RequireActive(c)
  /\ campaign' = [campaign EXCEPT ![c] = [@ EXCEPT !.is_active = FALSE]]
  /\ UNCHANGED <<paused, auto_paused, campaign_count>>

RegistryNext ==
  \/ \E u \in Creators : create_campaign(u)
  \/ \E c \in CampaignIds : cancel_campaign(c) \/ withdraw_funds(c)

RegistryTypeOK ==
  /\ paused \in BOOLEAN
  /\ auto_paused \in BOOLEAN
  /\ campaign_count \in 0..MaxCampaigns
  /\ campaign \in [CampaignIds -> [creator: Creators \cup {None},
                                   is_active: BOOLEAN, is_cancelled: BOOLEAN]]
  /\ \A c \in CampaignIds : ~(campaign[c].is_active /\ campaign[c].is_cancelled)
=============================================================================
