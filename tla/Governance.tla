---------------------------- MODULE Governance ----------------------------
(***************************************************************************)
(* The admin's powers over the money path of Funding: the two-step         *)
(* hand-over of the admin role, and the time-locked replacement of the     *)
(* platform token.  Both change, under running campaigns, values that      *)
(* Funding only reads.                                                     *)
(***************************************************************************)
EXTENDS Funding

CONSTANTS
  Delays,                      \* the delays the admin chooses from
  TOKEN_UPDATE_DELAY_SECS, MAX_TOKEN_UPDATE_DELAY_SECS

ASSUME GovernanceAssumption ==
  /\ Delays \subseteq Nat
  /\ TOKEN_UPDATE_DELAY_SECS \in Nat \ {0}
  /\ MAX_TOKEN_UPDATE_DELAY_SECS \in Nat

VARIABLES
  pending_admin,        \* the nominated admin, or None
  pending_token,        \* the proposed token and its release time; token None: no proposal
  token_update_delay

govVars == <<pending_admin, pending_token, token_update_delay>>
allVars == <<vars, govVars>>

NoProposal == [token |-> None, release_after |-> 0]

GovInit ==
  /\ Init
  /\ pending_admin = None
  /\ pending_token = NoProposal
  /\ token_update_delay = TOKEN_UPDATE_DELAY_SECS

\* What every action below leaves alone, apart from admin and platform_token.
unchangedButRoles ==
  UNCHANGED <<now, paused, platform_fee, vesting,
              max_contribution_per_transaction, duration_cap, campaign_count,
              campaign, backerVars, sideVars, reserve, milestoneVars,
              total_raised, counterVars, moneyVars>>

-----------------------------------------------------------------------------
\* Mutant: the admin may nominate itself.
NominableAny(new_admin) == TRUE

\* Whom initiate_admin_transfer accepts.
Nominable(new_admin) == new_admin # admin

\* initiate_admin_transfer: a second nomination replaces the first.  None of
\* the three steps looks at the pause switch.
initiate_admin_transfer(new_admin) ==
  /\ Nominable(new_admin)
  /\ pending_admin' = new_admin
  /\ UNCHANGED <<admin, platform_token, pending_token, token_update_delay>>
  /\ unchangedButRoles

\* accept_admin_transfer, by the nominee.
accept_admin_transfer ==
  /\ pending_admin # None
  /\ admin' = pending_admin
  /\ pending_admin' = None
  /\ UNCHANGED <<platform_token, pending_token, token_update_delay>>
  /\ unchangedButRoles

cancel_admin_transfer ==
  /\ pending_admin # None
  /\ pending_admin' = None
  /\ UNCHANGED <<admin, platform_token, pending_token, token_update_delay>>
  /\ unchangedButRoles

-----------------------------------------------------------------------------
\* propose_token_update: the release time is fixed with the delay of the day; a
\* second proposal replaces the first.
propose_token_update(new_token) ==
  /\ pending_token' = [token |-> new_token,
                       release_after |-> now + token_update_delay]
  /\ UNCHANGED <<admin, platform_token, pending_admin, token_update_delay>>
  /\ unchangedButRoles

\* Mutant: the swap only waits for the campaigns to be closed.
SwapAllowedIgnoresEscrow == active_campaign_count = 0

\* accept_token_update's guard on running campaigns and escrowed money.
SwapAllowed == active_campaign_count = 0 /\ total_raised = 0

accept_token_update ==
  /\ pending_token.token # None
  /\ now >= pending_token.release_after
  /\ SwapAllowed
  /\ platform_token' = pending_token.token
  /\ pending_token' = NoProposal
  /\ UNCHANGED <<admin, pending_admin, token_update_delay>>
  /\ unchangedButRoles

cancel_token_update ==
  /\ pending_token.token # None
  /\ pending_token' = NoProposal
  /\ UNCHANGED <<admin, platform_token, pending_admin, token_update_delay>>
  /\ unchangedButRoles

\* set_token_update_delay_secs_fn: a proposal already made keeps its release time.
set_token_update_delay_secs(secs) ==
  /\ secs \in 1..MAX_TOKEN_UPDATE_DELAY_SECS
  /\ token_update_delay' = secs
  /\ UNCHANGED <<admin, platform_token, pending_admin, pending_token>>
  /\ unchangedButRoles

-----------------------------------------------------------------------------
GovStep ==
  \/ \E new_admin \in Admins : initiate_admin_transfer(new_admin)
  \/ accept_admin_transfer
  \/ cancel_admin_transfer
  \/ \E new_token \in Tokens : propose_token_update(new_token)
  \/ accept_token_update
  \/ cancel_token_update
  \/ \E secs \in Delays : set_token_update_delay_secs(secs)

GovNext == (Next /\ UNCHANGED govVars) \/ GovStep

GovSpec == GovInit /\ [][GovNext]_allVars

-----------------------------------------------------------------------------
(* Properties.                                                             *)

\* Every variable has its type; a nominee is never the admin in office.
GovTypeOK ==
  /\ TypeOK
  /\ pending_admin \in (Admins \cup {None}) \ {admin}
  /\ pending_token \in [token: Tokens \cup {None}, release_after: Nat]
  /\ token_update_delay \in Nat \ {0}

\* A campaign withdrawn in one go pays its fee to the admin who was in office
\* when its first contribution came in (withdraw_funds, get_campaign_fee_recipient),
\* however often the role changed hands before the withdrawal.
FeesToSnapshot ==
  \A c \in CampaignIds, x \in Admins :
    fees_paid[c][x] # 0 /\ milestone_claimed[c] = {} => x = fee_recipient[c]

\* As long as no campaign has been cancelled, accept_token_update changes the
\* platform token only when no campaign owes anything: neither contributions
\* nor a reserve that is still vesting.
SwapStrandsNothing ==
  [][platform_token' # platform_token
       => \/ \E c \in CampaignIds : campaign[c].is_cancelled
          \/ \A c \in CampaignIds : milestone_claimed[c] = {} => Outstanding(c) = 0
    ]_allVars
=============================================================================
