------------------------------ MODULE Funding ------------------------------
(***************************************************************************)
(* The money path of the contract: a campaign is created, verified,        *)
(* funded, and then either pays its creator (in one withdrawal with a      *)
(* vesting reserve, or milestone by milestone) or is cancelled or expires  *)
(* and pays its contributors back.                                         *)
(*                                                                         *)
(* One action is one successful invocation.  An invocation that returns an *)
(* error, or whose token transfer traps, is rolled back as a whole by the  *)
(* host, so it is a stuttering step; the guards of an action are exactly   *)
(* the conditions under which the handler reaches its end.                 *)
(*                                                                         *)
(* Two history variables observe the token transfers: held (what every     *)
(* campaign has brought in minus what it has paid out, per token) and      *)
(* fees_paid (who received a campaign's platform fee).                     *)
(***************************************************************************)
EXTENDS Lifecycle

CONSTANTS
  Users,            \* addresses that fund campaigns
  Creators,         \* addresses that call create_campaign, possibly users too
  Admins,           \* addresses that are or may become the admin
  Tokens,           \* token contracts
  AllowedTokens,    \* tokens on the admin's allowlist
  None,             \* "no such entry": an unset token, address or recipient
  MilestoneIds,     \* the milestone ids a creator uses
  Plans,            \* the milestone plans offered, payout_bps by id (0: no such id)
  Amounts, Goals, Durations, Extensions, UserCaps, PersonalCaps,
  Fees, Vestings, TxCaps, DurationCaps,
                    \* the inputs callers choose from
  SECONDS_PER_DAY, CAMPAIGN_DURATION_MAX_DAYS, MAX_EXTENSION_DAYS,
  AUTO_PAUSE_BURST_THRESHOLD, PLATFORM_FEE_MAX_BPS, VESTING_DELAY_MAX_DAYS,
                    \* constants of the contract
  MaxCampaigns,     \* bound: campaigns created
  MaxRaised,        \* bound: amount_raised of one campaign
  MaxTime           \* bound: ledger time

\* AUTO_PAUSE_SINGLE_CONTRIBUTION_BPS_THRESHOLD and
\* AUTO_PAUSE_BURST_CHECK_MIN_RAISED_BPS.
SingleContributionBps == 20000
BurstCheckMinRaisedBps == 5000

CampaignIds == 1..MaxCampaigns

\* "Not set" for an optional number (fee_override, a personal cap).
Unset == -1

\* The constants of the contract, and inputs of the types the handlers take.
ASSUME FundingAssumption ==
  /\ MaxCampaigns \in Nat /\ MaxRaised \in Nat /\ MaxTime \in Nat
  /\ SECONDS_PER_DAY \in Nat \ {0}
  /\ CAMPAIGN_DURATION_MAX_DAYS \in Nat \ {0}
  /\ MAX_EXTENSION_DAYS \in Nat
  /\ AUTO_PAUSE_BURST_THRESHOLD \in Nat
  /\ VESTING_DELAY_MAX_DAYS \in Nat
  /\ PLATFORM_FEE_MAX_BPS \in 0..BPS_DENOMINATOR
  /\ IsFiniteSet(Users)
  /\ IsFiniteSet(Admins) /\ IsFiniteSet(Tokens)
  /\ AllowedTokens \subseteq Tokens
  /\ None \notin Users /\ None \notin Admins /\ None \notin Tokens
  /\ Amounts \subseteq Int /\ Goals \subseteq Int /\ Durations \subseteq Nat
  /\ Extensions \subseteq Nat /\ UserCaps \subseteq Int
  /\ PersonalCaps \subseteq Int /\ TxCaps \subseteq Int
  /\ Fees \subseteq Nat /\ DurationCaps \subseteq Nat
  /\ Vestings \subseteq [delay_days: Nat, reserve_bps: Nat]
  /\ IsFiniteSet(MilestoneIds)
  /\ Plans \subseteq [MilestoneIds -> Nat]

VARIABLES
  now,              \* ledger time; a ledger has one timestamp, so also its sequence number
  paused,           \* AdminKey::Paused
  admin,            \* AdminKey::Admin
  platform_token,   \* the platform token
  platform_fee,     \* platform fee in bps
  vesting,          \* withdraw release delay and reserve percentage
  max_contribution_per_transaction,
  duration_cap,     \* category duration cap (the default when none is set)
  campaign_count,
  campaign,         \* Campaign records, with start time, pinned token and vesting snapshot
  contribution, lifetime, personal_cap,  \* by campaign and user
  contributor_count, top_contributor, fee_recipient, burst,
  reserve,          \* CampaignReserve (amount 0: no entry)
  milestones, milestone_verified, milestone_claimed,
  total_raised, active_campaign_count, verified_campaign_count,
  cancelled_campaign_count,
  balance,          \* the contract's balance in each token
  held, fees_paid   \* history variables

configVars    == <<paused, admin, platform_token, platform_fee, vesting,
                   max_contribution_per_transaction, duration_cap>>
backerVars    == <<contribution, lifetime, personal_cap, contributor_count>>
sideVars      == <<top_contributor, fee_recipient, burst>>
milestoneVars == <<milestones, milestone_verified, milestone_claimed>>
counterVars   == <<active_campaign_count, verified_campaign_count,
                   cancelled_campaign_count>>
moneyVars     == <<balance, held, fees_paid>>
vars == <<now, configVars, campaign_count, campaign, backerVars, sideVars,
          reserve, milestoneVars, total_raised, counterVars, moneyVars>>

-----------------------------------------------------------------------------
(* The records.                                                            *)

CampaignRecords ==
  [creator: Creators \cup {None}, funding_goal: Nat, start_time: Nat,
   deadline: Nat, deadline_extended: BOOLEAN,
   amount_raised: Nat, effective_amount_raised: Int,
   is_active: BOOLEAN, is_verified: BOOLEAN, is_cancelled: BOOLEAN,
   funds_withdrawn: BOOLEAN, max_contribution_per_user: Nat,
   fee_override: {Unset} \cup (0..PLATFORM_FEE_MAX_BPS),
   vesting_delay: Nat, vesting_bps: 0..BPS_DENOMINATOR,
   token: Tokens \cup {None}]

\* The value of campaign at an id that is not in storage yet.
NoCampaign ==
  [creator |-> None, funding_goal |-> 0, start_time |-> 0, deadline |-> 0,
   deadline_extended |-> FALSE, amount_raised |-> 0,
   effective_amount_raised |-> 0, is_active |-> FALSE, is_verified |-> FALSE,
   is_cancelled |-> FALSE, funds_withdrawn |-> FALSE,
   max_contribution_per_user |-> 0, fee_override |-> Unset,
   vesting_delay |-> 0, vesting_bps |-> 0, token |-> None]

Reserves == [amount: Nat, release_timestamp: Nat, released: BOOLEAN]
NoReserve == [amount |-> 0, release_timestamp |-> 0, released |-> FALSE]
NoPlan == [m \in MilestoneIds |-> 0]

\* get_campaign_or_error: ids are handed out consecutively and never removed.
Created(c) == c \in 1..campaign_count

\* get_campaign_token: the pinned token, or the platform token of the day.
TokenOf(c) == IF campaign[c].token = None THEN platform_token
                                          ELSE campaign[c].token

\* The effective platform fee of a campaign.
FeeOf(c) == IF campaign[c].fee_override = Unset THEN platform_fee
                                                ELSE campaign[c].fee_override

-----------------------------------------------------------------------------
(* Token transfers.  A transfer the contract cannot cover traps.           *)

\* amt of the campaign's token comes in.
Receive(c, amt) ==
  /\ balance' = [balance EXCEPT ![TokenOf(c)] = @ + amt]
  /\ held' = [held EXCEPT ![c][TokenOf(c)] = @ + amt]

\* Mutant: a payment may not take the last token.
PayAllButLast(c, amt) ==
  /\ amt < balance[TokenOf(c)]
  /\ balance' = [balance EXCEPT ![TokenOf(c)] = @ - amt]
  /\ held' = [held EXCEPT ![c][TokenOf(c)] = @ - amt]

\* amt of the campaign's token goes out.
Pay(c, amt) ==
  /\ amt <= balance[TokenOf(c)]
  /\ balance' = [balance EXCEPT ![TokenOf(c)] = @ - amt]
  /\ held' = [held EXCEPT ![c][TokenOf(c)] = @ - amt]

\* Who received a platform fee.
PayFee(c, to, amt) ==
  fees_paid' = [fees_paid EXCEPT ![c][to] = @ + amt]

-----------------------------------------------------------------------------
(* Initialisation: the state admin::init leaves.                           *)

Init ==
  /\ now = 0
  /\ paused = FALSE
  /\ admin \in Admins
  /\ platform_token \in Tokens
  /\ platform_fee \in {f \in Fees : f <= PLATFORM_FEE_MAX_BPS}
  /\ vesting = [delay_days |-> 0, reserve_bps |-> 0]
  /\ max_contribution_per_transaction = 0
  /\ duration_cap = CAMPAIGN_DURATION_MAX_DAYS
  /\ campaign_count = 0
  /\ campaign = [c \in CampaignIds |-> NoCampaign]
  /\ contribution = [c \in CampaignIds |-> [u \in Users |-> 0]]
  /\ lifetime = [c \in CampaignIds |-> [u \in Users |-> 0]]
  /\ personal_cap = [c \in CampaignIds |-> [u \in Users |-> Unset]]
  /\ contributor_count = [c \in CampaignIds |-> 0]
  /\ top_contributor = [c \in CampaignIds |-> None]
  /\ fee_recipient = [c \in CampaignIds |-> None]
  /\ burst = [c \in CampaignIds |-> [ledger |-> 0, count |-> 0]]
  /\ reserve = [c \in CampaignIds |-> NoReserve]
  /\ milestones = [c \in CampaignIds |-> NoPlan]
  /\ milestone_verified = [c \in CampaignIds |-> {}]
  /\ milestone_claimed = [c \in CampaignIds |-> {}]
  /\ total_raised = 0
  /\ active_campaign_count = 0
  /\ verified_campaign_count = 0
  /\ cancelled_campaign_count = 0
  /\ balance = [t \in Tokens |-> 0]
  /\ held = [c \in CampaignIds |-> [t \in Tokens |-> 0]]
  /\ fees_paid = [c \in CampaignIds |-> [a \in Admins |-> 0]]

\* The next ledger closes.
Tick ==
  /\ now < MaxTime
  /\ now' = now + 1
  /\ UNCHANGED <<configVars, campaign_count, campaign, backerVars, sideVars,
                 reserve, milestoneVars, total_raised, counterVars, moneyVars>>

-----------------------------------------------------------------------------
(* Creation, verification and edits.                                       *)

\* create_campaign, create_campaign_with_token and the counter lib.rs keeps
\* beside them.  Goals are goals inside the configured range; the title index,
\* the text checks and the creation switch only narrow when it succeeds.  tok is
\* None for create_campaign; naming the platform token is the same as not naming
\* one.
create_campaign(u, goal, days, cap, tok) ==
  LET c == campaign_count + 1 IN
  /\ ~paused
  /\ goal > 0
  /\ days \in 1..duration_cap
  /\ cap >= 0
  /\ tok \in AllowedTokens \cup {None, platform_token}
  /\ c \in CampaignIds
  /\ campaign' = [campaign EXCEPT ![c] =
       [creator |-> u, funding_goal |-> goal, start_time |-> now,
        deadline |-> now + days * SECONDS_PER_DAY,
        deadline_extended |-> FALSE, amount_raised |-> 0,
        effective_amount_raised |-> 0, is_active |-> TRUE,
        is_verified |-> FALSE, is_cancelled |-> FALSE,
        funds_withdrawn |-> FALSE, max_contribution_per_user |-> cap,
        fee_override |-> Unset, vesting_delay |-> vesting.delay_days,
        vesting_bps |-> vesting.reserve_bps,
        token |-> IF tok = platform_token THEN None ELSE tok]]
  /\ campaign_count' = c
  /\ active_campaign_count' = active_campaign_count + 1
  /\ UNCHANGED <<now, configVars, backerVars, sideVars, reserve,
                 milestoneVars, total_raised, verified_campaign_count,
                 cancelled_campaign_count, moneyVars>>

\* verify_campaign, verify_campaigns (one item) and verify_campaign_with_votes:
\* the tally that the last one consults is modelled in Voting.
verify_campaign(c) ==
  /\ ~paused
  /\ Created(c)
  /\ ~campaign[c].is_verified
  /\ RequireActive(campaign[c])
  /\ transition(Of(campaign[c]), "Verified")
  /\ campaign' = [campaign EXCEPT ![c] = [@ EXCEPT !.is_verified = TRUE]]
  /\ verified_campaign_count' = verified_campaign_count + 1
  /\ UNCHANGED <<now, configVars, campaign_count, backerVars, sideVars, reserve,
                 milestoneVars, total_raised, active_campaign_count,
                 cancelled_campaign_count, moneyVars>>

\* Mutant: the counter is not decremented.
SaturatingNever(n) == n

\* A storage counter that stops at zero.
Saturating(n) == IF n > 0 THEN n - 1 ELSE 0

\* update_campaign_description on a verified campaign: the edit revokes the
\* verification.  On an unverified one it only rewrites text.
update_campaign_description(c) ==
  /\ ~paused
  /\ Created(c)
  /\ RequireActive(campaign[c])
  /\ campaign[c].is_verified
  /\ campaign' = [campaign EXCEPT ![c] = [@ EXCEPT !.is_verified = FALSE]]
  /\ verified_campaign_count' = Saturating(verified_campaign_count)
  /\ UNCHANGED <<now, configVars, campaign_count, backerVars, sideVars, reserve,
                 milestoneVars, total_raised, active_campaign_count,
                 cancelled_campaign_count, moneyVars>>

\* Mutant: an expired campaign may be extended.
ExtensionOpenAlways(c) == TRUE

\* The extension has to come before the deadline.
ExtensionOpen(c) == now < campaign[c].deadline

\* Mutant: only the extension is measured, not the whole duration.
DurationFitsExtension(c, new_deadline) ==
  (new_deadline - campaign[c].deadline) \div SECONDS_PER_DAY <= duration_cap

\* The whole duration stays within the category cap of the day and the maximum.
DurationFits(c, new_deadline) ==
  LET total_days == (new_deadline - campaign[c].start_time) \div SECONDS_PER_DAY
  IN total_days <= duration_cap /\ total_days <= CAMPAIGN_DURATION_MAX_DAYS

\* extend_campaign_deadline: once, before the deadline, by a bounded number of
\* days, within the category cap of the day and the absolute maximum.
extend_campaign_deadline(c, days) ==
  LET new_deadline == campaign[c].deadline + days * SECONDS_PER_DAY IN
  /\ ~paused
  /\ Created(c)
  /\ RequireActive(campaign[c])
  /\ ~campaign[c].deadline_extended
  /\ ExtensionOpen(c)
  /\ days \in 1..MAX_EXTENSION_DAYS
  /\ DurationFits(c, new_deadline)
  /\ campaign' = [campaign EXCEPT ![c] =
                    [@ EXCEPT !.deadline = new_deadline,
                              !.deadline_extended = TRUE]]
  /\ UNCHANGED <<now, configVars, campaign_count, backerVars, sideVars, reserve,
                 milestoneVars, total_raised, counterVars, moneyVars>>

-----------------------------------------------------------------------------
(* Contributions.                                                          *)

\* Mutant: the contributor's own cap is not consulted.
WithinCapsNotOwn(c, u, amt) ==
  /\ \/ max_contribution_per_transaction = 0
     \/ amt <= max_contribution_per_transaction
  /\ \/ campaign[c].max_contribution_per_user = 0
     \/ lifetime[c][u] + amt <= campaign[c].max_contribution_per_user

\* check_contribution_caps, check_transaction_contribution_cap and the
\* contributor's own cap.
WithinCaps(c, u, amt) ==
  /\ \/ max_contribution_per_transaction = 0
     \/ amt <= max_contribution_per_transaction
  /\ \/ campaign[c].max_contribution_per_user = 0
     \/ lifetime[c][u] + amt <= campaign[c].max_contribution_per_user
  /\ \/ personal_cap[c][u] = Unset
     \/ contribution[c][u] + amt <= personal_cap[c][u]

\* check_burst_guard.  A tripped guard returns an error, which also rolls back
\* the AutoPaused flag it has just set.
BurstChecked(c) ==
  campaign[c].amount_raised * BPS_DENOMINATOR
    > campaign[c].funding_goal * BurstCheckMinRaisedBps
NextBurst(c) ==
  [ledger |-> now,
   count  |-> IF burst[c].ledger = now THEN burst[c].count + 1 ELSE 1]
BurstGuard(c, amt) ==
  /\ amt * BPS_DENOMINATOR <= campaign[c].funding_goal * SingleContributionBps
  /\ BurstChecked(c) => NextBurst(c).count <= AUTO_PAUSE_BURST_THRESHOLD

\* Mutant: require_not_paused is forgotten.
CanContributePaused(c, u, amt) ==
  /\ amt > 0
  /\ Created(c)
  /\ campaign[c].is_verified
  /\ RequireActive(campaign[c])
  /\ u # campaign[c].creator
  /\ now <= campaign[c].deadline
  /\ WithinCaps(c, u, amt)
  /\ BurstGuard(c, amt)
  /\ campaign[c].amount_raised + amt <= MaxRaised

\* The checks contribute makes before it touches storage.
CanContribute(c, u, amt) ==
  /\ ~paused
  /\ amt > 0
  /\ Created(c)
  /\ campaign[c].is_verified
  /\ RequireActive(campaign[c])
  /\ u # campaign[c].creator
  /\ now <= campaign[c].deadline
  /\ WithinCaps(c, u, amt)
  /\ BurstGuard(c, amt)
  /\ campaign[c].amount_raised + amt <= MaxRaised

\* update_contribution_accounting, the burst counter and the transfer in.
Account(c, u, amt) ==
  /\ fee_recipient' = IF campaign[c].amount_raised = 0
                      THEN [fee_recipient EXCEPT ![c] = admin]
                      ELSE fee_recipient
  /\ campaign' = [campaign EXCEPT ![c] =
       [@ EXCEPT !.amount_raised = campaign[c].amount_raised + amt,
                 !.effective_amount_raised =
                    campaign[c].effective_amount_raised + amt]]
  /\ contribution' = [contribution EXCEPT ![c][u] = @ + amt]
  /\ lifetime' = [lifetime EXCEPT ![c][u] = @ + amt]
  /\ contributor_count' = IF lifetime[c][u] = 0
                          THEN [contributor_count EXCEPT ![c] = @ + 1]
                          ELSE contributor_count
  /\ burst' = IF BurstChecked(c) THEN [burst EXCEPT ![c] = NextBurst(c)]
                                 ELSE burst
  /\ total_raised' = total_raised + amt
  /\ Receive(c, amt)
  /\ UNCHANGED <<now, configVars, campaign_count, personal_cap, reserve,
                 milestoneVars, counterVars, fees_paid>>

\* contribute; the comparison with the previous top contributor comes last.
contribute(c, u, amt) ==
  /\ CanContribute(c, u, amt)
  /\ Account(c, u, amt)
  /\ top_contributor' =
       IF \/ top_contributor[c] \in {None, u}
          \/ contribution[c][u] + amt > contribution[c][top_contributor[c]]
       THEN [top_contributor EXCEPT ![c] = u]
       ELSE top_contributor

\* One item of batch_contribute.  A batch of n items is n such steps in a row
\* by one contributor in one ledger, and every prefix of an accepted batch is
\* itself a batch the contract accepts.  It does not touch TopContributor.
batch_contribute(c, u, amt) ==
  /\ CanContribute(c, u, amt)
  /\ Account(c, u, amt)
  /\ UNCHANGED top_contributor

\* Mutant: the goal is not consulted after the deadline.
RefundableOnceExpired(c) ==
  Created(c) /\ (campaign[c].is_cancelled \/ now > campaign[c].deadline)

\* claim_refund's condition: cancelled, or expired below the goal.
Refundable(c) ==
  /\ Created(c)
  /\ \/ campaign[c].is_cancelled
     \/ /\ now > campaign[c].deadline
        /\ campaign[c].amount_raised < campaign[c].funding_goal

\* Mutant: the refund leaves effective_amount_raised alone.
EffectiveAfterRefundSame(c, amt) == campaign[c].effective_amount_raised

EffectiveAfterRefund(c, amt) == campaign[c].effective_amount_raised - amt

\* Mutant: total_raised is reduced on the wrong path.
TotalRaisedAfterRefundSwapped(c, amt) ==
  IF campaign[c].is_cancelled THEN total_raised - amt ELSE total_raised

\* A cancelled campaign was taken off total_raised as a whole.
TotalRaisedAfterRefund(c, amt) ==
  IF campaign[c].is_cancelled THEN total_raised ELSE total_raised - amt

\* claim_refund.  (It also drops the caller's revenue_claimed entry, which a
\* refundable campaign never has: revenue needs funds_withdrawn.)
claim_refund(c, u) ==
  LET amt == contribution[c][u] IN
  /\ ~paused
  /\ Refundable(c)
  /\ amt # 0
  /\ contribution' = [contribution EXCEPT ![c][u] = 0]
  /\ personal_cap' = [personal_cap EXCEPT ![c][u] = Unset]
  /\ contributor_count' = [contributor_count EXCEPT ![c] = Saturating(@)]
  /\ campaign' = [campaign EXCEPT ![c] =
       [@ EXCEPT !.effective_amount_raised = EffectiveAfterRefund(c, amt)]]
  /\ total_raised' = TotalRaisedAfterRefund(c, amt)
  /\ Pay(c, amt)
  /\ UNCHANGED <<now, configVars, campaign_count, lifetime, sideVars, reserve,
                 milestoneVars, counterVars, fees_paid>>

\* set_personal_cap_fn: no pause check; never below what was ever contributed.
set_personal_cap(c, u, cap) ==
  /\ cap >= 0
  /\ Created(c)
  /\ cap >= lifetime[c][u]
  /\ RequireActive(campaign[c])
  /\ \/ campaign[c].max_contribution_per_user = 0
     \/ cap <= campaign[c].max_contribution_per_user
  /\ personal_cap' = [personal_cap EXCEPT ![c][u] = cap]
  /\ UNCHANGED <<now, configVars, campaign_count, campaign, contribution,
                 lifetime, contributor_count, sideVars, reserve, milestoneVars,
                 total_raised, counterVars, moneyVars>>

\* remove_personal_cap_fn.
remove_personal_cap(c, u) ==
  /\ Created(c)
  /\ RequireActive(campaign[c])
  /\ personal_cap[c][u] # Unset
  /\ personal_cap' = [personal_cap EXCEPT ![c][u] = Unset]
  /\ UNCHANGED <<now, configVars, campaign_count, campaign, contribution,
                 lifetime, contributor_count, sideVars, reserve, milestoneVars,
                 total_raised, counterVars, moneyVars>>

-----------------------------------------------------------------------------
(* Cancellation.                                                           *)

\* What both cancellations write.  A creator's cancellation would also refund
\* the revenue pool, which is empty while a campaign is active (see Revenue).
Cancel(c) ==
  /\ transition(Of(campaign[c]), "Cancelled")
  /\ total_raised' = total_raised - campaign[c].amount_raised
  /\ campaign' = [campaign EXCEPT ![c] = [@ EXCEPT !.is_cancelled = TRUE,
                                                   !.is_active = FALSE]]
  /\ active_campaign_count' = Saturating(active_campaign_count)
  /\ cancelled_campaign_count' = cancelled_campaign_count + 1
  /\ UNCHANGED <<now, configVars, campaign_count, backerVars, sideVars, reserve,
                 milestoneVars, verified_campaign_count, moneyVars>>

\* cancel_campaign, by the creator: not once the goal is met.
cancel_campaign(c) ==
  /\ ~paused
  /\ Created(c)
  /\ RequireActive(campaign[c])
  /\ ~campaign[c].funds_withdrawn
  /\ campaign[c].amount_raised < campaign[c].funding_goal
  /\ Cancel(c)

\* admin_cancel_campaign: also after the goal is met.
admin_cancel_campaign(c) ==
  /\ ~paused
  /\ Created(c)
  /\ RequireActive(campaign[c])
  /\ ~campaign[c].funds_withdrawn
  /\ Cancel(c)

-----------------------------------------------------------------------------
(* Withdrawal, with a platform fee and a vesting reserve.                  *)

\* Mutant: the fee goes to the admin of the day.
FeeRecipientToday(c) == admin

\* get_campaign_fee_recipient: the admin at the first contribution.
FeeRecipient(c) == IF fee_recipient[c] = None THEN admin ELSE fee_recipient[c]

\* Mutant: any amount is enough.
GoalMetAny(c) == campaign[c].amount_raised # 0

\* What withdraw_funds and claim_milestone ask of the amount raised.
GoalMet(c) == /\ campaign[c].amount_raised # 0
              /\ campaign[c].amount_raised >= campaign[c].funding_goal

\* Mutant: the reserve is kept and paid out too.
CreatorAmountUncut(after_fee, reserve_amount) == after_fee

CreatorAmount(after_fee, reserve_amount) == after_fee - reserve_amount

\* withdraw_funds.
withdraw_funds(c) ==
  LET eff            == campaign[c].effective_amount_raised
      fee_amount     == CeilBps(eff, FeeOf(c))
      after_fee      == eff - fee_amount
      reserve_amount == CeilBps(after_fee, campaign[c].vesting_bps)
      creator_amount == CreatorAmount(after_fee, reserve_amount)
  IN
  /\ ~paused
  /\ Created(c)
  /\ milestones[c] = NoPlan
  /\ campaign[c].is_verified
  /\ ~campaign[c].is_cancelled
  /\ ~campaign[c].funds_withdrawn
  /\ GoalMet(c)
  /\ transition(Of(campaign[c]), "Withdrawn")
  /\ campaign' = [campaign EXCEPT ![c] = [@ EXCEPT !.funds_withdrawn = TRUE,
                                                   !.is_active = FALSE]]
  /\ active_campaign_count' = Saturating(active_campaign_count)
  /\ reserve' = IF reserve_amount > 0
                THEN [reserve EXCEPT ![c] =
                       [amount |-> reserve_amount,
                        release_timestamp |->
                          now + campaign[c].vesting_delay * SECONDS_PER_DAY,
                        released |-> FALSE]]
                ELSE reserve
  /\ total_raised' = total_raised - (eff - reserve_amount)
  /\ Pay(c, fee_amount + creator_amount)
  /\ PayFee(c, FeeRecipient(c), fee_amount)
  /\ UNCHANGED <<now, configVars, campaign_count, backerVars, sideVars,
                 milestoneVars, verified_campaign_count,
                 cancelled_campaign_count>>

\* withdraw_reserve.
withdraw_reserve(c) ==
  /\ ~paused
  /\ Created(c)
  /\ reserve[c].amount > 0
  /\ ~reserve[c].released
  /\ now >= reserve[c].release_timestamp
  /\ campaign[c].funds_withdrawn
  /\ reserve' = [reserve EXCEPT ![c] = [@ EXCEPT !.released = TRUE]]
  /\ total_raised' = total_raised - reserve[c].amount
  /\ Pay(c, reserve[c].amount)
  /\ UNCHANGED <<now, configVars, campaign_count, campaign, backerVars, sideVars,
                 milestoneVars, counterVars, fees_paid>>

-----------------------------------------------------------------------------
(* Milestone-based withdrawal.                                             *)

\* The ids of a campaign's plan.
PlanIds(c) == {m \in MilestoneIds : milestones[c][m] # 0}

\* The plans set_milestones accepts: the payouts make up 100%.  (MilestoneIds
\* stands for at most MAX_MILESTONES ids, each with its own payout.)
ValidPlans == {plan \in Plans : Total(plan) = BPS_DENOMINATOR}

\* set_milestones: once per campaign, and any time before it is closed.
set_milestones(c, plan) ==
  /\ ~paused
  /\ Created(c)
  /\ ~campaign[c].is_cancelled
  /\ ~campaign[c].funds_withdrawn
  /\ milestones[c] = NoPlan
  /\ plan \in ValidPlans
  /\ milestones' = [milestones EXCEPT ![c] = plan]
  /\ UNCHANGED <<now, configVars, campaign_count, campaign, backerVars, sideVars,
                 reserve, milestone_verified, milestone_claimed, total_raised,
                 counterVars, moneyVars>>

\* verify_milestone, by the admin.
verify_milestone(c, m) ==
  /\ ~paused
  /\ Created(c)
  /\ ~campaign[c].is_cancelled
  /\ m \in PlanIds(c) \ milestone_verified[c]
  /\ milestone_verified' = [milestone_verified EXCEPT ![c] = @ \cup {m}]
  /\ UNCHANGED <<now, configVars, campaign_count, campaign, backerVars, sideVars,
                 reserve, milestones, milestone_claimed, total_raised,
                 counterVars, moneyVars>>

\* Mutant: the last claim forgets what was claimed before.
ClaimedShareNone(c, total) == 0

\* The share of total that the milestones claimed so far stand for, recomputed
\* at every claim.
ClaimedShare(c, total) ==
  Total([m \in milestone_claimed[c] |-> FloorBps(total, milestones[c][m])])

\* What claim_milestone computes, from the amount raised and the fee of the
\* day.  Plans sum to 10000 bps, so "remaining_bps == payout_bps" says that m is
\* the last.
LastMilestone(c, m) == milestone_claimed[c] \cup {m} = PlanIds(c)
FeeTotal(c) == CeilBps(campaign[c].amount_raised, FeeOf(c))
AfterFee(c) == campaign[c].amount_raised - FeeTotal(c)
Claimable(c, m) ==
  IF LastMilestone(c, m) THEN AfterFee(c) - ClaimedShare(c, AfterFee(c))
                         ELSE FloorBps(AfterFee(c), milestones[c][m])

\* The fee of one claim: its slice, and with the last milestone what is left.
FeeClaim(c, m) ==
  LET fee_slice     == FloorBps(FeeTotal(c), milestones[c][m])
      fee_remaining == FeeTotal(c) - ClaimedShare(c, FeeTotal(c))
  IN IF LastMilestone(c, m) /\ fee_remaining > fee_slice THEN fee_remaining
                                                         ELSE fee_slice

\* claim_milestone.  The fee goes to the admin of the day.
claim_milestone(c, m) ==
  LET claimable == Claimable(c, m)
      fee_claim == FeeClaim(c, m)
  IN
  /\ ~paused
  /\ Created(c)
  /\ ~campaign[c].is_cancelled
  /\ campaign[c].is_verified
  /\ ~campaign[c].funds_withdrawn
  /\ GoalMet(c)
  /\ m \in PlanIds(c)
  /\ m \in milestone_verified[c]
  /\ m \notin milestone_claimed[c]
  /\ claimable > 0
  /\ milestone_claimed' = [milestone_claimed EXCEPT ![c] = @ \cup {m}]
  /\ total_raised' = total_raised - (fee_claim + claimable)
  /\ campaign' = IF LastMilestone(c, m)
                 THEN [campaign EXCEPT ![c] =
                         [@ EXCEPT !.funds_withdrawn = TRUE,
                                   !.is_active = FALSE]]
                 ELSE campaign
  /\ active_campaign_count' = IF LastMilestone(c, m)
                              THEN Saturating(active_campaign_count)
                              ELSE active_campaign_count
  /\ Pay(c, fee_claim + claimable)
  /\ PayFee(c, admin, fee_claim)
  /\ UNCHANGED <<now, configVars, campaign_count, backerVars, sideVars, reserve,
                 milestones, milestone_verified, verified_campaign_count,
                 cancelled_campaign_count>>

-----------------------------------------------------------------------------
(* The admin's switches that the handlers above read.                      *)

unchangedButConfig ==
  UNCHANGED <<now, campaign_count, backerVars, sideVars, reserve,
              milestoneVars, total_raised, counterVars, moneyVars>>

\* pause, and emergency_pause by the configured signers.
pause ==
  /\ paused' = TRUE
  /\ UNCHANGED <<admin, platform_token, platform_fee, vesting, duration_cap,
                 max_contribution_per_transaction, campaign>>
  /\ unchangedButConfig

unpause ==
  /\ paused' = FALSE
  /\ UNCHANGED <<admin, platform_token, platform_fee, vesting, duration_cap,
                 max_contribution_per_transaction, campaign>>
  /\ unchangedButConfig

\* Mutant: any fee is accepted.
FeeAllowedAny(fee) == TRUE

\* The bound update_platform_fee and set_campaign_fee_override put on a fee.
FeeAllowed(fee) == fee <= PLATFORM_FEE_MAX_BPS

\* update_platform_fee: allowed while paused, bounded by the policy maximum.
update_platform_fee(fee) ==
  /\ FeeAllowed(fee)
  /\ platform_fee' = fee
  /\ UNCHANGED <<paused, admin, platform_token, vesting, duration_cap,
                 max_contribution_per_transaction, campaign>>
  /\ unchangedButConfig

\* set_campaign_fee_override: same bound, any campaign in any state.
set_campaign_fee_override(c, fee) ==
  /\ Created(c)
  /\ FeeAllowed(fee)
  /\ campaign' = [campaign EXCEPT ![c] = [@ EXCEPT !.fee_override = fee]]
  /\ UNCHANGED configVars
  /\ unchangedButConfig

\* set_vesting_params: a reserve needs a delay.  Campaigns already created keep
\* the parameters they snapshotted.
set_vesting_params(v) ==
  /\ ~paused
  /\ v.reserve_bps <= BPS_DENOMINATOR
  /\ v.delay_days <= VESTING_DELAY_MAX_DAYS
  /\ v.delay_days # 0 \/ v.reserve_bps = 0
  /\ vesting' = v
  /\ UNCHANGED <<paused, admin, platform_token, platform_fee, duration_cap,
                 max_contribution_per_transaction, campaign>>
  /\ unchangedButConfig

\* set_max_contribution_per_transaction: 0 means no limit.
set_max_contribution_per_transaction(cap) ==
  /\ cap >= 0
  /\ max_contribution_per_transaction' = cap
  /\ UNCHANGED <<paused, admin, platform_token, platform_fee, vesting,
                 duration_cap, campaign>>
  /\ unchangedButConfig

\* set_category_duration_cap; removing the cap restores the default maximum.
set_category_duration_cap(days) ==
  /\ days \in 1..CAMPAIGN_DURATION_MAX_DAYS
  /\ duration_cap' = days
  /\ UNCHANGED <<paused, admin, platform_token, platform_fee, vesting,
                 max_contribution_per_transaction, campaign>>
  /\ unchangedButConfig

-----------------------------------------------------------------------------
CreatorNext ==
  \/ \E u \in Creators, goal \in Goals, days \in Durations, cap \in UserCaps,
        tok \in Tokens \cup {None} : create_campaign(u, goal, days, cap, tok)
  \/ \E c \in CampaignIds :
       \/ update_campaign_description(c)
       \/ \E days \in Extensions : extend_campaign_deadline(c, days)
       \/ cancel_campaign(c)
       \/ withdraw_funds(c)
       \/ withdraw_reserve(c)
       \/ \E plan \in Plans : set_milestones(c, plan)
       \/ \E m \in MilestoneIds : claim_milestone(c, m)

BackerNext ==
  \E c \in CampaignIds, u \in Users :
    \/ \E amt \in Amounts : contribute(c, u, amt) \/ batch_contribute(c, u, amt)
    \/ claim_refund(c, u)
    \/ \E cap \in PersonalCaps : set_personal_cap(c, u, cap)
    \/ remove_personal_cap(c, u)

AdminNext ==
  \/ \E c \in CampaignIds :
       \/ verify_campaign(c)
       \/ admin_cancel_campaign(c)
       \/ \E m \in MilestoneIds : verify_milestone(c, m)
       \/ \E fee \in Fees : set_campaign_fee_override(c, fee)
  \/ pause
  \/ unpause
  \/ \E fee \in Fees : update_platform_fee(fee)
  \/ \E v \in Vestings : set_vesting_params(v)
  \/ \E cap \in TxCaps : set_max_contribution_per_transaction(cap)
  \/ \E days \in DurationCaps : set_category_duration_cap(days)

Next == Tick \/ CreatorNext \/ BackerNext \/ AdminNext

Spec == Init /\ [][Next]_vars

\* A contributor with money to get back keeps submitting the claim.  Nothing is
\* assumed of the creator, the admin or the other contributors.
Fairness == \A c \in CampaignIds, u \in Users : SF_vars(claim_refund(c, u))
FairSpec == Spec /\ Fairness

-----------------------------------------------------------------------------
(* Properties.                                                             *)

\* Every variable has the type its storage entry is read with.
TypeOK ==
  /\ now \in Nat
  /\ paused \in BOOLEAN
  /\ admin \in Admins
  /\ platform_token \in Tokens
  /\ platform_fee \in 0..PLATFORM_FEE_MAX_BPS
  /\ vesting \in [delay_days: Nat, reserve_bps: 0..BPS_DENOMINATOR]
  /\ max_contribution_per_transaction \in Nat
  /\ duration_cap \in 1..CAMPAIGN_DURATION_MAX_DAYS
  /\ campaign_count \in 0..MaxCampaigns
  /\ campaign \in [CampaignIds -> CampaignRecords]
  /\ contribution \in [CampaignIds -> [Users -> Nat]]
  /\ lifetime \in [CampaignIds -> [Users -> Nat]]
  /\ personal_cap \in [CampaignIds -> [Users -> Nat \cup {Unset}]]
  /\ contributor_count \in [CampaignIds -> Nat]
  /\ top_contributor \in [CampaignIds -> Users \cup {None}]
  /\ fee_recipient \in [CampaignIds -> Admins \cup {None}]
  /\ burst \in [CampaignIds -> [ledger: Nat, count: Nat]]
  /\ reserve \in [CampaignIds -> Reserves]
  /\ milestones \in [CampaignIds -> [MilestoneIds -> Nat]]
  /\ milestone_verified \in [CampaignIds -> SUBSET MilestoneIds]
  /\ milestone_claimed \in [CampaignIds -> SUBSET MilestoneIds]
  /\ total_raised \in Int
  /\ active_campaign_count \in Nat
  /\ verified_campaign_count \in Nat
  /\ cancelled_campaign_count \in Nat
  /\ balance \in [Tokens -> Nat]
  /\ held \in [CampaignIds -> [Tokens -> Int]]
  /\ fees_paid \in [CampaignIds -> [Admins -> Int]]

\* effective_amount_raised, which fees, payouts and revenue shares are computed
\* from, is the sum of the contributions on record (contribute and claim_refund
\* keep the two in separate storage entries).
EffectiveIsSum ==
  \A c \in CampaignIds :
    campaign[c].effective_amount_raised = Total(contribution[c])

\* contributor_count, which claim_revenue trusts to recognise the last claimant,
\* is the number of users with a contribution on record, although it goes up on
\* a zero lifetime total and down on a refund.
ContributorCountExact ==
  \A c \in CampaignIds :
    contributor_count[c] = Cardinality({u \in Users : contribution[c][u] # 0})

\* What a campaign still owes: the unreleased reserve once the creator has
\* withdrawn, everybody's contribution before.
Outstanding(c) ==
  IF campaign[c].funds_withdrawn
  THEN IF reserve[c].released THEN 0 ELSE reserve[c].amount
  ELSE Total(contribution[c])

\* The tokens that came in for a campaign and did not leave are exactly what it
\* owes, as long as no milestone has been claimed: contribute, claim_refund,
\* withdraw_funds and withdraw_reserve neither lose nor create a unit, whatever
\* the rounding of fee and reserve.
Custody ==
  \A c \in CampaignIds :
    milestone_claimed[c] = {} => held[c][TokenOf(c)] = Outstanding(c)

\* The creator has been paid: everything, or some milestone.
CreatorPaid(c) == campaign[c].funds_withdrawn \/ milestone_claimed[c] # {}

\* A campaign that has paid its creator, at once or milestone by milestone, owes
\* no refund and has refunded nobody, unless the admin cancels it between two
\* milestones: admin_cancel_campaign does not look at milestones that are paid.
NoDoubleSpend ==
  \A c \in CampaignIds :
    CreatorPaid(c) /\ ~campaign[c].is_cancelled =>
      /\ ~Refundable(c)
      /\ \A u \in Users : contribution[c][u] = lifetime[c][u]

\* The relations between flags, entries and time that FundingInv is made of.
\* Ids that were never handed out have no money; is_active says neither cancelled
\* nor withdrawn; only campaigns that reached their goal were withdrawn or paid a
\* milestone; a reserve belongs to a withdrawn campaign; only refundable campaigns
\* have given money back.
Untouched ==
  \A c \in CampaignIds : ~Created(c) =>
    /\ campaign[c] = NoCampaign
    /\ contribution[c] = [u \in Users |-> 0]
    /\ lifetime[c] = [u \in Users |-> 0]
    /\ held[c] = [t \in Tokens |-> 0]
    /\ milestone_claimed[c] = {}
FlagsCoherent ==
  \A c \in CampaignIds :
    /\ campaign[c].is_active <=> /\ Created(c)
                                 /\ ~campaign[c].is_cancelled
                                 /\ ~campaign[c].funds_withdrawn
    /\ campaign[c].funds_withdrawn =>
         ~campaign[c].is_cancelled
           /\ campaign[c].amount_raised >= campaign[c].funding_goal
    /\ milestone_claimed[c] # {} =>
         campaign[c].amount_raised >= campaign[c].funding_goal
    /\ ~campaign[c].funds_withdrawn => reserve[c] = NoReserve
RefundedIsRefundable ==
  \A c \in CampaignIds, u \in Users :
    contribution[c][u] # lifetime[c][u] => Refundable(c)

\* No sequence of calls by creator, contributors and admin reaches an incoherent
\* combination of flags, amounts and time: what makes NoDoubleSpend inductive.
FundingInv == Untouched /\ FlagsCoherent /\ RefundedIsRefundable

\* The platform counters, which accept_token_update relies on, agree with the
\* flags of the campaigns: the saturating decrements never saturate.
CountersExact ==
  /\ active_campaign_count =
       Cardinality({c \in CampaignIds : campaign[c].is_active})
  /\ verified_campaign_count =
       Cardinality({c \in CampaignIds : campaign[c].is_verified})
  /\ cancelled_campaign_count =
       Cardinality({c \in CampaignIds : campaign[c].is_cancelled})

\* The lifetime total stays within the campaign's per-user cap, and what is on
\* record within the lifetime total and within the personal cap, whenever it was set.
TotalsWithinCaps ==
  \A c \in CampaignIds, u \in Users :
    /\ contribution[c][u] <= lifetime[c][u]
    /\ \/ campaign[c].max_contribution_per_user = 0
       \/ lifetime[c][u] <= campaign[c].max_contribution_per_user
    /\ \/ personal_cap[c][u] = Unset
       \/ contribution[c][u] <= personal_cap[c][u]

\* Each of the three caps bounds what it is about after every step, whatever the admin
\* and the contributors do to caps in the meantime: the totals, and what the step has
\* added to a contribution, by the transaction cap in force (the items of a batch
\* count one by one).
CapsRespected ==
  [][/\ TotalsWithinCaps'
     /\ \A c \in CampaignIds, u \in Users :
          \/ max_contribution_per_transaction = 0
          \/ contribution'[c][u]
               <= contribution[c][u] + max_contribution_per_transaction]_vars

\* No campaign runs longer than the absolute maximum, extension included,
\* whatever the category caps did in the meantime.
DeadlineBounded ==
  \A c \in CampaignIds :
    campaign[c].deadline - campaign[c].start_time
      <= CAMPAIGN_DURATION_MAX_DAYS * SECONDS_PER_DAY

\* As long as no campaign has been cancelled, total_raised_global is what the
\* contract holds for its campaigns.
TotalRaisedExact ==
  (\A c \in CampaignIds : ~campaign[c].is_cancelled) =>
    total_raised = Net([p \in CampaignIds \X Tokens |-> held[p[1]][p[2]]])

\* A campaign that pays out milestone by milestone never pays more than its own
\* contributors brought in, and what they brought in covers each claim that is
\* still open, its fee included, whatever was contributed between two claims and
\* however shares and fees were rounded.  (The shares already paid are recomputed
\* at every claim: it takes a constant fee.)
MilestonesCovered ==
  \A c \in CampaignIds : ~campaign[c].is_cancelled =>
    /\ held[c][TokenOf(c)] >= 0
    /\ GoalMet(c) /\ ~campaign[c].funds_withdrawn =>
         \A m \in PlanIds(c) \ milestone_claimed[c] :
           FeeClaim(c, m) + Claimable(c, m) <= held[c][TokenOf(c)]

\* However a campaign is paid out and however often the fee is changed on the
\* way, the fees it pays stay within the policy maximum of what it raised: to the
\* unit in one withdrawal, and but for the rounding of each claim (the shares
\* already paid are recomputed with the fee of the day) milestone by milestone.
FeeBounded ==
  \A c \in CampaignIds :
    Net(fees_paid[c]) <= CeilBps(campaign[c].amount_raised, PLATFORM_FEE_MAX_BPS)
                           + Cardinality(milestone_claimed[c])

\* When contributors may claim refunds, the campaign's money is still there to pay
\* them all: no token swap has left it behind in another token ("no refundable
\* balance survives the swap"), and a cancellation finds it complete ("Contributors
\* reclaim their own funds").
RefundsCovered ==
  \A c \in CampaignIds :
    Refundable(c) => held[c][TokenOf(c)] >= Total(contribution[c])

\* Once a contributor may claim a refund, no later step of anyone (an
\* extension, a contribution, a cancellation, a withdrawal) takes that away.
RefundRightPermanent ==
  [][\A c \in CampaignIds : Refundable(c) => Refundable(c)']_vars

\* A pause stops the money (pause: "no contributions, withdrawals, or fund
\* operations"): until it is lifted no handler of anyone moves a token or changes
\* what a contributor, a creator or a fee recipient is credited with, although
\* fees, limits and personal caps may be set and time passes.  No campaign is closed
\* meanwhile, and one becomes refundable by its deadline only.
PauseStopsMoney ==
  [][paused =>
       /\ UNCHANGED <<balance, held, fees_paid, contribution, lifetime, reserve,
                      milestone_claimed, total_raised>>
       /\ \A c \in CampaignIds :
            /\ now' = now => (Refundable(c)' <=> Refundable(c))
            /\ Of(campaign[c])' = Of(campaign[c])]_vars

\* The phase of a campaign in the abstract escrow.
Phase(c) == IF ~Created(c)                       THEN "none"
            ELSE IF Refundable(c)                THEN "refunding"
            ELSE IF campaign[c].funds_withdrawn  THEN "released"
            ELSE                                      "open"

E == INSTANCE Escrow WITH Campaigns <- CampaignIds,
                          phase <- [c \in CampaignIds |-> Phase(c)],
                          deposit <- contribution

\* The contract implements the escrow its contributors are promised.
ImplementsEscrow == E!Spec

\* No campaign was cancelled after it had paid a milestone.
PaidNotCancelled ==
  \A c \in CampaignIds : campaign[c].is_cancelled => milestone_claimed[c] = {}

\* Whoever may claim a refund and keeps trying gets it, unless the contract
\* stays paused for ever or the admin cancels a campaign that has paid a milestone:
\* no accounting state and no shortage of tokens blocks claim_refund.  (Like
\* MilestonesCovered it takes a constant fee.)
RefundsPaid ==
  []<>~paused /\ []PaidNotCancelled =>
    \A c \in CampaignIds, u \in Users :
      (Refundable(c) /\ contribution[c][u] # 0) ~> (contribution[c][u] = 0)
=============================================================================
