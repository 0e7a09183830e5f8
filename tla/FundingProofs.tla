--------------------------- MODULE FundingProofs ---------------------------
(***************************************************************************)
(* What the money path of Funding guarantees for any number of campaigns,  *)
(* users and tokens, and for any amounts: storage entries keep their       *)
(* types, a campaign that has paid its creator never refunds, the amount   *)
(* payouts are computed from is the sum of the contributions on record,    *)
(* the right to a refund is permanent, and the contract implements Escrow. *)
(*                                                                         *)
(* The inductive invariant is TypeOK /\ FundingInv /\ EffectiveIsSum.      *)
(* Most actions leave the fields it is about alone (QuietStep); the rest   *)
(* change one campaign (LocalStep) or add one (MoneyCreate).               *)
(***************************************************************************)
EXTENDS Funding, LifecycleProofs

USE FundingAssumption
USE DEF configVars, backerVars, sideVars, milestoneVars, counterVars, moneyVars

-----------------------------------------------------------------------------
(* Type correctness.                                                       *)

\* What the updates of a campaign record that occur in the actions produce.
LEMMA RecordUpdates ==
  ASSUME NEW r \in CampaignRecords
  PROVE  /\ \A x \in BOOLEAN : [r EXCEPT !.is_verified = x] \in CampaignRecords
         /\ \A x, y \in BOOLEAN :
              [r EXCEPT !.is_cancelled = x, !.is_active = y] \in CampaignRecords
         /\ \A x, y \in BOOLEAN :
              [r EXCEPT !.funds_withdrawn = x, !.is_active = y] \in CampaignRecords
         /\ \A x \in Nat, y \in BOOLEAN :
              [r EXCEPT !.deadline = x, !.deadline_extended = y] \in CampaignRecords
         /\ \A x \in Nat, y \in Int :
              [r EXCEPT !.amount_raised = x, !.effective_amount_raised = y]
                \in CampaignRecords
         /\ \A x \in Int : [r EXCEPT !.effective_amount_raised = x] \in CampaignRecords
         /\ \A x \in 0..PLATFORM_FEE_MAX_BPS :
              [r EXCEPT !.fee_override = x] \in CampaignRecords
BY DEF CampaignRecords

\* A campaign's token is a token.
LEMMA TokenOfType ==
  ASSUME TypeOK, NEW c \in CampaignIds
  PROVE  TokenOf(c) \in Tokens
<1>1. campaign[c] \in CampaignRecords
  BY DEF TypeOK
<1>2. campaign[c].token \in Tokens \cup {None}
  BY <1>1 DEF CampaignRecords
<1>3. QED
  BY <1>2 DEF TypeOK, TokenOf

\* A campaign's fee is at most the policy maximum.
LEMMA FeeOfType ==
  ASSUME TypeOK, NEW c \in CampaignIds
  PROVE  FeeOf(c) \in 0..PLATFORM_FEE_MAX_BPS
<1>1. campaign[c].fee_override \in {Unset} \cup (0..PLATFORM_FEE_MAX_BPS)
  BY DEF TypeOK, CampaignRecords
<1>2. QED
  BY <1>1 DEF TypeOK, FeeOf

\* Updating one entry of a two-level map with an integer.
LEMMA NestedUpdate ==
  ASSUME NEW S, NEW T, NEW V, NEW f \in [S -> [T -> V]],
         NEW x \in S, NEW y \in T, NEW v \in V
  PROVE  [f EXCEPT ![x][y] = v] \in [S -> [T -> V]]
<1>1. [f[x] EXCEPT ![y] = v] \in [T -> V]
  OBVIOUS
<1>2. QED
  BY <1>1

\* A transfer in keeps the balance a natural and the history an integer.
LEMMA ReceiveType ==
  ASSUME TypeOK, NEW c \in CampaignIds, NEW amt \in Nat, Receive(c, amt)
  PROVE  balance' \in [Tokens -> Nat] /\ held' \in [CampaignIds -> [Tokens -> Int]]
<1> DEFINE t == TokenOf(c)
<1>1. balance \in [Tokens -> Nat] /\ held \in [CampaignIds -> [Tokens -> Int]]
  BY DEF TypeOK
<1>2. t \in Tokens
  BY TokenOfType
<1>3. /\ balance' = [balance EXCEPT ![t] = balance[t] + amt]
      /\ held' = [held EXCEPT ![c][t] = held[c][t] + amt]
  BY <1>1, <1>2 DEF Receive
<1> HIDE DEF t
<1>4. balance[t] + amt \in Nat /\ held[c][t] + amt \in Int
  BY <1>1, <1>2
<1>5. held' \in [CampaignIds -> [Tokens -> Int]]
  BY <1>1, <1>2, <1>3, <1>4, NestedUpdate
<1>6. QED
  BY <1>1, <1>2, <1>3, <1>4, <1>5

\* A transfer out keeps the balance a natural: the host refuses one it cannot
\* cover.
LEMMA PayType ==
  ASSUME TypeOK, NEW c \in CampaignIds, NEW amt \in Int, Pay(c, amt)
  PROVE  balance' \in [Tokens -> Nat] /\ held' \in [CampaignIds -> [Tokens -> Int]]
<1> DEFINE t == TokenOf(c)
<1>1. balance \in [Tokens -> Nat] /\ held \in [CampaignIds -> [Tokens -> Int]]
  BY DEF TypeOK
<1>2. t \in Tokens
  BY TokenOfType
<1>3. /\ amt <= balance[t]
      /\ balance' = [balance EXCEPT ![t] = balance[t] - amt]
      /\ held' = [held EXCEPT ![c][t] = held[c][t] - amt]
  BY <1>1, <1>2 DEF Pay
<1> HIDE DEF t
<1>4. balance[t] - amt \in Nat /\ held[c][t] - amt \in Int
  BY <1>1, <1>2, <1>3
<1>5. held' \in [CampaignIds -> [Tokens -> Int]]
  BY <1>1, <1>2, <1>3, <1>4, NestedUpdate
<1>6. QED
  BY <1>1, <1>2, <1>3, <1>4, <1>5

\* A fee is recorded as an integer.
LEMMA PayFeeType ==
  ASSUME TypeOK, NEW c \in CampaignIds, NEW to \in Admins, NEW amt \in Int,
         PayFee(c, to, amt)
  PROVE  fees_paid' \in [CampaignIds -> [Admins -> Int]]
<1>1. fees_paid \in [CampaignIds -> [Admins -> Int]]
  BY DEF TypeOK
<1>2. fees_paid[c][to] + amt \in Int
  BY <1>1
<1>3. fees_paid' = [fees_paid EXCEPT ![c][to] = fees_paid[c][to] + amt]
  BY <1>1 DEF PayFee
<1>4. QED
  BY <1>1, <1>2, <1>3, NestedUpdate

\* init leaves a well-typed state.
LEMMA TypeInit == ASSUME Init PROVE TypeOK
<1>1. NoCampaign \in CampaignRecords
  BY DEF NoCampaign, CampaignRecords, Unset, BPS_DENOMINATOR
<1>2. NoReserve \in Reserves /\ NoPlan \in [MilestoneIds -> Nat]
  BY DEF NoReserve, Reserves, NoPlan
<1>3. /\ campaign \in [CampaignIds -> CampaignRecords]
      /\ reserve \in [CampaignIds -> Reserves]
      /\ milestones \in [CampaignIds -> [MilestoneIds -> Nat]]
  BY <1>1, <1>2 DEF Init
<1>4. /\ now \in Nat /\ admin \in Admins /\ platform_token \in Tokens
      /\ max_contribution_per_transaction \in Nat
      /\ campaign_count \in 0..MaxCampaigns
      /\ duration_cap \in 1..CAMPAIGN_DURATION_MAX_DAYS
      /\ total_raised \in Int
  BY DEF Init
<1>5. /\ active_campaign_count \in Nat /\ verified_campaign_count \in Nat
      /\ cancelled_campaign_count \in Nat
  BY DEF Init
<1>6. /\ platform_fee \in 0..PLATFORM_FEE_MAX_BPS
      /\ vesting \in [delay_days: Nat, reserve_bps: 0..BPS_DENOMINATOR]
  BY DEF Init, BPS_DENOMINATOR
<1>7. /\ contribution \in [CampaignIds -> [Users -> Nat]]
      /\ lifetime \in [CampaignIds -> [Users -> Nat]]
      /\ personal_cap \in [CampaignIds -> [Users -> Nat \cup {Unset}]]
      /\ contributor_count \in [CampaignIds -> Nat]
      /\ top_contributor \in [CampaignIds -> Users \cup {None}]
      /\ fee_recipient \in [CampaignIds -> Admins \cup {None}]
  BY DEF Init
<1>8. /\ burst \in [CampaignIds -> [ledger: Nat, count: Nat]]
      /\ milestone_verified \in [CampaignIds -> SUBSET MilestoneIds]
      /\ milestone_claimed \in [CampaignIds -> SUBSET MilestoneIds]
      /\ balance \in [Tokens -> Nat]
      /\ held \in [CampaignIds -> [Tokens -> Int]]
      /\ fees_paid \in [CampaignIds -> [Admins -> Int]]
  BY DEF Init
<1>9. paused \in BOOLEAN
  BY DEF Init
<1>10. QED
  BY <1>3, <1>4, <1>5, <1>6, <1>7, <1>8, <1>9 DEF TypeOK

\* A number of days after a time is a time.
LEMMA DayProduct ==
  ASSUME NEW t \in Nat, NEW d \in Nat
  PROVE  t + d * SECONDS_PER_DAY \in Nat
<1> DEFINE n == d * SECONDS_PER_DAY
<1>1. n \in Nat
  OBVIOUS
<1> HIDE DEF n
<1>2. t + n \in Nat
  BY <1>1
<1>3. QED
  BY <1>2 DEF n

\* The decrement that stops at zero.
LEMMA SaturatingType ==
  ASSUME NEW n \in Nat
  PROVE  Saturating(n) \in Nat
BY DEF Saturating

\* The record of an existing campaign, and replacing it.
LEMMA CampaignUpdate ==
  ASSUME TypeOK, NEW c \in CampaignIds
  PROVE  /\ campaign[c] \in CampaignRecords
         /\ \A r \in CampaignRecords :
              [campaign EXCEPT ![c] = r] \in [CampaignIds -> CampaignRecords]
BY DEF TypeOK

\* The closing of a ledger changes the time only.
LEMMA TypeTick == ASSUME TypeOK, Tick PROVE TypeOK'
BY DEF TypeOK, Tick

\* create_campaign stores a well-formed campaign under a fresh id.
LEMMA TypeCreate ==
  ASSUME TypeOK, NEW u \in Creators, NEW goal \in Goals, NEW days \in Durations,
         NEW cap \in UserCaps, NEW tok \in Tokens \cup {None},
         create_campaign(u, goal, days, cap, tok)
  PROVE  TypeOK'
<1> DEFINE c == campaign_count + 1
<1>1. c \in CampaignIds /\ goal \in Nat /\ cap \in Nat /\ days \in Nat
  BY DEF create_campaign, TypeOK
<1>2. now + days * SECONDS_PER_DAY \in Nat
  <2>1. now \in Nat
    BY DEF TypeOK
  <2>2. QED
    BY <1>1, <2>1, DayProduct
<1>3. vesting.delay_days \in Nat /\ vesting.reserve_bps \in 0..BPS_DENOMINATOR
  BY DEF TypeOK
<1>4. PICK r : /\ campaign' = [campaign EXCEPT ![c] = r]
               /\ r = [creator |-> u, funding_goal |-> goal, start_time |-> now,
                       deadline |-> now + days * SECONDS_PER_DAY,
                       deadline_extended |-> FALSE, amount_raised |-> 0,
                       effective_amount_raised |-> 0, is_active |-> TRUE,
                       is_verified |-> FALSE, is_cancelled |-> FALSE,
                       funds_withdrawn |-> FALSE,
                       max_contribution_per_user |-> cap,
                       fee_override |-> Unset,
                       vesting_delay |-> vesting.delay_days,
                       vesting_bps |-> vesting.reserve_bps,
                       token |-> IF tok = platform_token THEN None ELSE tok]
  BY DEF create_campaign
<1>5. r \in CampaignRecords
  BY <1>1, <1>2, <1>3, <1>4 DEF CampaignRecords, TypeOK
<1> HIDE DEF c
<1>6. campaign' \in [CampaignIds -> CampaignRecords]
  BY <1>1, <1>4, <1>5, CampaignUpdate
<1>7. campaign_count' \in 0..MaxCampaigns /\ active_campaign_count' \in Nat
  BY <1>1 DEF create_campaign, TypeOK, CampaignIds, c
<1>8. QED
  BY <1>6, <1>7 DEF create_campaign, TypeOK

\* verify_campaign.
LEMMA TypeVerify ==
  ASSUME TypeOK, NEW c \in CampaignIds, verify_campaign(c)
  PROVE  TypeOK'
<1>1. campaign' \in [CampaignIds -> CampaignRecords]
  BY CampaignUpdate, RecordUpdates DEF verify_campaign
<1>2. verified_campaign_count' \in Nat
  BY DEF TypeOK, verify_campaign
<1>3. QED
  BY <1>1, <1>2 DEF TypeOK, verify_campaign

\* update_campaign_description.
LEMMA TypeDescription ==
  ASSUME TypeOK, NEW c \in CampaignIds, update_campaign_description(c)
  PROVE  TypeOK'
<1>1. campaign' \in [CampaignIds -> CampaignRecords]
  BY CampaignUpdate, RecordUpdates DEF update_campaign_description
<1>2. verified_campaign_count' \in Nat
  BY SaturatingType DEF TypeOK, update_campaign_description
<1>3. QED
  BY <1>1, <1>2 DEF TypeOK, update_campaign_description

\* extend_campaign_deadline: the new deadline is a time.
LEMMA TypeExtend ==
  ASSUME TypeOK, NEW c \in CampaignIds, NEW days \in Extensions,
         extend_campaign_deadline(c, days)
  PROVE  TypeOK'
<1> DEFINE d == campaign[c].deadline + days * SECONDS_PER_DAY
<1>1. campaign[c].deadline \in Nat
  BY DEF TypeOK, CampaignRecords
<1>2. d \in Nat
  <2>1. days \in Nat
    OBVIOUS
  <2>2. QED
    BY <1>1, <2>1, DayProduct
<1>3. campaign' = [campaign EXCEPT ![c] =
                    [campaign[c] EXCEPT !.deadline = d, !.deadline_extended = TRUE]]
  BY DEF extend_campaign_deadline, TypeOK
<1> HIDE DEF d
<1>4. campaign' \in [CampaignIds -> CampaignRecords]
  BY <1>2, <1>3, CampaignUpdate, RecordUpdates
<1>5. QED
  BY <1>4 DEF TypeOK, extend_campaign_deadline

\* update_contribution_accounting, shared by contribute and batch_contribute.
LEMMA TypeAccount ==
  ASSUME TypeOK, NEW c \in CampaignIds, NEW u \in Users, NEW amt \in Amounts,
         CanContribute(c, u, amt), Account(c, u, amt),
         top_contributor' \in [CampaignIds -> Users \cup {None}]
  PROVE  TypeOK'
<1>1. amt \in Nat
  BY DEF CanContribute
<1>2. campaign[c].amount_raised \in Nat /\ campaign[c].effective_amount_raised \in Int
  BY DEF TypeOK, CampaignRecords
<1> DEFINE x == campaign[c].amount_raised + amt
           y == campaign[c].effective_amount_raised + amt
<1>3. /\ x \in Nat /\ y \in Int
      /\ campaign' = [campaign EXCEPT ![c] =
                       [campaign[c] EXCEPT !.amount_raised = x,
                                           !.effective_amount_raised = y]]
  BY <1>1, <1>2 DEF Account, TypeOK
<1> HIDE DEF x, y
<1>4. campaign' \in [CampaignIds -> CampaignRecords]
  BY <1>3, CampaignUpdate, RecordUpdates
<1>5. /\ contribution \in [CampaignIds -> [Users -> Nat]]
      /\ lifetime \in [CampaignIds -> [Users -> Nat]]
  BY DEF TypeOK
<1>6. contribution[c][u] + amt \in Nat /\ lifetime[c][u] + amt \in Nat
  BY <1>1, <1>5
<1>7. contribution' \in [CampaignIds -> [Users -> Nat]]
  BY <1>5, <1>6, NestedUpdate DEF Account
<1>8. lifetime' \in [CampaignIds -> [Users -> Nat]]
  BY <1>5, <1>6, NestedUpdate DEF Account
<1>9. contributor_count' \in [CampaignIds -> Nat]
  BY DEF Account, TypeOK
<1>10. fee_recipient' \in [CampaignIds -> Admins \cup {None}]
  BY DEF Account, TypeOK
<1>11. NextBurst(c) \in [ledger: Nat, count: Nat]
  BY DEF NextBurst, TypeOK
<1>12. burst' \in [CampaignIds -> [ledger: Nat, count: Nat]]
  BY <1>11 DEF Account, TypeOK
<1>13. total_raised' \in Int
  BY <1>1 DEF Account, TypeOK
<1>14. balance' \in [Tokens -> Nat] /\ held' \in [CampaignIds -> [Tokens -> Int]]
  BY <1>1, ReceiveType DEF Account
<1>15. QED
  BY <1>4, <1>7, <1>8, <1>9, <1>10, <1>12, <1>13, <1>14 DEF TypeOK, Account

\* contribute and batch_contribute.
LEMMA TypeContribute ==
  ASSUME TypeOK, NEW c \in CampaignIds, NEW u \in Users, NEW amt \in Amounts,
         contribute(c, u, amt) \/ batch_contribute(c, u, amt)
  PROVE  TypeOK'
<1>1. CanContribute(c, u, amt) /\ Account(c, u, amt)
  BY DEF contribute, batch_contribute
<1>2. top_contributor' \in [CampaignIds -> Users \cup {None}]
  BY DEF TypeOK, contribute, batch_contribute
<1>3. QED
  BY <1>1, <1>2, TypeAccount

\* claim_refund.
LEMMA TypeRefund ==
  ASSUME TypeOK, NEW c \in CampaignIds, NEW u \in Users, claim_refund(c, u)
  PROVE  TypeOK'
<1> DEFINE amt == contribution[c][u]
<1>1. /\ contribution \in [CampaignIds -> [Users -> Nat]]
      /\ personal_cap \in [CampaignIds -> [Users -> Nat \cup {Unset}]]
  BY DEF TypeOK
<1>2. amt \in Nat
  BY <1>1
<1>3. contribution' \in [CampaignIds -> [Users -> Nat]]
  <2>1. 0 \in Nat
    OBVIOUS
  <2>2. QED
    BY <1>1, <2>1, NestedUpdate DEF claim_refund
<1>4. personal_cap' \in [CampaignIds -> [Users -> Nat \cup {Unset}]]
  BY <1>1, NestedUpdate DEF claim_refund
<1>5. contributor_count' \in [CampaignIds -> Nat]
  BY SaturatingType DEF claim_refund, TypeOK
<1>6. campaign[c].effective_amount_raised \in Int
  BY DEF TypeOK, CampaignRecords
<1> DEFINE y == campaign[c].effective_amount_raised - amt
<1>7. /\ y \in Int
      /\ campaign' = [campaign EXCEPT ![c] =
                       [campaign[c] EXCEPT !.effective_amount_raised = y]]
  BY <1>2, <1>6 DEF claim_refund, EffectiveAfterRefund, TypeOK
<1> HIDE DEF y
<1>8. campaign' \in [CampaignIds -> CampaignRecords]
  BY <1>7, CampaignUpdate, RecordUpdates
<1>9. total_raised' \in Int
  BY <1>2 DEF claim_refund, TotalRaisedAfterRefund, TypeOK
<1>10. balance' \in [Tokens -> Nat] /\ held' \in [CampaignIds -> [Tokens -> Int]]
  BY <1>2, PayType DEF claim_refund
<1>11. QED
  BY <1>3, <1>4, <1>5, <1>8, <1>9, <1>10 DEF TypeOK, claim_refund
\* set_personal_cap and remove_personal_cap only touch the caller's cap.
LEMMA TypePersonalCap ==
  ASSUME TypeOK, NEW c \in CampaignIds, NEW u \in Users,
         \/ \E cap \in PersonalCaps : set_personal_cap(c, u, cap)
         \/ remove_personal_cap(c, u)
  PROVE  TypeOK'
<1>1. PICK v \in Nat \cup {Unset} : personal_cap' = [personal_cap EXCEPT ![c][u] = v]
  BY DEF set_personal_cap, remove_personal_cap
<1>2. personal_cap \in [CampaignIds -> [Users -> Nat \cup {Unset}]]
  BY DEF TypeOK
<1>3. personal_cap' \in [CampaignIds -> [Users -> Nat \cup {Unset}]]
  BY <1>1, <1>2, NestedUpdate
<1>4. QED
  BY <1>3 DEF TypeOK, set_personal_cap, remove_personal_cap

\* Both cancellations.
LEMMA TypeCancel ==
  ASSUME TypeOK, NEW c \in CampaignIds, Cancel(c)
  PROVE  TypeOK'
<1>1. campaign' \in [CampaignIds -> CampaignRecords]
  BY CampaignUpdate, RecordUpdates DEF Cancel
<1>2. campaign[c].amount_raised \in Nat
  BY DEF TypeOK, CampaignRecords
<1>3. total_raised' \in Int /\ cancelled_campaign_count' \in Nat
  BY <1>2 DEF TypeOK, Cancel
<1>4. active_campaign_count' \in Nat
  BY SaturatingType DEF TypeOK, Cancel
<1>5. QED
  BY <1>1, <1>3, <1>4 DEF TypeOK, Cancel

\* withdraw_funds: the reserve is a natural because it is stored only when it
\* is positive.
LEMMA TypeWithdraw ==
  ASSUME TypeOK, NEW c \in CampaignIds, withdraw_funds(c)
  PROVE  TypeOK'
<1> DEFINE eff == campaign[c].effective_amount_raised
           fee == CeilBps(eff, FeeOf(c))
           res == CeilBps(eff - fee, campaign[c].vesting_bps)
           due == now + campaign[c].vesting_delay * SECONDS_PER_DAY
           to  == IF fee_recipient[c] = None THEN admin ELSE fee_recipient[c]
<1>1. /\ eff \in Int /\ campaign[c].vesting_bps \in Int
      /\ campaign[c].vesting_delay \in Nat /\ now \in Nat /\ total_raised \in Int
  <2>1. campaign[c] \in CampaignRecords
    BY CampaignUpdate
  <2>2. campaign[c].vesting_bps \in 0..BPS_DENOMINATOR
    BY <2>1 DEF CampaignRecords
  <2>3. campaign[c].vesting_bps \in Int
    BY <2>2, BpsDenominatorNat
  <2>4. eff \in Int /\ campaign[c].vesting_delay \in Nat
    BY <2>1 DEF CampaignRecords
  <2>5. QED
    BY <2>3, <2>4 DEF TypeOK
<1>2. FeeOf(c) \in Int
  BY FeeOfType
<1>3. fee \in Int
  BY <1>1, <1>2, BpsInt
<1>4. eff - fee \in Int
  BY <1>1, <1>3
<1>5. res \in Int
  BY <1>1, <1>4, BpsInt
<1>6. due \in Nat
  BY <1>1, DayProduct
<1>7. to \in Admins
  BY DEF TypeOK
<1>8. /\ campaign' = [campaign EXCEPT ![c] = [@ EXCEPT !.funds_withdrawn = TRUE,
                                                       !.is_active = FALSE]]
      /\ active_campaign_count' = Saturating(active_campaign_count)
      /\ reserve' = IF res > 0
                    THEN [reserve EXCEPT ![c] = [amount |-> res,
                                                 release_timestamp |-> due,
                                                 released |-> FALSE]]
                    ELSE reserve
      /\ total_raised' = total_raised - (eff - res)
      /\ Pay(c, fee + (eff - fee - res))
      /\ PayFee(c, to, fee)
  BY DEF withdraw_funds, FeeRecipient, CreatorAmount
<1> HIDE DEF eff, fee, res, due, to
<1>9. campaign' \in [CampaignIds -> CampaignRecords]
  BY <1>8, CampaignUpdate, RecordUpdates
<1>10. active_campaign_count' \in Nat
  BY <1>8, SaturatingType DEF TypeOK
<1>11. reserve' \in [CampaignIds -> Reserves]
  <2>1. CASE res > 0
    <3>1. [amount |-> res, release_timestamp |-> due, released |-> FALSE] \in Reserves
      BY <2>1, <1>5, <1>6 DEF Reserves
    <3>2. QED
      BY <3>1, <2>1, <1>8 DEF TypeOK
  <2>2. CASE ~(res > 0)
    BY <2>2, <1>8 DEF TypeOK
  <2>3. QED
    BY <2>1, <2>2
<1>12. total_raised' \in Int
  BY <1>1, <1>5, <1>8
<1>13. fee + (eff - fee - res) \in Int
  BY <1>1, <1>3, <1>5
<1>14. balance' \in [Tokens -> Nat] /\ held' \in [CampaignIds -> [Tokens -> Int]]
  BY <1>8, <1>13, PayType
<1>15. fees_paid' \in [CampaignIds -> [Admins -> Int]]
  BY <1>3, <1>7, <1>8, PayFeeType
<1>16. QED
  BY <1>9, <1>10, <1>11, <1>12, <1>14, <1>15 DEF TypeOK, withdraw_funds

\* withdraw_reserve.
LEMMA TypeReserve ==
  ASSUME TypeOK, NEW c \in CampaignIds, withdraw_reserve(c)
  PROVE  TypeOK'
<1>1. reserve[c] \in Reserves
  BY DEF TypeOK
<1>2. reserve[c].amount \in Nat /\ [reserve[c] EXCEPT !.released = TRUE] \in Reserves
  BY <1>1 DEF Reserves
<1>3. reserve' \in [CampaignIds -> Reserves]
  BY <1>2 DEF TypeOK, withdraw_reserve
<1>4. total_raised' \in Int
  BY <1>2 DEF TypeOK, withdraw_reserve
<1>5. balance' \in [Tokens -> Nat] /\ held' \in [CampaignIds -> [Tokens -> Int]]
  BY <1>2, PayType DEF withdraw_reserve
<1>6. QED
  BY <1>3, <1>4, <1>5 DEF TypeOK, withdraw_reserve

\* set_milestones and verify_milestone.
LEMMA TypePlan ==
  ASSUME TypeOK, NEW c \in CampaignIds,
         \/ \E plan \in Plans : set_milestones(c, plan)
         \/ \E m \in MilestoneIds : verify_milestone(c, m)
  PROVE  TypeOK'
<1>1. CASE \E plan \in Plans : set_milestones(c, plan)
  BY <1>1 DEF TypeOK, set_milestones
<1>2. CASE \E m \in MilestoneIds : verify_milestone(c, m)
  BY <1>2 DEF TypeOK, verify_milestone
<1>3. QED
  BY <1>1, <1>2

\* The shares already claimed add up to a natural.
LEMMA ClaimedShareType ==
  ASSUME TypeOK, NEW c \in CampaignIds, NEW total \in Nat
  PROVE  ClaimedShare(c, total) \in Nat
<1> DEFINE S == milestone_claimed[c]
           f == [m \in S |-> FloorBps(total, milestones[c][m])]
<1>1. S \subseteq MilestoneIds /\ milestones[c] \in [MilestoneIds -> Nat]
  BY DEF TypeOK
<1>2. IsFiniteSet(S)
  BY <1>1, FS_Subset
<1>3. \A m \in S : milestones[c][m] \in Nat
  BY <1>1
<1> HIDE DEF S
<1>4. f \in [S -> Nat]
  BY <1>3, FloorBpsNat
<1> HIDE DEF f
<1>5. Total(f) \in Nat
  BY <1>2, <1>4, TotalType
<1>6. QED
  BY <1>5 DEF ClaimedShare, f, S

\* What a milestone claim pays is an integer.
LEMMA MilestonePayType ==
  ASSUME TypeOK, NEW c \in CampaignIds, NEW m \in MilestoneIds
  PROVE  Claimable(c, m) \in Int /\ FeeClaim(c, m) \in Int
<1>1. campaign[c].amount_raised \in Nat /\ milestones[c][m] \in Nat
  BY DEF TypeOK, CampaignRecords
<1>2. FeeOf(c) \in 0..BPS_DENOMINATOR
  <2>1. FeeOf(c) \in 0..PLATFORM_FEE_MAX_BPS
    BY FeeOfType
  <2>2. \A n \in 0..PLATFORM_FEE_MAX_BPS : n \in 0..BPS_DENOMINATOR
    BY BpsDenominatorNat
  <2>3. QED
    BY <2>1, <2>2
<1>3. FeeTotal(c) \in 0..campaign[c].amount_raised
  BY <1>1, <1>2, CeilBpsBounds DEF FeeTotal
<1>4. FeeTotal(c) \in Nat /\ AfterFee(c) \in Nat
  BY <1>1, <1>3 DEF AfterFee
<1>5. /\ ClaimedShare(c, FeeTotal(c)) \in Nat
      /\ ClaimedShare(c, AfterFee(c)) \in Nat
  BY <1>4, ClaimedShareType
<1>6. /\ FloorBps(FeeTotal(c), milestones[c][m]) \in Nat
      /\ FloorBps(AfterFee(c), milestones[c][m]) \in Nat
  BY <1>1, <1>4, FloorBpsNat
<1>7. QED
  BY <1>4, <1>5, <1>6 DEF Claimable, FeeClaim

\* claim_milestone.
LEMMA TypeClaim ==
  ASSUME TypeOK, NEW c \in CampaignIds, NEW m \in MilestoneIds, claim_milestone(c, m)
  PROVE  TypeOK'
<1> DEFINE x == Claimable(c, m)
           y == FeeClaim(c, m)
<1>1. x \in Int /\ y \in Int
  BY MilestonePayType
<1>2. /\ total_raised' = total_raised - (y + x)
      /\ Pay(c, y + x)
      /\ PayFee(c, admin, y)
  BY DEF claim_milestone
<1> HIDE DEF x, y
<1>3. total_raised' \in Int
  BY <1>1, <1>2 DEF TypeOK
<1>4. y + x \in Int
  BY <1>1
<1>5. balance' \in [Tokens -> Nat] /\ held' \in [CampaignIds -> [Tokens -> Int]]
  BY <1>2, <1>4, PayType
<1>6. admin \in Admins
  BY DEF TypeOK
<1>7. fees_paid' \in [CampaignIds -> [Admins -> Int]]
  BY <1>1, <1>2, <1>6, PayFeeType
<1>8. campaign' \in [CampaignIds -> CampaignRecords]
  <2>1. campaign \in [CampaignIds -> CampaignRecords]
    BY DEF TypeOK
  <2>2. [campaign EXCEPT ![c] = [@ EXCEPT !.funds_withdrawn = TRUE,
                                          !.is_active = FALSE]]
          \in [CampaignIds -> CampaignRecords]
    BY CampaignUpdate, RecordUpdates
  <2>3. QED
    BY <2>1, <2>2 DEF claim_milestone
<1>9. active_campaign_count' \in Nat
  BY SaturatingType DEF TypeOK, claim_milestone
<1>10. milestone_claimed' \in [CampaignIds -> SUBSET MilestoneIds]
  BY DEF TypeOK, claim_milestone
<1>11. QED
  BY <1>3, <1>5, <1>7, <1>8, <1>9, <1>10 DEF TypeOK, claim_milestone

\* The admin's setters.
LEMMA TypeConfig ==
  ASSUME TypeOK,
         \/ pause \/ unpause
         \/ \E fee \in Fees : update_platform_fee(fee)
         \/ \E v \in Vestings : set_vesting_params(v)
         \/ \E cap \in TxCaps : set_max_contribution_per_transaction(cap)
         \/ \E days \in DurationCaps : set_category_duration_cap(days)
  PROVE  TypeOK'
<1>1. CASE pause
  <2>1. paused' \in BOOLEAN
    BY <1>1 DEF pause
  <2>2. QED
    BY <1>1, <2>1 DEF TypeOK, pause, unchangedButConfig
<1>2. CASE unpause
  <2>1. paused' \in BOOLEAN
    BY <1>2 DEF unpause
  <2>2. QED
    BY <1>2, <2>1 DEF TypeOK, unpause, unchangedButConfig
<1>3. CASE \E fee \in Fees : update_platform_fee(fee)
  BY <1>3 DEF TypeOK, update_platform_fee, FeeAllowed, unchangedButConfig
<1>4. CASE \E v \in Vestings : set_vesting_params(v)
  <2>1. PICK v \in Vestings : set_vesting_params(v)
    BY <1>4
  <2>2. v \in [delay_days: Nat, reserve_bps: Nat] /\ v.reserve_bps <= BPS_DENOMINATOR
    BY <2>1 DEF set_vesting_params
  <2>3. v \in [delay_days: Nat, reserve_bps: 0..BPS_DENOMINATOR]
    BY <2>2, BpsDenominatorNat
  <2>4. QED
    BY <2>1, <2>3 DEF TypeOK, set_vesting_params, unchangedButConfig
<1>5. CASE \E cap \in TxCaps : set_max_contribution_per_transaction(cap)
  BY <1>5 DEF TypeOK, set_max_contribution_per_transaction, unchangedButConfig
<1>6. CASE \E days \in DurationCaps : set_category_duration_cap(days)
  BY <1>6 DEF TypeOK, set_category_duration_cap, unchangedButConfig
<1>7. QED
  BY <1>1, <1>2, <1>3, <1>4, <1>5, <1>6

\* set_campaign_fee_override keeps the override within the policy maximum.
LEMMA TypeOverride ==
  ASSUME TypeOK, NEW c \in CampaignIds, NEW fee \in Fees,
         set_campaign_fee_override(c, fee)
  PROVE  TypeOK'
<1>1. fee \in 0..PLATFORM_FEE_MAX_BPS
  BY DEF set_campaign_fee_override, FeeAllowed
<1>2. campaign' = [campaign EXCEPT ![c] = [campaign[c] EXCEPT !.fee_override = fee]]
  BY DEF set_campaign_fee_override, TypeOK
<1>3. campaign' \in [CampaignIds -> CampaignRecords]
  BY <1>1, <1>2, CampaignUpdate, RecordUpdates
<1>4. QED
  BY <1>3 DEF TypeOK, set_campaign_fee_override, unchangedButConfig

\* Every step keeps the types.
LEMMA TypeNext == ASSUME TypeOK, [Next]_vars PROVE TypeOK'
<1>1. CASE Tick
  BY <1>1, TypeTick
<1>2. CASE CreatorNext
  BY <1>2, TypeCreate, TypeDescription, TypeExtend, TypeCancel, TypeWithdraw,
     TypeReserve, TypePlan, TypeClaim
     DEF CreatorNext, cancel_campaign
<1>3. CASE BackerNext
  BY <1>3, TypeContribute, TypeRefund, TypePersonalCap DEF BackerNext
<1>4. CASE AdminNext
  BY <1>4, TypeVerify, TypeCancel, TypePlan, TypeOverride, TypeConfig
     DEF AdminNext, admin_cancel_campaign
<1>5. CASE UNCHANGED vars
  BY <1>5 DEF TypeOK, vars
<1>6. QED
  BY <1>1, <1>2, <1>3, <1>4, <1>5 DEF Next

\* Whatever the callers do, every storage entry keeps its type: in particular
\* the contract's token balances stay natural numbers, and fees and reserves
\* stay within their bounds.
THEOREM Typing == Spec => []TypeOK
BY TypeInit, TypeNext, PTL DEF Spec

HIDE FundingAssumption
HIDE DEF configVars, backerVars, sideVars, milestoneVars, counterVars, moneyVars

-----------------------------------------------------------------------------
(* Coherent flags, amounts and time.                                       *)

MoneyInv == FundingInv /\ EffectiveIsSum

\* What a step keeps: the invariant, and everybody's right to a refund.
Kept == MoneyInv' /\ \A c \in CampaignIds : Refundable(c) => Refundable(c)'

\* The fields of a campaign that the invariant is about.
SameCore(r, s) ==
  /\ r.is_active = s.is_active
  /\ r.is_cancelled = s.is_cancelled
  /\ r.funds_withdrawn = s.funds_withdrawn
  /\ r.amount_raised = s.amount_raised
  /\ r.funding_goal = s.funding_goal
  /\ r.deadline = s.deadline
  /\ r.effective_amount_raised = s.effective_amount_raised

\* The arithmetic fields of a campaign are numbers.
LEMMA CoreTypes ==
  ASSUME TypeOK, NEW c \in CampaignIds
  PROVE  /\ now \in Nat
         /\ campaign[c].amount_raised \in Nat
         /\ campaign[c].funding_goal \in Nat
         /\ campaign[c].deadline \in Nat
         /\ campaign[c].effective_amount_raised \in Int
<1>1. campaign[c] \in CampaignRecords
  BY DEF TypeOK
<1>2. QED
  BY <1>1 DEF CampaignRecords, TypeOK

\* What the invariant says of one campaign that exists.
LEMMA AtCampaign ==
  ASSUME MoneyInv, NEW d \in CampaignIds, Created(d)
  PROVE  /\ campaign[d].is_active <=> /\ ~campaign[d].is_cancelled
                                      /\ ~campaign[d].funds_withdrawn
         /\ campaign[d].funds_withdrawn =>
              /\ ~campaign[d].is_cancelled
              /\ campaign[d].amount_raised >= campaign[d].funding_goal
         /\ milestone_claimed[d] # {} =>
              campaign[d].amount_raised >= campaign[d].funding_goal
         /\ ~campaign[d].funds_withdrawn => reserve[d] = NoReserve
         /\ \A u \in Users : contribution[d][u] # lifetime[d][u] => Refundable(d)
         /\ campaign[d].effective_amount_raised = Total(contribution[d])
BY DEF MoneyInv, FundingInv, FlagsCoherent, RefundedIsRefundable, EffectiveIsSum

\* Time may pass, and anything outside the core fields may change.
LEMMA QuietStep ==
  ASSUME TypeOK, MoneyInv, now' \in Nat, now <= now',
         UNCHANGED <<campaign_count, contribution, lifetime, held,
                     milestone_claimed, reserve>>,
         \A c \in CampaignIds : ~Created(c) => campaign'[c] = campaign[c],
         \A c \in CampaignIds : SameCore(campaign'[c], campaign[c])
  PROVE  Kept
<1>1. \A c \in CampaignIds : Created(c)' <=> Created(c)
  BY DEF Created
<1>2. \A c \in CampaignIds : Refundable(c) => Refundable(c)'
  <2> SUFFICES ASSUME NEW c \in CampaignIds, Refundable(c) PROVE Refundable(c)'
    OBVIOUS
  <2>1. QED
    BY <1>1, CoreTypes DEF Refundable, SameCore
<1>3. Untouched'
  BY <1>1 DEF MoneyInv, FundingInv, Untouched
<1>4. FlagsCoherent'
  BY <1>1 DEF MoneyInv, FundingInv, FlagsCoherent, SameCore
<1>5. RefundedIsRefundable'
  BY <1>2 DEF MoneyInv, FundingInv, RefundedIsRefundable
<1>6. EffectiveIsSum'
  BY DEF MoneyInv, EffectiveIsSum, SameCore
<1>7. QED
  BY <1>2, <1>3, <1>4, <1>5, <1>6 DEF Kept, MoneyInv, FundingInv

\* One campaign that exists changes; the obligations are those about it.
LEMMA LocalStep ==
  ASSUME TypeOK, MoneyInv, NEW d \in CampaignIds, Created(d),
         UNCHANGED <<now, campaign_count>>,
         \A c \in CampaignIds \ {d} :
           /\ campaign'[c] = campaign[c]
           /\ contribution'[c] = contribution[c]
           /\ lifetime'[c] = lifetime[c]
           /\ held'[c] = held[c]
           /\ milestone_claimed'[c] = milestone_claimed[c]
           /\ reserve'[c] = reserve[c],
         Refundable(d) => Refundable(d)',
         campaign'[d].is_active <=> /\ ~campaign'[d].is_cancelled
                                    /\ ~campaign'[d].funds_withdrawn,
         campaign'[d].funds_withdrawn =>
           /\ ~campaign'[d].is_cancelled
           /\ campaign'[d].amount_raised >= campaign'[d].funding_goal,
         milestone_claimed'[d] # {} =>
           campaign'[d].amount_raised >= campaign'[d].funding_goal,
         ~campaign'[d].funds_withdrawn => reserve'[d] = NoReserve,
         \A u \in Users : contribution'[d][u] # lifetime'[d][u] => Refundable(d)',
         campaign'[d].effective_amount_raised = Total(contribution'[d])
  PROVE  Kept
<1>1. \A c \in CampaignIds : Created(c)' <=> Created(c)
  BY DEF Created
<1>2. \A c \in CampaignIds \ {d} : Refundable(c)' <=> Refundable(c)
  BY <1>1 DEF Refundable
<1>3. Untouched'
  BY <1>1 DEF MoneyInv, FundingInv, Untouched
<1>4. FlagsCoherent'
  <2> SUFFICES ASSUME NEW c \in CampaignIds
               PROVE  /\ campaign'[c].is_active <=> /\ Created(c)'
                                                    /\ ~campaign'[c].is_cancelled
                                                    /\ ~campaign'[c].funds_withdrawn
                      /\ campaign'[c].funds_withdrawn =>
                           ~campaign'[c].is_cancelled
                             /\ campaign'[c].amount_raised >= campaign'[c].funding_goal
                      /\ milestone_claimed'[c] # {} =>
                           campaign'[c].amount_raised >= campaign'[c].funding_goal
                      /\ ~campaign'[c].funds_withdrawn => reserve'[c] = NoReserve
    BY DEF FlagsCoherent, NoReserve
  <2>1. CASE c = d
    BY <2>1, <1>1
  <2>2. CASE c # d
    BY <2>2, <1>1 DEF MoneyInv, FundingInv, FlagsCoherent
  <2>3. QED
    BY <2>1, <2>2
<1>5. RefundedIsRefundable'
  <2> SUFFICES ASSUME NEW c \in CampaignIds, NEW u \in Users,
                      contribution'[c][u] # lifetime'[c][u]
               PROVE  Refundable(c)'
    BY DEF RefundedIsRefundable
  <2>1. CASE c = d
    BY <2>1
  <2>2. CASE c # d
    BY <2>2, <1>2 DEF MoneyInv, FundingInv, RefundedIsRefundable
  <2>3. QED
    BY <2>1, <2>2
<1>6. EffectiveIsSum'
  BY DEF MoneyInv, EffectiveIsSum
<1>7. \A c \in CampaignIds : Refundable(c) => Refundable(c)'
  BY <1>2
<1>8. QED
  BY <1>3, <1>4, <1>5, <1>6, <1>7 DEF Kept, MoneyInv, FundingInv

-----------------------------------------------------------------------------
(* The actions.                                                            *)

\* init leaves no campaign at all.
LEMMA MoneyInit == ASSUME Init PROVE MoneyInv
<1>1. campaign = [c \in CampaignIds |-> NoCampaign] /\ campaign_count = 0
  BY DEF Init
<1>2. \A c \in CampaignIds : campaign[c] = NoCampaign /\ ~Created(c)
  BY <1>1 DEF Created
<1>3. Untouched
  BY <1>2 DEF Untouched, Init
<1>4. FlagsCoherent
  <2>1. reserve = [c \in CampaignIds |-> NoReserve]
    BY DEF Init
  <2>2. QED
    BY <1>2, <2>1 DEF FlagsCoherent, NoCampaign
<1>5. RefundedIsRefundable
  BY DEF RefundedIsRefundable, Init
<1>6. EffectiveIsSum
  <2>1. \A c \in CampaignIds : contribution[c] = [u \in Users |-> 0]
    BY DEF Init
  <2>2. \A c \in CampaignIds : Total(contribution[c]) = 0
    BY <2>1, TotalZero
  <2>3. QED
    BY <1>2, <2>2 DEF EffectiveIsSum, NoCampaign
<1>7. QED
  BY <1>3, <1>4, <1>5, <1>6 DEF MoneyInv, FundingInv

\* create_campaign: an id that was never handed out has neither money nor claims.
LEMMA MoneyCreate ==
  ASSUME TypeOK, MoneyInv, NEW u \in Creators, NEW goal \in Goals,
         NEW days \in Durations, NEW cap \in UserCaps,
         NEW tok \in Tokens \cup {None}, create_campaign(u, goal, days, cap, tok)
  PROVE  Kept
<1>0. PICK d \in CampaignIds : d = campaign_count + 1
  BY DEF create_campaign
<1>1. /\ ~Created(d)
      /\ campaign_count' = d
      /\ UNCHANGED <<now, contribution, lifetime, held, milestone_claimed, reserve>>
  BY <1>0 DEF create_campaign, backerVars, moneyVars, milestoneVars, Created, TypeOK
<1>2. \A c \in CampaignIds \ {d} : campaign'[c] = campaign[c]
  BY <1>0 DEF create_campaign, TypeOK
<1>3. /\ campaign'[d].is_active /\ ~campaign'[d].is_cancelled
      /\ ~campaign'[d].funds_withdrawn
      /\ campaign'[d].effective_amount_raised = 0
  BY <1>0 DEF create_campaign, TypeOK
<1>4. campaign_count \in Nat
  BY DEF TypeOK
<1>5. /\ Created(d)'
      /\ \A c \in CampaignIds \ {d} : Created(c)' <=> Created(c)
  BY <1>0, <1>1, <1>4 DEF Created, CampaignIds
<1>6. /\ campaign[d] = NoCampaign
      /\ contribution[d] = [v \in Users |-> 0] /\ lifetime[d] = [v \in Users |-> 0]
      /\ milestone_claimed[d] = {}
  BY <1>1 DEF MoneyInv, FundingInv, Untouched
<1>7. \A c \in CampaignIds : Refundable(c) => Refundable(c)'
  BY <1>1, <1>2, <1>5 DEF Refundable
<1>8. Untouched'
  <2>1. \A c \in CampaignIds : ~Created(c)' => c # d /\ ~Created(c)
    BY <1>5
  <2>2. QED
    BY <2>1, <1>1, <1>2 DEF MoneyInv, FundingInv, Untouched
<1>9. FlagsCoherent'
  <2> SUFFICES ASSUME NEW c \in CampaignIds
               PROVE  /\ campaign'[c].is_active <=> /\ Created(c)'
                                                    /\ ~campaign'[c].is_cancelled
                                                    /\ ~campaign'[c].funds_withdrawn
                      /\ campaign'[c].funds_withdrawn =>
                           ~campaign'[c].is_cancelled
                             /\ campaign'[c].amount_raised >= campaign'[c].funding_goal
                      /\ milestone_claimed'[c] # {} =>
                           campaign'[c].amount_raised >= campaign'[c].funding_goal
                      /\ ~campaign'[c].funds_withdrawn => reserve'[c] = NoReserve
    BY DEF FlagsCoherent, NoReserve
  <2>1. CASE c = d
    <3>1. reserve'[d] = NoReserve
      BY <1>1, <1>6 DEF MoneyInv, FundingInv, FlagsCoherent, NoCampaign
    <3>2. QED
      BY <2>1, <3>1, <1>1, <1>3, <1>5, <1>6
  <2>2. CASE c # d
    BY <2>2, <1>1, <1>2, <1>5 DEF MoneyInv, FundingInv, FlagsCoherent
  <2>3. QED
    BY <2>1, <2>2
<1>10. RefundedIsRefundable'
  BY <1>1, <1>7 DEF MoneyInv, FundingInv, RefundedIsRefundable
<1>11. EffectiveIsSum'
  <2>1. Total(contribution[d]) = 0
    BY <1>6, TotalZero
  <2>2. QED
    BY <2>1, <1>1, <1>2, <1>3 DEF MoneyInv, EffectiveIsSum
<1>12. QED
  BY <1>7, <1>8, <1>9, <1>10, <1>11 DEF Kept, MoneyInv, FundingInv

\* extend_campaign_deadline: not once the deadline has passed, so no right to a
\* refund is taken away.
LEMMA MoneyExtend ==
  ASSUME TypeOK, MoneyInv, NEW d \in CampaignIds, NEW days \in Extensions,
         extend_campaign_deadline(d, days)
  PROVE  Kept
<1> DEFINE new_deadline == campaign[d].deadline + days * SECONDS_PER_DAY
<1>1. campaign' = [campaign EXCEPT ![d] = [campaign[d] EXCEPT
                     !.deadline = new_deadline, !.deadline_extended = TRUE]]
  BY DEF extend_campaign_deadline, TypeOK
<1>2. /\ Created(d) /\ ~campaign[d].is_cancelled /\ now < campaign[d].deadline
      /\ UNCHANGED <<now, campaign_count, contribution, lifetime, held,
                     milestone_claimed, reserve>>
  BY DEF extend_campaign_deadline, RequireActive, ExtensionOpen, backerVars,
         moneyVars, milestoneVars
<1>3. campaign[d] \in CampaignRecords /\ d \in DOMAIN campaign
  BY DEF TypeOK
<1> HIDE DEF new_deadline
<1>4. /\ campaign'[d].is_active = campaign[d].is_active
      /\ campaign'[d].is_cancelled = campaign[d].is_cancelled
      /\ campaign'[d].funds_withdrawn = campaign[d].funds_withdrawn
      /\ campaign'[d].amount_raised = campaign[d].amount_raised
      /\ campaign'[d].funding_goal = campaign[d].funding_goal
      /\ campaign'[d].effective_amount_raised = campaign[d].effective_amount_raised
  BY <1>1, <1>3 DEF CampaignRecords
<1>5. ~Refundable(d)
  BY <1>2, CoreTypes DEF Refundable
<1>6. \A c \in CampaignIds \ {d} : campaign'[c] = campaign[c]
  BY <1>1, <1>3
<1>7. QED
  BY <1>2, <1>4, <1>5, <1>6, AtCampaign, LocalStep

\* contribute and batch_contribute: contribution, lifetime total and effective
\* amount grow together, and only before the deadline.
LEMMA MoneyContribute ==
  ASSUME TypeOK, MoneyInv, NEW d \in CampaignIds, NEW v \in Users,
         NEW amt \in Amounts, CanContribute(d, v, amt), Account(d, v, amt)
  PROVE  Kept
<1>1. /\ amt \in Nat /\ Created(d) /\ campaign[d].is_active
      /\ ~campaign[d].is_cancelled /\ now <= campaign[d].deadline
  BY FundingAssumption DEF CanContribute, RequireActive
<1>2. /\ campaign' = [campaign EXCEPT ![d] = [campaign[d] EXCEPT
                        !.amount_raised = campaign[d].amount_raised + amt,
                        !.effective_amount_raised =
                           campaign[d].effective_amount_raised + amt]]
      /\ contribution' = [contribution EXCEPT ![d][v] = contribution[d][v] + amt]
      /\ lifetime' = [lifetime EXCEPT ![d][v] = lifetime[d][v] + amt]
      /\ held' = [held EXCEPT ![d][TokenOf(d)] = held[d][TokenOf(d)] + amt]
      /\ UNCHANGED <<now, campaign_count, milestone_claimed, reserve>>
  BY DEF Account, Receive, milestoneVars, TypeOK
<1>3. /\ campaign[d] \in CampaignRecords /\ d \in DOMAIN campaign
      /\ d \in DOMAIN contribution /\ d \in DOMAIN lifetime /\ d \in DOMAIN held
  BY DEF TypeOK
<1>4. /\ contribution[d] \in [Users -> Nat] /\ lifetime[d] \in [Users -> Nat]
      /\ IsFiniteSet(Users)
  BY FundingAssumption DEF TypeOK
<1>5. ~Refundable(d)
  BY <1>1, CoreTypes DEF Refundable
<1>6. /\ ~campaign'[d].is_cancelled /\ campaign'[d].is_active
      /\ campaign'[d].funds_withdrawn = campaign[d].funds_withdrawn
      /\ campaign'[d].effective_amount_raised
           = campaign[d].effective_amount_raised + amt
      /\ campaign'[d].amount_raised = campaign[d].amount_raised + amt
      /\ campaign'[d].funding_goal = campaign[d].funding_goal
  BY <1>1, <1>2, <1>3 DEF CampaignRecords
<1>7. /\ ~campaign[d].funds_withdrawn /\ reserve[d] = NoReserve
      /\ milestone_claimed'[d] # {} =>
           campaign'[d].amount_raised >= campaign'[d].funding_goal
  BY <1>1, <1>2, <1>6, AtCampaign, CoreTypes
<1>8. \A u \in Users : contribution'[d][u] = lifetime'[d][u]
  <2>1. \A u \in Users : contribution[d][u] = lifetime[d][u]
    BY <1>1, <1>5, AtCampaign
  <2>2. QED
    BY <1>2, <1>3, <1>4, <2>1
<1>9. campaign'[d].effective_amount_raised = Total(contribution'[d])
  <2>1. contribution'[d] = [contribution[d] EXCEPT ![v] = contribution[d][v] + amt]
    BY <1>2, <1>3
  <2>2. contribution[d][v] \in Nat /\ contribution[d][v] + amt \in Nat
    BY <1>1, <1>4
  <2>3. Total(contribution'[d])
          = Total(contribution[d]) - contribution[d][v] + (contribution[d][v] + amt)
    BY <1>4, <2>1, <2>2, TotalUpdate
  <2>4. Total(contribution[d]) \in Nat
    BY <1>4, TotalType
  <2>5. campaign[d].effective_amount_raised = Total(contribution[d])
    BY <1>1, AtCampaign
  <2>6. QED
    BY <1>1, <1>6, <2>2, <2>3, <2>4, <2>5
<1>10. \A c \in CampaignIds \ {d} :
         /\ campaign'[c] = campaign[c] /\ contribution'[c] = contribution[c]
         /\ lifetime'[c] = lifetime[c] /\ held'[c] = held[c]
  BY <1>2, <1>3
<1>11. QED
  BY <1>1, <1>2, <1>5, <1>6, <1>7, <1>8, <1>9, <1>10, LocalStep

\* claim_refund: what leaves the record leaves the effective amount.
LEMMA MoneyRefund ==
  ASSUME TypeOK, MoneyInv, NEW d \in CampaignIds, NEW v \in Users,
         claim_refund(d, v)
  PROVE  Kept
<1>1. /\ Refundable(d) /\ Created(d)
      /\ campaign' = [campaign EXCEPT ![d] = [campaign[d] EXCEPT
           !.effective_amount_raised =
              campaign[d].effective_amount_raised - contribution[d][v]]]
      /\ contribution' = [contribution EXCEPT ![d][v] = 0]
      /\ held' = [held EXCEPT ![d][TokenOf(d)] =
                    held[d][TokenOf(d)] - contribution[d][v]]
      /\ UNCHANGED <<now, campaign_count, lifetime, milestone_claimed, reserve>>
  BY DEF claim_refund, Refundable, EffectiveAfterRefund, Pay, milestoneVars, TypeOK
<1>2. /\ campaign[d] \in CampaignRecords /\ d \in DOMAIN campaign
      /\ d \in DOMAIN contribution /\ d \in DOMAIN held
  BY DEF TypeOK
<1>3. contribution[d] \in [Users -> Nat] /\ IsFiniteSet(Users)
  BY FundingAssumption DEF TypeOK
<1>4. /\ campaign'[d].is_active = campaign[d].is_active
      /\ campaign'[d].is_cancelled = campaign[d].is_cancelled
      /\ campaign'[d].funds_withdrawn = campaign[d].funds_withdrawn
      /\ campaign'[d].amount_raised = campaign[d].amount_raised
      /\ campaign'[d].funding_goal = campaign[d].funding_goal
      /\ campaign'[d].deadline = campaign[d].deadline
      /\ campaign'[d].effective_amount_raised
           = campaign[d].effective_amount_raised - contribution[d][v]
  BY <1>1, <1>2 DEF CampaignRecords
<1>5. Refundable(d)'
  BY <1>1, <1>4 DEF Refundable, Created
<1>6. campaign'[d].effective_amount_raised = Total(contribution'[d])
  <2>1. contribution'[d] = [contribution[d] EXCEPT ![v] = 0]
    BY <1>1, <1>2
  <2>2. Total(contribution'[d]) = Total(contribution[d]) - contribution[d][v] + 0
    BY <1>3, <2>1, TotalUpdate
  <2>3. Total(contribution[d]) \in Nat /\ contribution[d][v] \in Nat
    BY <1>3, TotalType
  <2>4. campaign[d].effective_amount_raised = Total(contribution[d])
    BY <1>1, AtCampaign
  <2>5. QED
    BY <1>4, <2>2, <2>3, <2>4
<1>7. \A c \in CampaignIds \ {d} :
         /\ campaign'[c] = campaign[c] /\ contribution'[c] = contribution[c]
         /\ held'[c] = held[c]
  BY <1>1, <1>2
<1>8. QED
  BY <1>1, <1>4, <1>5, <1>6, <1>7, AtCampaign, LocalStep

\* Both cancellations: only a campaign that has not paid out is cancelled.
LEMMA MoneyCancel ==
  ASSUME TypeOK, MoneyInv, NEW d \in CampaignIds, Created(d),
         RequireActive(campaign[d]), ~campaign[d].funds_withdrawn, Cancel(d)
  PROVE  Kept
<1>1. /\ campaign' = [campaign EXCEPT ![d] =
                        [campaign[d] EXCEPT !.is_cancelled = TRUE, !.is_active = FALSE]]
      /\ UNCHANGED <<now, campaign_count, contribution, lifetime, held,
                     milestone_claimed, reserve>>
  BY DEF Cancel, backerVars, moneyVars, milestoneVars, TypeOK
<1>2. campaign[d] \in CampaignRecords /\ d \in DOMAIN campaign
  BY DEF TypeOK
<1>3. /\ ~campaign'[d].is_active /\ campaign'[d].is_cancelled
      /\ ~campaign'[d].funds_withdrawn
      /\ campaign'[d].amount_raised = campaign[d].amount_raised
      /\ campaign'[d].funding_goal = campaign[d].funding_goal
      /\ campaign'[d].effective_amount_raised = campaign[d].effective_amount_raised
  BY <1>1, <1>2 DEF CampaignRecords
<1>4. Refundable(d)'
  BY <1>1, <1>3 DEF Refundable, Created
<1>5. \A c \in CampaignIds \ {d} : campaign'[c] = campaign[c]
  BY <1>1, <1>2
<1>6. QED
  BY <1>1, <1>3, <1>4, <1>5, AtCampaign, LocalStep

\* A campaign that may pay its creator is not refundable.
LEMMA PaysOrRefunds ==
  ASSUME TypeOK, NEW d \in CampaignIds, GoalMet(d), ~campaign[d].is_cancelled
  PROVE  ~Refundable(d)
BY CoreTypes DEF GoalMet, Refundable

\* withdraw_funds.
LEMMA MoneyWithdraw ==
  ASSUME TypeOK, MoneyInv, NEW d \in CampaignIds, withdraw_funds(d)
  PROVE  Kept
<1>1. /\ Created(d) /\ ~campaign[d].is_cancelled /\ GoalMet(d)
      /\ campaign' = [campaign EXCEPT ![d] =
           [campaign[d] EXCEPT !.funds_withdrawn = TRUE, !.is_active = FALSE]]
      /\ UNCHANGED <<now, campaign_count, contribution, lifetime, milestone_claimed>>
  BY DEF withdraw_funds, backerVars, milestoneVars, TypeOK
<1>2. PICK amt : held' = [held EXCEPT ![d][TokenOf(d)] = amt]
  BY DEF withdraw_funds, Pay
<1>3. PICK r : reserve' = [reserve EXCEPT ![d] = r]
  <2>1. reserve = [reserve EXCEPT ![d] = reserve[d]]
    BY DEF TypeOK
  <2>2. QED
    BY <2>1 DEF withdraw_funds
<1>4. /\ campaign[d] \in CampaignRecords /\ d \in DOMAIN campaign
      /\ d \in DOMAIN held /\ d \in DOMAIN reserve
  BY DEF TypeOK
<1>5. /\ ~campaign'[d].is_active /\ ~campaign'[d].is_cancelled
      /\ campaign'[d].funds_withdrawn
      /\ campaign'[d].amount_raised >= campaign'[d].funding_goal
      /\ campaign'[d].effective_amount_raised = campaign[d].effective_amount_raised
  BY <1>1, <1>4 DEF CampaignRecords, GoalMet
<1>6. ~Refundable(d)
  BY <1>1, PaysOrRefunds
<1>7. \A c \in CampaignIds \ {d} :
        campaign'[c] = campaign[c] /\ held'[c] = held[c] /\ reserve'[c] = reserve[c]
  BY <1>1, <1>2, <1>3, <1>4
<1>8. QED
  BY <1>1, <1>5, <1>6, <1>7, AtCampaign, LocalStep

\* withdraw_reserve: the campaign was withdrawn before.
LEMMA MoneyReserve ==
  ASSUME TypeOK, MoneyInv, NEW d \in CampaignIds, withdraw_reserve(d)
  PROVE  Kept
<1>1. /\ Created(d) /\ campaign[d].funds_withdrawn
      /\ reserve' = [reserve EXCEPT ![d] = [reserve[d] EXCEPT !.released = TRUE]]
      /\ UNCHANGED <<now, campaign_count, campaign, contribution, lifetime,
                     milestone_claimed>>
  BY DEF withdraw_reserve, backerVars, milestoneVars, TypeOK
<1>2. PICK amt : held' = [held EXCEPT ![d][TokenOf(d)] = amt]
  BY DEF withdraw_reserve, Pay
<1>3. d \in DOMAIN held /\ d \in DOMAIN reserve
  BY DEF TypeOK
<1>4. Refundable(d)' <=> Refundable(d)
  BY <1>1 DEF Refundable, Created
<1>5. \A c \in CampaignIds \ {d} : held'[c] = held[c] /\ reserve'[c] = reserve[c]
  BY <1>1, <1>2, <1>3
<1>6. QED
  BY <1>1, <1>4, <1>5, AtCampaign, LocalStep

\* claim_milestone: the last claim closes the campaign, the others leave its
\* record alone.
LEMMA MoneyClaim ==
  ASSUME TypeOK, MoneyInv, NEW d \in CampaignIds, NEW m \in MilestoneIds,
         claim_milestone(d, m)
  PROVE  Kept
<1>1. /\ Created(d) /\ ~campaign[d].is_cancelled /\ GoalMet(d)
      /\ milestone_claimed' = [milestone_claimed EXCEPT ![d] =
                                 milestone_claimed[d] \cup {m}]
      /\ UNCHANGED <<now, campaign_count, contribution, lifetime, reserve>>
  BY DEF claim_milestone, backerVars, TypeOK
<1>2. PICK amt : held' = [held EXCEPT ![d][TokenOf(d)] = amt]
  BY DEF claim_milestone, Pay
<1>3. /\ campaign[d] \in CampaignRecords /\ d \in DOMAIN campaign
      /\ d \in DOMAIN held /\ d \in DOMAIN milestone_claimed
  BY DEF TypeOK
<1>4. ~Refundable(d)
  BY <1>1, PaysOrRefunds
<1>5. \A c \in CampaignIds \ {d} :
        held'[c] = held[c] /\ milestone_claimed'[c] = milestone_claimed[c]
  BY <1>1, <1>2, <1>3
<1>6. CASE LastMilestone(d, m)
  <2>1. campaign' = [campaign EXCEPT ![d] =
          [campaign[d] EXCEPT !.funds_withdrawn = TRUE, !.is_active = FALSE]]
    BY <1>6 DEF claim_milestone, TypeOK
  <2>2. /\ ~campaign'[d].is_active /\ ~campaign'[d].is_cancelled
        /\ campaign'[d].funds_withdrawn
        /\ campaign'[d].amount_raised >= campaign'[d].funding_goal
        /\ campaign'[d].effective_amount_raised = campaign[d].effective_amount_raised
    BY <1>1, <1>3, <2>1 DEF CampaignRecords, GoalMet
  <2>3. \A c \in CampaignIds \ {d} : campaign'[c] = campaign[c]
    BY <2>1, <1>3
  <2>4. QED
    BY <1>1, <1>4, <1>5, <2>2, <2>3, AtCampaign, LocalStep
<1>7. CASE ~LastMilestone(d, m)
  <2>1. campaign' = campaign
    BY <1>7 DEF claim_milestone
  <2>2. Refundable(d)' <=> Refundable(d)
    BY <1>1, <2>1 DEF Refundable, Created
  <2>3. campaign'[d].amount_raised >= campaign'[d].funding_goal
    BY <1>1, <2>1 DEF GoalMet
  <2>4. QED
    BY <1>1, <1>4, <1>5, <2>1, <2>2, <2>3, AtCampaign, LocalStep
<1>8. QED
  BY <1>6, <1>7

\* The admin's setters, the caps, the plans and the clock are quiet.
LEMMA MoneyQuiet ==
  ASSUME TypeOK, MoneyInv,
         UNCHANGED <<campaign_count, campaign, contribution, lifetime, held,
                     milestone_claimed, reserve>>,
         now' = now \/ now' = now + 1
  PROVE  Kept
<1>1. now' \in Nat /\ now <= now'
  BY DEF TypeOK
<1>2. \A c \in CampaignIds : SameCore(campaign'[c], campaign[c])
  BY DEF SameCore
<1>3. QED
  BY <1>1, <1>2, QuietStep

\* So are the edits of fields outside the core.
LEMMA MoneyEdit ==
  ASSUME TypeOK, MoneyInv, NEW d \in CampaignIds,
         \/ verify_campaign(d)
         \/ update_campaign_description(d)
         \/ \E fee \in Fees : set_campaign_fee_override(d, fee)
  PROVE  Kept
<1>1. /\ Created(d)
      /\ UNCHANGED <<now, campaign_count, contribution, lifetime, held,
                     milestone_claimed, reserve>>
  BY DEF verify_campaign, update_campaign_description, set_campaign_fee_override,
         unchangedButConfig, backerVars, moneyVars, milestoneVars
<1>2. now' \in Nat /\ now <= now'
  BY <1>1 DEF TypeOK
<1>3. campaign[d] \in CampaignRecords /\ d \in DOMAIN campaign
  BY DEF TypeOK
<1>4. PICK b, f : campaign' = [campaign EXCEPT ![d] =
                     [campaign[d] EXCEPT !.is_verified = b, !.fee_override = f]]
  <2>1. CASE verify_campaign(d)
    <3>1. campaign' = [campaign EXCEPT ![d] = [campaign[d] EXCEPT
                         !.is_verified = TRUE,
                         !.fee_override = campaign[d].fee_override]]
      BY <2>1, <1>3 DEF verify_campaign, CampaignRecords
    <3>2. QED
      BY <3>1
  <2>2. CASE update_campaign_description(d)
    <3>1. campaign' = [campaign EXCEPT ![d] = [campaign[d] EXCEPT
                         !.is_verified = FALSE,
                         !.fee_override = campaign[d].fee_override]]
      BY <2>2, <1>3 DEF update_campaign_description, CampaignRecords
    <3>2. QED
      BY <3>1
  <2>3. ASSUME NEW fee \in Fees, set_campaign_fee_override(d, fee)
        PROVE  \E b, f : campaign' = [campaign EXCEPT ![d] =
                     [campaign[d] EXCEPT !.is_verified = b, !.fee_override = f]]
    <3>1. campaign' = [campaign EXCEPT ![d] = [campaign[d] EXCEPT
                         !.is_verified = campaign[d].is_verified,
                         !.fee_override = fee]]
      BY <2>3, <1>3 DEF set_campaign_fee_override, CampaignRecords
    <3>2. QED
      BY <3>1
  <2>4. QED
    BY <2>1, <2>2, <2>3
<1>5. /\ \A c \in CampaignIds \ {d} : campaign'[c] = campaign[c]
      /\ SameCore(campaign'[d], campaign[d])
  <2>1. campaign'[d] = [campaign[d] EXCEPT !.is_verified = b, !.fee_override = f]
    BY <1>3, <1>4
  <2>2. SameCore(campaign'[d], campaign[d])
    BY <1>3, <2>1 DEF SameCore, CampaignRecords
  <2>3. \A c \in CampaignIds \ {d} : campaign'[c] = campaign[c]
    BY <1>3, <1>4
  <2>4. QED
    BY <2>2, <2>3
<1>6. \A c \in CampaignIds : SameCore(campaign'[c], campaign[c])
  BY <1>5 DEF SameCore
<1>7. QED
  BY <1>1, <1>2, <1>5, <1>6, QuietStep

-----------------------------------------------------------------------------
(* The theorems.                                                           *)

\* Every step keeps the invariant and everybody's right to a refund.
LEMMA MoneyNext == ASSUME TypeOK, MoneyInv, [Next]_vars PROVE Kept
<1>1. CASE Tick
  BY <1>1, MoneyQuiet DEF Tick, backerVars, moneyVars, milestoneVars
<1>2. CASE CreatorNext
  <2>1. CASE \E u \in Creators, goal \in Goals, days \in Durations,
               cap \in UserCaps, tok \in Tokens \cup {None} :
                 create_campaign(u, goal, days, cap, tok)
    BY <2>1, MoneyCreate
  <2>2. ASSUME NEW c \in CampaignIds, update_campaign_description(c) PROVE Kept
    BY <2>2, MoneyEdit
  <2>3. ASSUME NEW c \in CampaignIds,
               \E days \in Extensions : extend_campaign_deadline(c, days)
        PROVE  Kept
    BY <2>3, MoneyExtend
  <2>4. ASSUME NEW c \in CampaignIds, cancel_campaign(c) PROVE Kept
    BY <2>4, MoneyCancel DEF cancel_campaign
  <2>5. ASSUME NEW c \in CampaignIds, withdraw_funds(c) \/ withdraw_reserve(c)
        PROVE  Kept
    BY <2>5, MoneyWithdraw, MoneyReserve
  <2>6. ASSUME NEW c \in CampaignIds, NEW plan \in Plans, set_milestones(c, plan)
        PROVE  Kept
    BY <2>6, MoneyQuiet DEF set_milestones, backerVars, moneyVars
  <2>7. ASSUME NEW c \in CampaignIds, NEW m \in MilestoneIds, claim_milestone(c, m)
        PROVE  Kept
    BY <2>7, MoneyClaim
  <2>8. QED
    BY <1>2, <2>1, <2>2, <2>3, <2>4, <2>5, <2>6, <2>7 DEF CreatorNext
<1>3. CASE BackerNext
  <2> SUFFICES ASSUME NEW c \in CampaignIds, NEW u \in Users,
                      \/ \E amt \in Amounts : \/ contribute(c, u, amt)
                                              \/ batch_contribute(c, u, amt)
                      \/ claim_refund(c, u)
                      \/ \E cap \in PersonalCaps : set_personal_cap(c, u, cap)
                      \/ remove_personal_cap(c, u)
               PROVE  Kept
    BY <1>3 DEF BackerNext
  <2>1. CASE \E amt \in Amounts : contribute(c, u, amt) \/ batch_contribute(c, u, amt)
    BY <2>1, MoneyContribute DEF contribute, batch_contribute
  <2>2. CASE claim_refund(c, u)
    BY <2>2, MoneyRefund
  <2>3. CASE \E cap \in PersonalCaps : set_personal_cap(c, u, cap)
    BY <2>3, MoneyQuiet DEF set_personal_cap, moneyVars, milestoneVars
  <2>4. CASE remove_personal_cap(c, u)
    BY <2>4, MoneyQuiet DEF remove_personal_cap, moneyVars, milestoneVars
  <2>5. QED
    BY <2>1, <2>2, <2>3, <2>4
<1>4. CASE AdminNext
  <2>1. ASSUME NEW c \in CampaignIds, verify_campaign(c) PROVE Kept
    BY <2>1, MoneyEdit
  <2>2. ASSUME NEW c \in CampaignIds, admin_cancel_campaign(c) PROVE Kept
    BY <2>2, MoneyCancel DEF admin_cancel_campaign
  <2>3. ASSUME NEW c \in CampaignIds, NEW m \in MilestoneIds, verify_milestone(c, m)
        PROVE  Kept
    BY <2>3, MoneyQuiet DEF verify_milestone, backerVars, moneyVars
  <2>4. ASSUME NEW c \in CampaignIds, NEW fee \in Fees,
               set_campaign_fee_override(c, fee)
        PROVE  Kept
    BY <2>4, MoneyEdit
  <2>5. CASE \/ pause \/ unpause
             \/ \E fee \in Fees : update_platform_fee(fee)
             \/ \E v \in Vestings : set_vesting_params(v)
             \/ \E cap \in TxCaps : set_max_contribution_per_transaction(cap)
             \/ \E days \in DurationCaps : set_category_duration_cap(days)
    BY <2>5, MoneyQuiet DEF pause, unpause, update_platform_fee,
         set_vesting_params, set_max_contribution_per_transaction,
         set_category_duration_cap, unchangedButConfig, backerVars, moneyVars,
         milestoneVars
  <2>6. QED
    BY <1>4, <2>1, <2>2, <2>3, <2>4, <2>5 DEF AdminNext
<1>5. CASE UNCHANGED vars
  BY <1>5, MoneyQuiet DEF vars, backerVars, moneyVars, milestoneVars
<1>6. QED
  BY <1>1, <1>2, <1>3, <1>4, <1>5 DEF Next

\* The inductive invariant holds in every reachable state.
THEOREM MoneyInvariant == Spec => []MoneyInv
<1>1. TypeOK /\ MoneyInv /\ [Next]_vars => MoneyInv'
  BY MoneyNext DEF Kept
<1>2. QED
  BY <1>1, MoneyInit, Typing, PTL DEF Spec

\* No order of creations, contributions, edits, cancellations, expiries, refunds
\* and payouts makes the flags of a campaign, its amounts and the time disagree.
THEOREM CoherentFlags == Spec => []FundingInv
<1>1. MoneyInv => FundingInv
  BY DEF MoneyInv
<1>2. QED
  BY <1>1, MoneyInvariant, PTL

\* claim_refund and the payouts (withdraw_funds, claim_milestone) exclude each other:
\* a campaign that has paid its creator, in whole or a milestone, is not refundable
\* and has refunded nobody as long as the admin does not cancel it.
THEOREM NoDoubleSpending == Spec => []NoDoubleSpend
<1>1. TypeOK /\ MoneyInv => NoDoubleSpend
  <2> SUFFICES ASSUME TypeOK, MoneyInv, NEW c \in CampaignIds,
                      CreatorPaid(c), ~campaign[c].is_cancelled
               PROVE  /\ ~Refundable(c)
                      /\ \A u \in Users : contribution[c][u] = lifetime[c][u]
    BY DEF NoDoubleSpend
  <2>1. campaign[c].amount_raised >= campaign[c].funding_goal
    BY DEF MoneyInv, FundingInv, FlagsCoherent, CreatorPaid
  <2>2. ~Refundable(c)
    BY <2>1, CoreTypes DEF Refundable
  <2>3. QED
    BY <2>2 DEF MoneyInv, FundingInv, RefundedIsRefundable
<1>2. QED
  BY <1>1, MoneyInvariant, Typing, PTL

\* contribute and claim_refund keep effective_amount_raised, from which payouts and
\* revenue shares are computed, equal to the sum of the contributions on record.
THEOREM EffectiveAmounts == Spec => []EffectiveIsSum
<1>1. MoneyInv => EffectiveIsSum
  BY DEF MoneyInv
<1>2. QED
  BY <1>1, MoneyInvariant, PTL

\* Once claim_refund is open to the contributors of a campaign, no step of
\* anybody closes it again.
THEOREM RefundRights == Spec => RefundRightPermanent
<1>1. TypeOK /\ MoneyInv /\ [Next]_vars
        => [\A c \in CampaignIds : Refundable(c) => Refundable(c)']_vars
  BY MoneyNext DEF Kept
<1>2. QED
  BY <1>1, MoneyInvariant, Typing, PTL DEF Spec, RefundRightPermanent

-----------------------------------------------------------------------------
(* The kinds of steps.                                                     *)

\* A step that moves no money and closes no campaign.
SameMoney(r, s) ==
  /\ SameCore(r, s)
  /\ r.token = s.token
  /\ r.vesting_bps = s.vesting_bps
Calm ==
  /\ UNCHANGED <<platform_token, campaign_count, contribution, lifetime, reserve,
                 milestones, milestone_claimed, held, fees_paid, fee_recipient, admin>>
  /\ \A c \in CampaignIds : SameMoney(campaign'[c], campaign[c])
  /\ now' = now \/ now' = now + 1
  /\ platform_fee' \in Fees \cup {platform_fee}
  /\ \A c \in CampaignIds : campaign'[c].fee_override \in Fees \cup {campaign[c].fee_override}

\* Edits of a campaign that are calm.
LEMMA CalmEdit ==
  ASSUME TypeOK, NEW d \in CampaignIds,
         \/ verify_campaign(d)
         \/ update_campaign_description(d)
         \/ \E fee \in Fees : set_campaign_fee_override(d, fee)
  PROVE  Calm
<1>1. campaign[d] \in CampaignRecords /\ d \in DOMAIN campaign
  BY DEF TypeOK
<1>2. UNCHANGED <<platform_token, campaign_count, contribution, lifetime, reserve,
                  milestones, milestone_claimed, held, fees_paid, fee_recipient, admin>>
  BY DEF verify_campaign, update_campaign_description, set_campaign_fee_override,
         unchangedButConfig, configVars, backerVars, sideVars, milestoneVars, moneyVars
<1>3. \/ \E b : campaign' = [campaign EXCEPT ![d] = [campaign[d] EXCEPT !.is_verified = b]]
      \/ \E f : campaign' = [campaign EXCEPT ![d] = [campaign[d] EXCEPT !.fee_override = f]]
  BY <1>1 DEF verify_campaign, update_campaign_description, set_campaign_fee_override
<1>4. SameMoney(campaign'[d], campaign[d])
  <2>1. ASSUME NEW b, campaign' = [campaign EXCEPT ![d] =
                                     [campaign[d] EXCEPT !.is_verified = b]]
        PROVE  SameMoney(campaign'[d], campaign[d])
    BY <1>1, <2>1 DEF SameMoney, SameCore, CampaignRecords
  <2>2. ASSUME NEW f, campaign' = [campaign EXCEPT ![d] =
                                     [campaign[d] EXCEPT !.fee_override = f]]
        PROVE  SameMoney(campaign'[d], campaign[d])
    BY <1>1, <2>2 DEF SameMoney, SameCore, CampaignRecords
  <2>3. QED
    BY <1>3, <2>1, <2>2
<1>5. \A c \in CampaignIds \ {d} : campaign'[c] = campaign[c]
  BY <1>1, <1>3 DEF TypeOK
<1>6. \A c \in CampaignIds : SameMoney(campaign'[c], campaign[c])
  BY <1>4, <1>5 DEF SameMoney, SameCore
<1>7. now' = now /\ platform_fee' = platform_fee
  BY DEF verify_campaign, update_campaign_description, set_campaign_fee_override,
         unchangedButConfig, configVars
<1>8. campaign'[d].fee_override \in Fees \cup {campaign[d].fee_override}
  <2>1. CASE verify_campaign(d) \/ update_campaign_description(d)
    <3>1. PICK b : campaign' = [campaign EXCEPT ![d] =
                                  [campaign[d] EXCEPT !.is_verified = b]]
      BY <1>1, <2>1 DEF verify_campaign, update_campaign_description
    <3>2. QED
      BY <1>1, <3>1 DEF CampaignRecords
  <2>2. CASE \E fee \in Fees : set_campaign_fee_override(d, fee)
    BY <1>1, <2>2 DEF set_campaign_fee_override, CampaignRecords
  <2>3. QED
    BY <2>1, <2>2
<1>9. QED
  BY <1>2, <1>5, <1>6, <1>7, <1>8 DEF Calm

\* A step that leaves every campaign alone.
LEMMA CalmStep ==
  ASSUME UNCHANGED <<platform_token, campaign_count, campaign, contribution, lifetime,
                     reserve, milestones, milestone_claimed, held, fees_paid,
                     fee_recipient, admin>>,
         now' = now \/ now' = now + 1, platform_fee' \in Fees \cup {platform_fee}
  PROVE  Calm
BY DEF Calm, SameMoney, SameCore

\* Every step is one of these.
LEMMA StepKinds ==
  ASSUME TypeOK, [Next]_vars
  PROVE  \/ Calm
         \/ \E u \in Creators, goal \in Goals, days \in Durations, cap \in UserCaps,
              tok \in Tokens \cup {None} : create_campaign(u, goal, days, cap, tok)
         \/ \E d \in CampaignIds :
              \/ \E days \in Extensions : extend_campaign_deadline(d, days)
              \/ \E v \in Users, amt \in Amounts :
                   CanContribute(d, v, amt) /\ Account(d, v, amt)
              \/ \E v \in Users : claim_refund(d, v)
              \/ cancel_campaign(d) \/ admin_cancel_campaign(d)
              \/ withdraw_funds(d) \/ withdraw_reserve(d)
              \/ \E plan \in Plans : set_milestones(d, plan)
              \/ \E m \in MilestoneIds : claim_milestone(d, m)
<1> USE DEF configVars, backerVars, sideVars, milestoneVars, counterVars, moneyVars
<1>1. CASE Tick
  BY <1>1, CalmStep DEF Tick
<1>2. CASE CreatorNext
  <2>1. ASSUME NEW c \in CampaignIds, update_campaign_description(c) PROVE Calm
    BY <2>1, CalmEdit
  <2>2. QED
    BY <1>2, <2>1, Zenon DEF CreatorNext
<1>3. CASE BackerNext
  <2>1. ASSUME NEW c \in CampaignIds, NEW u \in Users,
               \/ \E cap \in PersonalCaps : set_personal_cap(c, u, cap)
               \/ remove_personal_cap(c, u)
        PROVE  Calm
    BY <2>1, CalmStep DEF set_personal_cap, remove_personal_cap
  <2>2. ASSUME NEW c \in CampaignIds, NEW u \in Users, NEW amt \in Amounts,
               contribute(c, u, amt) \/ batch_contribute(c, u, amt)
        PROVE  CanContribute(c, u, amt) /\ Account(c, u, amt)
    BY <2>2 DEF contribute, batch_contribute
  <2>3. QED
    BY <1>3, <2>1, <2>2, Zenon DEF BackerNext
<1>4. CASE AdminNext
  <2>1. ASSUME NEW c \in CampaignIds,
               verify_campaign(c) \/ \E fee \in Fees : set_campaign_fee_override(c, fee)
        PROVE  Calm
    BY <2>1, CalmEdit
  <2>2. ASSUME NEW c \in CampaignIds, NEW m \in MilestoneIds, verify_milestone(c, m)
        PROVE  Calm
    BY <2>2, CalmStep DEF verify_milestone
  <2>3. CASE \/ pause \/ unpause
             \/ \E fee \in Fees : update_platform_fee(fee)
             \/ \E v \in Vestings : set_vesting_params(v)
             \/ \E cap \in TxCaps : set_max_contribution_per_transaction(cap)
             \/ \E days \in DurationCaps : set_category_duration_cap(days)
    BY <2>3, CalmStep DEF pause, unpause, update_platform_fee, set_vesting_params,
         set_max_contribution_per_transaction, set_category_duration_cap,
         unchangedButConfig
  <2>4. QED
    BY <1>4, <2>1, <2>2, <2>3, Zenon DEF AdminNext
<1>5. CASE UNCHANGED vars
  BY <1>5, CalmStep DEF vars
<1>6. QED
  BY <1>1, <1>2, <1>3, <1>4, <1>5 DEF Next

-----------------------------------------------------------------------------
(* What a pause leaves alone.                                              *)

Still ==
  /\ UNCHANGED <<balance, held, fees_paid, contribution, lifetime, reserve,
                 milestone_claimed, total_raised, campaign_count>>
  /\ \A c \in CampaignIds : /\ SameCore(campaign'[c], campaign[c])
                            /\ campaign'[c].is_verified = campaign[c].is_verified

\* Every handler that is open during a pause is still.
LEMMA StillNext == ASSUME TypeOK, paused, [Next]_vars PROVE Still
<1> USE DEF configVars, backerVars, sideVars, milestoneVars, counterVars, moneyVars
<1>1. ASSUME UNCHANGED <<balance, held, fees_paid, contribution, lifetime, reserve,
                         milestone_claimed, total_raised, campaign_count, campaign>>
      PROVE  Still
  BY <1>1 DEF Still, SameCore
<1>2. CASE Tick
  BY <1>1, <1>2 DEF Tick
<1>3. CASE CreatorNext
  BY <1>3 DEF CreatorNext, create_campaign, update_campaign_description,
       extend_campaign_deadline, cancel_campaign, withdraw_funds, withdraw_reserve,
       set_milestones, claim_milestone
<1>4. CASE BackerNext
  <2>1. ASSUME NEW c \in CampaignIds, NEW u \in Users,
               \/ \E cap \in PersonalCaps : set_personal_cap(c, u, cap)
               \/ remove_personal_cap(c, u)
        PROVE  Still
    BY <1>1, <2>1 DEF set_personal_cap, remove_personal_cap
  <2>2. \A c, u, amt : /\ ~contribute(c, u, amt) /\ ~batch_contribute(c, u, amt)
                       /\ ~claim_refund(c, u)
    BY DEF contribute, batch_contribute, CanContribute, claim_refund
  <2>3. QED
    BY <1>4, <2>1, <2>2, Zenon DEF BackerNext
<1>5. CASE AdminNext
  <2>1. ASSUME NEW c \in CampaignIds, NEW fee \in Fees, set_campaign_fee_override(c, fee)
        PROVE  Still
    <3>1. UNCHANGED <<balance, total_raised>> /\ Calm
      BY <2>1, CalmEdit DEF set_campaign_fee_override, unchangedButConfig
    <3>2. \A d \in CampaignIds : campaign[d] \in CampaignRecords
      BY DEF TypeOK
    <3>3. \A d \in CampaignIds : campaign'[d].is_verified = campaign[d].is_verified
      BY <2>1, <3>2 DEF set_campaign_fee_override, TypeOK, CampaignRecords
    <3>4. QED
      BY <3>1, <3>3 DEF Calm, SameMoney, Still
  <2>2. ASSUME NEW c \in CampaignIds, admin_cancel_campaign(c) \/ verify_campaign(c)
        PROVE  FALSE
    BY <2>2 DEF admin_cancel_campaign, verify_campaign
  <2>3. ASSUME NEW c \in CampaignIds, NEW m \in MilestoneIds, verify_milestone(c, m)
        PROVE  Still
    BY <1>1, <2>3 DEF verify_milestone
  <2>4. CASE \/ pause \/ unpause
             \/ \E fee \in Fees : update_platform_fee(fee)
             \/ \E v \in Vestings : set_vesting_params(v)
             \/ \E cap \in TxCaps : set_max_contribution_per_transaction(cap)
             \/ \E days \in DurationCaps : set_category_duration_cap(days)
    BY <1>1, <2>4 DEF pause, unpause, update_platform_fee, set_vesting_params,
         set_max_contribution_per_transaction, set_category_duration_cap,
         unchangedButConfig
  <2>5. QED
    BY <1>5, <2>1, <2>2, <2>3, <2>4, Zenon DEF AdminNext
<1>6. CASE UNCHANGED vars
  BY <1>1, <1>6 DEF vars
<1>7. QED
  BY <1>2, <1>3, <1>4, <1>5, <1>6 DEF Next

\* While the contract is paused no handler moves a token, changes an amount on record
\* or closes a campaign, whoever calls it (require_not_paused and the handlers that do
\* without it).
THEOREM PauseHolds == Spec => PauseStopsMoney
<1>1. TypeOK /\ [Next]_vars =>
        [paused =>
           /\ UNCHANGED <<balance, held, fees_paid, contribution, lifetime, reserve,
                          milestone_claimed, total_raised>>
           /\ \A c \in CampaignIds :
                /\ now' = now => (Refundable(c)' <=> Refundable(c))
                /\ Of(campaign[c])' = Of(campaign[c])]_vars
  <2> SUFFICES ASSUME TypeOK, [Next]_vars, paused
               PROVE  /\ UNCHANGED <<balance, held, fees_paid, contribution, lifetime,
                                     reserve, milestone_claimed, total_raised>>
                      /\ \A c \in CampaignIds :
                           /\ now' = now => (Refundable(c)' <=> Refundable(c))
                           /\ Of(campaign[c])' = Of(campaign[c])
    OBVIOUS
  <2>1. Still
    BY StillNext
  <2>2. QED
    BY <2>1 DEF Still, SameCore, Refundable, Created, Of
<1>2. QED
  BY <1>1, Typing, PTL DEF Spec, PauseStopsMoney

-----------------------------------------------------------------------------
(* The contract implements the escrow.                                     *)

\* Steps that neither create, pay out nor move deposits: the campaigns that have
\* become refundable, by a cancellation or by the clock, fail.
LEMMA EscrowFail ==
  ASSUME TypeOK, MoneyInv, TypeOK', Kept, UNCHANGED <<campaign_count, contribution>>,
         \A c \in CampaignIds :
           campaign'[c].funds_withdrawn = campaign[c].funds_withdrawn
  PROVE  E!Next
<1> DEFINE S == {c \in CampaignIds : Refundable(c)' /\ ~Refundable(c)}
<1>1. \A c \in CampaignIds : Created(c)' <=> Created(c)
  BY DEF Created
<1>2. \A c \in CampaignIds : Refundable(c) => Refundable(c)'
  BY DEF Kept
<1>3. \A c \in CampaignIds : campaign'[c].funds_withdrawn => ~Refundable(c)'
  <2> SUFFICES ASSUME NEW c \in CampaignIds, campaign'[c].funds_withdrawn
               PROVE  ~Refundable(c)'
    OBVIOUS
  <2>1. ~campaign'[c].is_cancelled /\ campaign'[c].amount_raised >= campaign'[c].funding_goal
    BY DEF Kept, MoneyInv, FundingInv, FlagsCoherent
  <2>2. campaign'[c].amount_raised \in Nat /\ campaign'[c].funding_goal \in Nat
    BY DEF TypeOK, CampaignRecords
  <2>3. QED
    BY <2>1, <2>2 DEF Refundable
<1>4. \A c \in CampaignIds : Refundable(c)' => Created(c)'
  BY DEF Refundable, Created
<1>5. \A c \in S : Phase(c) = "open"
  BY <1>1, <1>3, <1>4 DEF Phase
<1>6. \A c \in CampaignIds : Phase(c)' = IF c \in S THEN "refunding" ELSE Phase(c)
  BY <1>1, <1>2, <1>4 DEF Phase
<1>7. S \in SUBSET CampaignIds
  OBVIOUS
<1> HIDE DEF S
<1>8. E!Fail(S)
  BY <1>5, <1>6, <1>7 DEF E!Fail
<1>9. QED
  BY <1>7, <1>8 DEF E!Next

\* create_campaign opens a campaign.
LEMMA EscrowOpen ==
  ASSUME TypeOK, MoneyInv, NEW u \in Creators, NEW goal \in Goals,
         NEW days \in Durations, NEW cap \in UserCaps,
         NEW tok \in Tokens \cup {None}, create_campaign(u, goal, days, cap, tok)
  PROVE  E!Next
<1>1. PICK d \in CampaignIds : d = campaign_count + 1
  BY DEF create_campaign
<1>2. /\ campaign_count' = d /\ contribution' = contribution /\ now' = now
      /\ \A c \in CampaignIds \ {d} : campaign'[c] = campaign[c]
  BY <1>1 DEF create_campaign, backerVars, TypeOK
<1>3. campaign_count \in Nat /\ now \in Nat /\ days \in Nat /\ days >= 1
  BY FundingAssumption DEF TypeOK, create_campaign
<1>4. /\ ~campaign'[d].is_cancelled /\ ~campaign'[d].funds_withdrawn
      /\ campaign'[d].deadline = now + days * SECONDS_PER_DAY
  <2>1. campaign'[d] = [creator |-> u, funding_goal |-> goal, start_time |-> now,
        deadline |-> now + days * SECONDS_PER_DAY,
        deadline_extended |-> FALSE, amount_raised |-> 0,
        effective_amount_raised |-> 0, is_active |-> TRUE,
        is_verified |-> FALSE, is_cancelled |-> FALSE,
        funds_withdrawn |-> FALSE, max_contribution_per_user |-> cap,
        fee_override |-> Unset, vesting_delay |-> vesting.delay_days,
        vesting_bps |-> vesting.reserve_bps,
        token |-> IF tok = platform_token THEN None ELSE tok]
    BY <1>1 DEF create_campaign, TypeOK
  <2>2. QED
    BY <2>1
<1>5. ~(now' > campaign'[d].deadline)
  <2>1. now + days * SECONDS_PER_DAY \in Nat /\ days * SECONDS_PER_DAY \in Nat
    BY <1>3, FundingAssumption
  <2>2. QED
    BY <1>2, <1>3, <1>4, <2>1
<1>6. /\ ~Created(d) /\ Created(d)'
      /\ \A c \in CampaignIds \ {d} : Created(c)' <=> Created(c)
  BY <1>1, <1>2, <1>3 DEF Created, CampaignIds
<1>7. Phase(d) = "none" /\ Phase(d)' = "open"
  BY <1>4, <1>5, <1>6 DEF Phase, Refundable
<1>8. \A c \in CampaignIds \ {d} : Phase(c)' = Phase(c)
  BY <1>2, <1>6 DEF Phase, Refundable
<1>9. E!Open(d)
  BY <1>2, <1>7, <1>8 DEF E!Open
<1>10. QED
  BY <1>9 DEF E!Next

\* contribute and batch_contribute are deposits into an open campaign.
LEMMA EscrowDeposit ==
  ASSUME TypeOK, MoneyInv, NEW d \in CampaignIds, NEW v \in Users,
         NEW amt \in Amounts, CanContribute(d, v, amt), Account(d, v, amt)
  PROVE  E!Next
<1>1. /\ amt \in Nat /\ amt > 0 /\ Created(d) /\ campaign[d].is_active
      /\ ~campaign[d].is_cancelled /\ now <= campaign[d].deadline
  BY FundingAssumption DEF CanContribute, RequireActive
<1>2. /\ campaign' = [campaign EXCEPT ![d] = [campaign[d] EXCEPT
                        !.amount_raised = campaign[d].amount_raised + amt,
                        !.effective_amount_raised =
                           campaign[d].effective_amount_raised + amt]]
      /\ contribution' = [contribution EXCEPT ![d][v] = contribution[d][v] + amt]
      /\ UNCHANGED <<now, campaign_count>>
  BY DEF Account, TypeOK
<1>3. /\ campaign[d] \in CampaignRecords /\ d \in DOMAIN campaign
      /\ contribution \in [CampaignIds -> [Users -> Nat]]
  BY DEF TypeOK
<1>4. /\ ~campaign'[d].is_cancelled
      /\ campaign'[d].funds_withdrawn = campaign[d].funds_withdrawn
      /\ campaign'[d].deadline = campaign[d].deadline
  BY <1>1, <1>2, <1>3 DEF CampaignRecords
<1>5. ~campaign[d].funds_withdrawn
  BY <1>1, AtCampaign
<1>6. now \in Nat /\ campaign[d].deadline \in Nat
  BY CoreTypes
<1>7. Phase(d) = "open" /\ Phase(d)' = "open"
  BY <1>1, <1>2, <1>4, <1>5, <1>6 DEF Phase, Refundable, Created
<1>8. \A c \in CampaignIds \ {d} : campaign'[c] = campaign[c]
  BY <1>2, <1>3
<1>9. \A c \in CampaignIds : Phase(c)' = Phase(c)
  BY <1>2, <1>7, <1>8 DEF Phase, Refundable, Created
<1>10. contribution'[d][v] = contribution[d][v] + amt /\ contribution[d][v] \in Nat
  BY <1>2, <1>3
<1>11. E!Deposit(d, v)
  <2>1. contribution'[d][v] > contribution[d][v]
    BY <1>1, <1>10
  <2>2. contribution' = [contribution EXCEPT ![d][v] = contribution'[d][v]]
    BY <1>2, <1>10
  <2>3. QED
    BY <1>7, <1>9, <2>1, <2>2 DEF E!Deposit
<1>12. QED
  BY <1>11 DEF E!Next

\* claim_refund gives a deposit back.
LEMMA EscrowRefund ==
  ASSUME TypeOK, MoneyInv, Kept, NEW d \in CampaignIds, NEW v \in Users,
         claim_refund(d, v)
  PROVE  E!Next
<1>1. /\ Refundable(d) /\ Created(d) /\ contribution[d][v] # 0
      /\ campaign' = [campaign EXCEPT ![d] = [campaign[d] EXCEPT
           !.effective_amount_raised =
              campaign[d].effective_amount_raised - contribution[d][v]]]
      /\ contribution' = [contribution EXCEPT ![d][v] = 0]
      /\ UNCHANGED <<now, campaign_count>>
  BY DEF claim_refund, Refundable, EffectiveAfterRefund, TypeOK
<1>2. d \in DOMAIN campaign /\ d \in DOMAIN contribution
  BY DEF TypeOK
<1>3. \A c \in CampaignIds \ {d} : campaign'[c] = campaign[c]
  BY <1>1, <1>2
<1>4. Refundable(d)' /\ Created(d)'
  BY <1>1 DEF Kept, Created
<1>5. Phase(d) = "refunding" /\ Phase(d)' = "refunding"
  BY <1>1, <1>4 DEF Phase
<1>6. \A c \in CampaignIds : Phase(c)' = Phase(c)
  BY <1>1, <1>3, <1>5 DEF Phase, Refundable, Created
<1>7. E!Refund(d, v)
  BY <1>1, <1>5, <1>6 DEF E!Refund
<1>8. QED
  BY <1>7 DEF E!Next

\* withdraw_funds, and the last claim_milestone, release the deposits.
LEMMA EscrowRelease ==
  ASSUME TypeOK, MoneyInv, NEW d \in CampaignIds, Created(d), GoalMet(d),
         ~campaign[d].is_cancelled, ~campaign[d].funds_withdrawn,
         campaign' = [campaign EXCEPT ![d] =
           [campaign[d] EXCEPT !.funds_withdrawn = TRUE, !.is_active = FALSE]],
         UNCHANGED <<now, campaign_count, contribution>>
  PROVE  E!Next
<1>1. campaign[d] \in CampaignRecords /\ d \in DOMAIN campaign
  BY DEF TypeOK
<1>2. /\ campaign'[d].funds_withdrawn
      /\ campaign'[d].is_cancelled = campaign[d].is_cancelled
      /\ campaign'[d].amount_raised = campaign[d].amount_raised
      /\ campaign'[d].funding_goal = campaign[d].funding_goal
  BY <1>1 DEF CampaignRecords
<1>3. ~Refundable(d) /\ ~Refundable(d)'
  <2>1. ~Refundable(d)
    BY PaysOrRefunds
  <2>2. ~(campaign[d].amount_raised < campaign[d].funding_goal)
    BY CoreTypes DEF GoalMet
  <2>3. QED
    BY <1>2, <2>1, <2>2 DEF Refundable
<1>4. Phase(d) = "open" /\ Phase(d)' = "released"
  BY <1>2, <1>3 DEF Phase, Created
<1>5. \A c \in CampaignIds \ {d} : campaign'[c] = campaign[c]
  BY <1>1
<1>6. \A c \in CampaignIds \ {d} : Phase(c)' = Phase(c)
  BY <1>5 DEF Phase, Refundable, Created
<1>7. E!Release(d)
  BY <1>4, <1>6 DEF E!Release
<1>8. QED
  BY <1>7 DEF E!Next

\* Every step is a step of the escrow.
LEMMA EscrowNext == ASSUME TypeOK, MoneyInv, TypeOK', [Next]_vars PROVE E!Next
<1> USE DEF configVars, backerVars, milestoneVars, moneyVars
<1>0. Kept
  BY MoneyNext
<1>1. CASE Calm
  <2>1. \A c \in CampaignIds :
          campaign'[c].funds_withdrawn = campaign[c].funds_withdrawn
    BY <1>1 DEF Calm, SameMoney, SameCore
  <2>2. QED
    BY <1>0, <1>1, <2>1, EscrowFail DEF Calm
<1>2. ASSUME NEW u \in Creators, NEW goal \in Goals, NEW days \in Durations,
             NEW cap \in UserCaps, NEW tok \in Tokens \cup {None},
             create_campaign(u, goal, days, cap, tok)
      PROVE  E!Next
  BY <1>2, EscrowOpen
<1>3. ASSUME NEW d \in CampaignIds,
             \/ \E days \in Extensions : extend_campaign_deadline(d, days)
             \/ cancel_campaign(d) \/ admin_cancel_campaign(d)
      PROVE  E!Next
  <2>1. campaign[d] \in CampaignRecords /\ campaign \in [CampaignIds -> CampaignRecords]
    BY DEF TypeOK
  <2>2. \/ campaign' = [campaign EXCEPT ![d] = [campaign[d] EXCEPT
                          !.is_cancelled = TRUE, !.is_active = FALSE]]
        \/ \E t : campaign' = [campaign EXCEPT ![d] = [campaign[d] EXCEPT
                          !.deadline = t, !.deadline_extended = TRUE]]
    BY <1>3, <2>1 DEF extend_campaign_deadline, cancel_campaign, admin_cancel_campaign,
         Cancel
  <2>3. campaign'[d].funds_withdrawn = campaign[d].funds_withdrawn
    BY <2>1, <2>2 DEF CampaignRecords
  <2>4. \A c \in CampaignIds \ {d} : campaign'[c] = campaign[c]
    BY <2>1, <2>2
  <2>5. UNCHANGED <<campaign_count, contribution>>
    BY <1>3 DEF extend_campaign_deadline, cancel_campaign, admin_cancel_campaign, Cancel
  <2>6. QED
    BY <1>0, <2>3, <2>4, <2>5, EscrowFail
<1>4. ASSUME NEW d \in CampaignIds, NEW v \in Users, NEW amt \in Amounts,
             CanContribute(d, v, amt), Account(d, v, amt)
      PROVE  E!Next
  BY <1>4, EscrowDeposit
<1>5. ASSUME NEW d \in CampaignIds, NEW v \in Users, claim_refund(d, v)
      PROVE  E!Next
  BY <1>0, <1>5, EscrowRefund
<1>6. ASSUME NEW d \in CampaignIds, withdraw_funds(d) PROVE E!Next
  <2>1. campaign' = [campaign EXCEPT ![d] =
          [campaign[d] EXCEPT !.funds_withdrawn = TRUE, !.is_active = FALSE]]
    BY <1>6 DEF withdraw_funds, TypeOK
  <2>2. QED
    BY <1>6, <2>1, EscrowRelease DEF withdraw_funds
<1>7. ASSUME NEW d \in CampaignIds,
             withdraw_reserve(d) \/ \E plan \in Plans : set_milestones(d, plan)
      PROVE  E!Next
  BY <1>0, <1>7, EscrowFail DEF withdraw_reserve, set_milestones
<1>8. ASSUME NEW d \in CampaignIds, NEW m \in MilestoneIds, claim_milestone(d, m)
      PROVE  E!Next
  <2>1. CASE LastMilestone(d, m)
    <3>1. campaign' = [campaign EXCEPT ![d] =
            [campaign[d] EXCEPT !.funds_withdrawn = TRUE, !.is_active = FALSE]]
      BY <1>8, <2>1 DEF claim_milestone, TypeOK
    <3>2. QED
      BY <1>8, <3>1, EscrowRelease DEF claim_milestone
  <2>2. CASE ~LastMilestone(d, m)
    BY <1>0, <1>8, <2>2, EscrowFail DEF claim_milestone
  <2>3. QED
    BY <2>1, <2>2
<1>9. QED
  BY <1>1, <1>2, <1>3, <1>4, <1>5, <1>6, <1>7, <1>8, StepKinds

\* The contract implements the escrow its contributors are promised: whatever
\* creators, contributors and the admin call, in whatever order, every campaign
\* takes deposits, and then either gives every one of them back or releases them
\* to its creator, and neither decision is ever taken back.
THEOREM EscrowRefinement == Spec => ImplementsEscrow
<1>1. Init => E!Init
  <2> SUFFICES ASSUME Init PROVE E!Init
    OBVIOUS
  <2>1. \A c \in CampaignIds : ~Created(c)
    BY FundingAssumption DEF Init, Created
  <2>2. \A c \in CampaignIds : Phase(c) = "none"
    BY <2>1 DEF Phase
  <2>3. QED
    BY <2>2 DEF Init, E!Init
<1>2. TypeOK /\ MoneyInv /\ TypeOK' /\ [Next]_vars => [E!Next]_E!vars
  BY EscrowNext
<1>3. QED
  BY <1>1, <1>2, Typing, MoneyInvariant, PTL DEF Spec, ImplementsEscrow, E!Spec
=============================================================================
