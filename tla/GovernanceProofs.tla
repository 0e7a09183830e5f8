-------------------------- MODULE GovernanceProofs --------------------------
(***************************************************************************)
(* What the hand-over of the admin role and the replacement of the         *)
(* platform token leave intact, for every number of campaigns, admins and  *)
(* tokens.  The steps of Funding are dealt with by its own step lemmas;    *)
(* what is new is that the admin and the platform token change under them. *)
(*                                                                         *)
(* A swap changes the token of every campaign that pinned none.  Holdings  *)
(* (nothing is held in a token a campaign no longer uses, but for what     *)
(* milestone claims left there) makes the money invariants survive it.     *)
(***************************************************************************)
EXTENDS Governance, LedgerProofs

USE FundingAssumption, GovernanceAssumption
USE DEF configVars, backerVars, sideVars, milestoneVars, counterVars, moneyVars, govVars

\* Who got a campaign's fees, and who will.
SnapshotAt(c) ==
  /\ campaign[c].amount_raised = 0 => \A x \in Admins : fees_paid[c][x] = 0
  /\ campaign[c].amount_raised # 0 => fee_recipient[c] # None
  /\ milestone_claimed[c] = {} =>
       \A x \in Admins : fees_paid[c][x] # 0 => x = fee_recipient[c]

RolesInv ==
  /\ Base /\ GovTypeOK
  /\ \A c \in CampaignIds : SnapshotAt(c)
  /\ TotalRaisedExact

-----------------------------------------------------------------------------
(* The steps of Governance.                                                *)

\* A step of the admin's powers changes the roles only, and the platform token
\* only when a swap is accepted.
LEMMA GovKinds ==
  ASSUME GovTypeOK, GovStep
  PROVE  /\ GovTypeOK'
         /\ unchangedButRoles
         /\ platform_token' = platform_token \/ SwapAllowed
<1>1. /\ TypeOK /\ admin \in Admins /\ platform_token \in Tokens /\ now \in Nat
      /\ pending_admin \in (Admins \cup {None}) \ {admin}
      /\ pending_token \in [token: Tokens \cup {None}, release_after: Nat]
      /\ token_update_delay \in Nat \ {0}
  BY DEF GovTypeOK, TypeOK
<1>2. /\ unchangedButRoles
      /\ platform_token' = platform_token \/ SwapAllowed
  BY DEF GovStep, initiate_admin_transfer, accept_admin_transfer, cancel_admin_transfer,
         propose_token_update, accept_token_update, cancel_token_update,
         set_token_update_delay_secs
<1>3. /\ admin' \in Admins /\ platform_token' \in Tokens
      /\ pending_admin' \in (Admins \cup {None}) \ {admin'}
      /\ pending_token' \in [token: Tokens \cup {None}, release_after: Nat]
      /\ token_update_delay' \in Nat \ {0}
  <2>1. CASE \E new_admin \in Admins : initiate_admin_transfer(new_admin)
    BY <1>1, <2>1 DEF initiate_admin_transfer, Nominable
  <2>2. CASE accept_admin_transfer \/ cancel_admin_transfer
    BY <1>1, <2>2 DEF accept_admin_transfer, cancel_admin_transfer
  <2>3. CASE \E new_token \in Tokens : propose_token_update(new_token)
    BY <1>1, <2>3 DEF propose_token_update
  <2>4. CASE accept_token_update \/ cancel_token_update
    BY <1>1, <2>4 DEF accept_token_update, cancel_token_update, NoProposal
  <2>5. CASE \E secs \in Delays : set_token_update_delay_secs(secs)
    BY <1>1, <2>5 DEF set_token_update_delay_secs
  <2>6. QED
    BY <2>1, <2>2, <2>3, <2>4, <2>5 DEF GovStep
<1>4. TypeOK'
  BY <1>1, <1>2, <1>3 DEF TypeOK, unchangedButRoles
<1>5. QED
  BY <1>2, <1>3, <1>4 DEF GovTypeOK

\* Roles move no money.
LEMMA GovKept ==
  ASSUME Base, unchangedButRoles, TypeOK'
  PROVE  Kept /\ Base'
<1>1. /\ TypeOK /\ MoneyInv /\ now' = now /\ now \in Nat
      /\ UNCHANGED <<campaign_count, contribution, lifetime, held, milestone_claimed, reserve>>
      /\ campaign' = campaign
  BY DEF Base, TypeOK, unchangedButRoles
<1>2. \A c \in CampaignIds : SameCore(campaign'[c], campaign[c])
  BY <1>1 DEF SameCore
<1>3. Kept
  BY <1>1, <1>2, QuietStep
<1>4. QED
  BY <1>3 DEF Kept, Base

\* total_raised and the holdings stay.
LEMMA GovTotal ==
  ASSUME TotalRaisedExact, unchangedButRoles
  PROVE  TotalRaisedExact'
<1>1. UNCHANGED <<campaign, total_raised, held>>
  BY DEF unchangedButRoles
<1>2. QED
  BY <1>1 DEF TotalRaisedExact

\* A step that keeps a campaign's amount, fees and claims keeps its snapshot.
LEMMA GovSnapshot ==
  ASSUME NEW c \in CampaignIds, SnapshotAt(c),
         campaign'[c].amount_raised = campaign[c].amount_raised,
         fees_paid'[c] = fees_paid[c], fee_recipient'[c] = fee_recipient[c],
         milestone_claimed'[c] = milestone_claimed[c]
  PROVE  SnapshotAt(c)'
BY DEF SnapshotAt

-----------------------------------------------------------------------------
(* The snapshot of the fee recipient.                                      *)

\* A step that concerns one campaign.
LEMMA SnapshotOthers ==
  ASSUME \A c \in CampaignIds : SnapshotAt(c), NEW d \in CampaignIds,
         \A c \in CampaignIds \ {d} :
           /\ campaign'[c] = campaign[c] /\ fees_paid'[c] = fees_paid[c]
           /\ fee_recipient'[c] = fee_recipient[c]
           /\ milestone_claimed'[c] = milestone_claimed[c],
         SnapshotAt(d)'
  PROVE  \A c \in CampaignIds : SnapshotAt(c)'
<1> SUFFICES ASSUME NEW c \in CampaignIds, c # d PROVE SnapshotAt(c)'
  OBVIOUS
<1>1. QED
  BY GovSnapshot

\* Edits of one campaign's record that keep the amount raised.
LEMMA SnapshotEdit ==
  ASSUME \A c \in CampaignIds : SnapshotAt(c), NEW d \in CampaignIds,
         \A c \in CampaignIds \ {d} : campaign'[c] = campaign[c],
         campaign'[d].amount_raised = campaign[d].amount_raised,
         UNCHANGED <<fees_paid, fee_recipient, milestone_claimed>>
  PROVE  \A c \in CampaignIds : SnapshotAt(c)'
<1>1. SnapshotAt(d)'
  BY GovSnapshot
<1>2. QED
  BY <1>1, SnapshotOthers

\* The first contribution takes the snapshot; before it no fee was paid.
LEMMA SnapshotContribute ==
  ASSUME TypeOK, \A c \in CampaignIds : SnapshotAt(c), NEW d \in CampaignIds,
         NEW v \in Users, NEW amt \in Amounts, CanContribute(d, v, amt), Account(d, v, amt)
  PROVE  \A c \in CampaignIds : SnapshotAt(c)'
<1>1. /\ d \in DOMAIN campaign /\ campaign[d] \in CampaignRecords
      /\ d \in DOMAIN fee_recipient /\ admin \in Admins
      /\ fee_recipient \in [CampaignIds -> Admins \cup {None}]
  BY DEF TypeOK
<1>2. /\ fee_recipient' = IF campaign[d].amount_raised = 0
                          THEN [fee_recipient EXCEPT ![d] = admin] ELSE fee_recipient
      /\ UNCHANGED <<milestone_claimed, fees_paid>>
      /\ amt > 0 /\ amt \in Int
  BY DEF Account, CanContribute
<1>3. /\ campaign'[d].amount_raised = campaign[d].amount_raised + amt
      /\ \A c \in CampaignIds \ {d} : campaign'[c] = campaign[c]
  <2>1. campaign' = [campaign EXCEPT ![d] =
          [campaign[d] EXCEPT !.amount_raised = campaign[d].amount_raised + amt,
             !.effective_amount_raised = campaign[d].effective_amount_raised + amt]]
    BY <1>1 DEF Account
  <2>2. campaign'[d].amount_raised = campaign[d].amount_raised + amt
    BY <1>1, <2>1 DEF CampaignRecords
  <2>3. \A c \in CampaignIds \ {d} : campaign'[c] = campaign[c]
    BY <1>1, <2>1
  <2>4. QED
    BY <2>2, <2>3
<1>4. campaign[d].amount_raised \in Nat
  BY CoreTypes
<1>5. campaign'[d].amount_raised # 0
  BY <1>2, <1>3, <1>4
<1>6. SnapshotAt(d)
  OBVIOUS
<1>7. SnapshotAt(d)'
  <2>1. CASE campaign[d].amount_raised = 0
    <3>1. fee_recipient'[d] # None /\ \A x \in Admins : fees_paid'[d][x] = 0
      BY <1>1, <1>2, <1>6, <2>1 DEF SnapshotAt
    <3>2. QED
      BY <1>5, <3>1 DEF SnapshotAt
  <2>2. CASE campaign[d].amount_raised # 0
    <3>1. UNCHANGED <<fee_recipient, fees_paid, milestone_claimed>>
      BY <1>2, <2>2
    <3>2. QED
      BY <1>5, <1>6, <2>2, <3>1 DEF SnapshotAt
  <2>3. QED
    BY <2>1, <2>2
<1>8. \A c \in CampaignIds \ {d} : fee_recipient'[c] = fee_recipient[c]
  BY <1>1, <1>2
<1>9. QED
  BY <1>2, <1>3, <1>7, <1>8, SnapshotOthers

\* withdraw_funds pays the snapshot; a milestone's fee goes elsewhere, and then the
\* campaign counts as claimed.
LEMMA SnapshotPayout ==
  ASSUME TypeOK, TypeOK', \A c \in CampaignIds : SnapshotAt(c), NEW d \in CampaignIds,
         withdraw_funds(d) \/ \E m \in MilestoneIds : claim_milestone(d, m)
  PROVE  \A c \in CampaignIds : SnapshotAt(c)'
<1>1. /\ d \in DOMAIN campaign /\ campaign[d] \in CampaignRecords
      /\ fees_paid \in [CampaignIds -> [Admins -> Int]]
      /\ milestone_claimed \in [CampaignIds -> SUBSET MilestoneIds]
  BY DEF TypeOK
<1>2. /\ campaign[d].amount_raised # 0 /\ UNCHANGED fee_recipient
      /\ \/ campaign' = campaign
         \/ campaign' = [campaign EXCEPT ![d] = [campaign[d] EXCEPT
                           !.funds_withdrawn = TRUE, !.is_active = FALSE]]
  BY <1>1 DEF withdraw_funds, claim_milestone, GoalMet
<1>3. /\ campaign'[d].amount_raised = campaign[d].amount_raised
      /\ \A c \in CampaignIds \ {d} : campaign'[c] = campaign[c]
  <2>1. CASE campaign' = campaign
    BY <2>1
  <2>2. CASE campaign' = [campaign EXCEPT ![d] = [campaign[d] EXCEPT
                            !.funds_withdrawn = TRUE, !.is_active = FALSE]]
    <3>1. campaign'[d].amount_raised = campaign[d].amount_raised
      BY <1>1, <2>2 DEF CampaignRecords
    <3>2. \A c \in CampaignIds \ {d} : campaign'[c] = campaign[c]
      BY <1>1, <2>2
    <3>3. QED
      BY <3>1, <3>2
  <2>3. QED
    BY <1>2, <2>1, <2>2
<1>4. SnapshotAt(d) /\ fee_recipient[d] # None
  BY <1>2 DEF SnapshotAt
<1>5. CASE withdraw_funds(d)
  <2>1. UNCHANGED milestone_claimed /\ FeeRecipient(d) = fee_recipient[d]
    BY <1>4, <1>5 DEF withdraw_funds, FeeRecipient
  <2>2. PICK y : fees_paid' = [fees_paid EXCEPT ![d][fee_recipient[d]] = fees_paid[d][fee_recipient[d]] + y]
    BY <1>1, <1>5, <2>1 DEF withdraw_funds, PayFee
  <2>3. /\ \A c \in CampaignIds \ {d} : fees_paid'[c] = fees_paid[c]
        /\ \A x \in Admins \ {fee_recipient[d]} : fees_paid'[d][x] = fees_paid[d][x]
    BY <1>1, <2>2
  <2>4. SnapshotAt(d)'
    BY <1>2, <1>3, <1>4, <2>1, <2>3 DEF SnapshotAt
  <2>5. QED
    BY <1>2, <1>3, <2>1, <2>3, <2>4, SnapshotOthers
<1>6. ASSUME NEW m \in MilestoneIds, claim_milestone(d, m)
      PROVE  \A c \in CampaignIds : SnapshotAt(c)'
  <2>1. /\ milestone_claimed' = [milestone_claimed EXCEPT ![d] = @ \cup {m}]
        /\ \E y : fees_paid' = [fees_paid EXCEPT ![d][admin] = y]
    BY <1>6 DEF claim_milestone, PayFee
  <2>2. /\ milestone_claimed'[d] # {}
        /\ \A c \in CampaignIds \ {d} : /\ milestone_claimed'[c] = milestone_claimed[c]
                                        /\ fees_paid'[c] = fees_paid[c]
    BY <1>1, <2>1
  <2>3. SnapshotAt(d)'
    BY <1>2, <1>3, <1>4, <2>2 DEF SnapshotAt
  <2>4. QED
    BY <1>2, <1>3, <2>2, <2>3, SnapshotOthers
<1>7. QED
  BY <1>5, <1>6

\* Every step of Funding keeps the snapshots.
LEMMA SnapshotNext ==
  ASSUME Base, TypeOK', \A c \in CampaignIds : SnapshotAt(c), [Next]_vars
  PROVE  \A c \in CampaignIds : SnapshotAt(c)'
<1>0. TypeOK /\ \A c \in CampaignIds : c \in DOMAIN campaign /\ campaign[c] \in CampaignRecords
  BY DEF Base, TypeOK
<1>1. CASE Calm
  BY <1>1, GovSnapshot DEF Calm, SameMoney, SameCore
<1>2. ASSUME NEW u \in Creators, NEW goal \in Goals, NEW days \in Durations,
             NEW cap \in UserCaps, NEW tok \in Tokens \cup {None},
             create_campaign(u, goal, days, cap, tok)
      PROVE  \A c \in CampaignIds : SnapshotAt(c)'
  <2>1. PICK d \in CampaignIds : d = campaign_count + 1
    BY <1>2 DEF create_campaign
  <2>2. campaign[d].amount_raised = 0
    BY <2>1 DEF Created, Base, TypeOK, MoneyInv, FundingInv, Untouched, NoCampaign
  <2>3. /\ campaign'[d].amount_raised = 0
        /\ \A c \in CampaignIds \ {d} : campaign'[c] = campaign[c]
    BY <1>0, <1>2, <2>1 DEF create_campaign
  <2>4. UNCHANGED <<fees_paid, fee_recipient, milestone_claimed>>
    BY <1>2 DEF create_campaign
  <2>5. QED
    BY <2>2, <2>3, <2>4, SnapshotEdit
<1>3. ASSUME NEW d \in CampaignIds, NEW days \in Extensions,
             extend_campaign_deadline(d, days)
      PROVE  \A c \in CampaignIds : SnapshotAt(c)'
  <2>1. /\ \E t : campaign' = [campaign EXCEPT ![d] = [campaign[d] EXCEPT
                     !.deadline = t, !.deadline_extended = TRUE]]
        /\ UNCHANGED <<fees_paid, fee_recipient, milestone_claimed>>
    BY <1>0, <1>3 DEF extend_campaign_deadline
  <2>2. campaign'[d].amount_raised = campaign[d].amount_raised
    BY <1>0, <2>1 DEF CampaignRecords
  <2>3. \A c \in CampaignIds \ {d} : campaign'[c] = campaign[c]
    BY <1>0, <2>1
  <2>4. QED
    BY <2>1, <2>2, <2>3, SnapshotEdit
<1>4. ASSUME NEW d \in CampaignIds, NEW v \in Users, claim_refund(d, v)
      PROVE  \A c \in CampaignIds : SnapshotAt(c)'
  <2>1. /\ \E y : campaign' = [campaign EXCEPT ![d] = [campaign[d] EXCEPT
                     !.effective_amount_raised = y]]
        /\ UNCHANGED <<fees_paid, fee_recipient, milestone_claimed>>
    BY <1>0, <1>4 DEF claim_refund
  <2>2. campaign'[d].amount_raised = campaign[d].amount_raised
    BY <1>0, <2>1 DEF CampaignRecords
  <2>3. \A c \in CampaignIds \ {d} : campaign'[c] = campaign[c]
    BY <1>0, <2>1
  <2>4. QED
    BY <2>1, <2>2, <2>3, SnapshotEdit
<1>5. ASSUME NEW d \in CampaignIds, cancel_campaign(d) \/ admin_cancel_campaign(d)
      PROVE  \A c \in CampaignIds : SnapshotAt(c)'
  <2>1. /\ campaign' = [campaign EXCEPT ![d] = [campaign[d] EXCEPT
                     !.is_cancelled = TRUE, !.is_active = FALSE]]
        /\ UNCHANGED <<fees_paid, fee_recipient, milestone_claimed>>
    BY <1>0, <1>5 DEF cancel_campaign, admin_cancel_campaign, Cancel
  <2>2. campaign'[d].amount_raised = campaign[d].amount_raised
    BY <1>0, <2>1 DEF CampaignRecords
  <2>3. \A c \in CampaignIds \ {d} : campaign'[c] = campaign[c]
    BY <1>0, <2>1
  <2>4. QED
    BY <2>1, <2>2, <2>3, SnapshotEdit
<1>6. ASSUME NEW d \in CampaignIds,
             withdraw_reserve(d) \/ \E plan \in Plans : set_milestones(d, plan)
      PROVE  \A c \in CampaignIds : SnapshotAt(c)'
  <2>1. UNCHANGED <<campaign, fees_paid, fee_recipient, milestone_claimed>>
    BY <1>6 DEF withdraw_reserve, set_milestones
  <2>2. QED
    BY <2>1, SnapshotEdit
<1>7. QED
  BY <1>0, <1>1, <1>2, <1>3, <1>4, <1>5, <1>6, SnapshotContribute, SnapshotPayout, StepKinds

-----------------------------------------------------------------------------
(* Every step of the whole specification.                                  *)

LEMMA RolesInit == ASSUME GovInit PROVE RolesInv
<1>1. Base
  BY TypeInit, MoneyInit DEF GovInit, Base
<1>2. GovTypeOK
  <2>1. TypeOK /\ admin \in Admins
    BY <1>1 DEF Base, TypeOK
  <2>2. QED
    BY <2>1 DEF GovInit, GovTypeOK, NoProposal
<1>3. \A c \in CampaignIds : SnapshotAt(c)
  BY DEF GovInit, Init, SnapshotAt, NoCampaign
<1>4. QED
  BY <1>1, <1>2, <1>3, TotalInit DEF RolesInv, GovInit

\* A step is one of Funding's or one of the roles'.
LEMMA TwoKinds ==
  ASSUME [GovNext]_allVars
  PROVE  ([Next]_vars /\ UNCHANGED govVars) \/ GovStep
BY DEF GovNext, allVars

\* Every step keeps the invariant and the right to a refund.
LEMMA RolesNext ==
  ASSUME RolesInv, [GovNext]_allVars
  PROVE  /\ RolesInv'
         /\ \A c \in CampaignIds : Refundable(c) => Refundable(c)'
<1>1. Base /\ GovTypeOK /\ TypeOK /\ MoneyInv /\ TotalRaisedExact
      /\ \A c \in CampaignIds : SnapshotAt(c)
  BY DEF RolesInv, Base
<1>2. CASE [Next]_vars /\ UNCHANGED govVars
  <2>1. TypeOK'
    BY <1>1, <1>2, TypeNext
  <2>2. Kept
    BY <1>1, <1>2, MoneyNext
  <2>3. GovTypeOK'
    BY <1>1, <1>2, <2>1, RolesStay DEF GovTypeOK
  <2>4. \A c \in CampaignIds : SnapshotAt(c)'
    BY <1>1, <1>2, <2>1, SnapshotNext
  <2>5. TotalRaisedExact'
    BY <1>1, <1>2, TotalNext
  <2>6. QED
    BY <2>1, <2>2, <2>3, <2>4, <2>5 DEF RolesInv, Base, Kept
<1>3. CASE GovStep
  <2>1. GovTypeOK' /\ unchangedButRoles
    BY <1>1, <1>3, GovKinds
  <2>2. Kept /\ Base'
    BY <1>1, <2>1, GovKept DEF GovTypeOK
  <2>3. UNCHANGED <<campaign, fees_paid, fee_recipient, milestone_claimed>>
    BY <2>1 DEF unchangedButRoles
  <2>4. \A c \in CampaignIds : SnapshotAt(c)'
    BY <1>1, <2>3, GovSnapshot
  <2>5. TotalRaisedExact'
    BY <1>1, <2>1, GovTotal
  <2>6. QED
    BY <2>1, <2>2, <2>4, <2>5 DEF RolesInv, Kept
<1>4. QED
  BY <1>2, <1>3, TwoKinds

\* Roles, money and snapshots fit in every reachable state.
LEMMA RolesInvariant == GovSpec => []RolesInv
<1>1. GovInit => RolesInv
  BY RolesInit
<1>2. RolesInv /\ [GovNext]_allVars => RolesInv'
  BY RolesNext
<1>3. QED
  BY <1>1, <1>2, PTL DEF GovSpec

\* Through any nominations, acceptances and token proposals the roles keep their
\* types, and a nominee is never the admin in office.
THEOREM RolesTyped == GovSpec => []GovTypeOK
<1>1. RolesInv => GovTypeOK
  BY DEF RolesInv
<1>2. QED
  BY <1>1, RolesInvariant, PTL

\* withdraw_funds pays its fee to the admin who was in office at the campaign's first
\* contribution, however often accept_admin_transfer has been called since.
THEOREM FeesFollowSnapshot == GovSpec => []FeesToSnapshot
<1>1. RolesInv => FeesToSnapshot
  BY DEF RolesInv, SnapshotAt, FeesToSnapshot
<1>2. QED
  BY <1>1, RolesInvariant, PTL

\* Neither a new admin nor a swapped token makes a paid-out campaign refundable, takes
\* a refund away from a contributor or separates the effective amount from the sum of
\* the contributions.
THEOREM RolesMoveNoMoney ==
  GovSpec => /\ [](FundingInv /\ EffectiveIsSum)
             /\ [][\A c \in CampaignIds : Refundable(c) => Refundable(c)']_allVars
<1>1. RolesInv => FundingInv /\ EffectiveIsSum
  BY DEF RolesInv, Base, MoneyInv
<1>2. RolesInv /\ [GovNext]_allVars
        => [\A c \in CampaignIds : Refundable(c) => Refundable(c)']_allVars
  BY RolesNext
<1>3. QED
  BY <1>1, <1>2, RolesInvariant, PTL DEF GovSpec

-----------------------------------------------------------------------------
(* The swap of the platform token.                                         *)

\* What a campaign has in tokens other than its own.
ElsewhereAt(c) ==
  \A t \in Tokens \ {TokenOf(c)} :
    held[c][t] >= 0 /\ (milestone_claimed[c] = {} => held[c][t] = 0)

Holdings(fee) ==
  LedgerInv /\ PayoutInv /\ CoverInv(fee) /\ \A c \in CampaignIds : ElsewhereAt(c)

SwapInv(fee) == NoneCancelled => Holdings(fee)

\* When total_raised is zero and nothing was cancelled, nothing is held for anybody:
\* the sum has no negative terms.
LEMMA NothingHeld ==
  ASSUME Base, TotalRaisedExact, NoneCancelled, NEW fee \in 0..PLATFORM_FEE_MAX_BPS,
         Holdings(fee), total_raised = 0
  PROVE  \A c \in CampaignIds, t \in Tokens : held[c][t] = 0
<1> DEFINE S == CampaignIds \X Tokens
<1>1. held \in [CampaignIds -> [Tokens -> Int]]
  BY DEF Base, TypeOK
<1>2. \A c \in CampaignIds, t \in Tokens : held[c][t] >= 0
  BY CoverNatural DEF Holdings, ElsewhereAt, NoneCancelled
<1>3. \A c \in CampaignIds, t \in Tokens :
        /\ <<c, t>> \in S /\ AllHeld[<<c, t>>] = held[c][t]
  BY DEF AllHeld
<1>4. AllHeld \in [S -> Nat]
  <2>1. \A q \in S : held[q[1]][q[2]] \in Nat
    BY <1>1, <1>2
  <2>2. QED
    BY <2>1 DEF AllHeld
<1>5. IsFiniteSet(S)
  BY CampaignsFinite, FS_Product
<1>6. Net(AllHeld) = 0
  BY DEF TotalRaisedExact, NoneCancelled, AllHeld
<1> HIDE DEF S
<1>7. Total(AllHeld) = 0
  BY <1>4, <1>5, <1>6, NetIsTotal
<1>8. \A x \in S : AllHeld[x] <= 0
  BY <1>4, <1>5, <1>7, TotalBound
<1>9. \A c \in CampaignIds, t \in Tokens : held[c][t] <= 0 /\ held[c][t] \in Int
  <2> SUFFICES ASSUME NEW c \in CampaignIds, NEW t \in Tokens
               PROVE  held[c][t] <= 0 /\ held[c][t] \in Int
    OBVIOUS
  <2>1. <<c, t>> \in S /\ AllHeld[<<c, t>>] = held[c][t]
    BY <1>3
  <2>2. QED
    BY <1>1, <1>8, <2>1
<1>10. QED
  BY <1>2, <1>9

\* A campaign's own money follows a step of Funding, the rest stays where it is.
LEMMA ElsewhereNext ==
  ASSUME Base, [Next]_vars, NEW c \in CampaignIds, ElsewhereAt(c)
  PROVE  ElsewhereAt(c)'
<1>1. Framed(c) /\ platform_token' = platform_token
  BY Frames, RolesStay DEF Base
<1>2. CASE Created(c)
  <2>1. TokenOf(c)' = TokenOf(c)
    BY <1>1, <1>2 DEF Framed, TokenOf
  <2>2. QED
    BY <1>1, <2>1 DEF Framed, ElsewhereAt
<1>3. CASE ~Created(c)
  <2>1. held'[c] = [t \in Tokens |-> 0]
    BY <1>1, <1>3 DEF Framed, Base, MoneyInv, FundingInv, Untouched
  <2>2. QED
    BY <2>1 DEF ElsewhereAt
<1>4. QED
  BY <1>2, <1>3

\* The steps of Funding.
LEMMA SwapFunding ==
  ASSUME Base, TypeOK', NEW fee \in 0..PLATFORM_FEE_MAX_BPS, Fees = {fee},
         SwapInv(fee), [Next]_vars
  PROVE  SwapInv(fee)'
<1> SUFFICES ASSUME NoneCancelled' PROVE Holdings(fee)'
  BY DEF SwapInv
<1>1. NoneCancelled
  BY Frames DEF NoneCancelled, Framed
<1>2. /\ LedgerInv /\ PayoutInv /\ CoverInv(fee)
      /\ \A c \in CampaignIds : ElsewhereAt(c)
  BY <1>1 DEF SwapInv, Holdings
<1>3. LedgerInv' /\ PayoutInv' /\ CoverInv(fee)'
  BY <1>2, LedgerNext, PayoutNext, CoverNext
<1>4. \A c \in CampaignIds : ElsewhereAt(c)'
  BY <1>2, ElsewhereNext
<1>5. QED
  BY <1>3, <1>4 DEF Holdings

\* The steps of the roles: a swap finds nothing held.
LEMMA SwapRoles ==
  ASSUME RolesInv, NEW fee \in 0..PLATFORM_FEE_MAX_BPS, SwapInv(fee), GovStep
  PROVE  SwapInv(fee)'
<1>1. /\ unchangedButRoles
      /\ platform_token' = platform_token \/ total_raised = 0
  BY GovKinds DEF RolesInv, SwapAllowed
<1>2. UNCHANGED <<campaign, campaign_count, contribution, lifetime, personal_cap,
                  contributor_count, reserve, milestones, milestone_claimed, held,
                  fees_paid, platform_fee>>
  BY <1>1 DEF unchangedButRoles
<1> SUFFICES ASSUME NoneCancelled' PROVE Holdings(fee)'
  BY DEF SwapInv
<1>3. NoneCancelled /\ Holdings(fee)
  BY <1>2 DEF NoneCancelled, SwapInv
<1>4. PayoutInv'
  BY <1>2, <1>3, SamePayout DEF Holdings, PayoutInv
<1>5. CASE platform_token' = platform_token
  <2>1. \A c \in CampaignIds : TokenOf(c)' = TokenOf(c)
    BY <1>2, <1>5 DEF TokenOf
  <2>2. LedgerInv'
    BY <1>2, <1>3, <1>5, SameLedger DEF Holdings, LedgerInv
  <2>3. CoverInv(fee)'
    BY <1>2, <1>3, <1>5, SameCover DEF Holdings, CoverInv
  <2>4. \A c \in CampaignIds : ElsewhereAt(c)'
    BY <1>2, <1>3, <2>1 DEF Holdings, ElsewhereAt
  <2>5. QED
    BY <1>4, <2>2, <2>3, <2>4 DEF Holdings
<1>6. CASE total_raised = 0
  <2>1. \A c \in CampaignIds, t \in Tokens : held[c][t] = 0 /\ held'[c][t] = 0
    BY <1>2, <1>3, <1>6, NothingHeld DEF RolesInv
  <2>2. \A c \in CampaignIds : TokenOf(c) \in Tokens /\ TokenOf(c)' \in Tokens
    <3>1. TypeOK /\ platform_token' \in Tokens
      BY GovKinds DEF RolesInv, Base, GovTypeOK, TypeOK
    <3>2. \A c \in CampaignIds : TokenOf(c) \in Tokens
      BY <3>1, TokenOfType
    <3>3. QED
      BY <1>2, <3>1, <3>2 DEF TokenOf
  <2>3. \A c \in CampaignIds : held[c][TokenOf(c)] = 0 /\ held'[c][TokenOf(c)'] = 0
    BY <2>1, <2>2
  <2>4. LedgerInv'
    <3> SUFFICES ASSUME NEW c \in CampaignIds PROVE LedgerAt(c)'
      BY DEF LedgerInv
    <3>1. LedgerAt(c)
      BY <1>3 DEF Holdings, LedgerInv
    <3>2. Outstanding(c)' = Outstanding(c) /\ Backers(c)' = Backers(c)
      BY <1>2 DEF Outstanding, Backers
    <3>3. CustodyAt(c)'
      BY <1>2, <2>3, <3>1, <3>2 DEF LedgerAt, CustodyAt
    <3>4. CapsAt(c)' /\ DurationAt(c)'
      BY <1>2, <3>1 DEF LedgerAt, CapsAt, DurationAt
    <3>5. QED
      BY <1>2, <3>1, <3>2, <3>3, <3>4 DEF LedgerAt
  <2>5. CoverInv(fee)'
    <3>1. \A c \in CampaignIds : Unpaid(c, fee)' = Unpaid(c, fee)
      BY <1>2 DEF Unpaid, RestAtRate, FeeAtRate
    <3>2. \A c \in CampaignIds : CoverAt(c, fee)'
      <4> SUFFICES ASSUME NEW c \in CampaignIds PROVE CoverAt(c, fee)'
        OBVIOUS
      <4>1. CoverAt(c, fee)
        BY <1>3 DEF Holdings, CoverInv
      <4>2. QED
        BY <1>2, <2>3, <3>1, <4>1 DEF CoverAt
    <3>3. QED
      BY <1>2, <1>3, <3>2 DEF Holdings, CoverInv
  <2>6. \A c \in CampaignIds : ElsewhereAt(c)'
    BY <2>1 DEF ElsewhereAt
  <2>7. QED
    BY <1>4, <2>4, <2>5, <2>6 DEF Holdings
<1>7. QED
  BY <1>1, <1>5, <1>6

\* When the platform fee is the only fee there is, and as long as no campaign has been
\* cancelled, accept_token_update replaces the platform token only when no campaign
\* owes contributions or a reserve: total_raised, the number it consults, has no
\* negative terms that could hide a debt.  (A campaign that paid out more than it took
\* in would be one: when the fee may change, roundings make them.)
THEOREM SwapsAreSafe ==
  ASSUME NEW fee \in 0..PLATFORM_FEE_MAX_BPS, Fees = {fee}
  PROVE  GovSpec => SwapStrandsNothing
<1>1. GovInit => SwapInv(fee)
  <2> SUFFICES ASSUME GovInit PROVE Holdings(fee)
    BY DEF SwapInv
  <2>1. Init
    BY DEF GovInit
  <2>2. CoverInv(fee)
    BY <2>1 DEF Init, CoverInv, CoverAt, NoCampaign
  <2>3. \A c \in CampaignIds : ElsewhereAt(c)
    BY <2>1 DEF Init, ElsewhereAt
  <2>4. QED
    BY <2>1, <2>2, <2>3, LedgerInit, PayoutInit DEF Holdings
<1>2. RolesInv /\ RolesInv' /\ SwapInv(fee) /\ [GovNext]_allVars => SwapInv(fee)'
  BY TwoKinds, SwapFunding, SwapRoles DEF RolesInv, Base
<1>3. RolesInv /\ SwapInv(fee) /\ [GovNext]_allVars
        => [platform_token' # platform_token
              => \/ \E c \in CampaignIds : campaign[c].is_cancelled
                 \/ \A c \in CampaignIds : milestone_claimed[c] = {} => Outstanding(c) = 0
           ]_allVars
  <2> SUFFICES ASSUME RolesInv, SwapInv(fee), [GovNext]_allVars,
                      platform_token' # platform_token, NoneCancelled,
                      NEW c \in CampaignIds, milestone_claimed[c] = {}
               PROVE  Outstanding(c) = 0
    BY DEF NoneCancelled
  <2>1. TypeOK /\ Base /\ GovTypeOK /\ TotalRaisedExact /\ Holdings(fee)
    BY DEF RolesInv, Base, SwapInv
  <2>2. GovStep
    BY <2>1, TwoKinds, RolesStay
  <2>3. total_raised = 0
    BY <2>1, <2>2, GovKinds DEF SwapAllowed
  <2>4. held[c][TokenOf(c)] = 0
    BY <2>1, <2>3, NothingHeld, TokenOfType
  <2>5. QED
    BY <2>1, <2>4 DEF Holdings, LedgerInv, LedgerAt, CustodyAt
<1>4. QED
  BY <1>1, <1>2, <1>3, RolesInvariant, PTL DEF GovSpec, SwapStrandsNothing
=============================================================================
