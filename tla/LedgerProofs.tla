---------------------------- MODULE LedgerProofs ----------------------------
(***************************************************************************)
(* What the storage entries of the money path say about each other, for    *)
(* every number of campaigns, users and tokens: the number of contributors *)
(* is right, the caps bound what they are about, a campaign holds exactly  *)
(* what it owes, the platform counters agree with the campaigns' flags and *)
(* total_raised with the tokens held, the dashboards agree with each       *)
(* other, and the roundings of fees and milestones stay within bounds.     *)
(*                                                                         *)
(* LedgerAt is what the induction needs of one campaign; an action changes *)
(* one campaign (OneCampaign).  CountersExact and TotalRaisedExact relate  *)
(* a counter to all campaigns and are followed separately.  Shares are     *)
(* sums of rounded products: TotalLinear turns what rounding does to one   *)
(* milestone into what it does to a plan.                                  *)
(***************************************************************************)
EXTENDS FundingProofs, Reports

USE FundingAssumption
USE DEF configVars, backerVars, sideVars, milestoneVars, counterVars, moneyVars

\* The users with a contribution on record.
Backers(c) == {u \in Users : contribution[c][u] # 0}

CapsAt(c) ==
  \A u \in Users :
    /\ contribution[c][u] <= lifetime[c][u]
    /\ \/ campaign[c].max_contribution_per_user = 0
       \/ lifetime[c][u] <= campaign[c].max_contribution_per_user
    /\ \/ personal_cap[c][u] = Unset
       \/ contribution[c][u] <= personal_cap[c][u]

\* A deadline is a whole number of days after the start.  (Without this the
\* division by which extend_campaign_deadline measures a duration says too little.)
DurationAt(c) ==
  \E k \in 0..CAMPAIGN_DURATION_MAX_DAYS :
    campaign[c].deadline = campaign[c].start_time + k * SECONDS_PER_DAY

CustodyAt(c) == milestone_claimed[c] = {} => held[c][TokenOf(c)] = Outstanding(c)

LedgerAt(c) ==
  /\ contributor_count[c] = Cardinality(Backers(c))
  /\ CapsAt(c)
  /\ DurationAt(c)
  /\ CustodyAt(c)

LedgerInv == \A c \in CampaignIds : LedgerAt(c)

\* The invariants the step lemmas start from.
Base == TypeOK /\ MoneyInv

\* A campaign none of whose entries changes keeps its part of the invariant.
LEMMA SameLedger ==
  ASSUME NEW c \in CampaignIds, LedgerAt(c), platform_token' = platform_token,
         campaign'[c] = campaign[c], contribution'[c] = contribution[c],
         lifetime'[c] = lifetime[c], personal_cap'[c] = personal_cap[c],
         contributor_count'[c] = contributor_count[c], reserve'[c] = reserve[c],
         milestone_claimed'[c] = milestone_claimed[c], held'[c] = held[c]
  PROVE  LedgerAt(c)'
<1>1. Backers(c)' = Backers(c)
  BY DEF Backers
<1>2. CapsAt(c)' /\ DurationAt(c)'
  BY DEF LedgerAt, CapsAt, DurationAt
<1>3. TokenOf(c)' = TokenOf(c) /\ Outstanding(c)' = Outstanding(c)
  BY DEF TokenOf, Outstanding
<1>4. CustodyAt(c)'
  BY <1>3 DEF LedgerAt, CustodyAt
<1>5. QED
  BY <1>1, <1>2, <1>4 DEF LedgerAt

\* An action changes one campaign; the others keep their part.
LEMMA OneCampaign ==
  ASSUME LedgerInv, NEW d \in CampaignIds, platform_token' = platform_token,
         \A c \in CampaignIds \ {d} :
           /\ campaign'[c] = campaign[c]
           /\ contribution'[c] = contribution[c]
           /\ lifetime'[c] = lifetime[c]
           /\ personal_cap'[c] = personal_cap[c]
           /\ contributor_count'[c] = contributor_count[c]
           /\ reserve'[c] = reserve[c]
           /\ milestone_claimed'[c] = milestone_claimed[c]
           /\ held'[c] = held[c],
         LedgerAt(d)'
  PROVE  LedgerInv'
<1> SUFFICES ASSUME NEW c \in CampaignIds, c # d PROVE LedgerAt(c)'
  BY DEF LedgerInv
<1>1. LedgerAt(c)
  BY DEF LedgerInv
<1>2. QED
  BY <1>1, SameLedger

\* The numbers the invariant compares.
LEMMA LedgerTypes ==
  ASSUME TypeOK, NEW c \in CampaignIds
  PROVE  /\ contribution[c] \in [Users -> Nat] /\ lifetime[c] \in [Users -> Nat]
         /\ personal_cap[c] \in [Users -> Nat \cup {Unset}]
         /\ contributor_count[c] \in Nat
         /\ campaign[c].max_contribution_per_user \in Nat
         /\ campaign[c].start_time \in Nat /\ campaign[c].deadline \in Nat
         /\ reserve[c] \in Reserves
         /\ held[c] \in [Tokens -> Int]
         /\ Total(contribution[c]) \in Nat
<1>1. contribution[c] \in [Users -> Nat] /\ lifetime[c] \in [Users -> Nat]
  BY DEF TypeOK
<1>2. Total(contribution[c]) \in Nat
  BY <1>1, TotalType
<1>3. /\ campaign[c].max_contribution_per_user \in Nat
      /\ campaign[c].start_time \in Nat /\ campaign[c].deadline \in Nat
  <2>1. campaign[c] \in CampaignRecords
    BY DEF TypeOK
  <2>2. QED
    BY <2>1 DEF CampaignRecords
<1>4. QED
  BY <1>1, <1>2, <1>3 DEF TypeOK

\* Whole days come out of the division by the length of a day unchanged.
LEMMA WholeDays ==
  ASSUME NEW n \in Nat, NEW s \in Nat \ {0}
  PROVE  (n * s) \div s = n
<1> DEFINE p == n * s
           q == p \div s
           r == p % s
<1>1. p \in Nat
  OBVIOUS
<1>2. q \in Int /\ r \in 0..(s - 1) /\ p = s * q + r
  BY <1>1
<1>3. s * (n - q) = r
  BY <1>2
<1>4. CASE n > q
  <2>1. s * (n - q) >= s
    BY <1>2, <1>4
  <2>2. QED
    BY <1>2, <1>3, <2>1
<1>5. CASE n < q
  <2>1. s * (n - q) <= 0 - s
    BY <1>2, <1>5
  <2>2. QED
    BY <1>2, <1>3, <2>1
<1>6. QED
  BY <1>2, <1>4, <1>5

-----------------------------------------------------------------------------
(* The actions.                                                            *)

\* init: nothing is on record.
LEMMA LedgerInit == ASSUME Init PROVE LedgerInv
<1> SUFFICES ASSUME NEW c \in CampaignIds PROVE LedgerAt(c)
  BY DEF LedgerInv
<1>1. /\ campaign[c] = NoCampaign /\ contribution[c] = [u \in Users |-> 0]
      /\ lifetime[c] = [u \in Users |-> 0] /\ contributor_count[c] = 0
      /\ personal_cap[c] = [u \in Users |-> Unset]
      /\ held[c] = [t \in Tokens |-> 0]
  BY DEF Init
<1>2. TokenOf(c) \in Tokens
  BY TypeInit, TokenOfType
<1>3. Backers(c) = {}
  BY <1>1 DEF Backers
<1>4. Cardinality(Backers(c)) = 0
  BY <1>3, FS_EmptySet
<1>5. CapsAt(c)
  BY <1>1 DEF CapsAt, NoCampaign
<1>6. DurationAt(c)
  <2>1. campaign[c].deadline = campaign[c].start_time + 0 * SECONDS_PER_DAY
    BY <1>1 DEF NoCampaign
  <2>2. 0 \in 0..CAMPAIGN_DURATION_MAX_DAYS
    OBVIOUS
  <2>3. QED
    BY <2>1, <2>2 DEF DurationAt
<1>7. CustodyAt(c)
  <2>1. Total(contribution[c]) = 0
    BY <1>1, TotalZero
  <2>2. QED
    BY <1>1, <1>2, <2>1 DEF CustodyAt, Outstanding, NoCampaign
<1>8. QED
  BY <1>1, <1>4, <1>5, <1>6, <1>7 DEF LedgerAt

\* create_campaign: nothing was ever paid for the new id.
LEMMA LedgerCreate ==
  ASSUME Base, LedgerInv, NEW u \in Creators, NEW goal \in Goals,
         NEW days \in Durations, NEW cap \in UserCaps,
         NEW tok \in Tokens \cup {None}, create_campaign(u, goal, days, cap, tok),
         TypeOK'
  PROVE  LedgerInv'
<1>0. PICK d \in CampaignIds : d = campaign_count + 1
  BY DEF create_campaign
<1>1. /\ ~Created(d) /\ days \in 1..duration_cap
      /\ UNCHANGED <<platform_token, contribution, lifetime, personal_cap,
                     contributor_count, held, milestone_claimed, reserve>>
  BY <1>0 DEF create_campaign, Created, Base, TypeOK
<1>2. \A c \in CampaignIds \ {d} : campaign'[c] = campaign[c]
  BY <1>0 DEF create_campaign, Base, TypeOK
<1>3. /\ campaign'[d].start_time = now
      /\ campaign'[d].deadline = now + days * SECONDS_PER_DAY
      /\ ~campaign'[d].funds_withdrawn
      /\ campaign'[d].max_contribution_per_user \in Nat
  BY <1>0 DEF create_campaign, Base, TypeOK
<1>4. /\ contribution[d] = [v \in Users |-> 0] /\ lifetime[d] = [v \in Users |-> 0]
      /\ held[d] = [t \in Tokens |-> 0]
  BY <1>1 DEF Base, MoneyInv, FundingInv, Untouched
<1>5. contributor_count'[d] = Cardinality(Backers(d)')
  <2>1. Backers(d)' = Backers(d)
    BY <1>1 DEF Backers
  <2>2. QED
    BY <1>1, <2>1 DEF LedgerInv, LedgerAt
<1>6. CapsAt(d)'
  <2>1. personal_cap[d] \in [Users -> Nat \cup {Unset}]
    BY LedgerTypes DEF Base
  <2>2. QED
    BY <1>1, <1>3, <1>4, <2>1 DEF CapsAt
<1>7. DurationAt(d)'
  <2>1. days \in 0..CAMPAIGN_DURATION_MAX_DAYS
    BY <1>1 DEF Base, TypeOK
  <2>2. QED
    BY <1>3, <2>1 DEF DurationAt
<1>8. CustodyAt(d)'
  <2>1. TokenOf(d)' \in Tokens
    <3>1. campaign'[d] \in CampaignRecords /\ platform_token' \in Tokens
      BY DEF TypeOK
    <3>2. campaign'[d].token \in Tokens \cup {None}
      BY <3>1 DEF CampaignRecords
    <3>3. QED
      BY <3>1, <3>2 DEF TokenOf
  <2>2. Total(contribution'[d]) = 0
    BY <1>1, <1>4, TotalZero
  <2>3. held'[d][TokenOf(d)'] = 0
    BY <1>1, <1>4, <2>1
  <2>4. QED
    BY <1>3, <2>2, <2>3 DEF CustodyAt, Outstanding
<1>9. LedgerAt(d)'
  BY <1>5, <1>6, <1>7, <1>8 DEF LedgerAt
<1>10. QED
  BY <1>1, <1>2, <1>9, OneCampaign

\* extend_campaign_deadline: the days of the extension are whole days too.
LEMMA LedgerExtend ==
  ASSUME Base, LedgerInv, NEW d \in CampaignIds, NEW days \in Extensions,
         extend_campaign_deadline(d, days)
  PROVE  LedgerInv'
<1> DEFINE new_deadline == campaign[d].deadline + days * SECONDS_PER_DAY
<1>1. /\ campaign' = [campaign EXCEPT ![d] = [campaign[d] EXCEPT
                         !.deadline = new_deadline, !.deadline_extended = TRUE]]
      /\ DurationFits(d, new_deadline)
      /\ UNCHANGED <<platform_token, contribution, lifetime, personal_cap,
                     contributor_count, held, milestone_claimed, reserve>>
  BY DEF extend_campaign_deadline, Base, TypeOK
<1>2. campaign[d] \in CampaignRecords /\ d \in DOMAIN campaign
  BY DEF Base, TypeOK
<1>3. /\ campaign'[d].start_time = campaign[d].start_time
      /\ campaign'[d].deadline = new_deadline
      /\ campaign'[d].funds_withdrawn = campaign[d].funds_withdrawn
      /\ campaign'[d].max_contribution_per_user = campaign[d].max_contribution_per_user
      /\ campaign'[d].token = campaign[d].token
  BY <1>1, <1>2 DEF CampaignRecords
<1>4. LedgerAt(d)
  BY DEF LedgerInv
<1>5. DurationAt(d)'
  <2>1. PICK k \in 0..CAMPAIGN_DURATION_MAX_DAYS :
          campaign[d].deadline = campaign[d].start_time + k * SECONDS_PER_DAY
    BY <1>4 DEF LedgerAt, DurationAt
  <2>2. campaign[d].start_time \in Nat /\ k \in Nat /\ days \in Nat
    BY LedgerTypes DEF Base
  <2> DEFINE n == k + days
             total == n * SECONDS_PER_DAY
  <2>3. n \in Nat /\ total \in Nat /\ total = k * SECONDS_PER_DAY + days * SECONDS_PER_DAY
    BY <2>2
  <2>4. new_deadline = campaign[d].start_time + total
    BY <2>1, <2>2, <2>3
  <2>5. total \div SECONDS_PER_DAY = n
    BY <2>3, WholeDays
  <2>6. new_deadline - campaign[d].start_time = total
    BY <2>2, <2>3, <2>4
  <2>7. n <= CAMPAIGN_DURATION_MAX_DAYS
    BY <1>1, <2>5, <2>6 DEF DurationFits
  <2>8. n \in 0..CAMPAIGN_DURATION_MAX_DAYS
    BY <2>3, <2>7
  <2>9. QED
    BY <1>3, <2>4, <2>8 DEF DurationAt
<1>6. Backers(d)' = Backers(d) /\ CapsAt(d)'
  BY <1>1, <1>3, <1>4 DEF Backers, CapsAt, LedgerAt
<1>7. CustodyAt(d)'
  BY <1>1, <1>3, <1>4 DEF CustodyAt, LedgerAt, Outstanding, TokenOf
<1>8. LedgerAt(d)'
  BY <1>1, <1>4, <1>5, <1>6, <1>7 DEF LedgerAt
<1>9. \A c \in CampaignIds \ {d} : campaign'[c] = campaign[c]
  BY <1>1, <1>2
<1>10. QED
  BY <1>1, <1>8, <1>9, OneCampaign

\* contribute and batch_contribute: lifetime total and contribution on record are
\* equal as long as contributions are taken, so the count goes up exactly when the
\* first unit of a user comes in.
LEMMA LedgerContribute ==
  ASSUME Base, LedgerInv, NEW d \in CampaignIds, NEW v \in Users,
         NEW amt \in Amounts, CanContribute(d, v, amt), Account(d, v, amt)
  PROVE  LedgerInv'
<1>1. /\ amt \in Nat /\ amt > 0 /\ Created(d) /\ campaign[d].is_active
      /\ ~campaign[d].is_cancelled /\ now <= campaign[d].deadline
      /\ WithinCaps(d, v, amt)
  BY DEF CanContribute, RequireActive
<1>2. /\ campaign' = [campaign EXCEPT ![d] = [campaign[d] EXCEPT
                        !.amount_raised = campaign[d].amount_raised + amt,
                        !.effective_amount_raised =
                           campaign[d].effective_amount_raised + amt]]
      /\ contribution' = [contribution EXCEPT ![d][v] = contribution[d][v] + amt]
      /\ lifetime' = [lifetime EXCEPT ![d][v] = lifetime[d][v] + amt]
      /\ held' = [held EXCEPT ![d][TokenOf(d)] = held[d][TokenOf(d)] + amt]
      /\ UNCHANGED <<platform_token, personal_cap, milestone_claimed, reserve>>
  BY DEF Account, Receive, Base, TypeOK
<1>3. /\ contributor_count' = IF lifetime[d][v] = 0
           THEN [contributor_count EXCEPT ![d] = contributor_count[d] + 1]
           ELSE contributor_count
      /\ d \in DOMAIN contributor_count
  BY DEF Account, Base, TypeOK
<1>4. /\ campaign[d] \in CampaignRecords /\ d \in DOMAIN campaign
      /\ d \in DOMAIN contribution /\ d \in DOMAIN lifetime /\ d \in DOMAIN held
      /\ TokenOf(d) \in Tokens
  BY TokenOfType DEF Base, TypeOK
<1>5. /\ contribution[d] \in [Users -> Nat] /\ lifetime[d] \in [Users -> Nat]
      /\ personal_cap[d] \in [Users -> Nat \cup {Unset}]
      /\ contributor_count[d] \in Nat /\ held[d] \in [Tokens -> Int]
      /\ Total(contribution[d]) \in Nat
      /\ campaign[d].max_contribution_per_user \in Nat
  BY LedgerTypes DEF Base
<1>6. /\ campaign'[d].start_time = campaign[d].start_time
      /\ campaign'[d].deadline = campaign[d].deadline
      /\ campaign'[d].funds_withdrawn = campaign[d].funds_withdrawn
      /\ campaign'[d].max_contribution_per_user = campaign[d].max_contribution_per_user
      /\ campaign'[d].token = campaign[d].token
  BY <1>2, <1>4 DEF CampaignRecords
<1>7. /\ contribution'[d] = [contribution[d] EXCEPT ![v] = contribution[d][v] + amt]
      /\ lifetime'[d] = [lifetime[d] EXCEPT ![v] = lifetime[d][v] + amt]
      /\ held'[d] = [held[d] EXCEPT ![TokenOf(d)] = held[d][TokenOf(d)] + amt]
  BY <1>2, <1>4
<1>8. contribution[d][v] = lifetime[d][v] /\ ~campaign[d].funds_withdrawn
  <2>1. ~Refundable(d)
    BY <1>1, CoreTypes DEF Refundable, Base
  <2>2. QED
    BY <1>1, <2>1, AtCampaign DEF Base
<1>9. LedgerAt(d)
  BY DEF LedgerInv
<1>10. contributor_count'[d] = Cardinality(Backers(d)')
  <2>1. Backers(d)' = Backers(d) \cup {v}
    BY <1>1, <1>5, <1>7 DEF Backers
  <2>2. IsFiniteSet(Backers(d))
    <3>1. Backers(d) \in SUBSET Users
      BY DEF Backers
    <3>2. QED
      BY <3>1, FS_Subset
  <2>3. Cardinality(Backers(d)') = IF v \in Backers(d) THEN Cardinality(Backers(d))
                                   ELSE Cardinality(Backers(d)) + 1
    BY <2>1, <2>2, FS_AddElement
  <2>4. v \in Backers(d) <=> lifetime[d][v] # 0
    BY <1>8 DEF Backers
  <2>5. QED
    BY <1>3, <1>9, <2>3, <2>4 DEF LedgerAt
<1>11. CapsAt(d)'
  <2> SUFFICES ASSUME NEW u \in Users
               PROVE  /\ contribution'[d][u] <= lifetime'[d][u]
                      /\ \/ campaign'[d].max_contribution_per_user = 0
                         \/ lifetime'[d][u] <= campaign'[d].max_contribution_per_user
                      /\ \/ personal_cap'[d][u] = Unset
                         \/ contribution'[d][u] <= personal_cap'[d][u]
    BY DEF CapsAt
  <2>1. CapsAt(d)
    BY <1>9 DEF LedgerAt
  <2>2. CASE u = v
    BY <1>1, <1>2, <1>5, <1>6, <1>7, <1>8, <2>2 DEF WithinCaps
  <2>3. CASE u # v
    BY <1>2, <1>5, <1>6, <1>7, <2>1, <2>3 DEF CapsAt
  <2>4. QED
    BY <2>2, <2>3
<1>12. DurationAt(d)'
  BY <1>6, <1>9 DEF DurationAt, LedgerAt
<1>13. CustodyAt(d)'
  <2>1. contribution[d][v] + amt \in Nat /\ contribution[d][v] \in Nat
    BY <1>1, <1>5
  <2>2. Total(contribution'[d])
          = Total(contribution[d]) - contribution[d][v] + (contribution[d][v] + amt)
    BY <1>5, <1>7, <2>1, TotalUpdate
  <2>3. TokenOf(d)' = TokenOf(d)
    BY <1>2, <1>6 DEF TokenOf
  <2>4. held'[d][TokenOf(d)] = held[d][TokenOf(d)] + amt
    BY <1>4, <1>5, <1>7
  <2>5. milestone_claimed[d] = {} => held[d][TokenOf(d)] = Total(contribution[d])
    BY <1>8, <1>9 DEF LedgerAt, CustodyAt, Outstanding
  <2>6. Outstanding(d)' = Total(contribution'[d])
    BY <1>6, <1>8 DEF Outstanding
  <2>7. QED
    BY <1>1, <1>2, <1>5, <2>1, <2>2, <2>3, <2>4, <2>5, <2>6 DEF CustodyAt
<1>14. LedgerAt(d)'
  BY <1>10, <1>11, <1>12, <1>13 DEF LedgerAt
<1>15. \A c \in CampaignIds \ {d} :
         /\ campaign'[c] = campaign[c] /\ contribution'[c] = contribution[c]
         /\ lifetime'[c] = lifetime[c] /\ held'[c] = held[c]
         /\ contributor_count'[c] = contributor_count[c]
  BY <1>2, <1>3, <1>4
<1>16. QED
  BY <1>2, <1>14, <1>15, OneCampaign

\* claim_refund: whoever gets money back leaves the contributors.
LEMMA LedgerRefund ==
  ASSUME Base, LedgerInv, NEW d \in CampaignIds, NEW v \in Users, claim_refund(d, v)
  PROVE  LedgerInv'
<1>1. /\ Refundable(d) /\ Created(d) /\ contribution[d][v] # 0
      /\ campaign' = [campaign EXCEPT ![d] = [campaign[d] EXCEPT
           !.effective_amount_raised =
              campaign[d].effective_amount_raised - contribution[d][v]]]
      /\ contribution' = [contribution EXCEPT ![d][v] = 0]
      /\ personal_cap' = [personal_cap EXCEPT ![d][v] = Unset]
      /\ contributor_count' = [contributor_count EXCEPT ![d] =
                                 Saturating(contributor_count[d])]
      /\ held' = [held EXCEPT ![d][TokenOf(d)] =
                    held[d][TokenOf(d)] - contribution[d][v]]
      /\ UNCHANGED <<platform_token, lifetime, milestone_claimed, reserve>>
  BY DEF claim_refund, Refundable, EffectiveAfterRefund, Pay, Base, TypeOK
<1>2. /\ campaign[d] \in CampaignRecords /\ d \in DOMAIN campaign
      /\ d \in DOMAIN contribution /\ d \in DOMAIN personal_cap /\ d \in DOMAIN held
      /\ d \in DOMAIN contributor_count /\ TokenOf(d) \in Tokens
  BY TokenOfType DEF Base, TypeOK
<1>3. /\ contribution[d] \in [Users -> Nat] /\ lifetime[d] \in [Users -> Nat]
      /\ personal_cap[d] \in [Users -> Nat \cup {Unset}]
      /\ contributor_count[d] \in Nat /\ held[d] \in [Tokens -> Int]
      /\ Total(contribution[d]) \in Nat
      /\ campaign[d].max_contribution_per_user \in Nat
  BY LedgerTypes DEF Base
<1>4. /\ campaign'[d].start_time = campaign[d].start_time
      /\ campaign'[d].deadline = campaign[d].deadline
      /\ campaign'[d].funds_withdrawn = campaign[d].funds_withdrawn
      /\ campaign'[d].max_contribution_per_user = campaign[d].max_contribution_per_user
      /\ campaign'[d].token = campaign[d].token
  BY <1>1, <1>2 DEF CampaignRecords
<1>5. /\ contribution'[d] = [contribution[d] EXCEPT ![v] = 0]
      /\ personal_cap'[d] = [personal_cap[d] EXCEPT ![v] = Unset]
      /\ held'[d] = [held[d] EXCEPT ![TokenOf(d)] =
                       held[d][TokenOf(d)] - contribution[d][v]]
      /\ contributor_count'[d] = Saturating(contributor_count[d])
  BY <1>1, <1>2
<1>6. LedgerAt(d)
  BY DEF LedgerInv
<1>7. contributor_count'[d] = Cardinality(Backers(d)')
  <2>1. Backers(d)' = Backers(d) \ {v} /\ v \in Backers(d)
    BY <1>1, <1>3, <1>5 DEF Backers
  <2>2. IsFiniteSet(Backers(d))
    <3>1. Backers(d) \in SUBSET Users
      BY DEF Backers
    <3>2. QED
      BY <3>1, FS_Subset
  <2>3. /\ Cardinality(Backers(d)') = Cardinality(Backers(d)) - 1
        /\ Cardinality(Backers(d)') \in Nat
    BY <2>1, <2>2, FS_RemoveElement, FS_CardinalityType
  <2>4. contributor_count[d] = Cardinality(Backers(d))
    BY <1>6 DEF LedgerAt
  <2>5. QED
    BY <1>3, <1>5, <2>3, <2>4 DEF Saturating
<1>8. CapsAt(d)'
  <2>1. CapsAt(d)
    BY <1>6 DEF LedgerAt
  <2>2. QED
    BY <1>1, <1>3, <1>4, <1>5, <2>1 DEF CapsAt
<1>9. DurationAt(d)'
  BY <1>4, <1>6 DEF DurationAt, LedgerAt
<1>10. CustodyAt(d)'
  <2>1. ~campaign[d].funds_withdrawn
    BY <1>1, CoreTypes, AtCampaign DEF Refundable, Base
  <2>2. Total(contribution'[d]) = Total(contribution[d]) - contribution[d][v] + 0
    BY <1>3, <1>5, TotalUpdate
  <2>3. TokenOf(d)' = TokenOf(d)
    BY <1>1, <1>4 DEF TokenOf
  <2>4. held'[d][TokenOf(d)] = held[d][TokenOf(d)] - contribution[d][v]
    BY <1>2, <1>3, <1>5
  <2>5. milestone_claimed[d] = {} => held[d][TokenOf(d)] = Total(contribution[d])
    BY <1>6, <2>1 DEF LedgerAt, CustodyAt, Outstanding
  <2>6. Outstanding(d)' = Total(contribution'[d])
    BY <1>4, <2>1 DEF Outstanding
  <2>7. QED
    BY <1>1, <1>3, <2>2, <2>3, <2>4, <2>5, <2>6 DEF CustodyAt
<1>11. LedgerAt(d)'
  BY <1>7, <1>8, <1>9, <1>10 DEF LedgerAt
<1>12. \A c \in CampaignIds \ {d} :
         /\ campaign'[c] = campaign[c] /\ contribution'[c] = contribution[c]
         /\ personal_cap'[c] = personal_cap[c] /\ held'[c] = held[c]
         /\ contributor_count'[c] = contributor_count[c]
  BY <1>1, <1>2
<1>13. QED
  BY <1>1, <1>11, <1>12, OneCampaign

\* set_personal_cap never goes below the lifetime total; removing a cap frees.
LEMMA LedgerPersonalCap ==
  ASSUME Base, LedgerInv, NEW d \in CampaignIds, NEW v \in Users,
         \/ \E cap \in PersonalCaps : set_personal_cap(d, v, cap)
         \/ remove_personal_cap(d, v)
  PROVE  LedgerInv'
<1>1. PICK x \in Nat \cup {Unset} :
        /\ personal_cap' = [personal_cap EXCEPT ![d][v] = x]
        /\ x # Unset => x >= lifetime[d][v]
  BY DEF set_personal_cap, remove_personal_cap
<1>2. UNCHANGED <<platform_token, campaign, contribution, lifetime, contributor_count,
                  reserve, milestone_claimed, held>>
  BY DEF set_personal_cap, remove_personal_cap
<1>3. /\ contribution[d] \in [Users -> Nat] /\ lifetime[d] \in [Users -> Nat]
      /\ personal_cap[d] \in [Users -> Nat \cup {Unset}] /\ d \in DOMAIN personal_cap
  BY LedgerTypes DEF Base, TypeOK
<1>4. personal_cap'[d] = [personal_cap[d] EXCEPT ![v] = x]
  BY <1>1, <1>3
<1>5. LedgerAt(d)
  BY DEF LedgerInv
<1>6. CapsAt(d)'
  BY <1>1, <1>2, <1>3, <1>4, <1>5 DEF CapsAt, LedgerAt
<1>7. Backers(d)' = Backers(d) /\ DurationAt(d)' /\ CustodyAt(d)'
  BY <1>2, <1>5 DEF Backers, DurationAt, CustodyAt, LedgerAt, TokenOf, Outstanding
<1>8. LedgerAt(d)'
  BY <1>2, <1>5, <1>6, <1>7 DEF LedgerAt
<1>9. \A c \in CampaignIds \ {d} : personal_cap'[c] = personal_cap[c]
  BY <1>1, <1>3
<1>10. QED
  BY <1>2, <1>8, <1>9, OneCampaign

\* The flags and the fee of a campaign are not among the entries related here.
LEMMA LedgerEdit ==
  ASSUME Base, LedgerInv, NEW d \in CampaignIds,
         UNCHANGED <<platform_token, contribution, lifetime, personal_cap,
                     contributor_count, reserve, milestone_claimed, held>>,
         \/ \E b : campaign' = [campaign EXCEPT ![d] =
                                 [campaign[d] EXCEPT !.is_verified = b]]
         \/ \E f : campaign' = [campaign EXCEPT ![d] =
                                 [campaign[d] EXCEPT !.fee_override = f]]
         \/ campaign' = [campaign EXCEPT ![d] = [campaign[d] EXCEPT
                           !.is_cancelled = TRUE, !.is_active = FALSE]]
  PROVE  LedgerInv'
<1>1. campaign[d] \in CampaignRecords /\ d \in DOMAIN campaign
  BY DEF Base, TypeOK
<1>2. /\ campaign'[d].start_time = campaign[d].start_time
      /\ campaign'[d].deadline = campaign[d].deadline
      /\ campaign'[d].funds_withdrawn = campaign[d].funds_withdrawn
      /\ campaign'[d].max_contribution_per_user = campaign[d].max_contribution_per_user
      /\ campaign'[d].token = campaign[d].token
      /\ \A c \in CampaignIds \ {d} : campaign'[c] = campaign[c]
  <2>1. CASE \E b : campaign' = [campaign EXCEPT ![d] =
                                 [campaign[d] EXCEPT !.is_verified = b]]
    BY <1>1, <2>1 DEF CampaignRecords
  <2>2. CASE \E f : campaign' = [campaign EXCEPT ![d] =
                                 [campaign[d] EXCEPT !.fee_override = f]]
    BY <1>1, <2>2 DEF CampaignRecords
  <2>3. CASE campaign' = [campaign EXCEPT ![d] = [campaign[d] EXCEPT
                           !.is_cancelled = TRUE, !.is_active = FALSE]]
    <3>1. campaign'[d] = [campaign[d] EXCEPT !.is_cancelled = TRUE, !.is_active = FALSE]
      BY <1>1, <2>3
    <3>2. \A c \in CampaignIds \ {d} : campaign'[c] = campaign[c]
      BY <1>1, <2>3
    <3>3. QED
      BY <1>1, <3>1, <3>2 DEF CampaignRecords
  <2>4. QED
    BY <2>1, <2>2, <2>3
<1>3. LedgerAt(d)
  BY DEF LedgerInv
<1>4. Backers(d)' = Backers(d) /\ CapsAt(d)' /\ DurationAt(d)'
  BY <1>2, <1>3 DEF Backers, CapsAt, DurationAt, LedgerAt
<1>5. CustodyAt(d)'
  BY <1>2, <1>3 DEF CustodyAt, LedgerAt, Outstanding, TokenOf
<1>6. LedgerAt(d)'
  BY <1>3, <1>4, <1>5 DEF LedgerAt
<1>7. QED
  BY <1>2, <1>6, OneCampaign

\* What withdraw_funds computes: the fee and the reserve, each rounded up, leave a
\* natural amount for the creator, and nothing is lost on the way.
LEMMA WithdrawSplit ==
  ASSUME Base, NEW d \in CampaignIds, Created(d)
  PROVE  LET eff == campaign[d].effective_amount_raised
             fee == CeilBps(eff, FeeOf(d))
             res == CeilBps(eff - fee, campaign[d].vesting_bps)
         IN  /\ eff \in Nat /\ fee \in 0..eff /\ res \in 0..(eff - fee)
             /\ fee + CreatorAmount(eff - fee, res) = eff - res
<1> DEFINE eff == campaign[d].effective_amount_raised
           fee == CeilBps(eff, FeeOf(d))
           res == CeilBps(eff - fee, campaign[d].vesting_bps)
<1>1. eff \in Nat
  BY AtCampaign, LedgerTypes DEF Base
<1>2. FeeOf(d) \in 0..BPS_DENOMINATOR
  <2>1. FeeOf(d) \in 0..PLATFORM_FEE_MAX_BPS
    BY FeeOfType DEF Base
  <2>2. QED
    BY <2>1, BpsDenominatorNat
<1>3. campaign[d].vesting_bps \in 0..BPS_DENOMINATOR
  <2>1. campaign[d] \in CampaignRecords
    BY DEF Base, TypeOK
  <2>2. QED
    BY <2>1 DEF CampaignRecords
<1> HIDE DEF eff
<1>4. fee \in 0..eff
  BY <1>1, <1>2, CeilBpsBounds
<1> HIDE DEF fee
<1>5. eff - fee \in Nat
  BY <1>1, <1>4
<1>6. res \in 0..(eff - fee)
  BY <1>3, <1>5, CeilBpsBounds
<1> HIDE DEF res
<1>7. fee + CreatorAmount(eff - fee, res) = eff - res
  BY <1>1, <1>4, <1>6 DEF CreatorAmount
<1>8. QED
  BY <1>1, <1>4, <1>6, <1>7 DEF eff, fee, res

\* withdraw_funds leaves exactly the reserve behind.
LEMMA LedgerWithdraw ==
  ASSUME Base, LedgerInv, NEW d \in CampaignIds, withdraw_funds(d)
  PROVE  LedgerInv'
<1> DEFINE eff == campaign[d].effective_amount_raised
           fee == CeilBps(eff, FeeOf(d))
           res == CeilBps(eff - fee, campaign[d].vesting_bps)
           paid == fee + CreatorAmount(eff - fee, res)
<1>1. /\ Created(d) /\ ~campaign[d].funds_withdrawn
      /\ campaign' = [campaign EXCEPT ![d] =
           [campaign[d] EXCEPT !.funds_withdrawn = TRUE, !.is_active = FALSE]]
      /\ held' = [held EXCEPT ![d][TokenOf(d)] = held[d][TokenOf(d)] - paid]
      /\ UNCHANGED <<platform_token, contribution, lifetime, personal_cap,
                     contributor_count, milestone_claimed>>
  BY DEF withdraw_funds, Pay, Base, TypeOK
<1>2. \E t : reserve' = IF res > 0
                THEN [reserve EXCEPT ![d] =
                       [amount |-> res, release_timestamp |-> t, released |-> FALSE]]
                ELSE reserve
  BY DEF withdraw_funds
<1>3. /\ campaign[d] \in CampaignRecords /\ d \in DOMAIN campaign
      /\ d \in DOMAIN held /\ d \in DOMAIN reserve /\ TokenOf(d) \in Tokens
      /\ held[d] \in [Tokens -> Int]
  BY TokenOfType DEF Base, TypeOK
<1>4. eff \in Nat /\ res \in Nat /\ paid = eff - res
  BY <1>1, WithdrawSplit
<1>5. eff = Total(contribution[d]) /\ reserve[d] = NoReserve
  BY <1>1, AtCampaign DEF Base
<1> HIDE DEF eff, fee, res, paid
<1>6. /\ campaign'[d].start_time = campaign[d].start_time
      /\ campaign'[d].deadline = campaign[d].deadline
      /\ campaign'[d].funds_withdrawn
      /\ campaign'[d].max_contribution_per_user = campaign[d].max_contribution_per_user
      /\ campaign'[d].token = campaign[d].token
  BY <1>1, <1>3 DEF CampaignRecords
<1>7. LedgerAt(d)
  BY DEF LedgerInv
<1>8. Backers(d)' = Backers(d) /\ CapsAt(d)' /\ DurationAt(d)'
  BY <1>1, <1>6, <1>7 DEF Backers, CapsAt, DurationAt, LedgerAt
<1>9. CustodyAt(d)'
  <2>1. reserve'[d].amount = res /\ ~reserve'[d].released
    BY <1>2, <1>3, <1>4, <1>5 DEF NoReserve
  <2>2. Outstanding(d)' = res
    BY <1>6, <2>1 DEF Outstanding
  <2>3. TokenOf(d)' = TokenOf(d)
    BY <1>1, <1>6 DEF TokenOf
  <2>4. held'[d][TokenOf(d)] = held[d][TokenOf(d)] - paid
    BY <1>1, <1>3
  <2>5. milestone_claimed[d] = {} => held[d][TokenOf(d)] = eff
    BY <1>1, <1>5, <1>7 DEF LedgerAt, CustodyAt, Outstanding
  <2>6. QED
    BY <1>1, <1>4, <2>2, <2>3, <2>4, <2>5 DEF CustodyAt
<1>10. LedgerAt(d)'
  BY <1>1, <1>7, <1>8, <1>9 DEF LedgerAt
<1>11. \A c \in CampaignIds \ {d} :
         campaign'[c] = campaign[c] /\ held'[c] = held[c] /\ reserve'[c] = reserve[c]
  BY <1>1, <1>2, <1>3
<1>12. QED
  BY <1>1, <1>10, <1>11, OneCampaign

\* withdraw_reserve pays the rest.
LEMMA LedgerReserve ==
  ASSUME Base, LedgerInv, NEW d \in CampaignIds, withdraw_reserve(d)
  PROVE  LedgerInv'
<1>1. /\ Created(d) /\ campaign[d].funds_withdrawn /\ ~reserve[d].released
      /\ reserve' = [reserve EXCEPT ![d] = [reserve[d] EXCEPT !.released = TRUE]]
      /\ held' = [held EXCEPT ![d][TokenOf(d)] =
                    held[d][TokenOf(d)] - reserve[d].amount]
      /\ UNCHANGED <<platform_token, campaign, contribution, lifetime, personal_cap,
                     contributor_count, milestone_claimed>>
  BY DEF withdraw_reserve, Pay, Base, TypeOK
<1>2. /\ d \in DOMAIN held /\ d \in DOMAIN reserve /\ TokenOf(d) \in Tokens
      /\ held[d] \in [Tokens -> Int] /\ reserve[d] \in Reserves
  BY TokenOfType DEF Base, TypeOK
<1>3. LedgerAt(d)
  BY DEF LedgerInv
<1>4. Backers(d)' = Backers(d) /\ CapsAt(d)' /\ DurationAt(d)'
  BY <1>1, <1>3 DEF Backers, CapsAt, DurationAt, LedgerAt
<1>5. CustodyAt(d)'
  <2>1. reserve'[d].released /\ reserve[d].amount \in Nat
    BY <1>1, <1>2 DEF Reserves
  <2>2. Outstanding(d)' = 0
    BY <1>1, <2>1 DEF Outstanding
  <2>3. TokenOf(d)' = TokenOf(d)
    BY <1>1 DEF TokenOf
  <2>4. held'[d][TokenOf(d)] = held[d][TokenOf(d)] - reserve[d].amount
    BY <1>1, <1>2
  <2>5. milestone_claimed[d] = {} => held[d][TokenOf(d)] = reserve[d].amount
    BY <1>1, <1>3 DEF LedgerAt, CustodyAt, Outstanding
  <2>6. QED
    BY <1>1, <2>1, <2>2, <2>3, <2>4, <2>5 DEF CustodyAt
<1>6. LedgerAt(d)'
  BY <1>1, <1>3, <1>4, <1>5 DEF LedgerAt
<1>7. \A c \in CampaignIds \ {d} : held'[c] = held[c] /\ reserve'[c] = reserve[c]
  BY <1>1, <1>2
<1>8. QED
  BY <1>1, <1>6, <1>7, OneCampaign

\* claim_milestone: the rounding of the claims is not tracked here.
LEMMA LedgerClaim ==
  ASSUME Base, LedgerInv, NEW d \in CampaignIds, NEW m \in MilestoneIds,
         claim_milestone(d, m)
  PROVE  LedgerInv'
<1>1. /\ milestone_claimed' = [milestone_claimed EXCEPT ![d] =
                                 milestone_claimed[d] \cup {m}]
      /\ UNCHANGED <<platform_token, contribution, lifetime, personal_cap,
                     contributor_count, reserve>>
  BY DEF claim_milestone, Base, TypeOK
<1>2. PICK amt : held' = [held EXCEPT ![d][TokenOf(d)] = amt]
  BY DEF claim_milestone, Pay
<1>3. campaign' = IF LastMilestone(d, m)
                  THEN [campaign EXCEPT ![d] =
                         [campaign[d] EXCEPT !.funds_withdrawn = TRUE, !.is_active = FALSE]]
                  ELSE campaign
  BY DEF claim_milestone, Base, TypeOK
<1>4. /\ campaign[d] \in CampaignRecords /\ d \in DOMAIN campaign
      /\ d \in DOMAIN held /\ d \in DOMAIN milestone_claimed
  BY DEF Base, TypeOK
<1>5. /\ campaign'[d].start_time = campaign[d].start_time
      /\ campaign'[d].deadline = campaign[d].deadline
      /\ campaign'[d].max_contribution_per_user = campaign[d].max_contribution_per_user
  BY <1>3, <1>4 DEF CampaignRecords
<1>6. LedgerAt(d)
  BY DEF LedgerInv
<1>7. Backers(d)' = Backers(d) /\ CapsAt(d)' /\ DurationAt(d)'
  BY <1>1, <1>5, <1>6 DEF Backers, CapsAt, DurationAt, LedgerAt
<1>8. CustodyAt(d)'
  BY <1>1, <1>4 DEF CustodyAt
<1>9. LedgerAt(d)'
  BY <1>1, <1>6, <1>7, <1>8 DEF LedgerAt
<1>10. \A c \in CampaignIds \ {d} :
         /\ campaign'[c] = campaign[c] /\ held'[c] = held[c]
         /\ milestone_claimed'[c] = milestone_claimed[c]
  BY <1>1, <1>2, <1>3, <1>4
<1>11. QED
  BY <1>1, <1>9, <1>10, OneCampaign

\* Nothing the invariant is about changes.
LEMMA LedgerQuiet ==
  ASSUME LedgerInv,
         UNCHANGED <<platform_token, campaign, contribution, lifetime, personal_cap,
                     contributor_count, reserve, milestone_claimed, held>>
  PROVE  LedgerInv'
BY SameLedger DEF LedgerInv

\* Every step keeps the ledger.
LEMMA LedgerNext == ASSUME Base, LedgerInv, [Next]_vars, TypeOK' PROVE LedgerInv'
<1>1. CASE Tick
  BY <1>1, LedgerQuiet DEF Tick
<1>2. CASE CreatorNext
  <2>1. CASE \E u \in Creators, goal \in Goals, days \in Durations,
               cap \in UserCaps, tok \in Tokens \cup {None} :
                 create_campaign(u, goal, days, cap, tok)
    BY <2>1, LedgerCreate
  <2>2. ASSUME NEW c \in CampaignIds, update_campaign_description(c) PROVE LedgerInv'
    <3>1. campaign' = [campaign EXCEPT ![c] = [campaign[c] EXCEPT !.is_verified = FALSE]]
      BY <2>2 DEF update_campaign_description, Base, TypeOK
    <3>2. QED
      BY <2>2, <3>1, LedgerEdit DEF update_campaign_description
  <2>3. ASSUME NEW c \in CampaignIds,
               \E days \in Extensions : extend_campaign_deadline(c, days)
        PROVE  LedgerInv'
    BY <2>3, LedgerExtend
  <2>4. ASSUME NEW c \in CampaignIds, cancel_campaign(c) PROVE LedgerInv'
    <3>1. campaign' = [campaign EXCEPT ![c] = [campaign[c] EXCEPT
                         !.is_cancelled = TRUE, !.is_active = FALSE]]
      BY <2>4 DEF cancel_campaign, Cancel, Base, TypeOK
    <3>2. QED
      BY <2>4, <3>1, LedgerEdit DEF cancel_campaign, Cancel
  <2>5. ASSUME NEW c \in CampaignIds, withdraw_funds(c) \/ withdraw_reserve(c)
        PROVE  LedgerInv'
    BY <2>5, LedgerWithdraw, LedgerReserve
  <2>6. ASSUME NEW c \in CampaignIds, NEW plan \in Plans, set_milestones(c, plan)
        PROVE  LedgerInv'
    BY <2>6, LedgerQuiet DEF set_milestones
  <2>7. ASSUME NEW c \in CampaignIds, NEW m \in MilestoneIds, claim_milestone(c, m)
        PROVE  LedgerInv'
    BY <2>7, LedgerClaim
  <2>8. QED
    BY <1>2, <2>1, <2>2, <2>3, <2>4, <2>5, <2>6, <2>7 DEF CreatorNext
<1>3. CASE BackerNext
  <2> SUFFICES ASSUME NEW c \in CampaignIds, NEW u \in Users,
                      \/ \E amt \in Amounts : \/ contribute(c, u, amt)
                                              \/ batch_contribute(c, u, amt)
                      \/ claim_refund(c, u)
                      \/ \E cap \in PersonalCaps : set_personal_cap(c, u, cap)
                      \/ remove_personal_cap(c, u)
               PROVE  LedgerInv'
    BY <1>3 DEF BackerNext
  <2>1. CASE \E amt \in Amounts : contribute(c, u, amt) \/ batch_contribute(c, u, amt)
    BY <2>1, LedgerContribute DEF contribute, batch_contribute
  <2>2. CASE claim_refund(c, u)
    BY <2>2, LedgerRefund
  <2>3. CASE \/ \E cap \in PersonalCaps : set_personal_cap(c, u, cap)
             \/ remove_personal_cap(c, u)
    BY <2>3, LedgerPersonalCap
  <2>4. QED
    BY <2>1, <2>2, <2>3
<1>4. CASE AdminNext
  <2>1. ASSUME NEW c \in CampaignIds, verify_campaign(c) PROVE LedgerInv'
    <3>1. campaign' = [campaign EXCEPT ![c] = [campaign[c] EXCEPT !.is_verified = TRUE]]
      BY <2>1 DEF verify_campaign, Base, TypeOK
    <3>2. QED
      BY <2>1, <3>1, LedgerEdit DEF verify_campaign
  <2>2. ASSUME NEW c \in CampaignIds, admin_cancel_campaign(c) PROVE LedgerInv'
    <3>1. campaign' = [campaign EXCEPT ![c] = [campaign[c] EXCEPT
                         !.is_cancelled = TRUE, !.is_active = FALSE]]
      BY <2>2 DEF admin_cancel_campaign, Cancel, Base, TypeOK
    <3>2. QED
      BY <2>2, <3>1, LedgerEdit DEF admin_cancel_campaign, Cancel
  <2>3. ASSUME NEW c \in CampaignIds, NEW m \in MilestoneIds, verify_milestone(c, m)
        PROVE  LedgerInv'
    BY <2>3, LedgerQuiet DEF verify_milestone
  <2>4. ASSUME NEW c \in CampaignIds, NEW fee \in Fees,
               set_campaign_fee_override(c, fee)
        PROVE  LedgerInv'
    <3>1. campaign' = [campaign EXCEPT ![c] = [campaign[c] EXCEPT !.fee_override = fee]]
      BY <2>4 DEF set_campaign_fee_override, Base, TypeOK
    <3>2. QED
      BY <2>4, <3>1, LedgerEdit DEF set_campaign_fee_override, unchangedButConfig
  <2>5. CASE \/ pause \/ unpause
             \/ \E fee \in Fees : update_platform_fee(fee)
             \/ \E v \in Vestings : set_vesting_params(v)
             \/ \E cap \in TxCaps : set_max_contribution_per_transaction(cap)
             \/ \E days \in DurationCaps : set_category_duration_cap(days)
    BY <2>5, LedgerQuiet DEF pause, unpause, update_platform_fee,
         set_vesting_params, set_max_contribution_per_transaction,
         set_category_duration_cap, unchangedButConfig
  <2>6. QED
    BY <1>4, <2>1, <2>2, <2>3, <2>4, <2>5 DEF AdminNext
<1>5. CASE UNCHANGED vars
  BY <1>5, LedgerQuiet DEF vars
<1>6. QED
  BY <1>1, <1>2, <1>3, <1>4, <1>5 DEF Next

-----------------------------------------------------------------------------
(* The theorems about single campaigns.                                    *)

\* The ledger invariant holds in every reachable state.
THEOREM LedgerInvariant == Spec => []LedgerInv
<1>1. Base /\ LedgerInv /\ [Next]_vars /\ TypeOK' => LedgerInv'
  BY LedgerNext
<1>2. QED
  BY <1>1, LedgerInit, Typing, MoneyInvariant, PTL DEF Spec, Base

\* contributor_count is the number of users with a contribution on record, in
\* whatever order they contribute, are refunded and contribute elsewhere.
THEOREM ContributorCounts == Spec => []ContributorCountExact
<1>1. LedgerInv => ContributorCountExact
  BY DEF LedgerInv, LedgerAt, ContributorCountExact, Backers
<1>2. QED
  BY <1>1, LedgerInvariant, PTL

\* contribute, claim_refund, withdraw_funds and withdraw_reserve neither lose nor
\* create a unit: a campaign holds what it owes, for every fee and every reserve.
THEOREM CustodyHolds == Spec => []Custody
<1>1. LedgerInv => Custody
  BY DEF LedgerInv, LedgerAt, Custody, CustodyAt
<1>2. QED
  BY <1>1, LedgerInvariant, PTL

\* What a step adds to a contribution.
TransactionCapped ==
  \A c \in CampaignIds, u \in Users :
    \/ max_contribution_per_transaction = 0
    \/ contribution'[c][u] <= contribution[c][u] + max_contribution_per_transaction

\* Only contribute and batch_contribute add to one, and they look at the cap.
LEMMA TransactionStep == ASSUME TypeOK, [Next]_vars PROVE TransactionCapped
<1>1. \A c \in CampaignIds, u \in Users : contribution[c][u] \in Nat
  BY DEF TypeOK
<1>2. max_contribution_per_transaction \in Nat
  BY DEF TypeOK
<1>3. ASSUME UNCHANGED contribution PROVE TransactionCapped
  BY <1>1, <1>2, <1>3 DEF TransactionCapped
<1>4. ASSUME NEW d \in CampaignIds, NEW v \in Users, NEW amt \in Amounts,
             CanContribute(d, v, amt), Account(d, v, amt)
      PROVE  TransactionCapped
  <2>1. /\ contribution' = [contribution EXCEPT ![d][v] = contribution[d][v] + amt]
        /\ amt \in Nat
        /\ \/ max_contribution_per_transaction = 0
           \/ amt <= max_contribution_per_transaction
    BY <1>4 DEF CanContribute, WithinCaps, Account
  <2>2. QED
    BY <1>1, <1>2, <2>1 DEF TransactionCapped, TypeOK
<1>5. ASSUME NEW d \in CampaignIds, NEW v \in Users, claim_refund(d, v)
      PROVE  TransactionCapped
  <2>1. contribution' = [contribution EXCEPT ![d][v] = 0]
    BY <1>5 DEF claim_refund
  <2>2. QED
    BY <1>1, <1>2, <2>1 DEF TransactionCapped, TypeOK
<1>6. ASSUME NEW d \in CampaignIds, NEW x,
             \/ extend_campaign_deadline(d, x) \/ cancel_campaign(d)
             \/ admin_cancel_campaign(d) \/ withdraw_funds(d) \/ withdraw_reserve(d)
             \/ set_milestones(d, x) \/ claim_milestone(d, x)
      PROVE  UNCHANGED contribution
  BY <1>6 DEF extend_campaign_deadline, cancel_campaign, admin_cancel_campaign, Cancel,
              withdraw_funds, withdraw_reserve, set_milestones, claim_milestone, backerVars
<1>7. ASSUME NEW u, NEW goal, NEW days, NEW cap, NEW tok,
             create_campaign(u, goal, days, cap, tok)
      PROVE  UNCHANGED contribution
  BY <1>7 DEF create_campaign, backerVars
<1>8. Calm => UNCHANGED contribution
  BY DEF Calm
<1>9. QED
  BY <1>3, <1>4, <1>5, <1>6, <1>7, <1>8, StepKinds, Zenon

\* The campaign's cap bounds lifetime totals, the contributor's own cap what is on
\* record, whenever it was set, and the transaction cap what one step adds.
THEOREM CapsHold == Spec => CapsRespected
<1>1. LedgerInv' => TotalsWithinCaps'
  BY DEF LedgerInv, LedgerAt, CapsAt, TotalsWithinCaps
<1>2. TypeOK /\ LedgerInv' /\ [Next]_vars =>
        [/\ TotalsWithinCaps'
         /\ \A c \in CampaignIds, u \in Users :
              \/ max_contribution_per_transaction = 0
              \/ contribution'[c][u]
                   <= contribution[c][u] + max_contribution_per_transaction]_vars
  BY <1>1, TransactionStep DEF TransactionCapped
<1>3. QED
  BY <1>2, LedgerInvariant, Typing, PTL DEF Spec, CapsRespected

\* No campaign runs longer than CAMPAIGN_DURATION_MAX_DAYS, extension included.
THEOREM DeadlinesBounded == Spec => []DeadlineBounded
<1>1. TypeOK /\ LedgerInv => DeadlineBounded
  <2> SUFFICES ASSUME TypeOK, LedgerInv, NEW c \in CampaignIds
               PROVE  campaign[c].deadline - campaign[c].start_time
                        <= CAMPAIGN_DURATION_MAX_DAYS * SECONDS_PER_DAY
    BY DEF DeadlineBounded
  <2>1. PICK k \in 0..CAMPAIGN_DURATION_MAX_DAYS :
          campaign[c].deadline = campaign[c].start_time + k * SECONDS_PER_DAY
    BY DEF LedgerInv, LedgerAt, DurationAt
  <2>2. k * SECONDS_PER_DAY <= CAMPAIGN_DURATION_MAX_DAYS * SECONDS_PER_DAY
    OBVIOUS
  <2>3. PICK x \in Nat, y \in Nat :
          x = k * SECONDS_PER_DAY /\ y = CAMPAIGN_DURATION_MAX_DAYS * SECONDS_PER_DAY
    OBVIOUS
  <2>4. campaign[c].start_time \in Nat /\ campaign[c].deadline = campaign[c].start_time + x
    BY <2>1, <2>3, LedgerTypes
  <2>5. campaign[c].deadline - campaign[c].start_time <= y
    BY <2>2, <2>3, <2>4
  <2>6. QED
    BY <2>3, <2>5
<1>2. QED
  BY <1>1, LedgerInvariant, Typing, PTL

-----------------------------------------------------------------------------
(* The platform counters.                                                  *)

Actives == {c \in CampaignIds : campaign[c].is_active}
Verifieds == {c \in CampaignIds : campaign[c].is_verified}
Cancelleds == {c \in CampaignIds : campaign[c].is_cancelled}

\* Sets of campaigns are finite.
LEMMA CampaignsFinite ==
  /\ IsFiniteSet(CampaignIds)
  /\ IsFiniteSet(Actives) /\ IsFiniteSet(Verifieds) /\ IsFiniteSet(Cancelleds)
<1>1. IsFiniteSet(CampaignIds)
  BY FS_Interval DEF CampaignIds
<1>2. /\ Actives \in SUBSET CampaignIds /\ Verifieds \in SUBSET CampaignIds
      /\ Cancelleds \in SUBSET CampaignIds
  BY DEF Actives, Verifieds, Cancelleds
<1>3. QED
  BY <1>1, <1>2, FS_Subset

\* A counter that goes up with the set it counts.
LEMMA CountUp ==
  ASSUME NEW A, IsFiniteSet(A), NEW d, d \notin A
  PROVE  Cardinality(A \cup {d}) = Cardinality(A) + 1
BY FS_AddElement

\* A counter that goes down with it does not saturate.
LEMMA CountDown ==
  ASSUME NEW A, IsFiniteSet(A), NEW d \in A
  PROVE  Cardinality(A \ {d}) = Saturating(Cardinality(A))
<1>1. /\ Cardinality(A \ {d}) = Cardinality(A) - 1 /\ IsFiniteSet(A \ {d})
  BY FS_RemoveElement
<1>2. Cardinality(A) \in Nat /\ Cardinality(A \ {d}) \in Nat
  BY <1>1, FS_CardinalityType
<1>3. QED
  BY <1>1, <1>2 DEF Saturating

\* The counters, in terms of the sets.
LEMMA CountersBySets ==
  CountersExact <=> /\ active_campaign_count = Cardinality(Actives)
                    /\ verified_campaign_count = Cardinality(Verifieds)
                    /\ cancelled_campaign_count = Cardinality(Cancelleds)
BY DEF CountersExact, Actives, Verifieds, Cancelleds

\* The three flags the counters are about.
SameFlags(r, s) == /\ r.is_active = s.is_active
                   /\ r.is_verified = s.is_verified
                   /\ r.is_cancelled = s.is_cancelled

\* No flag and no counter changes.
LEMMA CountersSame ==
  ASSUME CountersExact, UNCHANGED counterVars,
         \A c \in CampaignIds : SameFlags(campaign'[c], campaign[c])
  PROVE  CountersExact'
<1>1. /\ Actives' = Actives /\ Verifieds' = Verifieds /\ Cancelleds' = Cancelleds
  BY DEF Actives, Verifieds, Cancelleds, SameFlags
<1>2. QED
  BY <1>1, CountersBySets DEF CountersExact, Actives, Verifieds, Cancelleds

\* What an action that changes the flags of one campaign does to the three sets.
LEMMA FlagSets ==
  ASSUME TypeOK, NEW d \in CampaignIds, NEW r, campaign' = [campaign EXCEPT ![d] = r]
  PROVE  /\ Actives' = IF r.is_active THEN Actives \cup {d} ELSE Actives \ {d}
         /\ Verifieds' = IF r.is_verified THEN Verifieds \cup {d} ELSE Verifieds \ {d}
         /\ Cancelleds' = IF r.is_cancelled THEN Cancelleds \cup {d}
                                            ELSE Cancelleds \ {d}
<1>1. \A c \in CampaignIds : campaign'[c] = IF c = d THEN r ELSE campaign[c]
  BY DEF TypeOK
<1>2. QED
  BY <1>1 DEF Actives, Verifieds, Cancelleds

\* create_campaign.
LEMMA CountersCreate ==
  ASSUME Base, CountersExact, NEW u \in Creators, NEW goal \in Goals,
         NEW days \in Durations, NEW cap \in UserCaps,
         NEW tok \in Tokens \cup {None}, create_campaign(u, goal, days, cap, tok)
  PROVE  CountersExact'
<1>0. PICK d \in CampaignIds : d = campaign_count + 1
  BY DEF create_campaign
<1> DEFINE r == campaign'[d]
<1>1. campaign' = [campaign EXCEPT ![d] = r] /\ r.is_active /\ ~r.is_verified /\ ~r.is_cancelled
  BY <1>0 DEF create_campaign, Base, TypeOK
<1> HIDE DEF r
<1>2. ~Created(d)
  BY <1>0 DEF Created, Base, TypeOK
<1>3. campaign[d] = NoCampaign
  BY <1>2 DEF Base, MoneyInv, FundingInv, Untouched
<1>4. d \notin Actives /\ d \notin Verifieds /\ d \notin Cancelleds
  BY <1>3 DEF Actives, Verifieds, Cancelleds, NoCampaign
<1>5. Actives' = Actives \cup {d} /\ Verifieds' = Verifieds /\ Cancelleds' = Cancelleds
  <2>1. /\ Actives' = Actives \cup {d} /\ Verifieds' = Verifieds \ {d}
        /\ Cancelleds' = Cancelleds \ {d}
    BY <1>1, FlagSets DEF Base
  <2>2. QED
    BY <1>4, <2>1
<1>6. Cardinality(Actives') = Cardinality(Actives) + 1
  BY <1>4, <1>5, CampaignsFinite, CountUp
<1>7. /\ active_campaign_count' = active_campaign_count + 1
      /\ UNCHANGED <<verified_campaign_count, cancelled_campaign_count>>
  BY DEF create_campaign
<1>8. QED
  BY <1>5, <1>6, <1>7 DEF CountersExact, Actives, Verifieds, Cancelleds

\* verify_campaign and the revocation by update_campaign_description.
LEMMA CountersVerify ==
  ASSUME Base, CountersExact, NEW d \in CampaignIds,
         verify_campaign(d) \/ update_campaign_description(d)
  PROVE  CountersExact'
<1>1. campaign[d] \in CampaignRecords /\ d \in DOMAIN campaign
  BY DEF Base, TypeOK
<1>2. CASE verify_campaign(d)
  <2> DEFINE r == [campaign[d] EXCEPT !.is_verified = TRUE]
  <2>1. campaign' = [campaign EXCEPT ![d] = r] /\ ~campaign[d].is_verified
    BY <1>2 DEF verify_campaign, Base, TypeOK
  <2>2. /\ r.is_verified /\ r.is_active = campaign[d].is_active
        /\ r.is_cancelled = campaign[d].is_cancelled
    BY <1>1 DEF CampaignRecords
  <2> HIDE DEF r
  <2>3. /\ Actives' = Actives /\ Verifieds' = Verifieds \cup {d}
        /\ Cancelleds' = Cancelleds /\ d \notin Verifieds
    BY <2>1, <2>2, FlagSets DEF Base, Actives, Verifieds, Cancelleds
  <2>4. Cardinality(Verifieds') = Cardinality(Verifieds) + 1
    BY <2>3, CampaignsFinite, CountUp
  <2>5. /\ verified_campaign_count' = verified_campaign_count + 1
        /\ UNCHANGED <<active_campaign_count, cancelled_campaign_count>>
    BY <1>2 DEF verify_campaign
  <2>6. QED
    BY <2>3, <2>4, <2>5 DEF CountersExact, Actives, Verifieds, Cancelleds
<1>3. CASE update_campaign_description(d)
  <2> DEFINE r == [campaign[d] EXCEPT !.is_verified = FALSE]
  <2>1. campaign' = [campaign EXCEPT ![d] = r] /\ campaign[d].is_verified
    BY <1>3 DEF update_campaign_description, Base, TypeOK
  <2>2. /\ ~r.is_verified /\ r.is_active = campaign[d].is_active
        /\ r.is_cancelled = campaign[d].is_cancelled
    BY <1>1 DEF CampaignRecords
  <2> HIDE DEF r
  <2>3. /\ Actives' = Actives /\ Verifieds' = Verifieds \ {d}
        /\ Cancelleds' = Cancelleds /\ d \in Verifieds
    BY <2>1, <2>2, FlagSets DEF Base, Actives, Verifieds, Cancelleds
  <2>4. Cardinality(Verifieds') = Saturating(Cardinality(Verifieds))
    BY <2>3, CampaignsFinite, CountDown
  <2>5. /\ verified_campaign_count' = Saturating(verified_campaign_count)
        /\ UNCHANGED <<active_campaign_count, cancelled_campaign_count>>
    BY <1>3 DEF update_campaign_description
  <2>6. QED
    BY <2>3, <2>4, <2>5 DEF CountersExact, Actives, Verifieds, Cancelleds
<1>4. QED
  BY <1>2, <1>3

\* Both cancellations.
LEMMA CountersCancel ==
  ASSUME Base, CountersExact, NEW d \in CampaignIds, RequireActive(campaign[d]), Cancel(d)
  PROVE  CountersExact'
<1> DEFINE r == [campaign[d] EXCEPT !.is_cancelled = TRUE, !.is_active = FALSE]
<1>1. campaign[d] \in CampaignRecords /\ d \in DOMAIN campaign
  BY DEF Base, TypeOK
<1>2. campaign' = [campaign EXCEPT ![d] = r]
  BY DEF Cancel, Base, TypeOK
<1>3. ~r.is_active /\ r.is_cancelled /\ r.is_verified = campaign[d].is_verified
  BY <1>1 DEF CampaignRecords
<1> HIDE DEF r
<1>4. /\ Actives' = Actives \ {d} /\ Verifieds' = Verifieds
      /\ Cancelleds' = Cancelleds \cup {d} /\ d \in Actives /\ d \notin Cancelleds
  BY <1>2, <1>3, FlagSets DEF Base, Actives, Verifieds, Cancelleds, RequireActive
<1>5. /\ Cardinality(Actives') = Saturating(Cardinality(Actives))
      /\ Cardinality(Cancelleds') = Cardinality(Cancelleds) + 1
  BY <1>4, CampaignsFinite, CountDown, CountUp
<1>6. /\ active_campaign_count' = Saturating(active_campaign_count)
      /\ cancelled_campaign_count' = cancelled_campaign_count + 1
      /\ UNCHANGED verified_campaign_count
  BY DEF Cancel
<1>7. QED
  BY <1>4, <1>5, <1>6 DEF CountersExact, Actives, Verifieds, Cancelleds

\* A payout that closes a campaign: withdraw_funds and the last claim.
LEMMA CountersClose ==
  ASSUME Base, CountersExact, NEW d \in CampaignIds, Created(d),
         ~campaign[d].is_cancelled, ~campaign[d].funds_withdrawn,
         campaign' = [campaign EXCEPT ![d] =
           [campaign[d] EXCEPT !.funds_withdrawn = TRUE, !.is_active = FALSE]],
         active_campaign_count' = Saturating(active_campaign_count),
         UNCHANGED <<verified_campaign_count, cancelled_campaign_count>>
  PROVE  CountersExact'
<1> DEFINE r == [campaign[d] EXCEPT !.funds_withdrawn = TRUE, !.is_active = FALSE]
<1>1. campaign[d] \in CampaignRecords /\ d \in DOMAIN campaign
  BY DEF Base, TypeOK
<1>2. /\ ~r.is_active /\ r.is_cancelled = campaign[d].is_cancelled
      /\ r.is_verified = campaign[d].is_verified
  BY <1>1 DEF CampaignRecords
<1>3. campaign' = [campaign EXCEPT ![d] = r]
  OBVIOUS
<1> HIDE DEF r
<1>4. campaign[d].is_active
  BY AtCampaign DEF Base
<1>5. /\ Actives' = Actives \ {d} /\ Verifieds' = Verifieds
      /\ Cancelleds' = Cancelleds /\ d \in Actives
  BY <1>2, <1>3, <1>4, FlagSets DEF Base, Actives, Verifieds, Cancelleds
<1>6. Cardinality(Actives') = Saturating(Cardinality(Actives))
  BY <1>5, CampaignsFinite, CountDown
<1>7. QED
  BY <1>5, <1>6 DEF CountersExact, Actives, Verifieds, Cancelleds

\* Every step keeps the counters exact.
LEMMA CountersNext == ASSUME Base, CountersExact, [Next]_vars PROVE CountersExact'
<1>0. ASSUME UNCHANGED <<campaign, counterVars>> PROVE CountersExact'
  BY <1>0, CountersSame DEF SameFlags
<1>1. CASE Tick \/ UNCHANGED vars
  BY <1>0, <1>1 DEF Tick, vars
<1>2. CASE CreatorNext
  <2>1. CASE \E u \in Creators, goal \in Goals, days \in Durations,
               cap \in UserCaps, tok \in Tokens \cup {None} :
                 create_campaign(u, goal, days, cap, tok)
    BY <2>1, CountersCreate
  <2>2. ASSUME NEW c \in CampaignIds, update_campaign_description(c)
        PROVE  CountersExact'
    BY <2>2, CountersVerify
  <2>3. ASSUME NEW c \in CampaignIds, NEW days \in Extensions,
               extend_campaign_deadline(c, days)
        PROVE  CountersExact'
    <3>1. PICK x : campaign' = [campaign EXCEPT ![c] = [campaign[c] EXCEPT
                         !.deadline = x, !.deadline_extended = TRUE]]
      BY <2>3 DEF extend_campaign_deadline, Base, TypeOK
    <3>2. campaign[c] \in CampaignRecords /\ c \in DOMAIN campaign
      BY DEF Base, TypeOK
    <3>3. SameFlags(campaign'[c], campaign[c])
      BY <3>1, <3>2 DEF SameFlags, CampaignRecords
    <3>4. \A e \in CampaignIds : SameFlags(campaign'[e], campaign[e])
      BY <3>1, <3>2, <3>3 DEF SameFlags
    <3>5. QED
      BY <2>3, <3>4, CountersSame DEF extend_campaign_deadline
  <2>4. ASSUME NEW c \in CampaignIds, cancel_campaign(c) PROVE CountersExact'
    BY <2>4, CountersCancel DEF cancel_campaign
  <2>5. ASSUME NEW c \in CampaignIds, withdraw_funds(c) PROVE CountersExact'
    <3>1. /\ campaign' = [campaign EXCEPT ![c] =
               [campaign[c] EXCEPT !.funds_withdrawn = TRUE, !.is_active = FALSE]]
      BY <2>5 DEF withdraw_funds, Base, TypeOK
    <3>2. QED
      BY <2>5, <3>1, CountersClose DEF withdraw_funds
  <2>6. ASSUME NEW c \in CampaignIds, withdraw_reserve(c) PROVE CountersExact'
    BY <1>0, <2>6 DEF withdraw_reserve
  <2>7. ASSUME NEW c \in CampaignIds, NEW plan \in Plans, set_milestones(c, plan)
        PROVE  CountersExact'
    BY <1>0, <2>7 DEF set_milestones
  <2>8. ASSUME NEW c \in CampaignIds, NEW m \in MilestoneIds, claim_milestone(c, m)
        PROVE  CountersExact'
    <3>1. CASE LastMilestone(c, m)
      <4>1. campaign' = [campaign EXCEPT ![c] =
               [campaign[c] EXCEPT !.funds_withdrawn = TRUE, !.is_active = FALSE]]
        BY <2>8, <3>1 DEF claim_milestone, Base, TypeOK
      <4>2. QED
        BY <2>8, <3>1, <4>1, CountersClose DEF claim_milestone
    <3>2. CASE ~LastMilestone(c, m)
      BY <1>0, <2>8, <3>2 DEF claim_milestone
    <3>3. QED
      BY <3>1, <3>2
  <2>9. QED
    BY <1>2, <2>1, <2>2, <2>3, <2>4, <2>5, <2>6, <2>7, <2>8 DEF CreatorNext
<1>3. CASE BackerNext
  <2> SUFFICES ASSUME NEW c \in CampaignIds, NEW u \in Users,
                      \/ \E amt \in Amounts : \/ contribute(c, u, amt)
                                              \/ batch_contribute(c, u, amt)
                      \/ claim_refund(c, u)
                      \/ \E cap \in PersonalCaps : set_personal_cap(c, u, cap)
                      \/ remove_personal_cap(c, u)
               PROVE  CountersExact'
    BY <1>3 DEF BackerNext
  <2>1. campaign[c] \in CampaignRecords /\ c \in DOMAIN campaign
    BY DEF Base, TypeOK
  <2>2. CASE \E amt \in Amounts : contribute(c, u, amt) \/ batch_contribute(c, u, amt)
    <3>1. PICK x, y : campaign' = [campaign EXCEPT ![c] = [campaign[c] EXCEPT
                         !.amount_raised = x, !.effective_amount_raised = y]]
      BY <2>2 DEF contribute, batch_contribute, Account, Base, TypeOK
    <3>2. SameFlags(campaign'[c], campaign[c])
      BY <2>1, <3>1 DEF SameFlags, CampaignRecords
    <3>3. \A e \in CampaignIds : SameFlags(campaign'[e], campaign[e])
      BY <2>1, <3>1, <3>2 DEF SameFlags
    <3>4. QED
      BY <2>2, <3>3, CountersSame DEF contribute, batch_contribute, Account
  <2>3. CASE claim_refund(c, u)
    <3>1. PICK y : campaign' = [campaign EXCEPT ![c] =
                         [campaign[c] EXCEPT !.effective_amount_raised = y]]
      BY <2>3 DEF claim_refund, Base, TypeOK
    <3>2. SameFlags(campaign'[c], campaign[c])
      BY <2>1, <3>1 DEF SameFlags, CampaignRecords
    <3>3. \A e \in CampaignIds : SameFlags(campaign'[e], campaign[e])
      BY <2>1, <3>1, <3>2 DEF SameFlags
    <3>4. QED
      BY <2>3, <3>3, CountersSame DEF claim_refund
  <2>4. CASE \/ \E cap \in PersonalCaps : set_personal_cap(c, u, cap)
             \/ remove_personal_cap(c, u)
    BY <1>0, <2>4 DEF set_personal_cap, remove_personal_cap
  <2>5. QED
    BY <2>2, <2>3, <2>4
<1>4. CASE AdminNext
  <2>1. ASSUME NEW c \in CampaignIds, verify_campaign(c) PROVE CountersExact'
    BY <2>1, CountersVerify
  <2>2. ASSUME NEW c \in CampaignIds, admin_cancel_campaign(c) PROVE CountersExact'
    BY <2>2, CountersCancel DEF admin_cancel_campaign
  <2>3. ASSUME NEW c \in CampaignIds, NEW m \in MilestoneIds, verify_milestone(c, m)
        PROVE  CountersExact'
    BY <1>0, <2>3 DEF verify_milestone
  <2>4. ASSUME NEW c \in CampaignIds, NEW fee \in Fees,
               set_campaign_fee_override(c, fee)
        PROVE  CountersExact'
    <3>1. campaign' = [campaign EXCEPT ![c] = [campaign[c] EXCEPT !.fee_override = fee]]
      BY <2>4 DEF set_campaign_fee_override, Base, TypeOK
    <3>2. campaign[c] \in CampaignRecords /\ c \in DOMAIN campaign
      BY DEF Base, TypeOK
    <3>3. SameFlags(campaign'[c], campaign[c])
      BY <3>1, <3>2 DEF SameFlags, CampaignRecords
    <3>4. \A e \in CampaignIds : SameFlags(campaign'[e], campaign[e])
      BY <3>1, <3>2, <3>3 DEF SameFlags
    <3>5. QED
      BY <2>4, <3>4, CountersSame DEF set_campaign_fee_override, unchangedButConfig
  <2>5. CASE \/ pause \/ unpause
             \/ \E fee \in Fees : update_platform_fee(fee)
             \/ \E v \in Vestings : set_vesting_params(v)
             \/ \E cap \in TxCaps : set_max_contribution_per_transaction(cap)
             \/ \E days \in DurationCaps : set_category_duration_cap(days)
    BY <1>0, <2>5 DEF pause, unpause, update_platform_fee,
         set_vesting_params, set_max_contribution_per_transaction,
         set_category_duration_cap, unchangedButConfig
  <2>6. QED
    BY <1>4, <2>1, <2>2, <2>3, <2>4, <2>5 DEF AdminNext
<1>5. QED
  BY <1>1, <1>2, <1>3, <1>4 DEF Next

\* The platform counters are what the campaigns' flags say: no order of creations,
\* verifications, edits, cancellations and payouts makes a decrement saturate.
THEOREM CountersHold == Spec => []CountersExact
<1>1. Init => CountersExact
  <2> SUFFICES ASSUME Init PROVE CountersExact
    OBVIOUS
  <2>1. \A c \in CampaignIds : campaign[c] = NoCampaign
    BY DEF Init
  <2>2. Actives = {} /\ Verifieds = {} /\ Cancelleds = {}
    BY <2>1 DEF Actives, Verifieds, Cancelleds, NoCampaign
  <2>3. QED
    BY <2>2, FS_EmptySet, CountersBySets DEF Init
<1>2. Base /\ CountersExact /\ [Next]_vars => CountersExact'
  BY CountersNext
<1>3. QED
  BY <1>1, <1>2, Typing, MoneyInvariant, PTL DEF Spec, Base

-----------------------------------------------------------------------------
(* total_raised_global.                                                    *)

AllHeld == [p \in CampaignIds \X Tokens |-> held[p[1]][p[2]]]

NoneCancelled == \A c \in CampaignIds : ~campaign[c].is_cancelled

\* No campaign returns from cancellation, and neither side moves.
LEMMA TotalSame ==
  ASSUME TotalRaisedExact, UNCHANGED <<total_raised, held>>,
         NoneCancelled' => NoneCancelled
  PROVE  TotalRaisedExact'
<1>1. AllHeld' = AllHeld
  BY DEF AllHeld
<1>2. QED
  BY <1>1 DEF TotalRaisedExact, NoneCancelled, AllHeld

\* A transfer of amt into the campaign that both sides record.
LEMMA TotalTransfer ==
  ASSUME TypeOK, TotalRaisedExact, NEW d \in CampaignIds, NEW amt \in Int,
         held' = [held EXCEPT ![d][TokenOf(d)] = held[d][TokenOf(d)] + amt],
         ~campaign[d].is_cancelled => total_raised' = total_raised + amt,
         \A c \in CampaignIds : campaign'[c].is_cancelled = campaign[c].is_cancelled
  PROVE  TotalRaisedExact'
<1> DEFINE t == TokenOf(d)
           S == CampaignIds \X Tokens
<1>1. t \in Tokens /\ held \in [CampaignIds -> [Tokens -> Int]]
  BY TokenOfType DEF TypeOK
<1>2. held' = [held EXCEPT ![d][t] = held[d][t] + amt]
  OBVIOUS
<1> HIDE DEF t
<1>3. held[d][t] \in Int /\ held[d][t] + amt \in Int
  BY <1>1
<1>4. AllHeld \in [S -> Int] /\ <<d, t>> \in S /\ AllHeld[<<d, t>>] = held[d][t]
  BY <1>1 DEF AllHeld
<1>5. AllHeld' = [AllHeld EXCEPT ![<<d, t>>] = held[d][t] + amt]
  <2>1. \A c \in CampaignIds, s \in Tokens :
          held'[c][s] = IF c = d /\ s = t THEN held[d][t] + amt ELSE held[c][s]
    BY <1>1, <1>2
  <2>2. \A p \in S : held'[p[1]][p[2]] = IF p = <<d, t>> THEN held[d][t] + amt
                                          ELSE held[p[1]][p[2]]
    BY <2>1
  <2>3. AllHeld' = [p \in S |-> held'[p[1]][p[2]]]
    BY DEF AllHeld
  <2>4. QED
    BY <1>4, <2>2, <2>3 DEF AllHeld
<1>6. IsFiniteSet(S)
  BY CampaignsFinite, FS_Product
<1> HIDE DEF S
<1>7. Net(AllHeld') = Net(AllHeld) - held[d][t] + (held[d][t] + amt)
  <2> DEFINE f == AllHeld
             x == <<d, t>>
             v == held[d][t] + amt
  <2>1. f \in [S -> Int] /\ x \in S /\ v \in Int /\ f[x] = held[d][t]
    BY <1>3, <1>4
  <2>2. AllHeld' = [f EXCEPT ![x] = v]
    BY <1>5
  <2> HIDE DEF f, x, v
  <2>3. \A g \in [S -> Int], y \in S, w \in Int :
          Net([g EXCEPT ![y] = w]) = Net(g) - g[y] + w
    BY <1>6, NetUpdate
  <2>4. Net(AllHeld') = Net(f) - f[x] + v
    BY <2>1, <2>2, <2>3
  <2>5. QED
    BY <2>1, <2>4 DEF f, v
<1>8. Net(AllHeld) \in Int
  BY <1>4, <1>6, NetType
<1>9. Net(AllHeld') = Net(AllHeld) + amt
  BY <1>3, <1>7, <1>8
<1>10. NoneCancelled' => /\ NoneCancelled /\ total_raised' = total_raised + amt
  BY DEF NoneCancelled
<1>11. NoneCancelled => total_raised = Net(AllHeld)
  BY DEF TotalRaisedExact, NoneCancelled, AllHeld
<1>12. NoneCancelled' => total_raised' = Net(AllHeld')
  BY <1>9, <1>10, <1>11
<1>13. QED
  BY <1>12 DEF TotalRaisedExact, NoneCancelled, AllHeld

\* Actions that leave both sides alone and cancel nothing or something.
LEMMA TotalQuiet ==
  ASSUME Base, TotalRaisedExact,
         \/ Tick
         \/ pause \/ unpause
         \/ \E fee \in Fees : update_platform_fee(fee)
         \/ \E v \in Vestings : set_vesting_params(v)
         \/ \E cap \in TxCaps : set_max_contribution_per_transaction(cap)
         \/ \E days \in DurationCaps : set_category_duration_cap(days)
         \/ \E c \in CampaignIds :
              \/ \E plan \in Plans : set_milestones(c, plan)
              \/ \E m \in MilestoneIds : verify_milestone(c, m)
              \/ \E u \in Users :
                   \/ \E cap \in PersonalCaps : set_personal_cap(c, u, cap)
                   \/ remove_personal_cap(c, u)
  PROVE  TotalRaisedExact'
<1>1. UNCHANGED <<total_raised, held, campaign>>
  BY DEF Tick, pause, unpause, update_platform_fee, set_vesting_params,
         set_max_contribution_per_transaction, set_category_duration_cap,
         set_milestones, verify_milestone, set_personal_cap, remove_personal_cap,
         unchangedButConfig
<1>2. QED
  BY <1>1, TotalSame DEF NoneCancelled

\* Edits of one campaign's record.
LEMMA TotalEdit ==
  ASSUME Base, TotalRaisedExact, NEW d \in CampaignIds,
         \/ verify_campaign(d)
         \/ update_campaign_description(d)
         \/ \E days \in Extensions : extend_campaign_deadline(d, days)
         \/ \E fee \in Fees : set_campaign_fee_override(d, fee)
  PROVE  TotalRaisedExact'
<1>1. UNCHANGED <<total_raised, held>>
  BY DEF verify_campaign, update_campaign_description, extend_campaign_deadline,
         set_campaign_fee_override, unchangedButConfig
<1>2. campaign[d] \in CampaignRecords /\ d \in DOMAIN campaign
  BY DEF Base, TypeOK
<1>3. /\ campaign'[d].is_cancelled = campaign[d].is_cancelled
      /\ \A c \in CampaignIds \ {d} : campaign'[c] = campaign[c]
  <2>1. CASE verify_campaign(d)
    BY <1>2, <2>1 DEF verify_campaign, CampaignRecords
  <2>2. CASE update_campaign_description(d)
    BY <1>2, <2>2 DEF update_campaign_description, CampaignRecords
  <2>3. CASE \E days \in Extensions : extend_campaign_deadline(d, days)
    <3>1. PICK x : campaign' = [campaign EXCEPT ![d] = [campaign[d] EXCEPT
                         !.deadline = x, !.deadline_extended = TRUE]]
      BY <2>3 DEF extend_campaign_deadline, Base, TypeOK
    <3>2. campaign'[d].is_cancelled = campaign[d].is_cancelled
      BY <1>2, <3>1 DEF CampaignRecords
    <3>3. QED
      BY <1>2, <3>1, <3>2
  <2>4. CASE \E fee \in Fees : set_campaign_fee_override(d, fee)
    BY <1>2, <2>4 DEF set_campaign_fee_override, CampaignRecords
  <2>5. QED
    BY <2>1, <2>2, <2>3, <2>4
<1>4. NoneCancelled' => NoneCancelled
  BY <1>3 DEF NoneCancelled
<1>5. QED
  BY <1>1, <1>4, TotalSame

\* create_campaign: the new campaign holds nothing.
LEMMA TotalCreate ==
  ASSUME Base, TotalRaisedExact, NEW u \in Creators, NEW goal \in Goals,
         NEW days \in Durations, NEW cap \in UserCaps,
         NEW tok \in Tokens \cup {None}, create_campaign(u, goal, days, cap, tok)
  PROVE  TotalRaisedExact'
<1>0. PICK d \in CampaignIds : d = campaign_count + 1
  BY DEF create_campaign
<1>1. /\ ~Created(d) /\ UNCHANGED <<total_raised, held>>
      /\ \A c \in CampaignIds \ {d} : campaign'[c] = campaign[c]
  BY <1>0 DEF create_campaign, Created, Base, TypeOK
<1>2. campaign[d] = NoCampaign
  BY <1>1 DEF Base, MoneyInv, FundingInv, Untouched
<1>3. NoneCancelled' => NoneCancelled
  BY <1>1, <1>2 DEF NoneCancelled, NoCampaign
<1>4. QED
  BY <1>1, <1>3, TotalSame

\* A cancelled campaign ends the claim: refunds no longer touch total_raised.
LEMMA TotalCancel ==
  ASSUME Base, NEW d \in CampaignIds, Cancel(d)
  PROVE  TotalRaisedExact'
<1>1. campaign[d] \in CampaignRecords /\ d \in DOMAIN campaign
  BY DEF Base, TypeOK
<1>2. campaign'[d].is_cancelled
  BY <1>1 DEF Cancel, CampaignRecords
<1>3. QED
  BY <1>2 DEF TotalRaisedExact

\* contribute and batch_contribute.
LEMMA TotalContribute ==
  ASSUME Base, TotalRaisedExact, NEW d \in CampaignIds, NEW v \in Users,
         NEW amt \in Amounts, Account(d, v, amt)
  PROVE  TotalRaisedExact'
<1>1. /\ amt \in Int /\ total_raised' = total_raised + amt
      /\ held' = [held EXCEPT ![d][TokenOf(d)] = held[d][TokenOf(d)] + amt]
  BY TokenOfType DEF Account, Receive, Base, TypeOK
<1>2. campaign[d] \in CampaignRecords /\ d \in DOMAIN campaign
  BY DEF Base, TypeOK
<1>3. PICK x, y : campaign' = [campaign EXCEPT ![d] = [campaign[d] EXCEPT
                    !.amount_raised = x, !.effective_amount_raised = y]]
  BY DEF Account, Base, TypeOK
<1>4. campaign'[d].is_cancelled = campaign[d].is_cancelled
  BY <1>2, <1>3 DEF CampaignRecords
<1>5. \A c \in CampaignIds : campaign'[c].is_cancelled = campaign[c].is_cancelled
  BY <1>2, <1>3, <1>4
<1>6. QED
  BY <1>1, <1>5, TotalTransfer DEF Base

\* claim_refund, of an expired campaign: a cancelled one was written off before.
LEMMA TotalRefund ==
  ASSUME Base, TotalRaisedExact, NEW d \in CampaignIds, NEW v \in Users,
         claim_refund(d, v)
  PROVE  TotalRaisedExact'
<1> DEFINE amt == contribution[d][v]
<1>1. amt \in Nat /\ -amt \in Int /\ total_raised \in Int
  BY DEF Base, TypeOK
<1>2. /\ held' = [held EXCEPT ![d][TokenOf(d)] = held[d][TokenOf(d)] - amt]
      /\ ~campaign[d].is_cancelled => total_raised' = total_raised - amt
  BY TokenOfType DEF claim_refund, Pay, TotalRaisedAfterRefund, Base, TypeOK
<1>3. campaign[d] \in CampaignRecords /\ d \in DOMAIN campaign
      /\ held[d][TokenOf(d)] \in Int
  BY TokenOfType DEF Base, TypeOK
<1>4. PICK y : campaign' = [campaign EXCEPT ![d] =
                     [campaign[d] EXCEPT !.effective_amount_raised = y]]
  BY DEF claim_refund, Base, TypeOK
<1>5. campaign'[d].is_cancelled = campaign[d].is_cancelled
  BY <1>3, <1>4 DEF CampaignRecords
<1>6. \A c \in CampaignIds : campaign'[c].is_cancelled = campaign[c].is_cancelled
  BY <1>3, <1>4, <1>5
<1> HIDE DEF amt
<1>7. /\ held[d][TokenOf(d)] - amt = held[d][TokenOf(d)] + (-amt)
      /\ total_raised - amt = total_raised + (-amt)
  BY <1>1, <1>3
<1>8. QED
  BY <1>1, <1>2, <1>6, <1>7, TotalTransfer DEF Base

\* A payout of amt to the creator and the fee's recipient.
LEMMA TotalPayout ==
  ASSUME Base, TotalRaisedExact, NEW d \in CampaignIds, NEW amt \in Int,
         held' = [held EXCEPT ![d][TokenOf(d)] = held[d][TokenOf(d)] - amt],
         total_raised' = total_raised - amt,
         \/ campaign' = campaign
         \/ campaign' = [campaign EXCEPT ![d] =
              [campaign[d] EXCEPT !.funds_withdrawn = TRUE, !.is_active = FALSE]]
  PROVE  TotalRaisedExact'
<1>1. /\ campaign[d] \in CampaignRecords /\ d \in DOMAIN campaign
      /\ held[d][TokenOf(d)] \in Int /\ total_raised \in Int
  BY TokenOfType DEF Base, TypeOK
<1>2. \A c \in CampaignIds : campaign'[c].is_cancelled = campaign[c].is_cancelled
  <2>1. CASE campaign' = campaign
    BY <2>1
  <2>2. CASE campaign' = [campaign EXCEPT ![d] =
              [campaign[d] EXCEPT !.funds_withdrawn = TRUE, !.is_active = FALSE]]
    <3>1. campaign'[d].is_cancelled = campaign[d].is_cancelled
      BY <1>1, <2>2 DEF CampaignRecords
    <3>2. QED
      BY <1>1, <2>2, <3>1
  <2>3. QED
    BY <2>1, <2>2
<1>3. /\ -amt \in Int /\ held[d][TokenOf(d)] - amt = held[d][TokenOf(d)] + (-amt)
      /\ total_raised - amt = total_raised + (-amt)
  BY <1>1
<1>4. QED
  BY <1>2, <1>3, TotalTransfer DEF Base

\* withdraw_funds takes off what it pays: the reserve stays in both.
LEMMA TotalWithdraw ==
  ASSUME Base, TotalRaisedExact, NEW d \in CampaignIds, withdraw_funds(d)
  PROVE  TotalRaisedExact'
<1> DEFINE eff == campaign[d].effective_amount_raised
           fee == CeilBps(eff, FeeOf(d))
           res == CeilBps(eff - fee, campaign[d].vesting_bps)
           paid == fee + CreatorAmount(eff - fee, res)
<1>1. /\ Created(d)
      /\ held' = [held EXCEPT ![d][TokenOf(d)] = held[d][TokenOf(d)] - paid]
      /\ total_raised' = total_raised - (eff - res)
      /\ campaign' = [campaign EXCEPT ![d] =
           [campaign[d] EXCEPT !.funds_withdrawn = TRUE, !.is_active = FALSE]]
  BY TokenOfType DEF withdraw_funds, Pay, Base, TypeOK
<1>2. eff \in Nat /\ res \in Nat /\ paid = eff - res
  BY <1>1, WithdrawSplit
<1> HIDE DEF eff, fee, res, paid
<1>3. paid \in Int /\ total_raised' = total_raised - paid
  BY <1>1, <1>2
<1>4. QED
  BY <1>1, <1>3, TotalPayout

\* withdraw_reserve and claim_milestone.
LEMMA TotalReserveClaim ==
  ASSUME Base, TotalRaisedExact, NEW d \in CampaignIds,
         withdraw_reserve(d) \/ \E m \in MilestoneIds : claim_milestone(d, m)
  PROVE  TotalRaisedExact'
<1>1. CASE withdraw_reserve(d)
  <2> DEFINE amt == reserve[d].amount
  <2>1. amt \in Int
    BY LedgerTypes DEF Reserves, Base
  <2>2. /\ held' = [held EXCEPT ![d][TokenOf(d)] = held[d][TokenOf(d)] - amt]
        /\ total_raised' = total_raised - amt
        /\ campaign' = campaign
    BY <1>1, TokenOfType DEF withdraw_reserve, Pay, Base, TypeOK
  <2> HIDE DEF amt
  <2>3. QED
    BY <2>1, <2>2, TotalPayout
<1>2. ASSUME NEW m \in MilestoneIds, claim_milestone(d, m)
      PROVE  TotalRaisedExact'
  <2> DEFINE paid == FeeClaim(d, m) + Claimable(d, m)
  <2>1. paid \in Int
    BY MilestonePayType DEF Base
  <2>2. /\ held' = [held EXCEPT ![d][TokenOf(d)] = held[d][TokenOf(d)] - paid]
        /\ total_raised' = total_raised - paid
    BY <1>2, TokenOfType DEF claim_milestone, Pay, Base, TypeOK
  <2>3. \/ campaign' = campaign
        \/ campaign' = [campaign EXCEPT ![d] =
             [campaign[d] EXCEPT !.funds_withdrawn = TRUE, !.is_active = FALSE]]
    BY <1>2 DEF claim_milestone, Base, TypeOK
  <2> HIDE DEF paid
  <2>4. QED
    BY <2>1, <2>2, <2>3, TotalPayout
<1>3. QED
  BY <1>1, <1>2

\* Nothing is held at first.
LEMMA TotalInit == ASSUME Init PROVE TotalRaisedExact
<1>1. AllHeld = [p \in CampaignIds \X Tokens |-> 0]
  BY DEF AllHeld, Init
<1>2. Net(AllHeld) = 0
  BY <1>1, NetZero
<1>3. QED
  BY <1>2 DEF TotalRaisedExact, AllHeld, Init

\* Every step keeps the two sides equal.
LEMMA TotalNext == ASSUME Base, TotalRaisedExact, [Next]_vars PROVE TotalRaisedExact'
<1>1. CASE Tick
  BY <1>1, TotalQuiet
<1>2. CASE CreatorNext
  BY <1>2, TotalCreate, TotalEdit, TotalCancel, TotalWithdraw, TotalReserveClaim,
     TotalQuiet DEF CreatorNext, cancel_campaign
<1>3. CASE BackerNext
  BY <1>3, TotalContribute, TotalRefund, TotalQuiet
     DEF BackerNext, contribute, batch_contribute
<1>4. CASE AdminNext
  BY <1>4, TotalEdit, TotalCancel, TotalQuiet DEF AdminNext, admin_cancel_campaign
<1>5. CASE UNCHANGED vars
  BY <1>5, TotalSame DEF vars, NoneCancelled
<1>6. QED
  BY <1>1, <1>2, <1>3, <1>4, <1>5 DEF Next

\* As long as nothing was cancelled, total_raised_global is what the contract holds
\* for its campaigns, through refunds, reserves and rounded milestone payouts.
THEOREM TotalRaisedHolds == Spec => []TotalRaisedExact
<1>1. Init => TotalRaisedExact
  BY TotalInit
<1>2. Base /\ TotalRaisedExact /\ [Next]_vars => TotalRaisedExact'
  BY TotalNext
<1>3. QED
  BY <1>1, <1>2, Typing, MoneyInvariant, PTL DEF Spec, Base

-----------------------------------------------------------------------------
(* Basis points.                                                           *)

\* The two roundings, as bounds.
LEMMA BpsRounding ==
  ASSUME NEW x \in Nat, NEW bps \in Nat
  PROVE  /\ FloorBps(x, bps) \in Nat /\ CeilBps(x, bps) \in Nat
         /\ 10000 * FloorBps(x, bps) <= x * bps
         /\ x * bps < 10000 * FloorBps(x, bps) + 10000
         /\ x * bps <= 10000 * CeilBps(x, bps)
         /\ 10000 * CeilBps(x, bps) < x * bps + 10000
<1> DEFINE n == x * bps
<1>1. n \in Nat
  OBVIOUS
<1>2. /\ FloorBps(x, bps) = n \div 10000
      /\ CeilBps(x, bps) = (n + 9999) \div 10000
  BY DEF FloorBps, CeilBps, BPS_DENOMINATOR, BPS_CEIL_OFFSET
<1> HIDE DEF n
<1>3. /\ n \div 10000 \in Nat /\ (n + 9999) \div 10000 \in Nat
      /\ 10000 * (n \div 10000) <= n /\ n < 10000 * (n \div 10000) + 10000
      /\ n <= 10000 * ((n + 9999) \div 10000)
      /\ 10000 * ((n + 9999) \div 10000) < n + 10000
  BY <1>1
<1>4. QED
  BY <1>2, <1>3 DEF n

\* Both roundings are monotone.
LEMMA BpsMonotone ==
  ASSUME NEW x \in Nat, NEW y \in Nat, x <= y,
         NEW p \in Nat, NEW q \in Nat, p <= q
  PROVE  FloorBps(x, p) <= FloorBps(y, q) /\ CeilBps(x, p) <= CeilBps(y, q)
<1>1. x * p <= y * q
  <2>1. x * p <= y * p
    OBVIOUS
  <2>2. y * p <= y * q
    OBVIOUS
  <2>3. x * p \in Nat /\ y * p \in Nat /\ y * q \in Nat
    OBVIOUS
  <2>4. QED
    BY <2>1, <2>2, <2>3
<1> DEFINE m == x * p
           n == y * q
<1>2. m \in Nat /\ n \in Nat /\ m <= n
  BY <1>1
<1>3. /\ FloorBps(x, p) = m \div 10000 /\ FloorBps(y, q) = n \div 10000
      /\ CeilBps(x, p) = (m + 9999) \div 10000 /\ CeilBps(y, q) = (n + 9999) \div 10000
  BY DEF FloorBps, CeilBps, BPS_DENOMINATOR, BPS_CEIL_OFFSET
<1> HIDE DEF m, n
<1>4. QED
  BY <1>2, <1>3

\* What is left after a fee that is rounded up grows with the amount.
LEMMA AfterFeeMonotone ==
  ASSUME NEW x \in Nat, NEW y \in Nat, x <= y, NEW p \in 0..BPS_DENOMINATOR
  PROVE  x - CeilBps(x, p) <= y - CeilBps(y, p)
<1>1. p \in Nat /\ p <= 10000
  BY DEF BPS_DENOMINATOR
<1> DEFINE m == x * p
           n == y * p
           e == (y - x) * p
<1>2. m \in Nat /\ n = m + e /\ e \in Nat /\ e <= (y - x) * 10000
  BY <1>1
<1>3. CeilBps(x, p) = (m + 9999) \div 10000 /\ CeilBps(y, p) = (n + 9999) \div 10000
  BY DEF CeilBps, BPS_DENOMINATOR, BPS_CEIL_OFFSET
<1> HIDE DEF m, n, e
<1>4. (n + 9999) \div 10000 <= (m + 9999) \div 10000 + (y - x)
  BY <1>2
<1>5. QED
  BY <1>2, <1>3, <1>4

-----------------------------------------------------------------------------
(* Shares of a plan.                                                       *)

\* The share of x of every milestone.
Shares(plan, x) == [m \in MilestoneIds |-> FloorBps(x, plan[m])]

\* The shares of the milestones in A add up to:
ShareOf(plan, A, x) == Total(OnPart(Shares(plan, x), A))

\* A function on a part and the function that is zero outside count the same.
LEMMA PartUnits ==
  ASSUME NEW S, NEW f \in [S -> Nat], NEW A \in SUBSET S
  PROVE  Total([x \in A |-> f[x]]) = Total(OnPart(f, A))
<1>1. Units([x \in A |-> f[x]]) = Units(OnPart(f, A))
  <2>1. \A p : p \in Units([x \in A |-> f[x]])
                 <=> \E x \in A : \E i \in 1..f[x] : p = <<x, i>>
    BY DEF Units
  <2>2. \A p : p \in Units(OnPart(f, A))
                 <=> \E x \in S : \E i \in 1..(IF x \in A THEN f[x] ELSE 0) : p = <<x, i>>
    BY DEF Units, OnPart
  <2>3. \A x \in S : x \notin A => 1..(IF x \in A THEN f[x] ELSE 0) = {}
    OBVIOUS
  <2>4. \A p : (\E x \in A : \E i \in 1..f[x] : p = <<x, i>>)
            <=> \E x \in S : \E i \in 1..(IF x \in A THEN f[x] ELSE 0) : p = <<x, i>>
    BY <2>3
  <2>5. \A p : p \in Units([x \in A |-> f[x]]) <=> p \in Units(OnPart(f, A))
    BY <2>1, <2>2, <2>4, Zenon
  <2>6. QED
    BY <2>5, Zenon
<1>2. QED
  BY <1>1 DEF Total

\* Shares are naturals, and so are their sums.
LEMMA SharesType ==
  ASSUME NEW plan \in [MilestoneIds -> Nat], NEW x \in Nat, NEW A \in SUBSET MilestoneIds
  PROVE  /\ Shares(plan, x) \in [MilestoneIds -> Nat]
         /\ OnPart(Shares(plan, x), A) \in [MilestoneIds -> Nat]
         /\ ShareOf(plan, A, x) \in Nat
<1>1. \A m \in MilestoneIds : FloorBps(x, plan[m]) \in Nat
  BY FloorBpsNat
<1>2. Shares(plan, x) \in [MilestoneIds -> Nat]
  BY <1>1 DEF Shares
<1>3. OnPart(Shares(plan, x), A) \in [MilestoneIds -> Nat]
  BY <1>2 DEF OnPart
<1>4. ShareOf(plan, A, x) \in Nat
  BY <1>3, TotalType DEF ShareOf
<1>5. QED
  BY <1>2, <1>3, <1>4

\* ClaimedShare is such a sum.
LEMMA ClaimedIsShare ==
  ASSUME TypeOK, NEW c \in CampaignIds, NEW x \in Nat
  PROVE  ClaimedShare(c, x) = ShareOf(milestones[c], milestone_claimed[c], x)
<1> DEFINE A == milestone_claimed[c]
           f == Shares(milestones[c], x)
<1>1. A \in SUBSET MilestoneIds /\ milestones[c] \in [MilestoneIds -> Nat]
  BY DEF TypeOK
<1>2. f \in [MilestoneIds -> Nat]
  BY <1>1, SharesType
<1>3. [m \in A |-> FloorBps(x, milestones[c][m])] = [m \in A |-> f[m]]
  BY <1>1 DEF Shares
<1> HIDE DEF f
<1>4. Total([m \in A |-> f[m]]) = Total(OnPart(f, A))
  BY <1>1, <1>2, PartUnits
<1>5. QED
  BY <1>3, <1>4 DEF ClaimedShare, ShareOf, f

\* No milestone, no share.
LEMMA NoShare ==
  ASSUME NEW plan, NEW x
  PROVE  ShareOf(plan, {}, x) = 0
<1>1. OnPart(Shares(plan, x), {}) = [m \in MilestoneIds |-> 0]
  BY DEF OnPart, Shares
<1>2. QED
  BY <1>1, TotalZero DEF ShareOf

\* One more milestone adds its share.
LEMMA OneMoreShare ==
  ASSUME NEW plan \in [MilestoneIds -> Nat], NEW x \in Nat,
         NEW A \in SUBSET MilestoneIds, NEW m \in MilestoneIds, m \notin A
  PROVE  ShareOf(plan, A \cup {m}, x) = ShareOf(plan, A, x) + FloorBps(x, plan[m])
<1> DEFINE f == Shares(plan, x)
           B == A \cup {m}
<1>1. f \in [MilestoneIds -> Nat] /\ f[m] = FloorBps(x, plan[m])
  BY SharesType DEF Shares
<1>2. B \in SUBSET MilestoneIds /\ m \in B /\ B \ {m} = A
  OBVIOUS
<1> HIDE DEF f, B
<1>3. Total(OnPart(f, B)) = Total(OnPart(f, B \ {m})) + f[m]
  BY <1>1, <1>2, PartStep
<1>4. QED
  BY <1>1, <1>2, <1>3 DEF ShareOf, f, B

\* The shares of a larger amount are larger.
LEMMA ShareMonotone ==
  ASSUME NEW plan \in [MilestoneIds -> Nat], NEW A \in SUBSET MilestoneIds,
         NEW x \in Nat, NEW y \in Nat, x <= y
  PROVE  ShareOf(plan, A, x) <= ShareOf(plan, A, y)
<1> DEFINE f == OnPart(Shares(plan, x), A)
           g == OnPart(Shares(plan, y), A)
<1>1. f \in [MilestoneIds -> Nat] /\ g \in [MilestoneIds -> Nat]
  BY SharesType
<1>2. \A m \in MilestoneIds : f[m] <= g[m]
  <2>1. \A m \in MilestoneIds : FloorBps(x, plan[m]) <= FloorBps(y, plan[m])
    BY BpsMonotone
  <2>2. QED
    BY <2>1 DEF OnPart, Shares
<1> HIDE DEF f, g
<1>3. Total(f) <= Total(g)
  BY <1>1, <1>2, TotalMonotone
<1>4. QED
  BY <1>3 DEF ShareOf, f, g

\* The shares of a part of a plan that adds up to at most 100% are at most the whole.
LEMMA ShareBound ==
  ASSUME NEW plan \in [MilestoneIds -> Nat], Total(plan) <= BPS_DENOMINATOR,
         NEW A \in SUBSET MilestoneIds, NEW x \in Nat
  PROVE  ShareOf(plan, A, x) <= x
<1>0. \A b \in Nat : 10000 * FloorBps(x, b) <= x * b
  BY BpsRounding
<1> DEFINE f == OnPart(Shares(plan, x), A)
<1>1. f \in [MilestoneIds -> Nat] /\ Total(f) \in Nat /\ Total(plan) \in Nat
  BY SharesType, TotalType
<1>2. \A m \in MilestoneIds : 10000 * f[m] <= x * plan[m]
  <2> SUFFICES ASSUME NEW m \in MilestoneIds PROVE 10000 * f[m] <= x * plan[m]
    OBVIOUS
  <2>0. PICK b \in Nat : b = plan[m]
    OBVIOUS
  <2>1. 10000 * FloorBps(x, b) <= x * b
    BY <1>0
  <2>2. FloorBps(x, b) \in Nat
    BY FloorBpsNat
  <2>3. f[m] = FloorBps(x, b) \/ f[m] = 0
    BY <2>0 DEF OnPart, Shares
  <2> HIDE DEF f
  <2>4. x * b \in Nat
    OBVIOUS
  <2>5. QED
    BY <2>0, <2>1, <2>2, <2>3, <2>4
<1> HIDE DEF f
<1>4. 10000 * Total(f) <= x * Total(plan)
  BY <1>1, <1>2, TotalScaled
<1>5. x * Total(plan) <= x * 10000
  BY <1>1 DEF BPS_DENOMINATOR
<1>6. x * Total(plan) \in Nat
  BY <1>1
<1>7. Total(f) <= x
  BY <1>1, <1>4, <1>5, <1>6
<1>8. QED
  BY <1>7 DEF ShareOf, f

\* Raising the amount by d raises the shares of a plan by at most d, and a unit of
\* rounding for each of its milestones.
LEMMA ShareGrowth ==
  ASSUME NEW plan \in [MilestoneIds -> Nat], Total(plan) <= BPS_DENOMINATOR,
         NEW A \in SUBSET MilestoneIds, NEW x \in Nat, NEW d \in Nat,
         NEW y \in Nat, y = x + d
  PROVE  ShareOf(plan, A, y) <= ShareOf(plan, A, x) + d + Cardinality(A)
<1>a. \A b \in Nat : 10000 * FloorBps(y, b) <= y * b
  BY BpsRounding
<1>b. \A b \in Nat : x * b < 10000 * FloorBps(x, b) + 10000
  BY BpsRounding
<1> DEFINE f == OnPart(Shares(plan, y), A)
           g == OnPart(Shares(plan, x), A)
           i == [m \in MilestoneIds |-> IF m \in A THEN 1 ELSE 0]
           h == [m \in MilestoneIds |-> d * plan[m] + 10000 * i[m]]
<1>1. /\ f \in [MilestoneIds -> Nat] /\ g \in [MilestoneIds -> Nat]
      /\ i \in [MilestoneIds -> Nat]
  BY SharesType
<1>2. \A b \in Nat : d * b \in Nat
  OBVIOUS
<1>3. h \in [MilestoneIds -> Nat]
  BY <1>1, <1>2
<1>4. \A m \in MilestoneIds : 10000 * f[m] <= 10000 * g[m] + 1 * h[m]
  <2> SUFFICES ASSUME NEW m \in MilestoneIds
               PROVE  10000 * f[m] <= 10000 * g[m] + 1 * h[m]
    OBVIOUS
  <2>2. PICK b \in Nat : b = plan[m]
    OBVIOUS
  <2>3. CASE m \in A
    <3>1. f[m] = FloorBps(y, b) /\ g[m] = FloorBps(x, b) /\ h[m] = d * b + 10000
      BY <2>2, <2>3 DEF OnPart, Shares
    <3>2. 10000 * FloorBps(y, b) <= y * b /\ x * b < 10000 * FloorBps(x, b) + 10000
      BY <1>a, <1>b
    <3>3. FloorBps(y, b) \in Nat /\ FloorBps(x, b) \in Nat
      BY FloorBpsNat
    <3>4. y * b = x * b + d * b /\ x * b \in Nat /\ d * b \in Nat
      OBVIOUS
    <3> HIDE DEF f, g, h
    <3>5. QED
      BY <3>1, <3>2, <3>3, <3>4
  <2>4. CASE m \notin A
    <3>1. f[m] = 0 /\ g[m] = 0
      BY <2>4 DEF OnPart, Shares
    <3>2. h[m] \in Nat
      BY <1>3
    <3> HIDE DEF f, g, h
    <3>3. QED
      BY <3>1, <3>2
  <2>5. QED
    BY <2>3, <2>4
<1>5. \A m \in MilestoneIds : 1 * h[m] <= d * plan[m] + 10000 * i[m]
  <2>1. \A m \in MilestoneIds : h[m] = d * plan[m] + 10000 * i[m] /\ h[m] \in Nat
    BY <1>3
  <2> HIDE DEF h
  <2>2. QED
    BY <2>1
<1>6. Total(i) = Cardinality(A)
  BY TotalIndicator
<1> HIDE DEF f, g, h, i
<1>7. PICK one \in Int, big \in Int, e \in Int : one = 1 /\ big = 10000 /\ e = d
  OBVIOUS
<1>8. big * Total(f) <= big * Total(g) + one * Total(h)
  <2>1. \A m \in MilestoneIds : big * f[m] <= big * g[m] + one * h[m]
    BY <1>4, <1>7
  <2>2. QED
    BY <2>1, <1>1, <1>3, TotalLinear
<1>9. one * Total(h) <= e * Total(plan) + big * Total(i)
  <2>1. \A m \in MilestoneIds : one * h[m] <= e * plan[m] + big * i[m]
    BY <1>5, <1>7
  <2>2. QED
    BY <2>1, <1>1, <1>3, TotalLinear
<1>10. /\ Total(f) \in Nat /\ Total(g) \in Nat /\ Total(h) \in Nat
       /\ Total(i) \in Nat /\ Total(plan) \in Nat
  BY <1>1, <1>3, TotalType
<1>11. d * Total(plan) <= d * 10000 /\ d * Total(plan) \in Nat
  BY <1>10 DEF BPS_DENOMINATOR
<1>12. Total(f) <= Total(g) + d + Total(i)
  <2>1. 10000 * Total(f) <= 10000 * Total(g) + Total(h)
    BY <1>7, <1>8, <1>10
  <2>2. Total(h) <= d * Total(plan) + 10000 * Total(i)
    BY <1>7, <1>9, <1>10, <1>11
  <2>3. QED
    BY <2>1, <2>2, <1>10, <1>11
<1>13. QED
  BY <1>6, <1>12 DEF ShareOf, f, g

-----------------------------------------------------------------------------
(* What the fees of a campaign amount to.                                  *)

\* The most a campaign's fee can be.
MaxFee(c) == CeilBps(campaign[c].amount_raised, PLATFORM_FEE_MAX_BPS)

\* Only milestones of an accepted plan are claimed, and amount_raised is what was
\* ever contributed.
PlanAt(c) ==
  /\ milestones[c] = NoPlan \/ milestones[c] \in ValidPlans
  /\ \A m \in milestone_claimed[c] : milestones[c][m] # 0
  /\ campaign[c].amount_raised = Total(lifetime[c])

\* While a campaign pays out, the fees of its milestones are at most their shares
\* of the largest fee; the last claim tops them up to the fee of the day.
FeeAt(c) ==
  IF campaign[c].funds_withdrawn
  THEN Net(fees_paid[c]) <= MaxFee(c) + Cardinality(milestone_claimed[c])
  ELSE Net(fees_paid[c]) <= ShareOf(milestones[c], milestone_claimed[c], MaxFee(c))

PayoutInv == \A c \in CampaignIds : PlanAt(c) /\ FeeAt(c)

\* What a claim reads about one campaign.
LEMMA PayoutTypes ==
  ASSUME TypeOK, NEW c \in CampaignIds
  PROVE  /\ campaign[c].amount_raised \in Nat
         /\ milestones[c] \in [MilestoneIds -> Nat]
         /\ milestone_claimed[c] \in SUBSET MilestoneIds
         /\ Cardinality(milestone_claimed[c]) \in Nat
         /\ lifetime[c] \in [Users -> Nat] /\ Total(lifetime[c]) \in Nat
         /\ fees_paid[c] \in [Admins -> Int] /\ Net(fees_paid[c]) \in Int
         /\ MaxFee(c) \in Nat
         /\ PLATFORM_FEE_MAX_BPS \in Nat
         /\ \A x \in Nat : ShareOf(milestones[c], milestone_claimed[c], x) \in Nat
<1>1. /\ milestones[c] \in [MilestoneIds -> Nat]
      /\ milestone_claimed[c] \in SUBSET MilestoneIds
      /\ lifetime[c] \in [Users -> Nat]
      /\ fees_paid[c] \in [Admins -> Int]
  BY DEF TypeOK
<1>2. campaign[c].amount_raised \in Nat
  BY CoreTypes
<1>3. PLATFORM_FEE_MAX_BPS \in Nat
  OBVIOUS
<1>4. MaxFee(c) \in Nat
  BY <1>2, <1>3, BpsRounding DEF MaxFee
<1>5. Cardinality(milestone_claimed[c]) \in Nat
  BY <1>1, FS_Subset, FS_CardinalityType
<1>6. Total(lifetime[c]) \in Nat /\ Net(fees_paid[c]) \in Int
  BY <1>1, TotalType, NetType
<1>7. \A x \in Nat : ShareOf(milestones[c], milestone_claimed[c], x) \in Nat
  BY <1>1, SharesType
<1>8. QED
  BY <1>1, <1>2, <1>3, <1>4, <1>5, <1>6, <1>7

\* The payouts of an accepted plan, or of none, are at most 100%.
LEMMA PlanTotal ==
  ASSUME NEW c \in CampaignIds, PlanAt(c)
  PROVE  Total(milestones[c]) <= BPS_DENOMINATOR
<1>1. CASE milestones[c] = NoPlan
  <2>1. Total(NoPlan) = 0
    BY TotalZero DEF NoPlan
  <2>2. QED
    BY <1>1, <2>1, BpsDenominatorNat
<1>2. CASE milestones[c] \in ValidPlans
  BY <1>2, BpsDenominatorNat DEF ValidPlans
<1>3. QED
  BY <1>1, <1>2 DEF PlanAt

\* A campaign a step leaves alone.
LEMMA SamePayout ==
  ASSUME NEW c \in CampaignIds, PlanAt(c), FeeAt(c),
         campaign'[c].amount_raised = campaign[c].amount_raised,
         campaign'[c].funds_withdrawn = campaign[c].funds_withdrawn,
         lifetime'[c] = lifetime[c], milestones'[c] = milestones[c],
         milestone_claimed'[c] = milestone_claimed[c], fees_paid'[c] = fees_paid[c]
  PROVE  PlanAt(c)' /\ FeeAt(c)'
<1>1. PlanAt(c)'
  BY DEF PlanAt
<1>2. MaxFee(c)' = MaxFee(c)
  BY DEF MaxFee
<1>3. QED
  BY <1>1, <1>2 DEF FeeAt

\* No plan, no fee, no claim at first.
LEMMA PayoutInit == ASSUME Init PROVE PayoutInv
<1> SUFFICES ASSUME NEW c \in CampaignIds PROVE PlanAt(c) /\ FeeAt(c)
  BY DEF PayoutInv
<1>1. /\ campaign[c] = NoCampaign /\ lifetime[c] = [u \in Users |-> 0]
      /\ milestones[c] = NoPlan /\ milestone_claimed[c] = {}
      /\ fees_paid[c] = [a \in Admins |-> 0]
  BY DEF Init
<1>2. PlanAt(c)
  BY <1>1, TotalZero DEF PlanAt, NoCampaign
<1>3. Net(fees_paid[c]) = 0 /\ ShareOf(milestones[c], milestone_claimed[c], MaxFee(c)) = 0
  BY <1>1, NetZero, NoShare
<1>4. FeeAt(c)
  BY <1>1, <1>3 DEF FeeAt, NoCampaign
<1>5. QED
  BY <1>2, <1>4

\* Steps that touch no fee, no plan and no amount.
LEMMA PayoutFrame ==
  ASSUME PayoutInv, UNCHANGED <<lifetime, milestones, milestone_claimed, fees_paid>>,
         \A c \in CampaignIds :
           /\ campaign'[c].amount_raised = campaign[c].amount_raised
           /\ campaign'[c].funds_withdrawn = campaign[c].funds_withdrawn
  PROVE  PayoutInv'
BY SamePayout DEF PayoutInv

\* The rest of a step that is about campaign d.
LEMMA PayoutOthers ==
  ASSUME PayoutInv, NEW d \in CampaignIds, PlanAt(d)', FeeAt(d)',
         \A c \in CampaignIds \ {d} :
           /\ campaign'[c] = campaign[c] /\ lifetime'[c] = lifetime[c]
           /\ milestones'[c] = milestones[c] /\ fees_paid'[c] = fees_paid[c]
           /\ milestone_claimed'[c] = milestone_claimed[c]
  PROVE  PayoutInv'
<1>1. \A c \in CampaignIds \ {d} : PlanAt(c)' /\ FeeAt(c)'
  BY SamePayout DEF PayoutInv
<1>2. QED
  BY <1>1 DEF PayoutInv

\* create_campaign.
LEMMA PayoutCreate ==
  ASSUME Base, PayoutInv, NEW u \in Creators, NEW goal \in Goals,
         NEW days \in Durations, NEW cap \in UserCaps,
         NEW tok \in Tokens \cup {None}, create_campaign(u, goal, days, cap, tok)
  PROVE  PayoutInv'
<1>1. PICK d \in CampaignIds : d = campaign_count + 1
  BY DEF create_campaign
<1>2. ~Created(d) /\ campaign[d] = NoCampaign
  BY <1>1 DEF Created, Base, TypeOK, MoneyInv, FundingInv, Untouched
<1>3. \A c \in CampaignIds \ {d} : campaign'[c] = campaign[c]
  BY <1>1 DEF create_campaign, Base, TypeOK
<1>4. campaign'[d].amount_raised = 0 /\ campaign'[d].funds_withdrawn = FALSE
  BY <1>1 DEF create_campaign, Base, TypeOK
<1>5. campaign[d].amount_raised = 0 /\ campaign[d].funds_withdrawn = FALSE
  BY <1>2 DEF NoCampaign
<1>6. UNCHANGED <<lifetime, milestones, milestone_claimed, fees_paid>>
  BY DEF create_campaign
<1>7. QED
  BY <1>3, <1>4, <1>5, <1>6, PayoutFrame

\* contribute and batch_contribute: the largest fee grows with the amount.
LEMMA PayoutContribute ==
  ASSUME Base, PayoutInv, NEW d \in CampaignIds, NEW v \in Users,
         NEW amt \in Amounts, CanContribute(d, v, amt), Account(d, v, amt)
  PROVE  PayoutInv'
<1>1. /\ amt \in Nat /\ Created(d) /\ campaign[d].is_active
  BY DEF CanContribute, RequireActive
<1>2. /\ campaign' = [campaign EXCEPT ![d] = [campaign[d] EXCEPT
                        !.amount_raised = campaign[d].amount_raised + amt,
                        !.effective_amount_raised =
                           campaign[d].effective_amount_raised + amt]]
      /\ lifetime' = [lifetime EXCEPT ![d][v] = lifetime[d][v] + amt]
      /\ UNCHANGED <<milestones, milestone_claimed, fees_paid>>
  BY DEF Account, Base, TypeOK
<1>3. /\ campaign[d] \in CampaignRecords /\ d \in DOMAIN campaign
      /\ d \in DOMAIN lifetime /\ lifetime[d] \in [Users -> Nat]
  BY DEF Base, TypeOK
<1>4. /\ campaign'[d].funds_withdrawn = campaign[d].funds_withdrawn
      /\ campaign'[d].amount_raised = campaign[d].amount_raised + amt
  BY <1>2, <1>3 DEF CampaignRecords
<1>5. ~campaign[d].funds_withdrawn
  BY <1>1, AtCampaign DEF Base
<1>6. PlanAt(d) /\ FeeAt(d)
  BY DEF PayoutInv
<1>7. campaign'[d].amount_raised = Total(lifetime'[d])
  <2>1. lifetime'[d] = [lifetime[d] EXCEPT ![v] = lifetime[d][v] + amt]
    BY <1>2, <1>3
  <2>2. PICK n \in Nat : n = lifetime[d][v] + amt
    BY <1>1, <1>3
  <2>3. Total(lifetime'[d]) = Total(lifetime[d]) - lifetime[d][v] + n
    <3>1. lifetime'[d] = [lifetime[d] EXCEPT ![v] = n]
      BY <2>1, <2>2
    <3>2. IsFiniteSet(Users) /\ lifetime[d] \in [Users -> Nat]
      BY <1>3
    <3>3. QED
      BY <3>1, <3>2, TotalUpdate
  <2>4. Total(lifetime[d]) \in Nat /\ campaign[d].amount_raised = Total(lifetime[d])
    BY <1>6, PayoutTypes DEF PlanAt, Base
  <2>5. lifetime[d][v] \in Nat
    BY <1>3
  <2>6. QED
    BY <1>1, <1>4, <2>2, <2>3, <2>4, <2>5
<1>8. PlanAt(d)'
  BY <1>2, <1>6, <1>7 DEF PlanAt
<1>9. FeeAt(d)'
  <2> DEFINE x == campaign[d].amount_raised
             y == campaign'[d].amount_raised
             F == CeilBps(x, PLATFORM_FEE_MAX_BPS)
             G == CeilBps(y, PLATFORM_FEE_MAX_BPS)
             plan == milestones[d]
             A == milestone_claimed[d]
  <2>1. /\ x \in Nat /\ y \in Nat /\ x <= y /\ PLATFORM_FEE_MAX_BPS \in Nat
        /\ plan \in [MilestoneIds -> Nat] /\ A \in SUBSET MilestoneIds
        /\ Net(fees_paid[d]) \in Int
    BY <1>1, <1>4, PayoutTypes DEF Base
  <2>2. Net(fees_paid[d]) <= ShareOf(plan, A, F)
    BY <1>5, <1>6 DEF FeeAt, MaxFee
  <2> HIDE DEF x, y, plan, A
  <2>3. F <= G
    BY <2>1, BpsMonotone
  <2>4. F \in Nat /\ G \in Nat
    BY <2>1, CeilBpsNat
  <2> HIDE DEF F, G
  <2>5. ShareOf(plan, A, F) <= ShareOf(plan, A, G)
    BY <2>1, <2>3, <2>4, ShareMonotone
  <2>6. ShareOf(plan, A, F) \in Nat /\ ShareOf(plan, A, G) \in Nat
    BY <2>1, <2>4, SharesType
  <2>7. Net(fees_paid[d]) <= ShareOf(plan, A, G)
    BY <2>1, <2>2, <2>5, <2>6
  <2>8. QED
    BY <1>2, <1>4, <1>5, <2>7 DEF FeeAt, MaxFee, G, y, plan, A
<1>10. \A c \in CampaignIds \ {d} :
         campaign'[c] = campaign[c] /\ lifetime'[c] = lifetime[c]
  BY <1>2, <1>3
<1>11. QED
  BY <1>2, <1>8, <1>9, <1>10, PayoutOthers

\* set_milestones: only before there is a plan, so nothing was claimed.
LEMMA PayoutPlan ==
  ASSUME Base, PayoutInv, NEW d \in CampaignIds, NEW plan \in Plans,
         set_milestones(d, plan)
  PROVE  PayoutInv'
<1>1. /\ milestones[d] = NoPlan /\ plan \in ValidPlans
      /\ milestones' = [milestones EXCEPT ![d] = plan]
      /\ UNCHANGED <<campaign, lifetime, milestone_claimed, fees_paid>>
  BY DEF set_milestones
<1>2. PlanAt(d) /\ FeeAt(d) /\ d \in DOMAIN milestones
  BY DEF PayoutInv, Base, TypeOK
<1>3. milestone_claimed[d] \in SUBSET MilestoneIds
  BY DEF Base, TypeOK
<1>4. milestone_claimed[d] = {}
  BY <1>1, <1>2, <1>3 DEF PlanAt, NoPlan
<1>5. milestones'[d] = plan /\ milestone_claimed'[d] = {}
  BY <1>1, <1>2, <1>4
<1>6. PlanAt(d)'
  BY <1>1, <1>2, <1>5 DEF PlanAt
<1>7. /\ ShareOf(milestones[d], milestone_claimed[d], MaxFee(d)) = 0
      /\ ShareOf(milestones'[d], milestone_claimed'[d], MaxFee(d)') = 0
  BY <1>4, <1>5, NoShare
<1>8. MaxFee(d)' = MaxFee(d)
  BY <1>1 DEF MaxFee
<1>9. FeeAt(d)'
  BY <1>1, <1>2, <1>7, <1>8 DEF FeeAt
<1>10. \A c \in CampaignIds \ {d} : milestones'[c] = milestones[c]
  BY <1>1, <1>2
<1>11. QED
  BY <1>1, <1>6, <1>9, <1>10, PayoutOthers

\* A fee adds to the fees of one campaign.
LEMMA FeePaid ==
  ASSUME TypeOK, NEW d \in CampaignIds, NEW to \in Admins, NEW amt \in Int,
         PayFee(d, to, amt)
  PROVE  /\ Net(fees_paid'[d]) = Net(fees_paid[d]) + amt
         /\ \A c \in CampaignIds \ {d} : fees_paid'[c] = fees_paid[c]
<1>0. \A g \in [Admins -> Int], y \in Admins, w \in Int :
        Net([g EXCEPT ![y] = w]) = Net(g) - g[y] + w
  BY NetUpdate
<1>1. fees_paid \in [CampaignIds -> [Admins -> Int]] /\ IsFiniteSet(Admins)
  BY DEF TypeOK
<1> DEFINE f == fees_paid[d]
<1>2. f \in [Admins -> Int] /\ f[to] \in Int /\ Net(f) \in Int
  BY <1>1, NetType
<1>3. PICK n \in Int : n = f[to] + amt
  BY <1>2
<1>4. fees_paid'[d] = [f EXCEPT ![to] = n]
  BY <1>1, <1>3 DEF PayFee
<1>5. \A c \in CampaignIds \ {d} : fees_paid'[c] = fees_paid[c]
  BY <1>1 DEF PayFee
<1> HIDE DEF f
<1>6. Net(fees_paid'[d]) = Net(f) - f[to] + n
  <2>1. Net([f EXCEPT ![to] = n]) = Net(f) - f[to] + n
    BY <1>2, <1>0
  <2>2. QED
    BY <1>4, <2>1, Zenon
<1>7. QED
  BY <1>2, <1>3, <1>5, <1>6 DEF f

\* What is on record is at most what was ever contributed.
LEMMA EffectiveBelowRaised ==
  ASSUME Base, LedgerInv, PayoutInv, NEW d \in CampaignIds
  PROVE  /\ campaign[d].effective_amount_raised \in Nat
         /\ campaign[d].effective_amount_raised <= campaign[d].amount_raised
<1>1. contribution[d] \in [Users -> Nat] /\ lifetime[d] \in [Users -> Nat]
  BY LedgerTypes DEF Base
<1>2. \A u \in Users : contribution[d][u] <= lifetime[d][u]
  BY DEF LedgerInv, LedgerAt, CapsAt
<1>3. Total(contribution[d]) <= Total(lifetime[d])
  BY <1>1, <1>2, TotalMonotone
<1>4. campaign[d].effective_amount_raised = Total(contribution[d])
  BY DEF Base, MoneyInv, EffectiveIsSum
<1>5. campaign[d].amount_raised = Total(lifetime[d])
  BY DEF PayoutInv, PlanAt
<1>6. QED
  BY <1>1, <1>3, <1>4, <1>5, TotalType

\* withdraw_funds: one fee, of at most the policy maximum.
LEMMA PayoutWithdraw ==
  ASSUME Base, LedgerInv, PayoutInv, NEW d \in CampaignIds, withdraw_funds(d)
  PROVE  PayoutInv'
<1> DEFINE eff == campaign[d].effective_amount_raised
           fee == CeilBps(eff, FeeOf(d))
<1>1. /\ milestones[d] = NoPlan /\ ~campaign[d].funds_withdrawn
      /\ campaign' = [campaign EXCEPT ![d] =
           [campaign[d] EXCEPT !.funds_withdrawn = TRUE, !.is_active = FALSE]]
      /\ PayFee(d, FeeRecipient(d), fee)
      /\ UNCHANGED <<lifetime, milestones, milestone_claimed>>
  BY DEF withdraw_funds, Base, TypeOK
<1>2. campaign[d] \in CampaignRecords /\ d \in DOMAIN campaign
  BY DEF Base, TypeOK
<1>3. /\ campaign'[d].funds_withdrawn
      /\ campaign'[d].amount_raised = campaign[d].amount_raised
  BY <1>1, <1>2 DEF CampaignRecords
<1>4. PlanAt(d) /\ FeeAt(d) /\ milestone_claimed[d] \in SUBSET MilestoneIds
  BY DEF PayoutInv, Base, TypeOK
<1>5. milestone_claimed[d] = {}
  BY <1>1, <1>4 DEF PlanAt, NoPlan
<1>6. /\ eff \in Nat /\ campaign[d].amount_raised \in Nat
      /\ eff <= campaign[d].amount_raised
  BY EffectiveBelowRaised, PayoutTypes DEF Base
<1>7. FeeOf(d) \in Nat /\ PLATFORM_FEE_MAX_BPS \in Nat /\ FeeOf(d) <= PLATFORM_FEE_MAX_BPS
  BY FeeOfType DEF Base
<1>8. fee <= MaxFee(d)
  BY <1>6, <1>7, BpsMonotone DEF MaxFee
<1>9. fee \in Nat /\ MaxFee(d) \in Nat
  BY <1>6, <1>7, CeilBpsNat DEF MaxFee
<1>10. FeeRecipient(d) \in Admins
  BY DEF FeeRecipient, Base, TypeOK
<1> HIDE DEF fee
<1>11. /\ Net(fees_paid'[d]) = Net(fees_paid[d]) + fee
       /\ \A c \in CampaignIds \ {d} : fees_paid'[c] = fees_paid[c]
  <2>1. fee \in Int
    BY <1>9
  <2>2. QED
    BY <1>1, <1>10, <2>1, FeePaid DEF Base
<1>12. Net(fees_paid[d]) <= 0 /\ Net(fees_paid[d]) \in Int
  <2>1. ShareOf(milestones[d], milestone_claimed[d], MaxFee(d)) = 0
    BY <1>5, NoShare
  <2>2. QED
    BY <1>1, <1>4, <2>1, PayoutTypes DEF FeeAt, Base
<1>13. PlanAt(d)'
  BY <1>1, <1>3, <1>4 DEF PlanAt
<1>14. FeeAt(d)'
  <2>1. MaxFee(d)' = MaxFee(d)
    BY <1>3 DEF MaxFee
  <2>2. milestone_claimed'[d] = {} /\ Cardinality({}) = 0
    BY <1>1, <1>5, FS_EmptySet
  <2>3. Net(fees_paid'[d]) <= MaxFee(d) + 0
    BY <1>8, <1>9, <1>11, <1>12
  <2>4. QED
    BY <1>3, <2>1, <2>2, <2>3 DEF FeeAt
<1>15. \A c \in CampaignIds \ {d} : campaign'[c] = campaign[c]
  BY <1>1, <1>2
<1>16. QED
  BY <1>1, <1>11, <1>13, <1>14, <1>15, PayoutOthers

\* What a claim of m adds to the shares of its campaign.
LEMMA ClaimFees ==
  ASSUME Base, PayoutInv, NEW d \in CampaignIds, NEW m \in MilestoneIds,
         m \notin milestone_claimed[d]
  PROVE  LET plan == milestones[d]
             A    == milestone_claimed[d]
             F    == MaxFee(d)
         IN  /\ FeeTotal(d) \in Nat /\ F \in Nat /\ FeeTotal(d) <= F
             /\ FeeClaim(d, m) \in Int
             /\ ShareOf(plan, A, F) \in Nat /\ ShareOf(plan, A \cup {m}, F) \in Nat
             /\ ShareOf(plan, A \cup {m}, F) <= F
             /\ \/ /\ LastMilestone(d, m)
                   /\ ShareOf(plan, A, F) + FeeClaim(d, m) <= F + Cardinality(A)
                \/ ShareOf(plan, A, F) + FeeClaim(d, m) <= ShareOf(plan, A \cup {m}, F)
<1> DEFINE plan == milestones[d]
           A == milestone_claimed[d]
           F == MaxFee(d)
           T == FeeTotal(d)
<1>1. /\ plan \in [MilestoneIds -> Nat] /\ A \in SUBSET MilestoneIds
      /\ F \in Nat /\ campaign[d].amount_raised \in Nat /\ PLATFORM_FEE_MAX_BPS \in Nat
      /\ Cardinality(A) \in Nat
  BY PayoutTypes DEF Base
<1>2. FeeOf(d) \in Nat /\ FeeOf(d) <= PLATFORM_FEE_MAX_BPS
  BY FeeOfType DEF Base
<1>3. T \in Nat
  BY <1>1, <1>2, CeilBpsNat DEF FeeTotal
<1>4. T <= F
  BY <1>1, <1>2, BpsMonotone DEF FeeTotal, MaxFee
<1>5. Total(plan) <= BPS_DENOMINATOR
  BY PlanTotal DEF PayoutInv
<1>6. ClaimedShare(d, T) = ShareOf(plan, A, T)
  BY <1>3, ClaimedIsShare DEF Base
<1>7. FeeClaim(d, m) = IF LastMilestone(d, m) /\ T - ShareOf(plan, A, T) > FloorBps(T, plan[m])
                       THEN T - ShareOf(plan, A, T) ELSE FloorBps(T, plan[m])
  BY <1>6 DEF FeeClaim
<1> HIDE DEF plan, A, F, T
<1>8. m \notin A /\ A \cup {m} \in SUBSET MilestoneIds /\ plan[m] \in Nat
  BY <1>1 DEF A
<1>9. /\ ShareOf(plan, A, F) \in Nat /\ ShareOf(plan, A, T) \in Nat
      /\ ShareOf(plan, A \cup {m}, F) \in Nat
  BY <1>1, <1>3, <1>8, SharesType
<1>10. ShareOf(plan, A \cup {m}, F) = ShareOf(plan, A, F) + FloorBps(F, plan[m])
  BY <1>1, <1>8, OneMoreShare
<1>11. /\ FloorBps(T, plan[m]) <= FloorBps(F, plan[m])
  BY <1>1, <1>3, <1>4, <1>8, BpsMonotone
<1>12. FloorBps(T, plan[m]) \in Nat /\ FloorBps(F, plan[m]) \in Nat
  BY <1>1, <1>3, <1>8, FloorBpsNat
<1>13. ShareOf(plan, A \cup {m}, F) <= F
  BY <1>1, <1>5, <1>8, ShareBound
<1>14. ShareOf(plan, A, F) <= ShareOf(plan, A, T) + (F - T) + Cardinality(A)
  <2>1. PICK e \in Nat : F = T + e
    BY <1>1, <1>3, <1>4
  <2>2. ShareOf(plan, A, F) <= ShareOf(plan, A, T) + e + Cardinality(A)
    BY <1>1, <1>3, <1>5, <2>1, ShareGrowth
  <2>3. QED
    BY <1>1, <1>3, <1>9, <2>1, <2>2
<1>15. CASE LastMilestone(d, m) /\ T - ShareOf(plan, A, T) > FloorBps(T, plan[m])
  <2>1. FeeClaim(d, m) = T - ShareOf(plan, A, T)
    BY <1>7, <1>15
  <2>2. ShareOf(plan, A, F) + FeeClaim(d, m) <= F + Cardinality(A)
    BY <1>1, <1>3, <1>9, <1>14, <2>1
  <2>3. FeeClaim(d, m) \in Int
    BY <1>3, <1>9, <2>1
  <2>4. QED
    BY <1>1, <1>3, <1>4, <1>9, <1>13, <1>15, <2>2, <2>3 DEF plan, A, F, T
<1>16. CASE ~(LastMilestone(d, m) /\ T - ShareOf(plan, A, T) > FloorBps(T, plan[m]))
  <2>1. FeeClaim(d, m) = FloorBps(T, plan[m])
    BY <1>7, <1>16
  <2>2. /\ ShareOf(plan, A, F) + FeeClaim(d, m) <= ShareOf(plan, A \cup {m}, F)
        /\ FeeClaim(d, m) \in Int
    BY <1>9, <1>10, <1>11, <1>12, <2>1
  <2>3. QED
    BY <1>1, <1>3, <1>4, <1>9, <1>13, <2>2 DEF plan, A, F, T
<1>17. QED
  BY <1>15, <1>16

\* claim_milestone: a share of the fee of the day, and the rest with the last.
LEMMA PayoutClaim ==
  ASSUME Base, PayoutInv, NEW d \in CampaignIds, NEW m \in MilestoneIds,
         claim_milestone(d, m)
  PROVE  PayoutInv'
<1> DEFINE plan == milestones[d]
           A == milestone_claimed[d]
           F == MaxFee(d)
           fee == FeeClaim(d, m)
<1>1. /\ m \in PlanIds(d) /\ m \notin A /\ ~campaign[d].funds_withdrawn
      /\ milestone_claimed' = [milestone_claimed EXCEPT ![d] = A \cup {m}]
      /\ PayFee(d, admin, fee)
      /\ UNCHANGED <<lifetime, milestones>>
      /\ campaign' = IF LastMilestone(d, m)
                     THEN [campaign EXCEPT ![d] = [campaign[d] EXCEPT
                             !.funds_withdrawn = TRUE, !.is_active = FALSE]]
                     ELSE campaign
  BY DEF claim_milestone, Base, TypeOK
<1>2. /\ campaign[d] \in CampaignRecords /\ d \in DOMAIN campaign
      /\ d \in DOMAIN milestone_claimed /\ admin \in Admins
  BY DEF Base, TypeOK
<1>3. /\ campaign'[d].amount_raised = campaign[d].amount_raised
      /\ campaign'[d].funds_withdrawn <=> LastMilestone(d, m)
  BY <1>1, <1>2 DEF CampaignRecords
<1>4. PlanAt(d) /\ FeeAt(d)
  BY DEF PayoutInv
<1>5. /\ F \in Nat /\ fee \in Int
      /\ ShareOf(plan, A, F) \in Nat /\ ShareOf(plan, A \cup {m}, F) \in Nat
      /\ ShareOf(plan, A \cup {m}, F) <= F
      /\ \/ /\ LastMilestone(d, m)
            /\ ShareOf(plan, A, F) + fee <= F + Cardinality(A)
         \/ ShareOf(plan, A, F) + fee <= ShareOf(plan, A \cup {m}, F)
  BY <1>1, ClaimFees
<1>6. Net(fees_paid[d]) \in Int /\ Net(fees_paid[d]) <= ShareOf(plan, A, F)
  BY <1>1, <1>4, PayoutTypes DEF FeeAt, Base
<1>7. IsFiniteSet(A) /\ Cardinality(A) \in Nat
  BY PayoutTypes, FS_Subset DEF Base
<1> HIDE DEF plan, A, F, fee
<1>8. /\ Net(fees_paid'[d]) = Net(fees_paid[d]) + fee
      /\ \A c \in CampaignIds \ {d} : fees_paid'[c] = fees_paid[c]
  BY <1>1, <1>2, <1>5, FeePaid DEF Base
<1>9. milestone_claimed'[d] = A \cup {m} /\ milestones'[d] = plan
  BY <1>1, <1>2 DEF plan
<1>10. Cardinality(A \cup {m}) = Cardinality(A) + 1
  BY <1>1, <1>7, FS_AddElement
<1>11. MaxFee(d)' = F
  BY <1>3 DEF MaxFee, F
<1>12. PlanAt(d)'
  <2>1. \A k \in A \cup {m} : plan[k] # 0
    BY <1>1, <1>4 DEF PlanAt, PlanIds, A, plan
  <2>2. QED
    BY <1>1, <1>3, <1>4, <1>9, <2>1 DEF PlanAt, plan
<1>13. FeeAt(d)'
  <2>1. CASE LastMilestone(d, m)
    <3>1. Net(fees_paid'[d]) <= F + Cardinality(A \cup {m})
      BY <1>5, <1>6, <1>7, <1>8, <1>10
    <3>2. QED
      BY <1>3, <1>9, <1>11, <2>1, <3>1 DEF FeeAt
  <2>2. CASE ~LastMilestone(d, m)
    <3>1. Net(fees_paid'[d]) <= ShareOf(plan, A \cup {m}, F)
      BY <1>5, <1>6, <1>8, <2>2
    <3>2. QED
      BY <1>3, <1>9, <1>11, <2>2, <3>1 DEF FeeAt
  <2>3. QED
    BY <2>1, <2>2
<1>14. \A c \in CampaignIds \ {d} :
         campaign'[c] = campaign[c] /\ milestone_claimed'[c] = milestone_claimed[c]
  BY <1>1, <1>2
<1>15. QED
  BY <1>1, <1>8, <1>12, <1>13, <1>14, PayoutOthers

\* Every step keeps the fees within their bounds.
LEMMA PayoutNext == ASSUME Base, LedgerInv, PayoutInv, [Next]_vars PROVE PayoutInv'
<1>0. TypeOK
  BY DEF Base
<1>1. CASE Calm
  BY <1>1, PayoutFrame DEF Calm, SameMoney, SameCore
<1>2. ASSUME NEW d \in CampaignIds,
             \/ \E days \in Extensions : extend_campaign_deadline(d, days)
             \/ \E v \in Users : claim_refund(d, v)
             \/ cancel_campaign(d) \/ admin_cancel_campaign(d)
             \/ withdraw_reserve(d)
      PROVE  PayoutInv'
  <2>1. campaign[d] \in CampaignRecords /\ campaign \in [CampaignIds -> CampaignRecords]
    BY <1>0 DEF TypeOK
  <2>2. \/ campaign' = campaign
        \/ campaign' = [campaign EXCEPT ![d] = [campaign[d] EXCEPT
                          !.is_cancelled = TRUE, !.is_active = FALSE]]
        \/ \E t : campaign' = [campaign EXCEPT ![d] = [campaign[d] EXCEPT
                          !.deadline = t, !.deadline_extended = TRUE]]
        \/ \E e : campaign' = [campaign EXCEPT ![d] = [campaign[d] EXCEPT
                          !.effective_amount_raised = e]]
    BY <1>2, <2>1 DEF extend_campaign_deadline, claim_refund, cancel_campaign,
         admin_cancel_campaign, Cancel, withdraw_reserve
  <2>3. /\ campaign'[d].funds_withdrawn = campaign[d].funds_withdrawn
        /\ campaign'[d].amount_raised = campaign[d].amount_raised
    <3>1. CASE campaign' = campaign
      BY <3>1
    <3>2. CASE campaign' = [campaign EXCEPT ![d] = [campaign[d] EXCEPT
                              !.is_cancelled = TRUE, !.is_active = FALSE]]
      BY <2>1, <3>2 DEF CampaignRecords
    <3>3. ASSUME NEW t, campaign' = [campaign EXCEPT ![d] = [campaign[d] EXCEPT
                                       !.deadline = t, !.deadline_extended = TRUE]]
          PROVE  /\ campaign'[d].funds_withdrawn = campaign[d].funds_withdrawn
                 /\ campaign'[d].amount_raised = campaign[d].amount_raised
      BY <2>1, <3>3 DEF CampaignRecords
    <3>4. ASSUME NEW e, campaign' = [campaign EXCEPT ![d] = [campaign[d] EXCEPT
                                       !.effective_amount_raised = e]]
          PROVE  /\ campaign'[d].funds_withdrawn = campaign[d].funds_withdrawn
                 /\ campaign'[d].amount_raised = campaign[d].amount_raised
      BY <2>1, <3>4 DEF CampaignRecords
    <3>5. QED
      BY <2>2, <3>1, <3>2, <3>3, <3>4
  <2>4. \A c \in CampaignIds \ {d} : campaign'[c] = campaign[c]
    BY <2>1, <2>2
  <2>5. UNCHANGED <<lifetime, milestones, milestone_claimed, fees_paid>>
    BY <1>2 DEF extend_campaign_deadline, claim_refund, cancel_campaign,
         admin_cancel_campaign, Cancel, withdraw_reserve
  <2>6. QED
    BY <2>3, <2>4, <2>5, PayoutFrame
<1>3. ASSUME NEW u \in Creators, NEW goal \in Goals, NEW days \in Durations,
             NEW cap \in UserCaps, NEW tok \in Tokens \cup {None},
             create_campaign(u, goal, days, cap, tok)
      PROVE  PayoutInv'
  BY <1>3, PayoutCreate
<1>4. ASSUME NEW d \in CampaignIds, NEW v \in Users, NEW amt \in Amounts,
             CanContribute(d, v, amt), Account(d, v, amt)
      PROVE  PayoutInv'
  BY <1>4, PayoutContribute
<1>5. ASSUME NEW d \in CampaignIds,
             \/ withdraw_funds(d)
             \/ \E plan \in Plans : set_milestones(d, plan)
             \/ \E m \in MilestoneIds : claim_milestone(d, m)
      PROVE  PayoutInv'
  BY <1>5, PayoutWithdraw, PayoutPlan, PayoutClaim
<1>6. QED
  BY <1>0, <1>1, <1>2, <1>3, <1>4, <1>5, StepKinds

\* In every reachable state a campaign's plan, its claims and the fees it paid fit: what
\* FeesBounded and MilestonesHold rest on.
THEOREM PayoutInvariant == Spec => []PayoutInv
<1>1. Base /\ LedgerInv /\ PayoutInv /\ [Next]_vars => PayoutInv'
  BY PayoutNext
<1>2. QED
  BY <1>1, PayoutInit, Typing, MoneyInvariant, LedgerInvariant, PTL DEF Spec, Base

\* However often the fee is changed between the claims of a campaign and whatever
\* its plan, the fees it pays stay within the policy maximum, but for a unit of
\* rounding per claim.
THEOREM FeesBounded == Spec => []FeeBounded
<1>1. TypeOK /\ PayoutInv => FeeBounded
  <2> SUFFICES ASSUME TypeOK, PayoutInv, NEW c \in CampaignIds
               PROVE  Net(fees_paid[c]) <= MaxFee(c) + Cardinality(milestone_claimed[c])
    BY DEF FeeBounded, MaxFee
  <2>1. PlanAt(c) /\ FeeAt(c)
    BY DEF PayoutInv
  <2>2. /\ MaxFee(c) \in Nat /\ Cardinality(milestone_claimed[c]) \in Nat
        /\ Net(fees_paid[c]) \in Int
        /\ milestones[c] \in [MilestoneIds -> Nat]
        /\ milestone_claimed[c] \in SUBSET MilestoneIds
    BY PayoutTypes
  <2>3. Total(milestones[c]) <= BPS_DENOMINATOR
    BY <2>1, PlanTotal
  <2>4. /\ ShareOf(milestones[c], milestone_claimed[c], MaxFee(c)) <= MaxFee(c)
        /\ ShareOf(milestones[c], milestone_claimed[c], MaxFee(c)) \in Nat
    BY <2>2, <2>3, ShareBound, SharesType
  <2>5. QED
    BY <2>1, <2>2, <2>4 DEF FeeAt
<1>2. QED
  BY <1>1, PayoutInvariant, Typing, PTL

-----------------------------------------------------------------------------
(* Milestones under a constant fee.                                        *)

\* The fee of the amount raised so far, and what it leaves.
FeeAtRate(c, fee) == CeilBps(campaign[c].amount_raised, fee)
RestAtRate(c, fee) == campaign[c].amount_raised - FeeAtRate(c, fee)

\* What the milestones of a campaign have not paid out yet.
Unpaid(c, fee) ==
  LET share(x) == ShareOf(milestones[c], milestone_claimed[c], x)
  IN (RestAtRate(c, fee) - share(RestAtRate(c, fee)))
       + (FeeAtRate(c, fee) - share(FeeAtRate(c, fee)))

\* A campaign that has paid a milestone reached its goal, has no reserve, and holds
\* what its milestones have not paid out.
CoverAt(c, fee) ==
  milestone_claimed[c] # {} =>
    /\ campaign[c].amount_raised >= campaign[c].funding_goal
    /\ reserve[c] = NoReserve
    /\ ~campaign[c].is_cancelled =>
         IF campaign[c].funds_withdrawn
         THEN held[c][TokenOf(c)] >= 0
         ELSE held[c][TokenOf(c)] >= Unpaid(c, fee)

CoverInv(fee) ==
  /\ platform_fee = fee
  /\ \A c \in CampaignIds : campaign[c].fee_override \in {Unset, fee} /\ CoverAt(c, fee)

\* A campaign a step leaves alone.
LEMMA SameCover ==
  ASSUME NEW c \in CampaignIds, NEW fee, CoverAt(c, fee),
         platform_token' = platform_token,
         campaign'[c].token = campaign[c].token,
         campaign'[c].amount_raised = campaign[c].amount_raised,
         campaign'[c].funding_goal = campaign[c].funding_goal,
         campaign'[c].is_cancelled = campaign[c].is_cancelled,
         campaign'[c].funds_withdrawn = campaign[c].funds_withdrawn,
         milestones'[c] = milestones[c], reserve'[c] = reserve[c],
         milestone_claimed'[c] = milestone_claimed[c], held'[c] = held[c]
  PROVE  CoverAt(c, fee)'
<1>1. FeeAtRate(c, fee)' = FeeAtRate(c, fee)
  BY DEF FeeAtRate
<1>2. RestAtRate(c, fee)' = RestAtRate(c, fee)
  BY <1>1 DEF RestAtRate
<1>3. Unpaid(c, fee)' = Unpaid(c, fee)
  BY <1>1, <1>2 DEF Unpaid
<1>4. TokenOf(c)' = TokenOf(c)
  BY DEF TokenOf
<1>5. QED
  BY <1>3, <1>4 DEF CoverAt

\* The rest of a step that is about campaign d.
LEMMA CoverOthers ==
  ASSUME NEW fee, CoverInv(fee), NEW d \in CampaignIds,
         UNCHANGED <<platform_token, platform_fee>>,
         campaign'[d].fee_override \in {Unset, fee}, CoverAt(d, fee)',
         \A c \in CampaignIds \ {d} :
           /\ campaign'[c] = campaign[c] /\ reserve'[c] = reserve[c]
           /\ milestones'[c] = milestones[c] /\ held'[c] = held[c]
           /\ milestone_claimed'[c] = milestone_claimed[c]
  PROVE  CoverInv(fee)'
<1>1. \A c \in CampaignIds \ {d} : CoverAt(c, fee)'
  BY SameCover DEF CoverInv
<1>2. QED
  BY <1>1 DEF CoverInv

\* The amounts Unpaid is made of.
LEMMA RateTypes ==
  ASSUME TypeOK, NEW c \in CampaignIds, NEW fee \in 0..PLATFORM_FEE_MAX_BPS
  PROVE  /\ FeeAtRate(c, fee) \in Nat /\ RestAtRate(c, fee) \in Nat
         /\ ShareOf(milestones[c], milestone_claimed[c], FeeAtRate(c, fee)) \in Nat
         /\ ShareOf(milestones[c], milestone_claimed[c], RestAtRate(c, fee)) \in Nat
         /\ Unpaid(c, fee) \in Int /\ held[c][TokenOf(c)] \in Int
<1>1. campaign[c].amount_raised \in Nat
  BY PayoutTypes
<1>2. fee \in 0..BPS_DENOMINATOR
  BY BpsDenominatorNat
<1>3. FeeAtRate(c, fee) \in 0..campaign[c].amount_raised
  BY <1>1, <1>2, CeilBpsBounds DEF FeeAtRate
<1>4. FeeAtRate(c, fee) \in Nat /\ RestAtRate(c, fee) \in Nat
  BY <1>1, <1>3 DEF RestAtRate
<1>5. /\ ShareOf(milestones[c], milestone_claimed[c], FeeAtRate(c, fee)) \in Nat
      /\ ShareOf(milestones[c], milestone_claimed[c], RestAtRate(c, fee)) \in Nat
  BY <1>4, PayoutTypes
<1>6. Unpaid(c, fee) \in Int
  BY <1>4, <1>5 DEF Unpaid
<1>7. held[c][TokenOf(c)] \in Int
  BY TokenOfType, LedgerTypes
<1>8. QED
  BY <1>4, <1>5, <1>6, <1>7

\* contribute and batch_contribute bring in at least what they add to Unpaid.
LEMMA CoverContribute ==
  ASSUME Base, PayoutInv, NEW fee \in 0..PLATFORM_FEE_MAX_BPS, CoverInv(fee),
         NEW d \in CampaignIds, NEW v \in Users, NEW amt \in Amounts,
         CanContribute(d, v, amt), Account(d, v, amt)
  PROVE  CoverInv(fee)'
<1>0. TypeOK
  BY DEF Base
<1>1. /\ amt \in Nat /\ Created(d) /\ campaign[d].is_active
  BY DEF CanContribute, RequireActive
<1>2. /\ campaign' = [campaign EXCEPT ![d] = [campaign[d] EXCEPT
                        !.amount_raised = campaign[d].amount_raised + amt,
                        !.effective_amount_raised =
                           campaign[d].effective_amount_raised + amt]]
      /\ held' = [held EXCEPT ![d][TokenOf(d)] = held[d][TokenOf(d)] + amt]
      /\ UNCHANGED <<platform_token, platform_fee, milestones, milestone_claimed, reserve>>
  BY TokenOfType DEF Account, Receive, Base, TypeOK
<1>3. /\ campaign[d] \in CampaignRecords /\ d \in DOMAIN campaign
      /\ held \in [CampaignIds -> [Tokens -> Int]] /\ TokenOf(d) \in Tokens
  BY TokenOfType DEF Base, TypeOK
<1>4. /\ campaign'[d].funds_withdrawn = campaign[d].funds_withdrawn
      /\ campaign'[d].is_cancelled = campaign[d].is_cancelled
      /\ campaign'[d].funding_goal = campaign[d].funding_goal
      /\ campaign'[d].token = campaign[d].token
      /\ campaign'[d].fee_override = campaign[d].fee_override
      /\ campaign'[d].amount_raised = campaign[d].amount_raised + amt
  BY <1>2, <1>3 DEF CampaignRecords
<1>5. ~campaign[d].funds_withdrawn
  BY <1>1, AtCampaign DEF Base
<1>6. TokenOf(d)' = TokenOf(d)
  BY <1>2, <1>4 DEF TokenOf
<1>7. held'[d][TokenOf(d)] = held[d][TokenOf(d)] + amt /\ held[d][TokenOf(d)] \in Int
  BY <1>2, <1>3
<1> DEFINE plan == milestones[d]
           A == milestone_claimed[d]
           x == campaign[d].amount_raised
           y == campaign'[d].amount_raised
           F == CeilBps(x, fee)
           G == CeilBps(y, fee)
<1>8. /\ x \in Nat /\ y \in Nat /\ y = x + amt
      /\ plan \in [MilestoneIds -> Nat] /\ A \in SUBSET MilestoneIds
  BY <1>0, <1>1, <1>4, PayoutTypes
<1>9. /\ Unpaid(d, fee) = ((x - F) - ShareOf(plan, A, x - F)) + (F - ShareOf(plan, A, F))
      /\ Unpaid(d, fee)' = ((y - G) - ShareOf(plan, A, y - G)) + (G - ShareOf(plan, A, G))
  BY <1>2 DEF Unpaid, RestAtRate, FeeAtRate
<1>10. Unpaid(d, fee)' <= Unpaid(d, fee) + amt
  <2> HIDE DEF plan, A, x, y
  <2>1. x <= y /\ fee \in Nat /\ fee \in 0..BPS_DENOMINATOR
    BY <1>1, <1>8, BpsDenominatorNat
  <2>2. F \in 0..x /\ G \in 0..y
    BY <1>8, <2>1, CeilBpsBounds
  <2>3. F <= G
    BY <1>8, <2>1, BpsMonotone
  <2>4. x - F <= y - G
    BY <1>8, <2>1, AfterFeeMonotone
  <2> HIDE DEF F, G
  <2>5. PICK r \in Nat, q \in Nat : r = x - F /\ q = y - G
    BY <1>8, <2>2
  <2>6. F \in Nat /\ G \in Nat /\ r <= q
    BY <1>8, <2>2, <2>4, <2>5
  <2>7. ShareOf(plan, A, F) <= ShareOf(plan, A, G)
    BY <1>8, <2>3, <2>6, ShareMonotone
  <2>8. ShareOf(plan, A, r) <= ShareOf(plan, A, q)
    BY <1>8, <2>6, ShareMonotone
  <2>9. /\ ShareOf(plan, A, F) \in Nat /\ ShareOf(plan, A, G) \in Nat
        /\ ShareOf(plan, A, r) \in Nat /\ ShareOf(plan, A, q) \in Nat
    BY <1>8, <2>6, SharesType
  <2>10. /\ Unpaid(d, fee) = (r - ShareOf(plan, A, r)) + (F - ShareOf(plan, A, F))
         /\ Unpaid(d, fee)' = (q - ShareOf(plan, A, q)) + (G - ShareOf(plan, A, G))
    BY <1>9, <2>5
  <2>11. r + F = x /\ q + G = x + amt
    BY <1>8, <2>5, <2>6
  <2>12. QED
    BY <1>1, <1>8, <2>6, <2>7, <2>8, <2>9, <2>10, <2>11
<1>11. CoverAt(d, fee)'
  <2>1. CASE milestone_claimed[d] = {}
    BY <1>2, <2>1 DEF CoverAt
  <2>2. CASE milestone_claimed[d] # {}
    <3>1. /\ campaign[d].amount_raised >= campaign[d].funding_goal
          /\ reserve[d] = NoReserve
          /\ ~campaign[d].is_cancelled => held[d][TokenOf(d)] >= Unpaid(d, fee)
      BY <1>5, <2>2 DEF CoverInv, CoverAt
    <3>2. campaign'[d].amount_raised >= campaign'[d].funding_goal
      BY <1>0, <1>1, <1>4, <1>8, <3>1, CoreTypes
    <3>3. Unpaid(d, fee) \in Int /\ Unpaid(d, fee)' \in Int
      <4>1. Unpaid(d, fee) \in Int
        BY <1>0, RateTypes
      <4>2. /\ fee \in 0..BPS_DENOMINATOR /\ y \in Nat
        BY <1>8, BpsDenominatorNat
      <4>3. G \in Nat /\ y - G \in Nat
        BY <4>2, CeilBpsBounds
      <4>4. ShareOf(plan, A, G) \in Nat /\ ShareOf(plan, A, y - G) \in Nat
        BY <1>8, <4>3, SharesType
      <4>5. QED
        BY <1>9, <4>1, <4>3, <4>4
    <3>4. ~campaign[d].is_cancelled => held'[d][TokenOf(d)] >= Unpaid(d, fee)'
      BY <1>1, <1>7, <1>10, <3>1, <3>3
    <3>5. QED
      BY <1>2, <1>4, <1>5, <1>6, <3>1, <3>2, <3>4 DEF CoverAt
  <2>3. QED
    BY <2>1, <2>2
<1>12. \A c \in CampaignIds \ {d} : campaign'[c] = campaign[c] /\ held'[c] = held[c]
  BY <1>2, <1>3
<1>13. campaign'[d].fee_override \in {Unset, fee}
  BY <1>4 DEF CoverInv
<1>14. QED
  BY <1>2, <1>11, <1>12, <1>13, CoverOthers

\* What the milestones would not have paid out yet once m is claimed too.
UnpaidAfter(c, m, fee) ==
  LET share(x) == ShareOf(milestones[c], milestone_claimed[c] \cup {m}, x)
  IN (RestAtRate(c, fee) - share(RestAtRate(c, fee)))
       + (FeeAtRate(c, fee) - share(FeeAtRate(c, fee)))

\* The claim of an open milestone is covered, and leaves what is not paid out yet.
LEMMA ClaimCovered ==
  ASSUME Base, LedgerInv, PayoutInv, NEW fee \in 0..PLATFORM_FEE_MAX_BPS, CoverInv(fee),
         NEW d \in CampaignIds, NEW m \in MilestoneIds, m \notin milestone_claimed[d],
         GoalMet(d), ~campaign[d].funds_withdrawn, ~campaign[d].is_cancelled
  PROVE  /\ FeeClaim(d, m) + Claimable(d, m) <= held[d][TokenOf(d)]
         /\ FeeClaim(d, m) + Claimable(d, m) \in Int
         /\ ~LastMilestone(d, m) =>
              held[d][TokenOf(d)] - (FeeClaim(d, m) + Claimable(d, m))
                >= UnpaidAfter(d, m, fee)
<1>0. TypeOK
  BY DEF Base
<1> DEFINE plan == milestones[d]
           A == milestone_claimed[d]
           x == campaign[d].amount_raised
           F == FeeAtRate(d, fee)
           r == RestAtRate(d, fee)
           paid == FeeClaim(d, m) + Claimable(d, m)
           h == held[d][TokenOf(d)]
<1>1. /\ plan \in [MilestoneIds -> Nat] /\ A \in SUBSET MilestoneIds /\ x \in Nat
      /\ F \in Nat /\ r \in Nat /\ h \in Int
      /\ ShareOf(plan, A, F) \in Nat /\ ShareOf(plan, A, r) \in Nat
  BY <1>0, PayoutTypes, RateTypes
<1>2. r + F = x
  BY <1>1 DEF RestAtRate
<1>3. FeeOf(d) = fee
  BY DEF CoverInv, FeeOf
<1>4. FeeTotal(d) = F /\ AfterFee(d) = r
  BY <1>3 DEF FeeTotal, AfterFee, FeeAtRate, RestAtRate
<1>5. ClaimedShare(d, F) = ShareOf(plan, A, F) /\ ClaimedShare(d, r) = ShareOf(plan, A, r)
  BY <1>0, <1>1, ClaimedIsShare
<1>6. /\ Claimable(d, m) = IF LastMilestone(d, m) THEN r - ShareOf(plan, A, r)
                                                  ELSE FloorBps(r, plan[m])
      /\ FeeClaim(d, m) = IF /\ LastMilestone(d, m)
                             /\ F - ShareOf(plan, A, F) > FloorBps(F, plan[m])
                          THEN F - ShareOf(plan, A, F) ELSE FloorBps(F, plan[m])
  BY <1>4, <1>5 DEF Claimable, FeeClaim
<1>7. h >= (r - ShareOf(plan, A, r)) + (F - ShareOf(plan, A, F))
  <2>1. CASE A # {}
    BY <2>1 DEF CoverInv, CoverAt, Unpaid
  <2>2. CASE A = {}
    <3>1. ~Refundable(d)
      BY <1>0, PaysOrRefunds
    <3>2. h = Total(contribution[d])
      BY <2>2 DEF LedgerInv, LedgerAt, CustodyAt, Outstanding
    <3>3. \A u \in Users : contribution[d][u] = lifetime[d][u]
      BY <3>1 DEF Base, MoneyInv, FundingInv, RefundedIsRefundable
    <3>4. contribution[d] \in [Users -> Nat] /\ lifetime[d] \in [Users -> Nat]
      BY <1>0 DEF TypeOK
    <3>5. contribution[d] = lifetime[d]
      BY <3>3, <3>4
    <3>6. h = x
      BY <3>2, <3>5 DEF PayoutInv, PlanAt
    <3>7. ShareOf(plan, A, r) = 0 /\ ShareOf(plan, A, F) = 0
      BY <2>2, NoShare
    <3>8. QED
      BY <1>1, <1>2, <3>6, <3>7
  <2>3. QED
    BY <2>1, <2>2
<1>8. Total(plan) <= BPS_DENOMINATOR
  BY PlanTotal DEF PayoutInv
<1>9. UnpaidAfter(d, m, fee)
        = (r - ShareOf(plan, A \cup {m}, r)) + (F - ShareOf(plan, A \cup {m}, F))
  BY DEF UnpaidAfter
<1> HIDE DEF plan, A, x, F, r, h
<1>10. A \cup {m} \in SUBSET MilestoneIds /\ plan[m] \in Nat /\ m \notin A
  BY <1>1 DEF A
<1>11. FloorBps(F, plan[m]) \in Nat /\ FloorBps(r, plan[m]) \in Nat
  BY <1>1, <1>10, FloorBpsNat
<1>12. /\ ShareOf(plan, A \cup {m}, F) = ShareOf(plan, A, F) + FloorBps(F, plan[m])
       /\ ShareOf(plan, A \cup {m}, r) = ShareOf(plan, A, r) + FloorBps(r, plan[m])
  BY <1>1, <1>10, OneMoreShare
<1>13. ShareOf(plan, A \cup {m}, F) <= F /\ ShareOf(plan, A \cup {m}, r) <= r
  BY <1>1, <1>8, <1>10, ShareBound
<1>14. /\ paid \in Int /\ paid <= h
       /\ ~LastMilestone(d, m) =>
            h - paid >= (r - ShareOf(plan, A \cup {m}, r)) + (F - ShareOf(plan, A \cup {m}, F))
  <2>1. CASE LastMilestone(d, m) /\ F - ShareOf(plan, A, F) > FloorBps(F, plan[m])
    BY <1>1, <1>6, <1>7, <2>1
  <2>2. CASE LastMilestone(d, m) /\ ~(F - ShareOf(plan, A, F) > FloorBps(F, plan[m]))
    BY <1>1, <1>6, <1>7, <1>11, <1>12, <1>13, <2>2
  <2>3. CASE ~LastMilestone(d, m)
    BY <1>1, <1>6, <1>7, <1>11, <1>12, <1>13, <2>3
  <2>4. QED
    BY <2>1, <2>2, <2>3
<1>15. QED
  BY <1>9, <1>14 DEF h

\* claim_milestone pays a part of Unpaid, and the last claim no more than the rest.
LEMMA CoverClaim ==
  ASSUME Base, LedgerInv, PayoutInv, NEW fee \in 0..PLATFORM_FEE_MAX_BPS, CoverInv(fee),
         NEW d \in CampaignIds, NEW m \in MilestoneIds, claim_milestone(d, m)
  PROVE  CoverInv(fee)'
<1>0. TypeOK
  BY DEF Base
<1> DEFINE A == milestone_claimed[d]
           paid == FeeClaim(d, m) + Claimable(d, m)
           h == held[d][TokenOf(d)]
<1>1. /\ m \notin A /\ ~campaign[d].funds_withdrawn /\ ~campaign[d].is_cancelled
      /\ GoalMet(d) /\ Created(d)
      /\ milestone_claimed' = [milestone_claimed EXCEPT ![d] = A \cup {m}]
      /\ held' = [held EXCEPT ![d][TokenOf(d)] = h - paid]
      /\ UNCHANGED <<platform_token, platform_fee, milestones, reserve>>
      /\ campaign' = IF LastMilestone(d, m)
                     THEN [campaign EXCEPT ![d] = [campaign[d] EXCEPT
                             !.funds_withdrawn = TRUE, !.is_active = FALSE]]
                     ELSE campaign
  BY TokenOfType DEF claim_milestone, Pay, Base, TypeOK
<1>2. /\ campaign[d] \in CampaignRecords /\ d \in DOMAIN campaign
      /\ d \in DOMAIN milestone_claimed
      /\ held \in [CampaignIds -> [Tokens -> Int]] /\ TokenOf(d) \in Tokens
  BY TokenOfType DEF Base, TypeOK
<1>3. /\ campaign'[d].funds_withdrawn <=> LastMilestone(d, m)
      /\ campaign'[d].amount_raised = campaign[d].amount_raised
      /\ campaign'[d].funding_goal = campaign[d].funding_goal
      /\ campaign'[d].token = campaign[d].token
      /\ campaign'[d].fee_override = campaign[d].fee_override
  BY <1>1, <1>2 DEF CampaignRecords
<1>4. /\ paid <= h /\ paid \in Int /\ h \in Int
      /\ ~LastMilestone(d, m) => h - paid >= UnpaidAfter(d, m, fee)
  BY <1>0, <1>1, ClaimCovered, RateTypes
<1> HIDE DEF paid, h
<1>5. held'[d][TokenOf(d)] = h - paid /\ h - paid >= 0
  BY <1>1, <1>2, <1>4
<1>6. TokenOf(d)' = TokenOf(d)
  BY <1>1, <1>3 DEF TokenOf
<1>7. /\ FeeAtRate(d, fee)' = FeeAtRate(d, fee)
      /\ RestAtRate(d, fee)' = RestAtRate(d, fee)
  BY <1>3 DEF FeeAtRate, RestAtRate
<1>8. Unpaid(d, fee)' = UnpaidAfter(d, m, fee)
  <2>1. milestone_claimed'[d] = milestone_claimed[d] \cup {m} /\ milestones'[d] = milestones[d]
    BY <1>1, <1>2
  <2>2. QED
    BY <1>7, <2>1 DEF Unpaid, UnpaidAfter
<1>9. reserve'[d] = NoReserve
  BY <1>1, AtCampaign DEF Base
<1>10. campaign'[d].amount_raised >= campaign'[d].funding_goal
  BY <1>1, <1>3 DEF GoalMet
<1>11. CoverAt(d, fee)'
  BY <1>3, <1>4, <1>5, <1>6, <1>8, <1>9, <1>10 DEF CoverAt
<1>12. \A c \in CampaignIds \ {d} :
         /\ campaign'[c] = campaign[c] /\ held'[c] = held[c]
         /\ milestone_claimed'[c] = milestone_claimed[c]
  BY <1>1, <1>2
<1>13. campaign'[d].fee_override \in {Unset, fee}
  BY <1>3 DEF CoverInv
<1>14. QED
  BY <1>1, <1>11, <1>12, <1>13, CoverOthers

\* Steps about a campaign that has not paid a milestone or is cancelled.
LEMMA CoverIdle ==
  ASSUME NEW fee, CoverInv(fee), NEW d \in CampaignIds,
         UNCHANGED <<platform_token, platform_fee, milestone_claimed>>,
         campaign'[d].fee_override \in {Unset, fee},
         \/ milestone_claimed[d] = {}
         \/ /\ campaign'[d].is_cancelled
            /\ campaign'[d].amount_raised = campaign[d].amount_raised
            /\ campaign'[d].funding_goal = campaign[d].funding_goal
            /\ reserve'[d] = reserve[d],
         \A c \in CampaignIds \ {d} :
           /\ campaign'[c] = campaign[c] /\ reserve'[c] = reserve[c]
           /\ milestones'[c] = milestones[c] /\ held'[c] = held[c]
  PROVE  CoverInv(fee)'
<1>1. CoverAt(d, fee)
  BY DEF CoverInv
<1>2. CoverAt(d, fee)'
  BY <1>1 DEF CoverAt
<1>3. QED
  BY <1>2, CoverOthers

\* create_campaign.
LEMMA CoverCreate ==
  ASSUME Base, NEW fee, CoverInv(fee), NEW u \in Creators, NEW goal \in Goals,
         NEW days \in Durations, NEW cap \in UserCaps,
         NEW tok \in Tokens \cup {None}, create_campaign(u, goal, days, cap, tok)
  PROVE  CoverInv(fee)'
<1>1. PICK d \in CampaignIds : d = campaign_count + 1
  BY DEF create_campaign
<1>2. ~Created(d) /\ milestone_claimed[d] = {}
  BY <1>1 DEF Created, Base, TypeOK, MoneyInv, FundingInv, Untouched
<1>3. /\ campaign'[d].fee_override = Unset
      /\ \A c \in CampaignIds \ {d} : campaign'[c] = campaign[c]
  BY <1>1 DEF create_campaign, Base, TypeOK
<1>4. UNCHANGED <<platform_token, platform_fee, milestone_claimed, reserve, milestones, held>>
  BY DEF create_campaign
<1>5. QED
  BY <1>2, <1>3, <1>4, CoverIdle

\* Both cancellations.
LEMMA CoverCancel ==
  ASSUME Base, NEW fee, CoverInv(fee), NEW d \in CampaignIds, Cancel(d)
  PROVE  CoverInv(fee)'
<1>1. /\ campaign' = [campaign EXCEPT ![d] = [campaign[d] EXCEPT
                         !.is_cancelled = TRUE, !.is_active = FALSE]]
      /\ UNCHANGED <<platform_token, platform_fee, milestone_claimed, reserve, milestones,
                     held>>
  BY DEF Cancel, Base, TypeOK
<1>2. campaign[d] \in CampaignRecords /\ d \in DOMAIN campaign
  BY DEF Base, TypeOK
<1>3. /\ campaign'[d].is_cancelled
      /\ campaign'[d].amount_raised = campaign[d].amount_raised
      /\ campaign'[d].funding_goal = campaign[d].funding_goal
      /\ campaign'[d].fee_override = campaign[d].fee_override
  BY <1>1, <1>2 DEF CampaignRecords
<1>4. \A c \in CampaignIds \ {d} : campaign'[c] = campaign[c]
  BY <1>1, <1>2
<1>5. campaign'[d].fee_override \in {Unset, fee}
  BY <1>3 DEF CoverInv
<1>6. QED
  BY <1>1, <1>3, <1>4, <1>5, CoverIdle

\* claim_refund: only of a cancelled campaign once a milestone was paid, since the
\* goal was reached.
LEMMA CoverRefund ==
  ASSUME Base, NEW fee, CoverInv(fee), NEW d \in CampaignIds, NEW v \in Users,
         claim_refund(d, v)
  PROVE  CoverInv(fee)'
<1>1. /\ Refundable(d)
      /\ campaign' = [campaign EXCEPT ![d] = [campaign[d] EXCEPT
           !.effective_amount_raised = EffectiveAfterRefund(d, contribution[d][v])]]
      /\ held' = [held EXCEPT ![d][TokenOf(d)] = held[d][TokenOf(d)] - contribution[d][v]]
      /\ UNCHANGED <<platform_token, platform_fee, milestone_claimed, reserve, milestones>>
  BY TokenOfType DEF claim_refund, Pay, Base, TypeOK
<1>2. campaign[d] \in CampaignRecords /\ d \in DOMAIN campaign /\ d \in DOMAIN held
  BY DEF Base, TypeOK
<1>3. /\ campaign'[d].is_cancelled = campaign[d].is_cancelled
      /\ campaign'[d].amount_raised = campaign[d].amount_raised
      /\ campaign'[d].funding_goal = campaign[d].funding_goal
      /\ campaign'[d].fee_override = campaign[d].fee_override
  BY <1>1, <1>2 DEF CampaignRecords
<1>4. \A c \in CampaignIds \ {d} : campaign'[c] = campaign[c] /\ held'[c] = held[c]
  BY <1>1, <1>2
<1>5. campaign'[d].fee_override \in {Unset, fee}
  BY <1>3 DEF CoverInv
<1>6. milestone_claimed[d] # {} => campaign[d].amount_raised >= campaign[d].funding_goal
  BY DEF CoverInv, CoverAt
<1>7. campaign[d].amount_raised \in Nat /\ campaign[d].funding_goal \in Nat
  BY CoreTypes DEF Base
<1>8. milestone_claimed[d] = {} \/ campaign[d].is_cancelled
  BY <1>1, <1>6, <1>7 DEF Refundable
<1>9. QED
  BY <1>1, <1>3, <1>4, <1>5, <1>8, CoverIdle

\* withdraw_funds, withdraw_reserve and set_milestones: nothing was claimed.
LEMMA CoverUnclaimed ==
  ASSUME Base, PayoutInv, NEW fee, CoverInv(fee), NEW d \in CampaignIds,
         \/ withdraw_funds(d) \/ withdraw_reserve(d)
         \/ \E plan \in Plans : set_milestones(d, plan)
  PROVE  CoverInv(fee)'
<1>1. UNCHANGED <<platform_token, platform_fee, milestone_claimed>>
  BY DEF withdraw_funds, withdraw_reserve, set_milestones
<1>2. /\ campaign[d] \in CampaignRecords /\ campaign \in [CampaignIds -> CampaignRecords]
      /\ reserve \in [CampaignIds -> Reserves] /\ held \in [CampaignIds -> [Tokens -> Int]]
      /\ milestones \in [CampaignIds -> [MilestoneIds -> Nat]]
      /\ milestone_claimed[d] \in SUBSET MilestoneIds
  BY DEF Base, TypeOK
<1>3. milestone_claimed[d] = {}
  <2>1. CASE milestones[d] = NoPlan
    BY <1>2, <2>1 DEF PayoutInv, PlanAt, NoPlan
  <2>2. CASE withdraw_reserve(d)
    <3>1. reserve[d] # NoReserve
      BY <2>2 DEF withdraw_reserve, NoReserve
    <3>2. QED
      BY <3>1 DEF CoverInv, CoverAt
  <2>3. QED
    BY <2>1, <2>2 DEF withdraw_funds, set_milestones
<1>4. \/ campaign' = campaign
      \/ campaign' = [campaign EXCEPT ![d] = [campaign[d] EXCEPT
                        !.funds_withdrawn = TRUE, !.is_active = FALSE]]
  BY <1>2 DEF withdraw_funds, withdraw_reserve, set_milestones
<1>5. campaign'[d].fee_override = campaign[d].fee_override
  <2>1. CASE campaign' = campaign
    BY <2>1
  <2>2. CASE campaign' = [campaign EXCEPT ![d] = [campaign[d] EXCEPT
                            !.funds_withdrawn = TRUE, !.is_active = FALSE]]
    BY <1>2, <2>2 DEF CampaignRecords
  <2>3. QED
    BY <1>4, <2>1, <2>2
<1>6. \A c \in CampaignIds \ {d} : campaign'[c] = campaign[c]
  BY <1>2, <1>4
<1>7. \A c \in CampaignIds \ {d} :
        reserve'[c] = reserve[c] /\ milestones'[c] = milestones[c] /\ held'[c] = held[c]
  <2>1. CASE withdraw_funds(d)
    BY <1>2, <2>1 DEF withdraw_funds, Pay
  <2>2. CASE withdraw_reserve(d)
    BY <1>2, <2>2 DEF withdraw_reserve, Pay
  <2>3. CASE \E plan \in Plans : set_milestones(d, plan)
    BY <1>2, <2>3 DEF set_milestones
  <2>4. QED
    BY <2>1, <2>2, <2>3
<1>8. campaign'[d].fee_override \in {Unset, fee}
  BY <1>5 DEF CoverInv
<1>9. QED
  BY <1>1, <1>3, <1>6, <1>7, <1>8, CoverIdle

\* extend_campaign_deadline.
LEMMA CoverExtend ==
  ASSUME Base, NEW fee, CoverInv(fee), NEW d \in CampaignIds, NEW days \in Extensions,
         extend_campaign_deadline(d, days)
  PROVE  CoverInv(fee)'
<1>1. PICK t : campaign' = [campaign EXCEPT ![d] = [campaign[d] EXCEPT
                 !.deadline = t, !.deadline_extended = TRUE]]
  BY DEF extend_campaign_deadline, Base, TypeOK
<1>2. UNCHANGED <<platform_token, platform_fee, milestone_claimed, reserve, milestones, held>>
  BY DEF extend_campaign_deadline
<1>3. campaign[d] \in CampaignRecords /\ d \in DOMAIN campaign
  BY DEF Base, TypeOK
<1>4. /\ campaign'[d].is_cancelled = campaign[d].is_cancelled
      /\ campaign'[d].funds_withdrawn = campaign[d].funds_withdrawn
      /\ campaign'[d].amount_raised = campaign[d].amount_raised
      /\ campaign'[d].funding_goal = campaign[d].funding_goal
      /\ campaign'[d].token = campaign[d].token
      /\ campaign'[d].fee_override = campaign[d].fee_override
  BY <1>1, <1>3 DEF CampaignRecords
<1>5. CoverAt(d, fee)'
  BY <1>2, <1>4, SameCover DEF CoverInv
<1>6. \A c \in CampaignIds \ {d} : campaign'[c] = campaign[c]
  BY <1>1, <1>3
<1>7. campaign'[d].fee_override \in {Unset, fee}
  BY <1>4 DEF CoverInv
<1>8. QED
  BY <1>2, <1>5, <1>6, <1>7, CoverOthers

\* Every step keeps every campaign covered when there is only one fee.
LEMMA CoverNext ==
  ASSUME Base, LedgerInv, PayoutInv, NEW fee \in 0..PLATFORM_FEE_MAX_BPS,
         Fees = {fee}, CoverInv(fee), [Next]_vars
  PROVE  CoverInv(fee)'
<1>0. TypeOK
  BY DEF Base
<1>1. CASE Calm
  <2>1. \A c \in CampaignIds : CoverAt(c, fee)'
    BY <1>1, SameCover DEF Calm, SameMoney, SameCore, CoverInv
  <2>2. platform_fee' = fee
    BY <1>1 DEF Calm, CoverInv
  <2>3. \A c \in CampaignIds : campaign'[c].fee_override \in {Unset, fee}
    BY <1>1 DEF Calm, CoverInv
  <2>4. QED
    BY <2>1, <2>2, <2>3 DEF CoverInv
<1>2. ASSUME NEW u \in Creators, NEW goal \in Goals, NEW days \in Durations,
             NEW cap \in UserCaps, NEW tok \in Tokens \cup {None},
             create_campaign(u, goal, days, cap, tok)
      PROVE  CoverInv(fee)'
  BY <1>2, CoverCreate
<1>3. ASSUME NEW d \in CampaignIds, NEW v \in Users, NEW amt \in Amounts,
             CanContribute(d, v, amt), Account(d, v, amt)
      PROVE  CoverInv(fee)'
  BY <1>3, CoverContribute
<1>4. ASSUME NEW d \in CampaignIds, cancel_campaign(d) \/ admin_cancel_campaign(d)
      PROVE  CoverInv(fee)'
  BY <1>4, CoverCancel DEF cancel_campaign, admin_cancel_campaign
<1>5. ASSUME NEW d \in CampaignIds,
             \/ \E days \in Extensions : extend_campaign_deadline(d, days)
             \/ \E v \in Users : claim_refund(d, v)
             \/ withdraw_funds(d) \/ withdraw_reserve(d)
             \/ \E plan \in Plans : set_milestones(d, plan)
      PROVE  CoverInv(fee)'
  BY <1>5, CoverExtend, CoverRefund, CoverUnclaimed
<1>6. ASSUME NEW d \in CampaignIds, NEW m \in MilestoneIds, claim_milestone(d, m)
      PROVE  CoverInv(fee)'
  BY <1>6, CoverClaim
<1>7. QED
  BY <1>0, <1>1, <1>2, <1>3, <1>4, <1>5, <1>6, StepKinds

\* A campaign that is covered holds no negative amount.
LEMMA CoverNatural ==
  ASSUME Base, LedgerInv, PayoutInv, NEW fee \in 0..PLATFORM_FEE_MAX_BPS, CoverInv(fee),
         NEW c \in CampaignIds, ~campaign[c].is_cancelled
  PROVE  held[c][TokenOf(c)] >= 0
<1>0. TypeOK
  BY DEF Base
<1>1. CASE milestone_claimed[c] = {}
  <2>1. held[c][TokenOf(c)] = Outstanding(c)
    BY <1>1 DEF LedgerInv, LedgerAt, CustodyAt
  <2>2. Total(contribution[c]) \in Nat /\ reserve[c].amount \in Nat
    BY <1>0, LedgerTypes DEF Reserves
  <2>3. QED
    BY <2>1, <2>2 DEF Outstanding
<1>2. CASE milestone_claimed[c] # {} /\ campaign[c].funds_withdrawn
  BY <1>2 DEF CoverInv, CoverAt
<1>3. CASE milestone_claimed[c] # {} /\ ~campaign[c].funds_withdrawn
  <2> DEFINE A == milestone_claimed[c]
             F == FeeAtRate(c, fee)
             r == RestAtRate(c, fee)
             g == ShareOf(milestones[c], A, F)
             s == ShareOf(milestones[c], A, r)
  <2>1. held[c][TokenOf(c)] >= (r - s) + (F - g)
    BY <1>3 DEF CoverInv, CoverAt, Unpaid
  <2>2. /\ F \in Nat /\ r \in Nat /\ g \in Nat /\ s \in Nat
        /\ held[c][TokenOf(c)] \in Int
    BY <1>0, RateTypes
  <2>3. /\ milestones[c] \in [MilestoneIds -> Nat] /\ A \in SUBSET MilestoneIds
        /\ Total(milestones[c]) <= BPS_DENOMINATOR
    BY <1>0, PayoutTypes, PlanTotal DEF PayoutInv
  <2> HIDE DEF F, r
  <2>4. s <= r /\ g <= F
    BY <2>2, <2>3, ShareBound
  <2> HIDE DEF s, g
  <2>5. QED
    BY <2>1, <2>2, <2>4
<1>4. QED
  BY <1>1, <1>2, <1>3

\* When the platform fee is the only fee there is, a campaign that pays out
\* milestone by milestone never pays more than its contributors brought in: the
\* shares claim_milestone rounds down, contributions between two claims and the
\* top-up of the last claim stay within the campaign's own money, and every claim
\* that is still open can be paid.  (When the fee may change between two claims, the
\* rounding of the recomputed shares can exceed it by a unit.)
THEOREM MilestonesHold ==
  ASSUME NEW fee \in 0..PLATFORM_FEE_MAX_BPS, Fees = {fee}
  PROVE  Spec => []MilestonesCovered
<1>1. Init => CoverInv(fee)
  BY DEF Init, CoverInv, CoverAt, NoCampaign
<1>2. Base /\ LedgerInv /\ PayoutInv /\ CoverInv(fee) /\ [Next]_vars => CoverInv(fee)'
  BY CoverNext
<1>3. Base /\ LedgerInv /\ PayoutInv /\ CoverInv(fee) => MilestonesCovered
  <2> SUFFICES ASSUME Base, LedgerInv, PayoutInv, CoverInv(fee),
                      NEW c \in CampaignIds, ~campaign[c].is_cancelled
               PROVE  /\ held[c][TokenOf(c)] >= 0
                      /\ GoalMet(c) /\ ~campaign[c].funds_withdrawn =>
                           \A m \in PlanIds(c) \ milestone_claimed[c] :
                             FeeClaim(c, m) + Claimable(c, m) <= held[c][TokenOf(c)]
    BY DEF MilestonesCovered
  <2>1. PlanIds(c) \subseteq MilestoneIds
    BY DEF PlanIds
  <2>2. QED
    BY <2>1, CoverNatural, ClaimCovered
<1>4. QED
  BY <1>1, <1>2, <1>3, Typing, MoneyInvariant, LedgerInvariant, PayoutInvariant, PTL
     DEF Spec, Base

-----------------------------------------------------------------------------
(* What a step leaves alone.                                               *)

\* No step of Funding changes a role.
LEMMA RolesStay ==
  ASSUME TypeOK, [Next]_vars
  PROVE  admin' = admin /\ platform_token' = platform_token
<1>1. CASE Calm
  BY <1>1 DEF Calm
<1>2. CASE \E u \in Creators, goal \in Goals, days \in Durations, cap \in UserCaps,
             tok \in Tokens \cup {None} : create_campaign(u, goal, days, cap, tok)
  BY <1>2 DEF create_campaign
<1>3. ASSUME NEW d \in CampaignIds,
             \/ \E days \in Extensions : extend_campaign_deadline(d, days)
             \/ \E v \in Users, amt \in Amounts :
                  CanContribute(d, v, amt) /\ Account(d, v, amt)
             \/ \E v \in Users : claim_refund(d, v)
             \/ cancel_campaign(d) \/ admin_cancel_campaign(d)
             \/ withdraw_funds(d) \/ withdraw_reserve(d)
             \/ \E plan \in Plans : set_milestones(d, plan)
             \/ \E m \in MilestoneIds : claim_milestone(d, m)
      PROVE  admin' = admin /\ platform_token' = platform_token
  BY <1>3 DEF extend_campaign_deadline, Account, claim_refund, cancel_campaign,
       admin_cancel_campaign, Cancel, withdraw_funds, withdraw_reserve, set_milestones,
       claim_milestone
<1>4. QED
  BY <1>1, <1>2, <1>3, StepKinds

\* What a step may do to one campaign: a cancellation is for good, and money moves
\* in the campaign's token only.
Framed(c) ==
  /\ campaign[c].is_cancelled => campaign'[c].is_cancelled
  /\ Created(c) => campaign'[c].token = campaign[c].token
  /\ ~Created(c) => held'[c] = held[c]
  /\ \A t \in Tokens \ {TokenOf(c)} : held'[c][t] = held[c][t]
  /\ milestone_claimed[c] \subseteq milestone_claimed'[c]

\* A campaign whose record keeps flag and token, with a transfer in its token.
LEMMA FrameCampaign ==
  ASSUME TypeOK, NEW d \in CampaignIds, Created(d),
         campaign[d].is_cancelled => campaign'[d].is_cancelled,
         campaign'[d].token = campaign[d].token,
         \A c \in CampaignIds \ {d} : campaign'[c] = campaign[c],
         held' = held \/ \E x : held' = [held EXCEPT ![d][TokenOf(d)] = x],
         \A c \in CampaignIds : milestone_claimed[c] \subseteq milestone_claimed'[c]
  PROVE  \A c \in CampaignIds : Framed(c)
<1>1. held \in [CampaignIds -> [Tokens -> Int]] /\ TokenOf(d) \in Tokens
  BY TokenOfType DEF TypeOK
<1>2. /\ \A c \in CampaignIds \ {d} : held'[c] = held[c]
      /\ \A t \in Tokens \ {TokenOf(d)} : held'[d][t] = held[d][t]
  BY <1>1
<1>3. QED
  BY <1>2 DEF Framed

\* Every step keeps every campaign within its frame.
LEMMA Frames ==
  ASSUME Base, [Next]_vars
  PROVE  \A c \in CampaignIds : Framed(c)
<1>0. TypeOK /\ \A c \in CampaignIds : c \in DOMAIN campaign /\ campaign[c] \in CampaignRecords
  BY DEF Base, TypeOK
<1>1. CASE Calm
  BY <1>1 DEF Calm, SameMoney, SameCore, Framed
<1>2. ASSUME NEW u \in Creators, NEW goal \in Goals, NEW days \in Durations,
             NEW cap \in UserCaps, NEW tok \in Tokens \cup {None},
             create_campaign(u, goal, days, cap, tok)
      PROVE  \A c \in CampaignIds : Framed(c)
  <2>1. PICK d \in CampaignIds : d = campaign_count + 1
    BY <1>2 DEF create_campaign
  <2>2. ~Created(d) /\ ~campaign[d].is_cancelled
    BY <2>1 DEF Created, Base, TypeOK, MoneyInv, FundingInv, Untouched, NoCampaign
  <2>3. \A c \in CampaignIds \ {d} : campaign'[c] = campaign[c]
    BY <1>0, <1>2, <2>1 DEF create_campaign
  <2>4. UNCHANGED <<milestone_claimed, held>>
    BY <1>2 DEF create_campaign
  <2>5. QED
    BY <2>2, <2>3, <2>4 DEF Framed
<1>3. ASSUME NEW d \in CampaignIds, NEW days \in Extensions,
             extend_campaign_deadline(d, days)
      PROVE  \A c \in CampaignIds : Framed(c)
  <2>1. /\ \E t : campaign' = [campaign EXCEPT ![d] = [campaign[d] EXCEPT
                     !.deadline = t, !.deadline_extended = TRUE]]
        /\ Created(d) /\ UNCHANGED <<held, milestone_claimed>>
    BY <1>0, <1>3 DEF extend_campaign_deadline
  <2>2. /\ campaign'[d].is_cancelled = campaign[d].is_cancelled
        /\ campaign'[d].token = campaign[d].token
    BY <1>0, <2>1 DEF CampaignRecords
  <2>3. \A c \in CampaignIds \ {d} : campaign'[c] = campaign[c]
    BY <1>0, <2>1
  <2>4. QED
    BY <1>0, <2>1, <2>2, <2>3, FrameCampaign
<1>4. ASSUME NEW d \in CampaignIds, NEW v \in Users, NEW amt \in Amounts,
             CanContribute(d, v, amt), Account(d, v, amt)
      PROVE  \A c \in CampaignIds : Framed(c)
  <2>1. /\ \E x, y : campaign' = [campaign EXCEPT ![d] = [campaign[d] EXCEPT
                     !.amount_raised = x, !.effective_amount_raised = y]]
        /\ Created(d) /\ UNCHANGED milestone_claimed
        /\ \E x : held' = [held EXCEPT ![d][TokenOf(d)] = x]
    BY <1>0, <1>4 DEF CanContribute, Account, Receive, TypeOK
  <2>2. /\ campaign'[d].is_cancelled = campaign[d].is_cancelled
        /\ campaign'[d].token = campaign[d].token
    BY <1>0, <2>1 DEF CampaignRecords
  <2>3. \A c \in CampaignIds \ {d} : campaign'[c] = campaign[c]
    BY <1>0, <2>1
  <2>4. QED
    BY <1>0, <2>1, <2>2, <2>3, FrameCampaign
<1>5. ASSUME NEW d \in CampaignIds, NEW v \in Users, claim_refund(d, v)
      PROVE  \A c \in CampaignIds : Framed(c)
  <2>1. /\ \E y : campaign' = [campaign EXCEPT ![d] = [campaign[d] EXCEPT
                     !.effective_amount_raised = y]]
        /\ Created(d) /\ UNCHANGED milestone_claimed
        /\ \E x : held' = [held EXCEPT ![d][TokenOf(d)] = x]
    BY <1>0, <1>5 DEF claim_refund, Refundable, Pay, TypeOK
  <2>2. /\ campaign'[d].is_cancelled = campaign[d].is_cancelled
        /\ campaign'[d].token = campaign[d].token
    BY <1>0, <2>1 DEF CampaignRecords
  <2>3. \A c \in CampaignIds \ {d} : campaign'[c] = campaign[c]
    BY <1>0, <2>1
  <2>4. QED
    BY <1>0, <2>1, <2>2, <2>3, FrameCampaign
<1>6. ASSUME NEW d \in CampaignIds, cancel_campaign(d) \/ admin_cancel_campaign(d)
      PROVE  \A c \in CampaignIds : Framed(c)
  <2>1. /\ campaign' = [campaign EXCEPT ![d] = [campaign[d] EXCEPT
                     !.is_cancelled = TRUE, !.is_active = FALSE]]
        /\ Created(d) /\ UNCHANGED <<held, milestone_claimed>>
    BY <1>0, <1>6 DEF cancel_campaign, admin_cancel_campaign, Cancel
  <2>2. /\ campaign'[d].is_cancelled
        /\ campaign'[d].token = campaign[d].token
    BY <1>0, <2>1 DEF CampaignRecords
  <2>3. \A c \in CampaignIds \ {d} : campaign'[c] = campaign[c]
    BY <1>0, <2>1
  <2>4. QED
    BY <1>0, <2>1, <2>2, <2>3, FrameCampaign
<1>7. ASSUME NEW d \in CampaignIds, withdraw_funds(d)
      PROVE  \A c \in CampaignIds : Framed(c)
  <2>1. /\ campaign' = [campaign EXCEPT ![d] = [campaign[d] EXCEPT
                     !.funds_withdrawn = TRUE, !.is_active = FALSE]]
        /\ Created(d) /\ UNCHANGED milestone_claimed
        /\ \E x : held' = [held EXCEPT ![d][TokenOf(d)] = x]
    BY <1>0, <1>7 DEF withdraw_funds, Pay, TypeOK
  <2>2. /\ campaign'[d].is_cancelled = campaign[d].is_cancelled
        /\ campaign'[d].token = campaign[d].token
    BY <1>0, <2>1 DEF CampaignRecords
  <2>3. \A c \in CampaignIds \ {d} : campaign'[c] = campaign[c]
    BY <1>0, <2>1
  <2>4. QED
    BY <1>0, <2>1, <2>2, <2>3, FrameCampaign
<1>8. ASSUME NEW d \in CampaignIds,
             withdraw_reserve(d) \/ \E plan \in Plans : set_milestones(d, plan)
      PROVE  \A c \in CampaignIds : Framed(c)
  <2>1. /\ Created(d) /\ UNCHANGED <<campaign, milestone_claimed>>
        /\ held' = held \/ \E x : held' = [held EXCEPT ![d][TokenOf(d)] = x]
    BY <1>0, <1>8 DEF withdraw_reserve, set_milestones, Pay, TypeOK
  <2>2. QED
    BY <1>0, <2>1, FrameCampaign
<1>9. ASSUME NEW d \in CampaignIds, NEW m \in MilestoneIds, claim_milestone(d, m)
      PROVE  \A c \in CampaignIds : Framed(c)
  <2>1. /\ \/ campaign' = campaign
           \/ campaign' = [campaign EXCEPT ![d] = [campaign[d] EXCEPT
                     !.funds_withdrawn = TRUE, !.is_active = FALSE]]
        /\ Created(d)
        /\ milestone_claimed' = [milestone_claimed EXCEPT ![d] = @ \cup {m}]
        /\ \E x : held' = [held EXCEPT ![d][TokenOf(d)] = x]
    BY <1>0, <1>9 DEF claim_milestone, Pay, TypeOK
  <2>2. /\ campaign'[d].is_cancelled = campaign[d].is_cancelled
        /\ campaign'[d].token = campaign[d].token
    <3>1. CASE campaign' = campaign
      BY <3>1
    <3>2. CASE campaign' = [campaign EXCEPT ![d] = [campaign[d] EXCEPT
                     !.funds_withdrawn = TRUE, !.is_active = FALSE]]
      BY <1>0, <3>2 DEF CampaignRecords
    <3>3. QED
      BY <2>1, <3>1, <3>2
  <2>3. \A c \in CampaignIds \ {d} : campaign'[c] = campaign[c]
    BY <1>0, <2>1
  <2>4. \A c \in CampaignIds : milestone_claimed[c] \subseteq milestone_claimed'[c]
    BY <1>0, <2>1 DEF TypeOK
  <2>5. QED
    BY <1>0, <2>1, <2>2, <2>3, <2>4, FrameCampaign
<1>10. QED
  BY <1>0, <1>1, <1>2, <1>3, <1>4, <1>5, <1>6, <1>7, <1>8, <1>9, StepKinds

-----------------------------------------------------------------------------
(* The dashboards.                                                         *)

\* A one-to-one function onto a set carries the cardinality over.
LEMMA SameSize ==
  ASSUME NEW S, IsFiniteSet(S), NEW T, NEW F \in [S -> T],
         \A p, q \in S : F[p] = F[q] => p = q,
         \A t \in T : \E p \in S : F[p] = t
  PROVE  IsFiniteSet(T) /\ Cardinality(T) = Cardinality(S)
<1>1. F \in Bijection(S, T)
  BY DEF Bijection, Injection, Surjection, IsInjective
<1>2. ExistsBijection(S, T)
  BY <1>1 DEF ExistsBijection
<1>3. QED
  BY <1>2, FS_Bijection

\* The pairs of a relation given by its fibres, and the sizes of the fibres.
Pairs(S, T, b) == {p \in S \X T : p[2] \in b[p[1]]}
Sizes(S, b) == [x \in S |-> Cardinality(b[x])]

\* The sizes of the fibres of a finite relation add up to its number of pairs.
LEMMA FibreTotal ==
  ASSUME NEW S, IsFiniteSet(S), NEW T, IsFiniteSet(T), NEW b \in [S -> SUBSET T]
  PROVE  /\ IsFiniteSet(Pairs(S, T, b))
         /\ Total(Sizes(S, b)) = Cardinality(Pairs(S, T, b))
<1> DEFINE f == [x \in S |-> Cardinality(b[x])]
           P == {p \in S \X T : p[2] \in b[p[1]]}
           g == [x \in S |-> CHOOSE h : h \in Bijection(1..Cardinality(b[x]), b[x])]
           F == [p \in Units(f) |-> <<p[1], g[p[1]][p[2]]>>]
<1>1. \A x \in S : /\ f[x] \in Nat
                   /\ g[x] \in Bijection(1..f[x], b[x])
  <2> SUFFICES ASSUME NEW x \in S
               PROVE  f[x] \in Nat /\ g[x] \in Bijection(1..f[x], b[x])
    OBVIOUS
  <2>1. IsFiniteSet(b[x])
    BY FS_Subset
  <2>2. /\ Cardinality(b[x]) \in Nat
        /\ ExistsBijection(1..Cardinality(b[x]), b[x])
    BY <2>1, FS_CardinalityType
  <2>3. \E h : h \in Bijection(1..Cardinality(b[x]), b[x])
    BY <2>2 DEF ExistsBijection
  <2>4. QED
    BY <2>2, <2>3
<1>2. f \in [S -> Nat] /\ DOMAIN f = S
  BY <1>1
<1> HIDE DEF g
<1>3. \A x \in S : /\ g[x] \in [1..f[x] -> b[x]]
                   /\ \A i, j \in 1..f[x] : g[x][i] = g[x][j] => i = j
                   /\ \A y \in b[x] : \E i \in 1..f[x] : g[x][i] = y
  BY <1>1 DEF Bijection, Injection, Surjection, IsInjective
<1> HIDE DEF f
<1>4. \A p : p \in Units(f) <=> \E x \in S : \E i \in 1..f[x] : p = <<x, i>>
  BY <1>2 DEF Units
<1>5. \A x \in S : \A i \in 1..f[x] :
        <<x, i>> \in Units(f) /\ F[<<x, i>>] = <<x, g[x][i]>>
  BY <1>4
<1>6. F \in [Units(f) -> P]
  <2> SUFFICES ASSUME NEW p \in Units(f)
               PROVE  F[p] \in P
    OBVIOUS
  <2> PICK x \in S : \E i \in 1..f[x] : p = <<x, i>>
    BY <1>4
  <2>1. PICK i \in 1..f[x] : p = <<x, i>>
    OBVIOUS
  <2>2. g[x][i] \in b[x] /\ g[x][i] \in T
    <3>1. g[x] \in [1..f[x] -> b[x]]
      BY <1>3
    <3>2. b[x] \subseteq T
      OBVIOUS
    <3> HIDE DEF F, P
    <3>3. QED
      BY <3>1, <3>2
  <2>3. F[p] = <<x, g[x][i]>>
    BY <2>1, <1>5
  <2>4. QED
    BY <2>2, <2>3
<1> HIDE DEF F
<1>7. \A p, q \in Units(f) : F[p] = F[q] => p = q
  <2> SUFFICES ASSUME NEW p \in Units(f), NEW q \in Units(f), F[p] = F[q]
               PROVE  p = q
    OBVIOUS
  <2> PICK x \in S : \E i \in 1..f[x] : p = <<x, i>>
    BY <1>4
  <2>1. PICK i \in 1..f[x] : p = <<x, i>>
    OBVIOUS
  <2> PICK y \in S : \E j \in 1..f[y] : q = <<y, j>>
    BY <1>4
  <2>2. PICK j \in 1..f[y] : q = <<y, j>>
    OBVIOUS
  <2>3. F[p] = <<x, g[x][i]>> /\ F[q] = <<y, g[y][j]>>
    BY <2>1, <2>2, <1>5
  <2>4. x = y /\ g[x][i] = g[y][j]
    BY <2>3
  <2>5. QED
    BY <2>1, <2>2, <2>4, <1>3
<1>8. \A q \in P : \E p \in Units(f) : F[p] = q
  <2> SUFFICES ASSUME NEW q \in P
               PROVE  \E p \in Units(f) : F[p] = q
    OBVIOUS
  <2>1. PICK x \in S, y \in T : q = <<x, y>> /\ y \in b[x]
    OBVIOUS
  <2>2. PICK i \in 1..f[x] : g[x][i] = y
    BY <2>1, <1>3
  <2>3. QED
    BY <2>1, <2>2, <1>5
<1> HIDE DEF P
<1>9. IsFiniteSet(Units(f))
  BY <1>2, UnitsFinite
<1>10. IsFiniteSet(P) /\ Cardinality(P) = Cardinality(Units(f))
  BY <1>6, <1>7, <1>8, <1>9, SameSize
<1>11. QED
  BY <1>10 DEF Total, f, P, Pairs, Sizes

\* A relation has as many pairs as its converse: both sums count the same pairs.
LEMMA DoubleCounting ==
  ASSUME NEW S, IsFiniteSet(S), NEW T, IsFiniteSet(T),
         NEW b \in [S -> SUBSET T], NEW d \in [T -> SUBSET S],
         \A x \in S, y \in T : y \in b[x] <=> x \in d[y]
  PROVE  Total(Sizes(S, b)) = Total(Sizes(T, d))
<1> DEFINE P == Pairs(S, T, b)
           Q == Pairs(T, S, d)
           F == [p \in P |-> <<p[2], p[1]>>]
<1>1. /\ IsFiniteSet(P)
      /\ Total(Sizes(S, b)) = Cardinality(P)
  BY FibreTotal
<1>2. Total(Sizes(T, d)) = Cardinality(Q)
  BY FibreTotal
<1>3. \A p : p \in P <=> \E x \in S, y \in T : p = <<x, y>> /\ y \in b[x]
  BY DEF Pairs
<1>4. \A p : p \in Q <=> \E x \in S, y \in T : p = <<y, x>> /\ y \in b[x]
  BY DEF Pairs
<1> HIDE DEF P, Q
<1>5. F \in [P -> Q] /\ (\A p, q \in P : F[p] = F[q] => p = q)
  BY <1>3, <1>4
<1>6. \A q \in Q : \E p \in P : F[p] = q
  <2> SUFFICES ASSUME NEW q \in Q
               PROVE  \E p \in P : F[p] = q
    OBVIOUS
  <2>1. PICK x \in S, y \in T : q = <<y, x>> /\ y \in b[x]
    BY <1>4
  <2>2. <<x, y>> \in P /\ F[<<x, y>>] = q
    BY <2>1, <1>3
  <2> HIDE DEF F
  <2>3. QED
    BY <2>2
<1> HIDE DEF F
<1>7. Cardinality(Q) = Cardinality(P)
  BY <1>1, <1>5, <1>6, SameSize
<1>8. QED
  BY <1>1, <1>2, <1>7

\* The campaigns a user has money in.
BackedBy(u) == {c \in 1..campaign_count : contribution[c][u] # 0}

\* A portfolio has one line for each of them.
LEMMA PortfolioLines ==
  ASSUME TypeOK, NEW u \in Users
  PROVE  Cardinality(get_contributor_portfolio(u)) = Cardinality(BackedBy(u))
<1> DEFINE line(c) == [id         |-> c,
                       amount     |-> contribution[c][u],
                       status     |-> PortfolioStatus(c),
                       refundable |-> PortfolioRefundable(c)]
           F == [c \in BackedBy(u) |-> line(c)]
           L == get_contributor_portfolio(u)
<1>1. L = {line(c) : c \in BackedBy(u)}
  BY DEF get_contributor_portfolio, BackedBy
<1>2. \A c : line(c).id = c
  OBVIOUS
<1> HIDE DEF line, L
<1>3. F \in [BackedBy(u) -> L] /\ \A l \in L : \E c \in BackedBy(u) : F[c] = l
  BY <1>1
<1>4. \A c, d \in BackedBy(u) : F[c] = F[d] => c = d
  BY <1>2
<1> HIDE DEF F
<1>5. IsFiniteSet(BackedBy(u))
  <2>1. BackedBy(u) \in SUBSET (1..campaign_count) /\ campaign_count \in Int
    BY DEF BackedBy, TypeOK
  <2>2. IsFiniteSet(1..campaign_count)
    BY <2>1, FS_Interval
  <2>3. QED
    BY <2>1, <2>2, FS_Subset
<1>6. QED
  BY <1>3, <1>4, <1>5, SameSize DEF L

\* The contributors the report adds up are the lines of all portfolios.
LEMMA ReportCountsLines ==
  ASSUME TypeOK, LedgerInv
  PROVE  get_platform_report.total_contributors =
           Total([u \in Users |-> Cardinality(get_contributor_portfolio(u))])
<1> DEFINE S == 1..campaign_count
           b == [c \in S |-> Backers(c)]
           d == [u \in Users |-> BackedBy(u)]
<1>1. campaign_count \in Nat /\ S \subseteq CampaignIds
  BY DEF TypeOK, CampaignIds
<1>2. IsFiniteSet(S)
  <2>1. campaign_count \in Int /\ 1 \in Int
    BY <1>1
  <2>2. QED
    BY <2>1, FS_Interval
<1>3. b \in [S -> SUBSET Users] /\ d \in [Users -> SUBSET S]
  BY DEF Backers, BackedBy
<1>4. \A c \in S, u \in Users : u \in b[c] <=> c \in d[u]
  BY DEF Backers, BackedBy
<1>5. [c \in ReportScan |-> contributor_count[c]] = Sizes(S, b)
  <2>1. \A c \in S : contributor_count[c] = Cardinality(Backers(c))
    BY <1>1 DEF LedgerInv, LedgerAt
  <2>2. QED
    BY <2>1 DEF ReportScan, Sizes
<1>6. [u \in Users |-> Cardinality(get_contributor_portfolio(u))]
        = Sizes(Users, d)
  BY PortfolioLines DEF Sizes
<1>7. get_platform_report.total_contributors
        = Total([c \in ReportScan |-> contributor_count[c]])
  BY DEF get_platform_report
<1> HIDE DEF S, b, d
<1>8. Total(Sizes(S, b)) = Total(Sizes(Users, d))
  BY <1>2, <1>3, <1>4, DoubleCounting
<1>9. QED
  BY <1>5, <1>6, <1>7, <1>8

\* Every campaign there is is active, cancelled or paid out, and only one of them.
LEMMA CampaignsByState ==
  ASSUME TypeOK, MoneyInv, CountersExact
  PROVE  campaign_count = active_campaign_count + cancelled_campaign_count
           + Cardinality({c \in CampaignIds : campaign[c].funds_withdrawn})
<1> DEFINE W == {c \in CampaignIds : campaign[c].funds_withdrawn}
           S == 1..campaign_count
<1>1. campaign_count \in Nat /\ S \subseteq CampaignIds
  BY DEF TypeOK, CampaignIds
<1>2. \A c \in CampaignIds \ S :
        ~campaign[c].is_active /\ ~campaign[c].is_cancelled /\ ~campaign[c].funds_withdrawn
  <2>1. \A c \in CampaignIds \ S : campaign[c] = NoCampaign
    BY DEF MoneyInv, FundingInv, Untouched, Created
  <2>2. QED
    BY <2>1 DEF NoCampaign
<1>3. \A c \in S :
        /\ campaign[c].is_active <=> ~campaign[c].is_cancelled /\ ~campaign[c].funds_withdrawn
        /\ campaign[c].funds_withdrawn => ~campaign[c].is_cancelled
  <2>1. \A c \in S : c \in CampaignIds /\ Created(c)
    BY <1>1 DEF Created
  <2>2. QED
    BY <2>1, AtCampaign
<1> HIDE DEF S
<1>4. /\ S = (Actives \cup Cancelleds) \cup W
      /\ Actives \cap Cancelleds = {} /\ (Actives \cup Cancelleds) \cap W = {}
  BY <1>1, <1>2, <1>3 DEF Actives, Cancelleds
<1>5. IsFiniteSet(W) /\ IsFiniteSet(Actives \cup Cancelleds)
  BY CampaignsFinite, FS_Subset, FS_Union
<1> HIDE DEF W
<1>6. /\ Cardinality(Actives \cup Cancelleds)
           = Cardinality(Actives) + Cardinality(Cancelleds)
      /\ Cardinality((Actives \cup Cancelleds) \cup W)
           = Cardinality(Actives \cup Cancelleds) + Cardinality(W)
  BY <1>4, <1>5, CampaignsFinite, DisjointParts
<1>7. Cardinality(S) = campaign_count
  BY <1>1, FS_Interval DEF S
<1>8. QED
  BY <1>4, <1>6, <1>7, CountersBySets DEF W

\* The dashboards describe one platform: contributors counted campaign by campaign
\* and portfolio by portfolio are equally many, and the maintained counters leave
\* exactly the paid-out campaigns.
THEOREM DashboardsAgree == Spec => []ReportsAgree
<1>1. TypeOK /\ MoneyInv /\ LedgerInv /\ CountersExact => ReportsAgree
  BY ReportCountsLines, CampaignsByState DEF ReportsAgree, get_platform_stats
<1>2. QED
  BY <1>1, Typing, MoneyInvariant, LedgerInvariant, CountersHold, PTL

\* Division by the same number keeps the order.
LEMMA DivMonotone ==
  ASSUME NEW a \in Nat, NEW b \in Nat, NEW n \in Nat \ {0}, a <= b
  PROVE  a \div n <= b \div n
<1> DEFINE q == a \div n
           p == b \div n
<1>1. q \in Int /\ n * q <= a /\ a < n * q + n
  OBVIOUS
<1>2. p \in Int /\ n * p <= b /\ b < n * p + n
  OBVIOUS
<1> HIDE DEF q, p
<1>3. ~(p + 1 <= q)
  <2> SUFFICES ASSUME p + 1 <= q
               PROVE  FALSE
    OBVIOUS
  <2>1. n * (p + 1) <= n * q
    BY <1>1, <1>2
  <2>2. n * (p + 1) = n * p + n
    BY <1>1, <1>2
  <2>3. QED
    BY <1>1, <1>2, <2>1, <2>2
<1>4. QED
  BY <1>1, <1>2, <1>3 DEF q, p

\* The average get_campaign_stats shows is the mean of the contributions on record
\* until the first refund, and never below it afterwards.
THEOREM AveragesNeverLow == Spec => []AverageNeverLow
<1>1. Base /\ LedgerInv /\ PayoutInv => AverageNeverLow
  <2> SUFFICES ASSUME Base, LedgerInv, PayoutInv, NEW c \in 1..campaign_count,
                      contributor_count[c] > 0
               PROVE  /\ get_campaign_stats(c).avg_contribution >=
                           Total(contribution[c]) \div contributor_count[c]
                      /\ contribution[c] = lifetime[c] =>
                           get_campaign_stats(c).avg_contribution =
                             Total(contribution[c]) \div contributor_count[c]
    BY DEF AverageNeverLow
  <2>1. c \in CampaignIds
    BY DEF Base, TypeOK, CampaignIds
  <2>2. contributor_count[c] \in Nat \ {0}
    BY <2>1 DEF Base, TypeOK
  <2>3. campaign[c].amount_raised = Total(lifetime[c])
    BY <2>1 DEF PayoutInv, PlanAt
  <2>4. campaign[c].effective_amount_raised = Total(contribution[c])
    BY <2>1 DEF Base, MoneyInv, EffectiveIsSum
  <2>5. /\ Total(contribution[c]) \in Nat /\ campaign[c].amount_raised \in Nat
        /\ Total(contribution[c]) <= campaign[c].amount_raised
    BY <2>1, <2>4, EffectiveBelowRaised, PayoutTypes DEF Base
  <2>6. get_campaign_stats(c).avg_contribution
          = campaign[c].amount_raised \div contributor_count[c]
    BY DEF get_campaign_stats, Average
  <2>7. Total(contribution[c]) \div contributor_count[c]
          <= campaign[c].amount_raised \div contributor_count[c]
    BY <2>2, <2>5, DivMonotone
  <2>8. /\ Total(contribution[c]) \div contributor_count[c] \in Int
        /\ campaign[c].amount_raised \div contributor_count[c] \in Int
    BY <2>2, <2>5
  <2>9. QED
    BY <2>3, <2>6, <2>7, <2>8
<1>2. QED
  BY <1>1, Typing, MoneyInvariant, LedgerInvariant, PayoutInvariant, PTL DEF Base

-----------------------------------------------------------------------------
(* The contract's own balances.                                            *)

\* What a token's campaigns hold of it.
HeldIn(t) == [c \in CampaignIds |-> held[c][t]]

\* A transfer of x into (or, negative, out of) campaign c in its token.
Moved(c, x) ==
  /\ balance' = [balance EXCEPT ![TokenOf(c)] = balance[TokenOf(c)] + x]
  /\ held' = [held EXCEPT ![c][TokenOf(c)] = held[c][TokenOf(c)] + x]

\* A payment is a transfer of a negative amount.
LEMMA PaymentMoves ==
  ASSUME TypeOK, NEW c \in CampaignIds, NEW amt \in Int, Pay(c, amt)
  PROVE  \E x \in Int : Moved(c, x)
<1>1. /\ TokenOf(c) \in Tokens /\ balance \in [Tokens -> Nat]
      /\ held \in [CampaignIds -> [Tokens -> Int]]
  BY TokenOfType DEF TypeOK
<1>2. /\ -amt \in Int /\ balance[TokenOf(c)] - amt = balance[TokenOf(c)] + (-amt)
      /\ held[c][TokenOf(c)] - amt = held[c][TokenOf(c)] + (-amt)
  BY <1>1
<1>3. /\ balance' = [balance EXCEPT ![TokenOf(c)] = balance[TokenOf(c)] - amt]
      /\ held' = [held EXCEPT ![c][TokenOf(c)] = held[c][TokenOf(c)] - amt]
  BY <1>1 DEF Pay
<1>4. Moved(c, -amt)
  BY <1>2, <1>3 DEF Moved
<1>5. QED
  BY <1>2, <1>4

\* Every step leaves the money alone or is one transfer of one campaign.
LEMMA OneTransfer ==
  ASSUME Base, [Next]_vars
  PROVE  \/ UNCHANGED <<balance, held>>
         \/ \E c \in CampaignIds, x \in Int : Moved(c, x)
<1> DEFINE Goal == \/ UNCHANGED <<balance, held>>
                   \/ \E c \in CampaignIds, x \in Int : Moved(c, x)
<1>0. TypeOK
  BY DEF Base
<1>1. CASE Tick \/ UNCHANGED vars
  BY <1>1 DEF Tick, vars, moneyVars
<1>2. CASE AdminNext
  BY <1>2 DEF AdminNext, verify_campaign, admin_cancel_campaign, Cancel, verify_milestone,
       set_campaign_fee_override, pause, unpause, update_platform_fee, set_vesting_params,
       set_max_contribution_per_transaction, set_category_duration_cap,
       unchangedButConfig, moneyVars
<1>3. ASSUME NEW c \in CampaignIds, NEW u \in Users, NEW amt \in Amounts, Account(c, u, amt)
      PROVE  Goal
  <2>1. amt \in Int
    BY FundingAssumption
  <2>2. Receive(c, amt) /\ TokenOf(c) \in Tokens
    BY <1>0, <1>3, TokenOfType DEF Account
  <2>3. Moved(c, amt)
    BY <1>0, <2>2 DEF Receive, Moved, TypeOK
  <2>4. QED
    BY <2>1, <2>3
<1>4. ASSUME NEW c \in CampaignIds, NEW u \in Users, claim_refund(c, u)
      PROVE  Goal
  <2>1. contribution[c][u] \in Int /\ Pay(c, contribution[c][u])
    BY <1>0, <1>4, LedgerTypes DEF claim_refund
  <2>2. QED
    BY <1>0, <2>1, PaymentMoves
<1>5. ASSUME NEW c \in CampaignIds, withdraw_funds(c)
      PROVE  Goal
  <2> DEFINE eff == campaign[c].effective_amount_raised
             fee == CeilBps(eff, FeeOf(c))
             res == CeilBps(eff - fee, campaign[c].vesting_bps)
             paid == fee + CreatorAmount(eff - fee, res)
  <2>1. Created(c) /\ Pay(c, paid)
    BY <1>5 DEF withdraw_funds
  <2>2. eff \in Nat /\ res \in Nat /\ paid = eff - res
    BY <2>1, WithdrawSplit
  <2> HIDE DEF eff, fee, res, paid
  <2>3. paid \in Int
    BY <2>2
  <2>4. QED
    BY <1>0, <2>1, <2>3, PaymentMoves
<1>6. ASSUME NEW c \in CampaignIds, withdraw_reserve(c)
      PROVE  Goal
  <2>1. reserve[c].amount \in Int /\ Pay(c, reserve[c].amount)
    BY <1>0, <1>6, LedgerTypes DEF withdraw_reserve, Reserves
  <2>2. QED
    BY <1>0, <2>1, PaymentMoves
<1>7. ASSUME NEW c \in CampaignIds, NEW m \in MilestoneIds, claim_milestone(c, m)
      PROVE  Goal
  <2>1. FeeClaim(c, m) + Claimable(c, m) \in Int /\ Pay(c, FeeClaim(c, m) + Claimable(c, m))
    BY <1>0, <1>7, MilestonePayType DEF claim_milestone
  <2>2. QED
    BY <1>0, <2>1, PaymentMoves
<1>8. CASE BackerNext
  <2>1. ASSUME NEW c \in CampaignIds, NEW u \in Users,
               \/ \E cap \in PersonalCaps : set_personal_cap(c, u, cap)
               \/ remove_personal_cap(c, u)
        PROVE  Goal
    BY <2>1 DEF set_personal_cap, remove_personal_cap, moneyVars
  <2>2. QED
    BY <1>3, <1>4, <1>8, <2>1 DEF BackerNext, contribute, batch_contribute
<1>9. CASE CreatorNext
  <2>1. ASSUME NEW u \in Creators, NEW goal \in Goals, NEW days \in Durations,
               NEW cap \in UserCaps, NEW tok \in Tokens \cup {None},
               create_campaign(u, goal, days, cap, tok)
        PROVE  Goal
    BY <2>1 DEF create_campaign, moneyVars
  <2>2. ASSUME NEW c \in CampaignIds,
               \/ update_campaign_description(c)
               \/ \E days \in Extensions : extend_campaign_deadline(c, days)
               \/ cancel_campaign(c)
               \/ \E plan \in Plans : set_milestones(c, plan)
        PROVE  Goal
    BY <2>2 DEF update_campaign_description, extend_campaign_deadline, cancel_campaign,
         Cancel, set_milestones, moneyVars
  <2>3. QED
    BY <1>5, <1>6, <1>7, <1>9, <2>1, <2>2 DEF CreatorNext
<1>10. QED
  BY <1>1, <1>2, <1>8, <1>9 DEF Next

\* The books: a token's balance is what its campaigns hold of it, and a campaign
\* holds no other token than its own.
BooksInv ==
  /\ \A t \in Tokens : balance[t] = Net(HeldIn(t))
  /\ \A c \in CampaignIds : \A t \in Tokens \ {TokenOf(c)} : held[c][t] = 0

\* A transfer changes both sides of the sum alike.
LEMMA SumMoves ==
  ASSUME TypeOK, \A t \in Tokens : balance[t] = Net(HeldIn(t)),
         NEW c \in CampaignIds, NEW x \in Int, Moved(c, x)
  PROVE  \A t \in Tokens : balance'[t] = Net(HeldIn(t)')
<1> DEFINE s == TokenOf(c)
<1>1. /\ s \in Tokens /\ balance \in [Tokens -> Nat]
      /\ held \in [CampaignIds -> [Tokens -> Int]]
  BY TokenOfType DEF TypeOK
<1>2. /\ balance' = [balance EXCEPT ![s] = balance[s] + x]
      /\ held' = [held EXCEPT ![c][s] = held[c][s] + x]
  BY DEF Moved
<1> HIDE DEF s
<1> SUFFICES ASSUME NEW t \in Tokens PROVE balance'[t] = Net(HeldIn(t)')
  OBVIOUS
<1>3. HeldIn(t) \in [CampaignIds -> Int] /\ HeldIn(t)[c] = held[c][t]
  BY <1>1 DEF HeldIn
<1>4. HeldIn(t)' = [d \in CampaignIds |-> held'[d][t]]
  BY DEF HeldIn
<1>5. CASE t = s
  <2>1. balance'[s] = balance[s] + x
    BY <1>1, <1>2
  <2>2. HeldIn(t)' = [HeldIn(t) EXCEPT ![c] = HeldIn(t)[c] + x]
    BY <1>1, <1>2, <1>3, <1>4, <1>5 DEF HeldIn
  <2>3. Net(HeldIn(t)') = Net(HeldIn(t)) + x
    <3>1. PICK f, h : f = HeldIn(t) /\ h = HeldIn(t)'
      OBVIOUS
    <3>2. PICK S : S = CampaignIds
      OBVIOUS
    <3>3. /\ f \in [S -> Int] /\ c \in S /\ IsFiniteSet(S)
          /\ h = Bump(f, c, x)
      BY <1>3, <2>2, <3>1, <3>2, CampaignsFinite DEF Bump
    <3>4. Net(Bump(f, c, x)) = Net(f) + x
      BY <3>3, OneTerm
    <3>5. QED
      BY <3>1, <3>3, <3>4
  <2>4. QED
    BY <1>5, <2>1, <2>3
<1>6. CASE t # s
  <2>1. HeldIn(t)' = HeldIn(t) /\ balance'[t] = balance[t]
    BY <1>1, <1>2, <1>4, <1>6 DEF HeldIn
  <2>2. QED
    BY <2>1
<1>7. QED
  BY <1>5, <1>6

\* Every step keeps the books.
LEMMA BooksNext == ASSUME Base, BooksInv, [Next]_vars PROVE BooksInv'
<1>0. TypeOK
  BY DEF Base
<1>1. \A t \in Tokens : balance'[t] = Net(HeldIn(t)')
  <2>1. \A t \in Tokens : balance[t] = Net(HeldIn(t))
    BY DEF BooksInv
  <2>2. CASE UNCHANGED <<balance, held>>
    BY <2>1, <2>2 DEF HeldIn
  <2>3. QED
    BY <1>0, <2>1, <2>2, OneTransfer, SumMoves
<1>2. ASSUME NEW c \in CampaignIds
      PROVE  \A t \in Tokens \ {TokenOf(c)'} : held'[c][t] = 0
  <2>1. Framed(c) /\ platform_token' = platform_token
    BY <1>0, Frames, RolesStay
  <2>2. CASE Created(c)
    <3>1. TokenOf(c)' = TokenOf(c)
      BY <2>1, <2>2 DEF Framed, TokenOf
    <3>2. QED
      BY <2>1, <3>1 DEF Framed, BooksInv
  <2>3. CASE ~Created(c)
    BY <2>1, <2>3 DEF Framed, Base, MoneyInv, FundingInv, Untouched
  <2>4. QED
    BY <2>2, <2>3
<1>3. QED
  BY <1>1, <1>2 DEF BooksInv

\* The books open balanced.
LEMMA BooksInit == ASSUME Init PROVE BooksInv
<1>1. \A t \in Tokens : HeldIn(t) = [c \in CampaignIds |-> 0]
  BY DEF Init, HeldIn
<1>2. Net([c \in CampaignIds |-> 0]) = 0
  BY NetZero
<1>3. \A t \in Tokens : balance[t] = Net(HeldIn(t))
  BY <1>1, <1>2 DEF Init
<1>4. QED
  BY <1>3 DEF Init, BooksInv

\* Balances are what the campaigns hold, each in its own token only.
THEOREM BooksBalance == Spec => []BooksInv
<1>1. Base /\ BooksInv /\ [Next]_vars => BooksInv'
  BY BooksNext
<1>2. QED
  BY <1>1, BooksInit, Typing, MoneyInvariant, PTL DEF Spec, Base

\* No campaign has been paid out by milestones yet.
NoMilestoneClaimed == \A c \in CampaignIds : milestone_claimed[c] = {}

\* What campaign c still owes in token t.
OwedIn(t) == [c \in CampaignIds |-> IF TokenOf(c) = t THEN Outstanding(c) ELSE 0]

\* As long as no milestone has been claimed, the contract's balance of every token is
\* what the campaigns in that token still owe, to the unit: contributions that may have
\* to be refunded and reserves that are not released.
Solvent == NoMilestoneClaimed => \A t \in Tokens : balance[t] = Total(OwedIn(t))

\* What a campaign owes is a natural number.
LEMMA OwedTypes ==
  ASSUME TypeOK, NEW t \in Tokens
  PROVE  OwedIn(t) \in [CampaignIds -> Nat]
<1>1. \A c \in CampaignIds : Outstanding(c) \in Nat
  BY LedgerTypes DEF Outstanding, Reserves
<1>2. QED
  BY <1>1 DEF OwedIn

\* Custody campaign by campaign adds up to solvency token by token.
LEMMA SolventState == ASSUME Base, LedgerInv, BooksInv PROVE Solvent
<1> SUFFICES ASSUME NoMilestoneClaimed, NEW t \in Tokens
             PROVE  balance[t] = Total(OwedIn(t))
  BY DEF Solvent
<1>1. TypeOK
  BY DEF Base
<1>2. \A c \in CampaignIds : held[c][TokenOf(c)] = Outstanding(c)
  BY DEF NoMilestoneClaimed, LedgerInv, LedgerAt, CustodyAt
<1>3. \A c \in CampaignIds : TokenOf(c) # t => held[c][t] = 0
  BY DEF BooksInv
<1>4. HeldIn(t) = OwedIn(t)
  BY <1>2, <1>3 DEF HeldIn, OwedIn
<1>5. Net(OwedIn(t)) = Total(OwedIn(t))
  BY <1>1, OwedTypes, CampaignsFinite, NetIsTotal
<1>6. QED
  BY <1>4, <1>5 DEF BooksInv

\* The contract can always pay: whatever the campaigns, their tokens and the order of
\* contributions, refunds, withdrawals and releases, the balance of each token is what
\* is owed in it.  (Milestone payouts are the exception; MilestonesHold bounds them.)
THEOREM Solvency == Spec => []Solvent
<1>1. Base /\ LedgerInv /\ BooksInv => Solvent
  BY SolventState
<1>2. QED
  BY <1>1, Typing, MoneyInvariant, LedgerInvariant, BooksBalance, PTL DEF Base

\* What claim_refund asks before it pays u, the pause aside.
RefundGuard(c, u) ==
  /\ Refundable(c) /\ contribution[c][u] # 0
  /\ contribution[c][u] <= balance[TokenOf(c)]

\* A campaign that has paid its creator is not refundable.
LEMMA PaidNotRefundable ==
  ASSUME Base, NEW c \in CampaignIds, campaign[c].funds_withdrawn
  PROVE  ~Refundable(c)
<1>1. ~campaign[c].is_cancelled /\ campaign[c].amount_raised >= campaign[c].funding_goal
  BY DEF Base, MoneyInv, FundingInv, FlagsCoherent
<1>2. QED
  BY <1>1, CoreTypes DEF Base, Refundable

\* A refundable contribution is covered by the contract's balance.
LEMMA RefundCovered ==
  ASSUME Base, LedgerInv, BooksInv, NoMilestoneClaimed, NEW c \in CampaignIds,
         NEW u \in Users, Refundable(c)
  PROVE  contribution[c][u] <= balance[TokenOf(c)]
<1> DEFINE t == TokenOf(c)
<1>1. TypeOK /\ t \in Tokens
  BY TokenOfType DEF Base
<1>2. balance[t] = Total(OwedIn(t))
  BY <1>1, SolventState DEF Solvent
<1>3. /\ OwedIn(t) \in [CampaignIds -> Nat] /\ OwedIn(t)[c] = Outstanding(c)
      /\ Total(OwedIn(t)) \in Nat
  BY <1>1, OwedTypes, CampaignsFinite, TotalType DEF OwedIn
<1>4. Outstanding(c) <= Total(OwedIn(t))
  BY <1>3, CampaignsFinite, TotalBound
<1>5. ~campaign[c].funds_withdrawn
  BY PaidNotRefundable
<1>6. Outstanding(c) = Total(contribution[c]) /\ Total(contribution[c]) \in Nat
  BY <1>1, <1>5, LedgerTypes DEF Outstanding
<1>7. contribution[c][u] <= Total(contribution[c]) /\ contribution[c][u] \in Nat
  BY <1>1, LedgerTypes, TotalBound, FundingAssumption
<1> HIDE DEF t
<1>8. QED
  BY <1>2, <1>3, <1>4, <1>6, <1>7 DEF t

\* What PortfolioHonest says with claim_refund's guards written out: a line offers a
\* refund exactly when claim_refund would pay it (the tokens are there as long as no
\* milestone has been claimed); no line is closed without being cancelled or paid out,
\* and none of a paid-out campaign offers a refund.
PortfolioExact ==
  \A u \in Users : \A line \in get_contributor_portfolio(u) :
    /\ RefundGuard(line.id, u) => line.refundable
    /\ NoMilestoneClaimed /\ line.refundable => RefundGuard(line.id, u)
    /\ line.status # "inactive"
    /\ line.status = "withdrawn" => ~line.refundable

\* A portfolio's own copy of the refund condition (queries.rs) agrees with claim_refund
\* in every reachable state, and the refund it offers is covered as long as no
\* milestone has been claimed.
THEOREM PortfoliosExact == Spec => []PortfolioExact
<1>1. Base /\ LedgerInv /\ BooksInv => PortfolioExact
  <2> SUFFICES ASSUME Base, LedgerInv, BooksInv, NEW u \in Users,
                      NEW line \in get_contributor_portfolio(u)
               PROVE  /\ RefundGuard(line.id, u) => line.refundable
                      /\ NoMilestoneClaimed /\ line.refundable => RefundGuard(line.id, u)
                      /\ line.status # "inactive"
                      /\ line.status = "withdrawn" => ~line.refundable
    BY DEF PortfolioExact
  <2>1. PICK c \in 1..campaign_count :
               /\ contribution[c][u] # 0
               /\ line = [id |-> c, amount |-> contribution[c][u],
                          status |-> PortfolioStatus(c),
                          refundable |-> PortfolioRefundable(c)]
    BY DEF get_contributor_portfolio
  <2>2. c \in CampaignIds /\ Created(c)
    <3>1. campaign_count \in 0..MaxCampaigns
      BY DEF Base, TypeOK
    <3>2. QED
      BY <3>1, FundingAssumption DEF CampaignIds, Created
  <2>3. /\ line.id = c /\ line.status = PortfolioStatus(c)
        /\ line.refundable = PortfolioRefundable(c)
    BY <2>1
  <2>4. PortfolioRefundable(c) <=> Refundable(c)
    BY <2>2 DEF PortfolioRefundable, Refundable
  <2>5. NoMilestoneClaimed /\ Refundable(c) => RefundGuard(c, u)
    BY <2>1, <2>2, RefundCovered DEF RefundGuard
  <2>6. /\ campaign[c].is_active <=>
             ~campaign[c].is_cancelled /\ ~campaign[c].funds_withdrawn
        /\ campaign[c].funds_withdrawn => ~Refundable(c)
    BY <2>2, PaidNotRefundable DEF Base, MoneyInv, FundingInv, FlagsCoherent
  <2>7. /\ PortfolioStatus(c) # "inactive"
        /\ PortfolioStatus(c) = "withdrawn" => campaign[c].funds_withdrawn
    BY <2>6 DEF PortfolioStatus
  <2>8. QED
    BY <2>3, <2>4, <2>5, <2>6, <2>7 DEF RefundGuard
<1>2. QED
  BY <1>1, Typing, MoneyInvariant, LedgerInvariant, BooksBalance, PTL DEF Base
=============================================================================
