------------------------------ MODULE Revenue ------------------------------
(***************************************************************************)
(* Revenue sharing of one campaign after its creator has withdrawn: the    *)
(* creator deposits revenue, contributors and creator claim their shares.  *)
(* Once funds are withdrawn no contribution is made or refunded any more   *)
(* (Funding, NoDoubleSpend), so contributions, effective_amount_raised and *)
(* contributor_count are chosen in Init and stay; before, the pool is      *)
(* empty and no handler below succeeds.                                    *)
(*                                                                         *)
(* The contract keeps all its money in one balance per token: what the     *)
(* other campaigns have in it is the constant Others.  late_deposit is a   *)
(* history variable: a deposit was made after a contributor had claimed.   *)
(***************************************************************************)
EXTENDS Lifecycle

CONSTANTS
  Contributors,
  Contributions,   \* what a contributor may have on record (0: nothing)
  Shares,          \* revenue_share_percentage, in bps
  REVENUE_SHARE_MAX_BPS,
  Deposits,        \* amounts the creator deposits
  Others,          \* tokens the contract holds for other campaigns
  MaxPool          \* bound: the pool

ASSUME RevenueAssumption ==
  /\ IsFiniteSet(Contributors)
  /\ Contributions \subseteq Nat
  /\ REVENUE_SHARE_MAX_BPS \in 0..BPS_DENOMINATOR
  /\ Shares \subseteq 0..REVENUE_SHARE_MAX_BPS
  /\ Deposits \subseteq Int
  /\ Others \in Nat /\ MaxPool \in Nat

VARIABLES
  paused,
  contribution, revenue_share_percentage,   \* fixed by the campaign
  revenue_pool,          \* everything ever deposited
  revenue_claimed,       \* by contributor
  revenue_distributed,   \* sum paid to contributors
  revenue_claimants,     \* contributors who claimed at least once
  creator_revenue_claimed,
  balance,               \* the contract's balance in the campaign's token
  late_deposit           \* history variable

campaignVars == <<contribution, revenue_share_percentage>>
claimVars == <<revenue_claimed, revenue_distributed, revenue_claimants>>
vars == <<paused, campaignVars, revenue_pool, claimVars, creator_revenue_claimed,
          balance, late_deposit>>

\* effective_amount_raised and contributor_count of a withdrawn campaign
\* (EffectiveIsSum and ContributorCountExact of Funding).
effective_amount_raised == Total(contribution)
contributor_count == Cardinality({u \in Contributors : contribution[u] # 0})

Init ==
  /\ paused = FALSE
  /\ contribution \in [Contributors -> Contributions]
  /\ effective_amount_raised > 0
  /\ revenue_share_percentage \in Shares
  /\ revenue_pool = 0
  /\ revenue_claimed = [u \in Contributors |-> 0]
  /\ revenue_distributed = 0
  /\ revenue_claimants = 0
  /\ creator_revenue_claimed = 0
  /\ balance = Others
  /\ late_deposit = FALSE

-----------------------------------------------------------------------------
\* require_revenue_sharing: create_campaign stores a positive percentage exactly
\* for campaigns that share revenue.
RevenueSharing == revenue_share_percentage > 0

\* The amounts deposit_revenue accepts.
ValidDeposit(amount) == amount > 0

\* deposit_revenue.
deposit_revenue(amount) ==
  /\ ~paused
  /\ ValidDeposit(amount)
  /\ RevenueSharing
  /\ revenue_pool + amount <= MaxPool
  /\ revenue_pool' = revenue_pool + amount
  /\ balance' = balance + amount
  /\ late_deposit' = (late_deposit \/ revenue_claimants > 0)
  /\ UNCHANGED <<paused, campaignVars, claimVars, creator_revenue_claimed>>

\* The creator's share of the pool, rounded down; the rest is the contributors'.
CreatorShareTotal ==
  FloorBps(revenue_pool, BPS_DENOMINATOR - revenue_share_percentage)
ContributorPoolTotal == revenue_pool - CreatorShareTotal

\* What a contributor is due of the pool so far, rounded down at the end.
TotalDue(u) ==
  ((contribution[u] * revenue_pool * revenue_share_percentage)
     \div effective_amount_raised) \div BPS_DENOMINATOR

\* Mutant: every claim counts as a first claim.
FirstClaimAlways(u) == TRUE

FirstClaim(u) == revenue_claimed[u] = 0

\* Mutant: the last claimant is recognised one claim early.
LastClaimantEarly(u) ==
  FirstClaim(u) /\ revenue_claimants + 2 >= contributor_count

\* claim_revenue's test for the contributor who absorbs the dust.
LastClaimant(u) ==
  /\ FirstClaim(u)
  /\ contributor_count > 0
  /\ revenue_claimants + 1 >= contributor_count

\* What claim_revenue pays: the share, or the rest to the last claimant.
Claimable(u) ==
  LET share == TotalDue(u) - revenue_claimed[u]
      pool_remaining == ContributorPoolTotal - revenue_distributed
  IN IF LastClaimant(u) /\ pool_remaining > share THEN pool_remaining ELSE share

\* claim_revenue.
claim_revenue(u) ==
  /\ ~paused
  /\ RevenueSharing
  /\ contribution[u] # 0
  /\ TotalDue(u) > revenue_claimed[u]
  /\ Claimable(u) <= balance
  /\ revenue_claimed' = [revenue_claimed EXCEPT ![u] = @ + Claimable(u)]
  /\ revenue_distributed' = revenue_distributed + Claimable(u)
  /\ revenue_claimants' = IF FirstClaim(u) THEN revenue_claimants + 1
                                              ELSE revenue_claimants
  /\ balance' = balance - Claimable(u)
  /\ UNCHANGED <<paused, campaignVars, revenue_pool, creator_revenue_claimed,
                 late_deposit>>

\* Mutant: the creator's claim forgets what was claimed before.
CreatorClaimedNever == 0

\* get_creator_revenue_claimed.
CreatorClaimed == creator_revenue_claimed

\* claim_creator_revenue.
claim_creator_revenue ==
  LET claimable == CreatorShareTotal - CreatorClaimed IN
  /\ ~paused
  /\ RevenueSharing
  /\ claimable > 0
  /\ claimable <= balance
  /\ creator_revenue_claimed' = creator_revenue_claimed + claimable
  /\ balance' = balance - claimable
  /\ UNCHANGED <<paused, campaignVars, revenue_pool, claimVars, late_deposit>>

\* pause and unpause.
set_paused ==
  /\ paused' = ~paused
  /\ UNCHANGED <<campaignVars, revenue_pool, claimVars, creator_revenue_claimed,
                 balance, late_deposit>>

Next ==
  \/ \E amount \in Deposits : deposit_revenue(amount)
  \/ \E u \in Contributors : claim_revenue(u)
  \/ claim_creator_revenue
  \/ set_paused

Spec == Init /\ [][Next]_vars

\* A contributor who is due something keeps claiming.
FairSpec == Spec /\ \A u \in Contributors : SF_vars(claim_revenue(u))

-----------------------------------------------------------------------------
(* Properties.                                                             *)

\* Every variable has its type.
TypeOK ==
  /\ paused \in BOOLEAN
  /\ contribution \in [Contributors -> Nat]
  /\ revenue_share_percentage \in 0..REVENUE_SHARE_MAX_BPS
  /\ revenue_pool \in Nat
  /\ revenue_claimed \in [Contributors -> Nat]
  /\ revenue_distributed \in Nat /\ revenue_claimants \in Nat
  /\ creator_revenue_claimed \in Nat
  /\ balance \in Nat
  /\ late_deposit \in BOOLEAN

\* What a contributor may still claim.
Open(u) == IF TotalDue(u) > revenue_claimed[u] THEN TotalDue(u) - revenue_claimed[u]
                                               ELSE 0
\* What is left of the pool.
PoolLeft == revenue_pool - revenue_distributed - creator_revenue_claimed

\* Everything all parties may still claim is there, next to the other campaigns'
\* money: the last claimant's dust never comes out of somebody else's share.
\* (Up to the first deposit that follows a claim: the last claimant's dust is
\* then credited to that contributor alone.)
ClaimsCovered ==
  late_deposit \/ /\ balance = Others + PoolLeft
                  /\ Total([u \in Contributors |-> Open(u)])
                       + (CreatorShareTotal - creator_revenue_claimed) <= PoolLeft

\* Nobody gets more than the rounded share plus the dust of the roundings, which
\* is at most one unit per contributor.
DustBounded ==
  late_deposit \/ \A u \in Contributors :
                    revenue_claimed[u] <= TotalDue(u) + contributor_count

\* The running sums claim_revenue relies on to find the last claimant and the
\* rest of the pool agree with the claims on record.
DistributionExact ==
  /\ revenue_distributed = Total(revenue_claimed)
  /\ revenue_claimants = Cardinality({u \in Contributors : revenue_claimed[u] # 0})

\* Typing and exact running sums together: what each claim relies on and leaves to
\* the next.
RevenueInv == TypeOK /\ DistributionExact

\* A contributor who is due something is paid, if the contract is not paused for
\* ever and no deposit follows the first claim.
RevenuePaid ==
  []<>~paused =>
    \A u \in Contributors : Open(u) # 0 ~> (Open(u) = 0 \/ late_deposit)
=============================================================================
