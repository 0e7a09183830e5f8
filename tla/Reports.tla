------------------------------ MODULE Reports ------------------------------
(***************************************************************************)
(* The dashboards of queries.rs over the money path: platform statistics,  *)
(* campaign statistics, the platform report and a contributor's portfolio. *)
(* They read Funding's state and change nothing; each one recomputes, from *)
(* its own copy of a condition or from a counter, something that another   *)
(* part of the contract decides.                                           *)
(***************************************************************************)
EXTENDS Funding

\* get_platform_stats: the maintained counters, without a scan.
get_platform_stats ==
  [total_campaigns     |-> campaign_count,
   active_campaigns    |-> active_campaign_count,
   verified_campaigns  |-> verified_campaign_count,
   cancelled_campaigns |-> cancelled_campaign_count,
   total_amount_raised |-> total_raised]

\* The average get_campaign_stats shows of a campaign with contributors.
Average(c) == campaign[c].amount_raised \div contributor_count[c]

\* get_campaign_stats, without the time of the last contribution.
get_campaign_stats(c) ==
  [contributor_count |-> contributor_count[c],
   top_contributor   |-> top_contributor[c],
   avg_contribution  |-> IF contributor_count[c] > 0 THEN Average(c) ELSE 0]

\* Mutant: the scan stops one campaign early.
ReportScanAllButLast == 1..(campaign_count - 1)

\* The campaigns get_platform_report scans.
ReportScan == 1..campaign_count

\* get_platform_report.
get_platform_report ==
  [total_campaigns    |-> campaign_count,
   active_campaigns   |-> active_campaign_count,
   total_raised       |-> total_raised,
   total_contributors |-> Total([c \in ReportScan |-> contributor_count[c]]),
   platform_fee_bps   |-> platform_fee,
   is_paused          |-> paused,
   token              |-> platform_token]

\* The status a portfolio line shows.
PortfolioStatus(c) ==
  IF campaign[c].is_cancelled          THEN "cancelled"
  ELSE IF campaign[c].funds_withdrawn  THEN "withdrawn"
  ELSE IF ~campaign[c].is_active       THEN "inactive"
  ELSE IF campaign[c].is_verified      THEN "verified"
  ELSE                                      "active"

\* Mutant: a campaign shows as refundable from its deadline on.
PortfolioRefundableAtDeadline(c) ==
  \/ campaign[c].is_cancelled
  \/ /\ now >= campaign[c].deadline
     /\ campaign[c].amount_raised < campaign[c].funding_goal

\* The portfolio's own copy of the refund condition.
PortfolioRefundable(c) ==
  \/ campaign[c].is_cancelled
  \/ /\ now > campaign[c].deadline
     /\ campaign[c].amount_raised < campaign[c].funding_goal

\* get_contributor_portfolio: one line for each campaign u has money in.
get_contributor_portfolio(u) ==
  {[id         |-> c,
    amount     |-> contribution[c][u],
    status     |-> PortfolioStatus(c),
    refundable |-> PortfolioRefundable(c)] :
     c \in {id \in 1..campaign_count : contribution[id][u] # 0}}

-----------------------------------------------------------------------------
(* Properties.                                                             *)

\* A portfolio line says "refund available" exactly when claim_refund would
\* succeed for that contributor in the same ledger, tokens included, unless the
\* contract is paused or some campaign was cancelled after a paid milestone (its
\* refunds are not covered); no line shows a campaign that is closed without being
\* cancelled or paid out, and none of a paid-out campaign offers a refund.
PortfolioHonest ==
  \A u \in Users : \A line \in get_contributor_portfolio(u) :
    /\ ~paused /\ PaidNotCancelled =>
         (line.refundable <=> ENABLED claim_refund(line.id, u))
    /\ line.status # "inactive"
    /\ line.status = "withdrawn" => ~line.refundable

\* The average shown is the mean of the contributions on record while nobody
\* has been refunded, and never below it afterwards: amount_raised keeps what
\* was refunded and contributor_count does not.
AverageNeverLow ==
  \A c \in 1..campaign_count :
    LET mean == Total(contribution[c]) \div contributor_count[c]
        shown == get_campaign_stats(c).avg_contribution
    IN contributor_count[c] > 0 =>
         /\ shown >= mean
         /\ (contribution[c] = lifetime[c]) => shown = mean

\* The dashboards describe one platform: the contributors the report counts are
\* the lines of all portfolios together, and what the statistics count as
\* neither active nor cancelled are the campaigns that were paid out.
ReportsAgree ==
  /\ get_platform_report.total_contributors =
       Total([u \in Users |-> Cardinality(get_contributor_portfolio(u))])
  /\ get_platform_stats.total_campaigns =
       get_platform_stats.active_campaigns
         + get_platform_stats.cancelled_campaigns
         + Cardinality({c \in CampaignIds : campaign[c].funds_withdrawn})
=============================================================================
