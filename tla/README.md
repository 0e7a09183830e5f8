# ProofOfHeart: TLA+ verification project

ProofOfHeart is a crowdfunding contract for the Soroban host of Stellar.  Creators open
campaigns, the admin or the community verifies them, contributors pay tokens into the
contract, and the money either goes to the creator (at once, with a vesting reserve, or
milestone by milestone) or back to the contributors.  Startups may share later revenue.

This directory models the contract in TLA+, model-checks it with TLC on small
instances, and proves with TLAPS, for all instances, every invariant and action property it checks
(of the one that uses `ENABLED`, `PortfolioHonest`, the same with the guards written out).

## 1. Inventory

The contract is one Rust crate (`src/src`).  Its state is key/value storage; its operations
are the entry points of `lib.rs`.

| Component | State | Operations | Correctness |
|---|---|---|---|
| Lifecycle (`lifecycle.rs`) | flags of a campaign | `CampaignState::of`, `transition`, shared guards | flags stay coherent |
| Contributions (`contributions.rs`) | contribution, lifetime total, personal cap, contributor count, burst counter | `contribute`, `batch_contribute`, `claim_refund`, `set/remove_personal_cap` | amounts and counts agree; caps hold; refunds are a lasting right and are paid |
| Campaigns (`campaigns/*`) | `Campaign`, reserve, vesting snapshot, pinned token | create, edit, extend, cancel (creator, admin), withdraw, withdraw reserve | money is paid to the creator or refunded, never both; nothing lost or created |
| Milestones (`milestones.rs`) | plan, verified and claimed ids | set, verify, claim | payouts never exceed what was raised |
| Revenue (`revenue.rs`) | pool, claimed shares, running sums | deposit, claim (contributor, creator) | all entitlements are covered; rounding dust is bounded |
| Voting (`voting.rs`) | tally, HasVoted records, parameters | vote, verify by votes or admin, purge | one vote per address; a badge reflects a majority for the present text |
| Ownership and index (`campaigns/transfer.rs`, buckets in `storage.rs`) | counter, buckets, position records | initiate, accept, cancel transfer | the index lists exactly what a creator owns |
| Queries (`queries.rs`) | none | paged lists (all, active, per creator), statistics, report, portfolio | pages are exact, walks are complete and end, numbers shown agree with each other and with what the handlers do |
| Catalogue (`create.rs`, `update.rs`, `tags.rs`) | title index, category index, tags and tag index | create, edit, add tag | indexes agree with the campaigns |
| Administration (`admin.rs`) | admin, pending admin, token proposal, fees, switches, pause signers | pause (admin, signers), resume, fees, caps, hand-over, token swap | fees follow the snapshot; a swap strands no money; a pause stops the money |
| Bookmarks (`bookmarks.rs`) | a list per wallet | save, batch save, remove, clear | no repetitions, limit per wallet |
| Comment moderation (`comments.rs`) | censure record per comment, counter | censure, uncensure | counter and event trail agree with the records, retries change nothing |
| Events, errors, TTL | none, or expiry of entries | every handler | output only |

**Interaction.**  Handlers share storage: `contribute` and `claim_refund` write the amounts
that `withdraw_funds`, `claim_milestone` and `claim_revenue` read; all of them move
`total_raised_global` and the campaign counters, which `accept_token_update` trusts; the
admin's settings change under running campaigns; all campaigns in one token share one
balance.  The only outgoing calls are to token contracts.

**What is hard.**  Invocations are atomic and the host forbids re-entry, so there are no data
races; the hard part is the order of calls by independent parties (creator, contributors,
admin, voters) and of ledger time: refunds against withdrawal, cancellation or extension;
fee, token or admin changes between two steps of one payout; derived numbers that are kept
in several entries; rounding; bucket lists after removals; loops that may not end; and
whether a refund or a share that is due is eventually paid.  `PROJECT.json` lists these
hazards with their lines and the properties that cover them.

## 2. Modelling conventions

* **One action is one successful invocation.**  If a handler returns an error or a transfer
  traps, the host rolls the invocation back, so failures are stuttering steps, and an
  action's guard is the conjunction of the conditions under which the handler succeeds.
  Lists that a handler processes item by item (`batch_contribute`, `verify_campaigns`,
  `purge_voting_state`) are modelled per item.
* **Rolled-back auto-pause.**  `check_burst_guard` sets `AutoPaused` and then returns an error.
  `Pausing` takes such an invocation in two steps, the handler on a copy of storage and the
  host that commits or drops the copy, and shows that `AutoPaused` is never set in a committed
  state.  `Funding` and the other modules therefore read `require_not_paused` as `~paused`.
* **Authorization** is not a state: each action is taken by the party the code asks for.
* **Time.**  `now` is the ledger timestamp, one unit per ledger, so it also stands for the
  sequence number the burst counter compares.
* **Arithmetic.**  Amounts are `i128` with checked operations: an overflow is an error and
  therefore a stutter, so integers are unbounded here.  Rounding (`FloorBps`, `CeilBps`) is
  the code's own.
* **Text** is abstracted to the number of edits (`Voting`), to model values (titles in
  `Catalogue`, hashes and reasons in `Comments`) or left out; TTL, errors and events are left
  out, but for the moderation events, which are an audit trail (`audit` in `Comments`).
* **History variables** observe without influencing: `held` (tokens brought in minus paid out
  per campaign and token), `fees_paid`, `ballots`, `verdict`, `spent`, `late_deposit`, `accepted`, `batched`, `edited`.

## 3. Modules

| Module | Models | Notes |
|---|---|---|
| `Lifecycle` | `lifecycle.rs`, `constants.rs` | states, transition table, roundings, `Total` (the sum of a function to Nat, as the cardinality of its units, which is within reach of the provers) |
| `Funding` | `contributions.rs`, `campaigns/`, `milestones.rs`, the settings of `admin.rs` they read | the core: one action per entry point, all campaigns, all tokens |
| `Escrow` | none | abstract specification: a campaign is none, open, refunding or released; deposits only while open, refunds only while refunding, refunding and released are final |
| `Governance` | admin hand-over, token swap of `admin.rs` | composes with `Funding` (EXTENDS; `GovNext` interleaves both) |
| `Voting` | `voting.rs`, voting parts of `admin.rs`, edits | one campaign; token balances move as an external action |
| `Revenue` | `revenue.rs` | one campaign after its withdrawal.  It starts from what `Funding` establishes there: contributions are final, the count and the effective amount are exact |
| `Reports` | statistics, report and portfolio of `queries.rs` | operators over the state of `Funding` (EXTENDS) |
| `CreatorIndex` | `transfer.rs`, the buckets and the reverse index of `storage.rs`, paging and statistics of `queries.rs` | one iteration of the query loop is one step, so that non-termination is visible |
| `Listing` | `list_campaigns`, `list_active_campaigns` | composes with `CreatorIndex`: a client takes page after page while campaigns are created and closed |
| `Catalogue` | title, category and tag indexes | composes with `CreatorIndex`: creation enters all indexes in one step, transfers go on |
| `Registry` | what campaigns, creator and pause flags mean to the modules below | shared state of `Community` |
| `Bookmarks` | `bookmarks.rs` | over `Registry` |
| `Comments` | `comments.rs` | over `Registry` |
| `Pausing` | pause, unpause, signers, burst guard, `resume_campaign` | over `Registry`; handler and host are separate steps |
| `Community` | | composes `Bookmarks`, `Comments` and `Pausing` over one `Registry` |
| `LifecycleProofs` | | lemmas about the operators of `Lifecycle`: sums, roundings, finite sets |
| `FundingProofs`, `LedgerProofs` | | theorems about `Funding`: typing, flags, refund rights and `Escrow`; entries that agree, roundings of fees and milestones, the dashboards of `Reports`, solvency |
| `IndexProofs` | | theorems about `CreatorIndex`, `Listing` and `Catalogue` |
| `GovernanceProofs`, `VotingProofs`, `RevenueProofs`, `CommunityProofs` | | theorems about these modules |
| `MC*` | | small constants for TLC |

Correspondence in `Funding`: `campaign[c]` is the `Campaign` struct (without text) together
with the entries keyed by the same id and written only with it (start time, pinned token,
vesting snapshot); `contribution`, `lifetime`, `personal_cap` are the `ContributionKey`
entries; `reserve` is `CampaignReserve`; `total_raised` is `total_raised_global`.  An id that
was not handed out has the value `NoCampaign`.  Actions have the names of the functions.

Simplifications, each with its reason:

* `Goals` holds goals inside the configured range; the creation switch and the text checks
  only narrow when `create_campaign` succeeds, and the title index, which narrows it too, is in
  `Catalogue`.
* One category: `duration_cap` and `category_threshold_bps` are its settings.
* `CAMPAIGN_EXTENSION_MAX_DAYS` and `CAMPAIGN_DURATION_MAX_DAYS` are both 365 and are one constant.
* `AllowedTokens` is constant: the allowlist is consulted at creation only.
* The creator of a campaign is constant in `Funding`; ownership transfers are in `CreatorIndex`.
  (The creator only matters for who may call, and for who may not contribute.)
* `LastContributionTime` is written and never read by a handler; it is left out.
* `cancel_campaign`'s refund of the revenue pool is unreachable: `deposit_revenue` needs
  `funds_withdrawn`, and a withdrawn campaign cannot be cancelled.
* In `Catalogue` an edit asks for an active campaign.  The code also asks that nothing was raised
  and no badge given, which an active campaign may satisfy at any time.
* In `Listing`, transfers and creator queries happen between two walks: a walk reads ids and
  `is_active` flags only, which they do not change.
* In `Pausing`, verification, deadline and caps are left out of `contribute`: they only narrow when
  the burst guard is reached.
* `verify_campaign` in `Funding` stands for every way to be verified; `Voting` models the votes.

## 4. Runs

### 4.1 Passing

| Run | Configuration | Shows |
|---|---|---|
| `funding_core` | 1 campaign, 2 backers, amount 2, goal 4, up to 6 raised, paid out at once with a half reserve or by a half/half plan, time 0..3 (deadline 1, extended 2), fee 10%, both cancellations, pausing | `FundingInv`, `EffectiveIsSum`, `ContributorCountExact`, `Custody`, `NoDoubleSpend`, `TotalRaisedExact`, `MilestonesCovered`, `CountersExact`, `PortfolioHonest`, `ReportsAgree`, `RefundRightPermanent`, `PauseStopsMoney`, `RefundsPaid`, and that the contract implements `Escrow` |
| `funding_config` | 1 campaign, 1 backer, paid out at once or by three milestones, amounts 13 and 39 so that the fee of each claim rounds differently; all three contribution caps at 26, below the 39 that may be raised; caps, fees, overrides and durations changed by the admin; inputs above the limits are offered | `TypeOK`, `CapsRespected`, `DeadlineBounded`, `FeeBounded` |
| `governance` | 2 admins, 2 tokens (one allowed at creation), hand-over and swap with delays | `GovTypeOK`, `FeesToSnapshot`, `SwapStrandsNothing` |
| `voting` | 3 voters, tokens moving, edits, sweeps, parameters | `VotingInv` (typing, one vote per address), `VerdictIsMajority`, `FreshVotersAfterRevocation` |
| `revenue` | all splits among 3 contributors, deposits -1, 0, 1, 3, 7 | `RevenueInv` (typing, exact running sums), `ClaimsCovered`, `DustBounded`, `RevenuePaid` |
| `queries` | buckets of 2, 3 campaigns, transfers both ways, page limits 0, 1, 2, 5 (maximum 2), scan window 2 | `IndexInv` (typing, coherence), `AnswersExact` (pages, statistics), `ListComplete`, `QueryEnds` |
| `catalogue` | 3 campaigns, 2 creators, 2 titles, 2 categories, 1 tag, buckets of 2 | `IndexesExact` (category and tag index) |
| `community` | 2 campaigns, 1 wallet with a limit of 1, batches of 2, 2 comments and 2 reasons with at most 3 acts, 2 ledgers, burst limit 1, a contribution of 300% of the goal | `TypeOK`, `BookmarksSound`, `ModerationExact`, `AutoPauseRolledBack`, `BurstLimited` |

**Why the bounds are enough to be interesting.**  Two backers suffice for one to be refunded
while the other is not, and for the count and the sum to differ; steps of 2 against a goal of 4 and
at most 6 give below, at and above the goal, and leave room for a contribution after the first of two
milestone claims; 50% and 10% of these amounts round in both directions; time reaches one ledger beyond
the extended deadline; each of the caps of 26, alone, refuses a contribution (the transaction cap one of 39,
the other two a third one of 13); three milestones of 39 units whose
fee changes between 7.5% and 10% make the roundings of the claims add up to more than the maximum of
one withdrawal; three contributors make the first, a middle and the last claimant different; buckets
of two make boundaries frequent; a limit of one and batches of two pass the bookmark limit;
three acts of moderation are censure, lift and censure again; a page limit of 5 is above what
the contract grants and one of 0 asks for nothing.  Voters in `voting`, titles and categories in `catalogue`, comments and
reasons in `community` are interchangeable, hence the symmetry sets (none in runs with liveness).
Only `catalogue` may stop: once all campaigns are closed nothing is left to do, so deadlock is not
checked there.  Several properties are about a part of the behaviour on purpose,
and say so: `Custody` until a milestone is claimed; `NoDoubleSpend`, `PortfolioHonest`, `RefundsPaid` and
`MilestonesCovered` unless the admin cancels a campaign that has paid a milestone, and the last two
under a constant fee;
`TotalRaisedExact` and `SwapStrandsNothing` until a campaign is cancelled, `ClaimsCovered`
until a deposit follows a claim, `AnswersExact` and `QueryEnds` on lists
without gaps (every bucket but the last is full), the second half of `ListComplete` for limits from 1 up to `LIST_MAX_LIMIT`; `BookmarksSound` bounds the
lists of wallets that never used the batch.  Outside these limits the code really behaves differently:
section 4.2 shows where.

**Fairness.**  `RefundsPaid` and `RevenuePaid` assume strong fairness of the claim of each
contributor: a contributor with money to get back keeps submitting the claim, and the
network includes a valid transaction at some point.  Strong fairness is needed because a pause
may disable the claim again and again; both properties also assume that the contract is not
paused for ever.  Nothing is assumed of creator, admin or others.  `QueryEnds` assumes weak
fairness of the running query (in `FairSpec` and `ListSpec`): the host executes an invocation to
its end.

### 4.2 Disagreements between code and documentation

Each of these runs checks one statement of a comment or document, and TLC finds a behaviour
of the code that contradicts it (`findings` in `PROJECT.json` quotes the lines).

| Run | Statement | What happens |
|---|---|---|
| `token_swap` | no refundable balance survives a swap | a cancellation empties `total_raised_global` before the refunds are claimed; refunds are then due in the new token |
| `index_loop` | the walk advances past an exhausted bucket | a bucket shortened by a transfer is walked for ever |
| `active_cursor` | callers of `list_active_campaigns` go on with the cursor they are handed | the cursor is the id after the last one looked at, and the next call starts after the cursor: the campaign at each page boundary is never returned, active or not |
| `milestone_cancel` | after an admin cancellation contributors reclaim their funds | `admin_cancel_campaign` does not look at milestones that are paid: everybody may claim the whole contribution, and part of the money is gone |

Further behaviours met while modelling, which the restrictions above leave out and which have
no run of their own:

* a contribution between two milestone claims is partly left in the contract for ever, although
  the last claim is meant to remove the remainder (`milestones.rs:256`);
* when the fee changes between two milestone claims, the earlier shares are recomputed with the new
  fee and rounded again; rounded differently, they make the sum of the payments exceed the amount
  raised by a unit (2 raised: half of it paid without a fee, then a half and a fee of 1 at 10%;
  `milestones.rs:169`);
* milestone fees go to the admin of the day, not to the snapshotted recipient (`milestones.rs:285`);
* an edit before the verification keeps the votes cast on the old text (`update.rs:102`);
* a revenue deposit after the last claimant took the dust makes the entitlements exceed the pool
  by that dust (`revenue.rs:120`);
* `get_creator_stats` misses the last bucket once an earlier one has a gap (`queries.rs:268`), and
  a bucket may then grow beyond its size (`create.rs:229`);
* a refund after expiry followed by a cancellation takes the same amount off `total_raised_global`
  twice, which may go negative (`cancel.rs:55`; the comment above it, line 53, says that
  double-counting is avoided);
* a client of `list_campaigns` with a limit above `LIST_MAX_LIMIT` that stops at a page shorter than
  its limit, as documented, sees one page only (`queries.rs:31`, `54`);
* `batch_save_campaigns` is not bound by the limit per wallet (`bookmarks.rs:105`), and bookmarks of
  cancelled campaigns, hidden from `get_saved`, count towards it;
* the automatic pause is rolled back with the error that reports it, and `resume_campaign` never
  succeeds (`contributions.rs:63`); the burst limit itself holds;
* an edit neither consults nor updates the title index (`update.rs:48`): two campaigns of a creator
  may end up with one title, and a title edited away stays taken, although the comment on the index
  (`storage.rs:142`) speaks of uniqueness;
* `create_campaign` refuses a title the creator has used before (`create.rs:98`), but several tests
  create campaigns of one creator with one title and expect success
  (`tests/test_queries.rs:9`, `38`, `486`, `521`, `643`);
* `README.md:68` of the repository says that a pause halts all state-changing operations; personal
  caps, fees, limits, roles, token swaps and bookmarks may still be changed
  (`contributions.rs:385`, `admin.rs`, `bookmarks.rs`).  `PauseStopsMoney` says what a pause does stop;
* the transaction cap is applied to each item of a batch, not to the batch (`contributions.rs:197`);
* tags have no entry point in `lib.rs`: the handlers are modelled as the crate has them;
* the comment "immutable" on the censure record (`lib.rs:831`) does not hold across `uncensure_comment`;
* the average shown is too high after refunds, because `amount_raised` keeps them and the count does
  not (`queries.rs:326`); `TopContributor` is not updated by batches and refunds
  (`contributions.rs:216`);
* the minimum goal may be set above the maximum (`admin.rs:377`).

## 5. Proofs

Each theorem holds for every value of the constants that satisfies the assumption named in the
module (`FundingAssumption`, `GovernanceAssumption`, `VotingAssumption`, `RevenueAssumption`, `IndexAssumption`,
`ListingAssumption`, `CatalogueAssumption` and those of `Registry`, `Bookmarks`, `Comments`, `Pausing`): limits are naturals, sets that are summed or counted over
are finite, inputs have the types of the handlers' parameters, `None` is none of the other values.
Two theorems have a further hypothesis, the constant fee, and say so.

| Theorem | States | About |
|---|---|---|
| `FundingProofs!Typing` | `Spec => []TypeOK` | `Funding` |
| `FundingProofs!CoherentFlags` | `Spec => []FundingInv` | |
| `FundingProofs!EffectiveAmounts` | `Spec => []EffectiveIsSum` | |
| `FundingProofs!NoDoubleSpending` | `Spec => []NoDoubleSpend` | |
| `FundingProofs!RefundRights` | `Spec => RefundRightPermanent` | |
| `FundingProofs!PauseHolds` | `Spec => PauseStopsMoney` | |
| `FundingProofs!EscrowRefinement` | `Spec => ImplementsEscrow` | `Funding` implements `Escrow` |
| `LedgerProofs!ContributorCounts` | `Spec => []ContributorCountExact` | `Funding` |
| `LedgerProofs!CustodyHolds` | `Spec => []Custody` | |
| `LedgerProofs!CapsHold` | `Spec => CapsRespected` | |
| `LedgerProofs!DeadlinesBounded` | `Spec => []DeadlineBounded` | |
| `LedgerProofs!CountersHold` | `Spec => []CountersExact` | |
| `LedgerProofs!TotalRaisedHolds` | `Spec => []TotalRaisedExact` | |
| `LedgerProofs!FeesBounded` | `Spec => []FeeBounded` | |
| `LedgerProofs!MilestonesHold` | `Spec => []MilestonesCovered`, for `Fees = {fee}` | |
| `LedgerProofs!Solvency` | `Spec => []Solvent`: until a milestone is claimed, each token's balance is the sum of what is owed in it | |
| `LedgerProofs!DashboardsAgree` | `Spec => []ReportsAgree` | `Reports` |
| `LedgerProofs!AveragesNeverLow` | `Spec => []AverageNeverLow` | |
| `LedgerProofs!PortfoliosExact` | `Spec => []PortfolioExact`: a line offers a refund exactly when the guards of `claim_refund` hold (tokens: until a milestone is claimed) | |
| `GovernanceProofs!RolesTyped` | `GovSpec => []GovTypeOK` | `Governance` with `Funding` |
| `GovernanceProofs!FeesFollowSnapshot` | `GovSpec => []FeesToSnapshot` | |
| `GovernanceProofs!SwapsAreSafe` | `GovSpec => SwapStrandsNothing`, for `Fees = {fee}` | |
| `GovernanceProofs!RolesMoveNoMoney` | `GovSpec =>` the invariants and refund rights of `Funding` | |
| `VotingProofs!VotingHolds`, `Majority`, `FreshVoters` | `Spec => []VotingInv`, `[]VerdictIsMajority`, `[]FreshVotersAfterRevocation` | `Voting` |
| `RevenueProofs!RevenueHolds`, `AllClaimsCovered`, `DustIsBounded` | `Spec => []RevenueInv`, `[]ClaimsCovered`, `[]DustBounded` | `Revenue` |
| `CommunityProofs!CommunityTyping`, `BookmarksHold`, `ModerationHolds`, `AutoPauseNeverStays`, `BurstsLimited` | `Spec => []TypeOK`, `[]BookmarksSound`, `[]ModerationExact`, `[]AutoPauseRolledBack`, `[]BurstLimited` | `Community` |
| `IndexProofs!IndexHolds`, `QueriesExact` | `Spec => []IndexInv`, `[]AnswersExact` | `CreatorIndex` |
| `IndexProofs!ListingUsesIndex`, `CatalogueUsesIndex` | `ListSpec => Spec`, `CatSpec => Spec` | the compositions |
| `IndexProofs!WalksComplete`, `ActiveWalksMissOnlyCursors` | `ListSpec => []ListComplete`, `[]ActiveMissesOnlyCursors` | `Listing` |
| `IndexProofs!CatalogueExact`, `TitlesStayDistinct` | `CatSpec => []IndexesExact`, `[]TitlesDistinct` | `Catalogue` |

**Sums and roundings** (`LifecycleProofs`).  `Total` is a natural number, changes by the difference
when one entry changes (`TotalUpdate`), is linear, monotone and counts a set when it sums its
indicator.  What holds of each summand is carried to the sum by induction over the finite domain, written
as the least counterexample among the parts of that domain (`LeastPart`), since the library's induction
theorems take an operator.  `Net` is the same for entries of either sign.

**Flags and refunds** (`FundingProofs`).  `NoDoubleSpend` is not inductive: a withdrawal preserves it only
if no contributor has been refunded, which needs to know that whoever was refunded belongs to a
refundable campaign, and that a campaign that met its goal is refundable only if it was cancelled.  The
inductive invariant is `TypeOK /\ FundingInv /\ EffectiveIsSum`, where `FundingInv` is the conjunction of

* `Untouched`: ids not handed out have no money, so creation starts clean;
* `FlagsCoherent`: `is_active` is "neither cancelled nor withdrawn", a withdrawn campaign
  is not cancelled, and one that was withdrawn or paid a milestone met its goal;
* `RefundedIsRefundable`: if somebody's contribution differs from the lifetime total, the
  campaign is refundable.

The last conjunct is preserved because refundability is permanent, so each step lemma
establishes both at once (`Kept`): the invariant afterwards, and that no right to a refund was
lost.  Steps fall into three kinds: quiet steps change nothing the invariant reads (`QuietStep`), local
steps change one campaign (`LocalStep`), and creation.  The refinement uses the same
cases: a contribution is a `Deposit`, a refund a `Refund`, a withdrawal or the last claim a `Release`, a
cancellation the `Fail` of one campaign, and a tick of the clock the `Fail` of all whose deadline passes.

**Entries that agree** (`LedgerProofs`).  `LedgerAt(c)` collects what is kept about one campaign: its count,
caps, custody and duration.  Durations need that a deadline is a whole number of days after the
start, otherwise the division in `extend_campaign_deadline` says too little.  `CountersExact` and
`TotalRaisedExact` relate a counter to all campaigns; they follow from how the one campaign that a step
changes enters the cardinality or the sum.

**Roundings of a plan** (`LedgerProofs`).  At each claim the shares already paid are recomputed, so the
invariants bound sums of rounded products over arbitrary sets of milestones (`PayoutInv`, `CoverInv`).  The
proof attempt for `FeeBounded` failed at first for a good reason: the bound it used to state, without the
summand for the claims, is false with three milestones and a fee that changes between claims, which TLC
confirmed.  The statement is now the true bound, and `funding_config` has three milestones.

**Solvency and dashboards** (`LedgerProofs`).  Every step moves money in one campaign and one token or not at
all (`OneTransfer`), so each balance is the sum of what the campaigns hold of that token (`BooksInv`); a
campaign holds its own token only (`Frames`), and custody makes each term what that campaign owes.  A refund
that is due is one term of the sum, hence covered.  The report counts contributors campaign by campaign and the
portfolios user by user; both count the pairs of a user and a campaign with money in it (`DoubleCounting`).

**Roles** (`GovernanceProofs`).  The step lemmas of `Funding` are reused.  A swap changes the token of every
campaign that pinned none, so `Holdings` says that nothing is held in a token a campaign no longer uses but
for what milestone claims left there.  `accept_token_update` trusts `total_raised = 0`; it follows that
each campaign's part is zero only if no part is negative, hence the constant fee.

**Voting** (`VotingProofs`).  `HasVoted` is the record that no edit clears; the invariant `Recorded` ties the
tally, the verdict and revoked verdicts to it.

**Revenue** (`RevenueProofs`).  The rounded shares fit into the contributors' part of the pool and leave at most
one unit per contributor over (`DuesCovered`); `Settled` says that until a deposit follows a claim, what
was claimed and what is open stay within that part.

**Community** (`CommunityProofs`).  Three invariants side by side.  `ListsInv` rests on lemmas about lists
without repetitions (appending, removing a position, a batch checked as it grows).  `CensureInv` follows
one more event at the end of the trail: it is the new last one, and the pair it forms with the one before
alternates.  `PauseInv` must say what an invocation that has run may still commit (`InFlight`): one that
returned Ok started unpaused, sets no flag, and counts each campaign on to at most the threshold.

**Index, queries and walks** (`IndexProofs`).  `OwnInv` says of each creator separately that buckets, counter and
position records describe one injective list.  An append or a swap removal changes one bucket of the
creators concerned, so the proof is about one creator's entries as plain functions (`Coherent`): where the moved
entry was, where it is now, and that the position records follow.  Positions are split by `\div` and
`%`, so a few lemmas on division carry the index arithmetic.  Exact answers need more: on a list without gaps
(`Filled`), entry `p` is in bucket `(p - 1) \div size`, and a page under construction is at every step of the loop a
slice of that list (`QueryInv`).  The category and tag indexes are lists that are only appended to, hence
filled (`Lists`).  Distinct titles follow from `TitlesTaken`: an unedited title is still recorded for the creator
who opened the campaign.  For the walks, `WalkInv` says that what the client has received is what the list showed up to its
cursor.  `ActiveFrom` chooses an ordering of a set of ids; that there is one is shown by the least
number up to which there is none (`OrderExists`), again because the library's induction takes an operator.  Both
compositions are shown to implement the index's own specification, so `IndexInv` and `AnswersExact` hold in them.

Proving led to changes in the model's statements, not in what they say of the code: the list stored in the buckets is read off by
division instead of concatenated; `ListComplete` had not said that a limit of 0
returns nothing, and the run now includes that limit.

**Only model-checked.**  Liveness (`RefundsPaid`, `RevenuePaid`, `QueryEnds`) is out of the prover's reach, and so is
`ENABLED` in `PortfolioHonest`; `PortfoliosExact` proves it with the guards of `claim_refund` in its
place, for as long as no milestone is claimed.  Three theorems state what is left of a promise that does
not hold as it stands and that no run checks: `ActiveWalksMissOnlyCursors` (a client misses nothing but ids it
was handed as cursors), `TitlesStayDistinct` (titles that were not edited) and `AveragesNeverLow` (the average is
exact until the first refund, and only ever too high after it).

## 6. Not modelled

The goal range, the creation switch and edits of the token allowlist (they only narrow when
`create_campaign` succeeds), the version number that `migrate` writes,
TTL and archival of entries (the host's business: an archived entry makes an invocation fail until
it is restored), events other than the moderation trail, the `get_saved` view, and the scan for
campaigns that an earlier version stored without a position record.  Token contracts are modelled
by what the code uses of them: a transfer moves a balance or traps.

## 7. Plan

1. *Done:* all modules and runs above; the theorems of section 5.
2. *With a prover for fairness:* `RefundsPaid`, `RevenuePaid` and `QueryEnds`; what they rest on, covered
   claims and walks that advance on lists without gaps, is proved.
3. *Further modelling, if the code changes:* ownership transfer composed with `Funding`, the goal
   range, migration.
