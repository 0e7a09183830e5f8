------------------------------ MODULE Voting ------------------------------
(***************************************************************************)
(* Community verification of one campaign.  Holders of the platform token  *)
(* vote once per address; anyone may then ask for verification, which is   *)
(* granted when quorum and approval threshold are met.  The admin verifies *)
(* directly.  An edit of a verified text takes the verification and the    *)
(* tally away.  Campaigns share no voting state but the parameters, so one *)
(* campaign is modelled; its flags are the ones Funding keeps.             *)
(*                                                                         *)
(* The history variables ballots (the votes in the current tally),       *)
(* verdict (how the present verification came about) and spent (the voters *)
(* whose votes counted for a verification that was revoked since) observe  *)
(* the handlers.                                                           *)
(***************************************************************************)
EXTENDS Lifecycle

CONSTANTS
  Voters,           \* addresses that may vote
  None,
  Balances,         \* platform token balances a voter may have
  Quorums, Thresholds, MinBalances,    \* the parameters the admin chooses from
  Deadline,         \* the campaign's deadline
  MIN_APPROVAL_THRESHOLD_BPS, MAX_VOTES_QUORUM,
  DEFAULT_MIN_VOTES_QUORUM, DEFAULT_APPROVAL_THRESHOLD_BPS,
  MaxTime,          \* bound: ledger time
  MaxEdits          \* bound: edits of the text

Unset == -1

ASSUME VotingAssumption ==
  /\ IsFiniteSet(Voters)
  /\ None \notin {"admin", "votes"}
  /\ Balances \subseteq Nat /\ MinBalances \subseteq Int
  /\ Quorums \subseteq Nat /\ Thresholds \subseteq Nat
  /\ Deadline \in Nat /\ MaxTime \in Nat /\ MaxEdits \in Nat
  /\ MIN_APPROVAL_THRESHOLD_BPS \in 1..BPS_DENOMINATOR
  /\ MAX_VOTES_QUORUM \in Nat \ {0}
  /\ DEFAULT_MIN_VOTES_QUORUM \in 1..MAX_VOTES_QUORUM
  /\ DEFAULT_APPROVAL_THRESHOLD_BPS \in MIN_APPROVAL_THRESHOLD_BPS..BPS_DENOMINATOR

VARIABLES
  now, paused,
  campaign,             \* the flags is_active, is_verified, is_cancelled, funds_withdrawn
  text,                 \* version of title and description
  approve_votes, reject_votes,
                        \* the tally (the stored weights always equal the counts)
  has_voted,            \* HasVoted records
  min_votes_quorum, approval_threshold_bps,
  category_threshold_bps,              \* the category's own threshold, or Unset
  min_voting_balance,
  wallet,               \* platform token balance of every voter (external)
  ballots, verdict, spent    \* history variables

paramVars == <<min_votes_quorum, approval_threshold_bps, category_threshold_bps,
               min_voting_balance>>
tallyVars == <<approve_votes, reject_votes, ballots>>
historyVars == <<verdict, spent>>
vars == <<now, paused, campaign, text, tallyVars, has_voted, paramVars, wallet,
          historyVars>>

\* The voters in a set of ballots.
VotersOf(bs) == {bl.voter : bl \in bs}

NoVerdict == [by |-> None, ballots |-> {}]

Init ==
  /\ now = 0 /\ paused = FALSE
  /\ campaign = [is_active |-> TRUE, is_verified |-> FALSE,
                 is_cancelled |-> FALSE, funds_withdrawn |-> FALSE]
  /\ text = 0
  /\ approve_votes = 0 /\ reject_votes = 0 /\ ballots = {}
  /\ has_voted = {}
  /\ min_votes_quorum = DEFAULT_MIN_VOTES_QUORUM
  /\ approval_threshold_bps = DEFAULT_APPROVAL_THRESHOLD_BPS
  /\ category_threshold_bps = Unset
  /\ min_voting_balance = 0
  /\ wallet \in [Voters -> Balances]
  /\ verdict = NoVerdict /\ spent = {}

-----------------------------------------------------------------------------
\* vote_on_campaign / cast_vote.
cast_vote(v, approve) ==
  /\ ~paused
  /\ ~campaign.funds_withdrawn
  /\ RequireActive(campaign)
  /\ now <= Deadline
  /\ ~campaign.is_verified
  /\ wallet[v] > 0
  /\ wallet[v] >= min_voting_balance
  /\ v \notin has_voted
  /\ approve_votes' = IF approve THEN approve_votes + 1 ELSE approve_votes
  /\ reject_votes' = IF approve THEN reject_votes ELSE reject_votes + 1
  /\ has_voted' = has_voted \cup {v}
  /\ ballots' = ballots \cup {[voter |-> v, approve |-> approve]}
  /\ UNCHANGED <<now, paused, campaign, text, paramVars, wallet, historyVars>>

\* What both verifications write.
Verify(by) ==
  /\ ~campaign.is_verified
  /\ RequireActive(campaign)
  /\ transition(Of(campaign), "Verified")
  /\ campaign' = [campaign EXCEPT !.is_verified = TRUE]
  /\ verdict' = [by |-> by, ballots |-> ballots]
  /\ UNCHANGED <<now, paused, text, tallyVars, has_voted, paramVars, wallet, spent>>

\* verify_campaign and verify_campaigns, by the admin.
admin_verify == ~paused /\ Verify("admin")

\* effective_approval_threshold_bps.
Threshold == IF category_threshold_bps = Unset THEN approval_threshold_bps
                                               ELSE category_threshold_bps

\* Mutant: the approval is measured against the rejections.
VotesPassOfRejections ==
  /\ approve_votes + reject_votes >= min_votes_quorum
  /\ approve_votes * BPS_DENOMINATOR >= Threshold * reject_votes

\* The quorum and threshold checks of verify_with_votes.
VotesPass ==
  LET total_votes == approve_votes + reject_votes IN
  /\ total_votes >= min_votes_quorum
  /\ (approve_votes * BPS_DENOMINATOR) \div total_votes >= Threshold

\* verify_campaign_with_votes: anyone, also after the deadline.
verify_with_votes == ~paused /\ VotesPass /\ Verify("votes")

-----------------------------------------------------------------------------
\* remove_voting_state: the aggregate keys only.
ClearTally == approve_votes' = 0 /\ reject_votes' = 0 /\ ballots' = {}

\* Mutant: the badge goes, the tally stays.
RevokeOnEditKeepsTally ==
  campaign' = [campaign EXCEPT !.is_verified = FALSE] /\ UNCHANGED tallyVars

\* update_campaign_description's revocation; HasVoted records stay.
RevokeOnEdit ==
  campaign' = [campaign EXCEPT !.is_verified = FALSE] /\ ClearTally

\* update_campaign_description, and update_campaign, which an unverified
\* campaign without contributions may use too.
update_campaign_description ==
  /\ ~paused
  /\ RequireActive(campaign)
  /\ text < MaxEdits
  /\ text' = text + 1
  /\ IF campaign.is_verified
     THEN /\ RevokeOnEdit
          /\ verdict' = NoVerdict
          /\ spent' = spent \cup VotersOf(verdict.ballots)
     ELSE UNCHANGED <<campaign, tallyVars, historyVars>>
  /\ UNCHANGED <<now, paused, has_voted, paramVars, wallet>>

\* cancel_campaign and admin_cancel_campaign.
cancel_campaign ==
  /\ ~paused
  /\ RequireActive(campaign)
  /\ ~campaign.funds_withdrawn
  /\ transition(Of(campaign), "Cancelled")
  /\ campaign' = [campaign EXCEPT !.is_cancelled = TRUE, !.is_active = FALSE]
  /\ ClearTally
  /\ UNCHANGED <<now, paused, text, has_voted, paramVars, wallet, historyVars>>

\* withdraw_funds, or the last milestone claim, of a campaign that has its money.
withdraw_funds ==
  /\ ~paused
  /\ campaign.is_verified /\ ~campaign.is_cancelled /\ ~campaign.funds_withdrawn
  /\ campaign' = [campaign EXCEPT !.funds_withdrawn = TRUE, !.is_active = FALSE]
  /\ UNCHANGED <<now, paused, text, tallyVars, has_voted, paramVars, wallet, historyVars>>

\* Mutant: the sweep also runs on open campaigns.
PurgeableAlways == TRUE

\* purge_voting_state's condition.
Purgeable == campaign.funds_withdrawn \/ campaign.is_cancelled

\* purge_voting_state for one voter of the list (a list is a run of such steps),
\* with or without the aggregate keys.
purge_voting_state(v, finalize_aggregate) ==
  /\ Purgeable
  /\ has_voted' = has_voted \ {v}
  /\ IF finalize_aggregate THEN ClearTally ELSE UNCHANGED tallyVars
  /\ UNCHANGED <<now, paused, campaign, text, paramVars, wallet, historyVars>>

-----------------------------------------------------------------------------
unchangedButParams ==
  UNCHANGED <<now, paused, campaign, text, tallyVars, has_voted, wallet, historyVars>>

\* set_voting_params / set_params.
set_params(quorum, threshold) ==
  /\ quorum \in 1..MAX_VOTES_QUORUM
  /\ threshold \in MIN_APPROVAL_THRESHOLD_BPS..BPS_DENOMINATOR
  /\ min_votes_quorum' = quorum
  /\ approval_threshold_bps' = threshold
  /\ UNCHANGED <<category_threshold_bps, min_voting_balance>>
  /\ unchangedButParams

\* What set_category_voting_threshold accepts.
CategoryThresholds == MIN_APPROVAL_THRESHOLD_BPS..BPS_DENOMINATOR

\* set_category_voting_threshold and remove_category_voting_threshold (Unset).
set_category_voting_threshold(threshold) ==
  /\ threshold \in CategoryThresholds \cup {Unset}
  /\ category_threshold_bps' = threshold
  /\ UNCHANGED <<min_votes_quorum, approval_threshold_bps, min_voting_balance>>
  /\ unchangedButParams

set_min_voting_balance(min_balance) ==
  /\ min_balance >= 0
  /\ min_voting_balance' = min_balance
  /\ UNCHANGED <<min_votes_quorum, approval_threshold_bps, category_threshold_bps>>
  /\ unchangedButParams

\* pause and unpause.
set_paused ==
  /\ paused' = ~paused
  /\ UNCHANGED <<now, campaign, text, tallyVars, has_voted, paramVars, wallet, historyVars>>

\* The platform token moves between voters (external).
transfer(from, to) ==
  /\ wallet[from] > 0
  /\ wallet' = [wallet EXCEPT ![from] = @ - 1, ![to] = @ + 1]
  /\ UNCHANGED <<now, paused, campaign, text, tallyVars, has_voted, paramVars, historyVars>>

Tick ==
  /\ now < MaxTime
  /\ now' = now + 1
  /\ UNCHANGED <<paused, campaign, text, tallyVars, has_voted, paramVars, wallet,
                 historyVars>>

Next ==
  \/ \E v \in Voters :
       \/ \E approve \in BOOLEAN : cast_vote(v, approve)
       \/ \E finalize \in BOOLEAN : purge_voting_state(v, finalize)
       \/ \E to \in Voters \ {v} : transfer(v, to)
  \/ admin_verify \/ verify_with_votes
  \/ update_campaign_description \/ cancel_campaign \/ withdraw_funds
  \/ \E q \in Quorums, t \in Thresholds : set_params(q, t)
  \/ \E t \in Thresholds \cup {Unset} : set_category_voting_threshold(t)
  \/ \E m \in MinBalances : set_min_voting_balance(m)
  \/ set_paused
  \/ Tick

Spec == Init /\ [][Next]_vars

-----------------------------------------------------------------------------
(* Properties.                                                             *)

\* Every variable has its type.
TypeOK ==
  /\ now \in Nat /\ paused \in BOOLEAN /\ text \in Nat
  /\ campaign \in [is_active: BOOLEAN, is_verified: BOOLEAN,
                   is_cancelled: BOOLEAN, funds_withdrawn: BOOLEAN]
  /\ approve_votes \in Nat /\ reject_votes \in Nat
  /\ has_voted \subseteq Voters
  /\ min_votes_quorum \in 1..MAX_VOTES_QUORUM
  /\ approval_threshold_bps \in MIN_APPROVAL_THRESHOLD_BPS..BPS_DENOMINATOR
  /\ category_threshold_bps \in
       {Unset} \cup (MIN_APPROVAL_THRESHOLD_BPS..BPS_DENOMINATOR)
  /\ min_voting_balance \in Nat
  /\ wallet \in [Voters -> Nat]
  /\ ballots \subseteq [voter: Voters, approve: BOOLEAN]
  /\ verdict.by \in {None, "admin", "votes"}

\* One address, one vote: however the tokens move, the tally is cleared and
\* voters are swept, the counts are the number of different addresses that
\* voted since the tally was last empty, and every one of them is on record.
OneVotePerAddress ==
  /\ approve_votes + reject_votes = Cardinality(VotersOf(ballots))
  /\ approve_votes = Cardinality(VotersOf({bl \in ballots : bl.approve}))
  /\ campaign.is_active => VotersOf(ballots) \subseteq has_voted

\* Typing and one vote per address together: what each vote, sweep and verdict relies
\* on and leaves to the next.
VotingInv == TypeOK /\ OneVotePerAddress

\* A campaign verified by votes was approved by at least the minimum share of the
\* different addresses that voted, counted one by one and not taken from the
\* stored numbers: no sequence of parameter changes gets below that.
VerdictIsMajority ==
  verdict.by = "votes" =>
    LET all == VotersOf(verdict.ballots)
        yes == VotersOf({bl \in verdict.ballots : bl.approve})
    IN /\ all # {}
       /\ Cardinality(yes) * BPS_DENOMINATOR
            >= MIN_APPROVAL_THRESHOLD_BPS * Cardinality(all)

\* Revoking a verification really takes it away: nobody whose vote was in the tally
\* of a verification that an edit revoked is counted for a later one, so the
\* creator cannot win the badge back on the votes for the old text.
FreshVotersAfterRevocation ==
  verdict.by = "votes" => VotersOf(verdict.ballots) \cap spent = {}
=============================================================================
