---------------------------- MODULE VotingProofs ----------------------------
(***************************************************************************)
(* Community verification for any number of voters, any parameters and any *)
(* number of edits: one vote per address, no badge without the minimum     *)
(* approval, and no vote counted for two texts.                            *)
(*                                                                         *)
(* HasVoted is the one record that no edit clears, so the induction is     *)
(* about it (Recorded): while the campaign is active, whoever is in the    *)
(* tally, in the verdict or in a revoked verdict is on record.             *)
(***************************************************************************)
EXTENDS Voting, LifecycleProofs

USE VotingAssumption
USE DEF paramVars, tallyVars, historyVars

Ballots == [voter: Voters, approve: BOOLEAN]

\* The ballots that say yes.
Yes(bs) == {bl \in bs : bl.approve}

\* The verdict is made of ballots, and what was counted once stays on record.
Recorded ==
  /\ verdict \in [by: {None, "admin", "votes"}, ballots: SUBSET Ballots]
  /\ spent \subseteq Voters
  /\ campaign.funds_withdrawn \/ campaign.is_cancelled => ~campaign.is_active
  /\ campaign.is_active =>
       spent \cup VotersOf(ballots) \cup VotersOf(verdict.ballots) \subseteq has_voted
  /\ VotersOf(ballots) \cap spent = {}
  /\ VotersOf(verdict.ballots) \cap spent = {}

VoteInv == VotingInv /\ Recorded /\ VerdictIsMajority

-----------------------------------------------------------------------------
(* Counting voters.                                                        *)

\* One more ballot adds its voter.
LEMMA OneMoreVoter ==
  ASSUME NEW bs, NEW bl
  PROVE  /\ VotersOf(bs \cup {bl}) = VotersOf(bs) \cup {bl.voter}
         /\ Yes(bs \cup {bl}) = IF bl.approve THEN Yes(bs) \cup {bl} ELSE Yes(bs)
BY DEF VotersOf, Yes

\* No ballots, no voters.
LEMMA NoVoters == VotersOf({}) = {} /\ Yes({}) = {}
BY DEF VotersOf, Yes

\* The voters of a set of ballots are finitely many.
LEMMA VotersFinite ==
  ASSUME NEW bs \in SUBSET Ballots
  PROVE  /\ VotersOf(bs) \subseteq Voters /\ IsFiniteSet(VotersOf(bs))
         /\ Cardinality(VotersOf(bs)) \in Nat
         /\ Yes(bs) \in SUBSET Ballots /\ VotersOf(Yes(bs)) \subseteq VotersOf(bs)
<1>1. VotersOf(bs) \subseteq Voters
  BY DEF VotersOf, Ballots
<1>2. IsFiniteSet(VotersOf(bs))
  BY <1>1, FS_Subset
<1>3. Yes(bs) \in SUBSET Ballots /\ VotersOf(Yes(bs)) \subseteq VotersOf(bs)
  BY DEF Yes, VotersOf
<1>4. QED
  BY <1>1, <1>2, <1>3, FS_CardinalityType

\* The rounded-down share that VotesPass compares bounds the share itself.
LEMMA ShareReached ==
  ASSUME NEW a \in Nat, NEW n \in Nat \ {0}, NEW t \in Nat, a \div n >= t
  PROVE  a >= t * n
<1> DEFINE q == a \div n
           r == a % n
<1>1. q \in Int /\ r \in 0..(n - 1) /\ a = n * q + r
  OBVIOUS
<1>2. q >= t
  OBVIOUS
<1> HIDE DEF q, r
<1>3. PICK d \in Nat : q = t + d
  BY <1>1, <1>2
<1>4. n * q = t * n + n * d /\ n * d \in Nat /\ t * n \in Nat
  BY <1>3
<1>5. QED
  BY <1>1, <1>4

-----------------------------------------------------------------------------
(* The steps.                                                              *)

LEMMA VoteInit == ASSUME Init PROVE VoteInv
<1>1. Cardinality({}) = 0
  BY FS_EmptySet
<1>2. TypeOK
  BY DEF Init, TypeOK, NoVerdict
<1>3. OneVotePerAddress
  BY <1>1, NoVoters DEF Init, OneVotePerAddress, Yes
<1>4. Recorded
  BY NoVoters DEF Init, Recorded, NoVerdict
<1>5. VerdictIsMajority
  BY DEF Init, VerdictIsMajority, NoVerdict
<1>6. QED
  BY <1>2, <1>3, <1>4, <1>5 DEF VoteInv, VotingInv

\* A step that leaves the votes, the verdict and the flags alone.
LEMMA VoteQuiet ==
  ASSUME VoteInv, UNCHANGED <<campaign, tallyVars, has_voted, historyVars>>, TypeOK'
  PROVE  VoteInv'
<1>1. OneVotePerAddress' /\ Recorded' /\ VerdictIsMajority'
  BY DEF VoteInv, VotingInv, OneVotePerAddress, Recorded, VerdictIsMajority
<1>2. QED
  BY <1>1 DEF VoteInv, VotingInv

\* cast_vote: an address that is not on record is in no tally.
LEMMA VoteCast ==
  ASSUME VoteInv, NEW v \in Voters, NEW approve \in BOOLEAN, cast_vote(v, approve)
  PROVE  VoteInv'
<1> DEFINE bl == [voter |-> v, approve |-> approve]
<1>1. /\ campaign.is_active /\ v \notin has_voted
      /\ approve_votes' = IF approve THEN approve_votes + 1 ELSE approve_votes
      /\ reject_votes' = IF approve THEN reject_votes ELSE reject_votes + 1
      /\ has_voted' = has_voted \cup {v}
      /\ ballots' = ballots \cup {bl}
      /\ UNCHANGED <<now, paused, campaign, text, paramVars, wallet, historyVars>>
  BY DEF cast_vote, RequireActive
<1>2. TypeOK
  BY DEF VoteInv, VotingInv
<1>3. ballots \in SUBSET Ballots /\ approve_votes \in Nat /\ reject_votes \in Nat
  BY <1>2 DEF TypeOK, Ballots
<1>4. TypeOK'
  BY <1>1, <1>2 DEF TypeOK
<1>5. /\ VotersOf(ballots) \cap spent = {}
      /\ spent \cup VotersOf(ballots) \cup VotersOf(verdict.ballots) \subseteq has_voted
  BY <1>1 DEF VoteInv, Recorded
<1>6. bl.voter = v /\ bl.approve = approve
  OBVIOUS
<1> HIDE DEF bl
<1>7. /\ VotersOf(ballots') = VotersOf(ballots) \cup {v}
      /\ Yes(ballots') = IF approve THEN Yes(ballots) \cup {bl} ELSE Yes(ballots)
      /\ VotersOf(Yes(ballots) \cup {bl}) = VotersOf(Yes(ballots)) \cup {v}
  BY <1>1, <1>6, OneMoreVoter
<1>8. /\ IsFiniteSet(VotersOf(ballots)) /\ IsFiniteSet(VotersOf(Yes(ballots)))
      /\ v \notin VotersOf(ballots) /\ v \notin VotersOf(Yes(ballots))
      /\ Cardinality(VotersOf(ballots)) \in Nat
      /\ Cardinality(VotersOf(Yes(ballots))) \in Nat
  BY <1>1, <1>3, <1>5, VotersFinite
<1>9. /\ Cardinality(VotersOf(ballots')) = Cardinality(VotersOf(ballots)) + 1
      /\ Cardinality(VotersOf(Yes(ballots) \cup {bl})) = Cardinality(VotersOf(Yes(ballots))) + 1
  BY <1>7, <1>8, FS_AddElement
<1>10. /\ approve_votes + reject_votes = Cardinality(VotersOf(ballots))
       /\ approve_votes = Cardinality(VotersOf(Yes(ballots)))
  BY DEF VoteInv, VotingInv, OneVotePerAddress, Yes
<1>11. approve_votes' + reject_votes' = Cardinality(VotersOf(ballots'))
  BY <1>1, <1>3, <1>9, <1>10
<1>12. approve_votes' = Cardinality(VotersOf(Yes(ballots')))
  BY <1>1, <1>7, <1>9, <1>10
<1>13. OneVotePerAddress'
  <2>1. VotersOf(ballots') \subseteq has_voted'
    BY <1>1, <1>5, <1>7
  <2>2. QED
    BY <1>11, <1>12, <2>1 DEF OneVotePerAddress, Yes
<1>14. Recorded'
  <2>1. VotersOf(ballots') \cap spent = {}
    BY <1>1, <1>5, <1>7
  <2>2. spent \cup VotersOf(ballots') \cup VotersOf(verdict.ballots) \subseteq has_voted'
    BY <1>1, <1>5, <1>7
  <2>3. QED
    BY <1>1, <2>1, <2>2 DEF VoteInv, Recorded
<1>15. VerdictIsMajority'
  BY <1>1 DEF VoteInv, VerdictIsMajority
<1>16. QED
  BY <1>4, <1>13, <1>14, <1>15 DEF VoteInv, VotingInv

\* What both verifications write, once the share of yes votes is known.
LEMMA VoteVerify ==
  ASSUME VoteInv, NEW by \in {"admin", "votes"}, Verify(by),
         by = "votes" =>
           /\ VotersOf(ballots) # {}
           /\ Cardinality(VotersOf(Yes(ballots))) * BPS_DENOMINATOR
                >= MIN_APPROVAL_THRESHOLD_BPS * Cardinality(VotersOf(ballots))
  PROVE  VoteInv'
<1>1. /\ campaign' = [campaign EXCEPT !.is_verified = TRUE]
      /\ verdict' = [by |-> by, ballots |-> ballots]
      /\ UNCHANGED <<now, paused, text, tallyVars, has_voted, paramVars, wallet, spent>>
  BY DEF Verify
<1>2. TypeOK
  BY DEF VoteInv, VotingInv
<1>3. ballots \in SUBSET Ballots
  BY <1>2 DEF TypeOK, Ballots
<1>4. TypeOK' /\ campaign'.is_active = campaign.is_active
  BY <1>1, <1>2 DEF TypeOK
<1>5. OneVotePerAddress'
  BY <1>1, <1>4 DEF VoteInv, VotingInv, OneVotePerAddress
<1>6. verdict'.by = by /\ verdict'.ballots = ballots
  BY <1>1
<1>7. Recorded'
  <2>1. verdict' \in [by: {None, "admin", "votes"}, ballots: SUBSET Ballots]
    BY <1>1, <1>3
  <2>2. QED
    BY <1>1, <1>4, <1>6, <2>1 DEF VoteInv, Recorded
<1>8. VerdictIsMajority'
  BY <1>6 DEF VerdictIsMajority, Yes
<1>9. QED
  BY <1>4, <1>5, <1>7, <1>8 DEF VoteInv, VotingInv

\* verify_with_votes: quorum and threshold bound the share from below, whatever
\* the parameters were set to.
LEMMA VotePass ==
  ASSUME VoteInv, VotesPass
  PROVE  /\ VotersOf(ballots) # {}
         /\ Cardinality(VotersOf(Yes(ballots))) * BPS_DENOMINATOR
              >= MIN_APPROVAL_THRESHOLD_BPS * Cardinality(VotersOf(ballots))
<1> DEFINE n == approve_votes + reject_votes
           a == approve_votes * BPS_DENOMINATOR
<1>1. /\ approve_votes \in Nat /\ reject_votes \in Nat
      /\ min_votes_quorum \in 1..MAX_VOTES_QUORUM
      /\ Threshold \in MIN_APPROVAL_THRESHOLD_BPS..BPS_DENOMINATOR
  BY DEF VoteInv, VotingInv, TypeOK, Threshold
<1>2. /\ n = Cardinality(VotersOf(ballots))
      /\ approve_votes = Cardinality(VotersOf(Yes(ballots)))
  BY DEF VoteInv, VotingInv, OneVotePerAddress, Yes
<1>3. n \in Nat \ {0} /\ n >= min_votes_quorum /\ a \div n >= Threshold
  BY <1>1 DEF VotesPass
<1>4. a \in Nat /\ Threshold \in Nat /\ MIN_APPROVAL_THRESHOLD_BPS \in Nat
      /\ Threshold >= MIN_APPROVAL_THRESHOLD_BPS
  BY <1>1, BpsDenominatorNat
<1> HIDE DEF n, a
<1>5. a >= Threshold * n
  BY <1>3, <1>4, ShareReached
<1>6. Threshold * n >= MIN_APPROVAL_THRESHOLD_BPS * n
  BY <1>3, <1>4
<1>7. Threshold * n \in Nat /\ MIN_APPROVAL_THRESHOLD_BPS * n \in Nat
  BY <1>3, <1>4
<1>8. a >= MIN_APPROVAL_THRESHOLD_BPS * n
  BY <1>4, <1>5, <1>6, <1>7
<1>9. VotersOf(ballots) # {}
  BY <1>2, <1>3, FS_EmptySet
<1>10. QED
  BY <1>2, <1>8, <1>9 DEF a

\* update_campaign_description: what the revoked verdict counted is spent, and the
\* new tally is empty.
LEMMA VoteEdit ==
  ASSUME VoteInv, update_campaign_description
  PROVE  VoteInv'
<1>1. TypeOK /\ text' = text + 1
      /\ UNCHANGED <<now, paused, has_voted, paramVars, wallet>>
  BY DEF VoteInv, VotingInv, update_campaign_description
<1>2. CASE campaign.is_verified
  <2>1. /\ campaign' = [campaign EXCEPT !.is_verified = FALSE]
        /\ approve_votes' = 0 /\ reject_votes' = 0 /\ ballots' = {}
        /\ verdict' = NoVerdict /\ spent' = spent \cup VotersOf(verdict.ballots)
        /\ campaign.is_active
    BY <1>2 DEF update_campaign_description, RevokeOnEdit, ClearTally, RequireActive
  <2>2. TypeOK'
    <3>1. /\ campaign' \in [is_active: BOOLEAN, is_verified: BOOLEAN,
                           is_cancelled: BOOLEAN, funds_withdrawn: BOOLEAN]
          /\ campaign'.is_active = campaign.is_active
          /\ campaign'.funds_withdrawn = campaign.funds_withdrawn
          /\ campaign'.is_cancelled = campaign.is_cancelled
      BY <1>1, <2>1 DEF TypeOK
    <3>2. verdict'.by = None
      BY <2>1 DEF NoVerdict
    <3>3. text' \in Nat /\ ballots' \subseteq [voter: Voters, approve: BOOLEAN]
      BY <1>1, <2>1 DEF TypeOK
    <3>4. QED
      BY <1>1, <2>1, <3>1, <3>2, <3>3 DEF TypeOK
  <2>3. OneVotePerAddress'
    BY <2>1, NoVoters, FS_EmptySet DEF OneVotePerAddress, Yes
  <2>4. verdict.ballots \in SUBSET Ballots /\ spent \subseteq Voters
    BY DEF VoteInv, Recorded
  <2>5. spent' \subseteq Voters
    BY <2>1, <2>4, VotersFinite
  <2>6. VotersOf(ballots') = {} /\ VotersOf(verdict'.ballots) = {}
    BY <2>1, NoVoters DEF NoVerdict
  <2>7. spent' \subseteq has_voted'
    BY <1>1, <2>1 DEF VoteInv, Recorded
  <2>8. verdict' \in [by: {None, "admin", "votes"}, ballots: SUBSET Ballots]
    BY <2>1 DEF NoVerdict
  <2>9. Recorded'
    <3>1. campaign'.funds_withdrawn \/ campaign'.is_cancelled => ~campaign'.is_active
      BY <1>1, <2>1 DEF VoteInv, Recorded, TypeOK
    <3>2. QED
      BY <2>5, <2>6, <2>7, <2>8, <3>1 DEF Recorded
  <2>10. VerdictIsMajority'
    BY <2>1 DEF VerdictIsMajority, NoVerdict
  <2>11. QED
    BY <2>2, <2>3, <2>9, <2>10 DEF VoteInv, VotingInv
<1>3. CASE ~campaign.is_verified
  <2>1. UNCHANGED <<campaign, tallyVars, historyVars>>
    BY <1>3 DEF update_campaign_description
  <2>2. TypeOK'
    BY <1>1, <2>1 DEF TypeOK
  <2>3. QED
    BY <1>1, <2>1, <2>2, VoteQuiet
<1>4. QED
  BY <1>2, <1>3

\* Closing a campaign, and sweeping the votes of a closed one.
LEMMA VoteClose ==
  ASSUME VoteInv, TypeOK', UNCHANGED historyVars, ~campaign'.is_active,
         \/ UNCHANGED tallyVars
         \/ ClearTally
  PROVE  VoteInv'
<1>1. OneVotePerAddress'
  <2>1. CASE UNCHANGED tallyVars
    BY <2>1 DEF VoteInv, VotingInv, OneVotePerAddress
  <2>2. CASE ClearTally
    BY <2>2, NoVoters, FS_EmptySet DEF OneVotePerAddress, ClearTally, Yes
  <2>3. QED
    BY <2>1, <2>2
<1>2. VotersOf(ballots') \cap spent = {}
  <2>1. CASE UNCHANGED tallyVars
    BY <2>1 DEF VoteInv, Recorded
  <2>2. CASE ClearTally
    BY <2>2, NoVoters DEF ClearTally
  <2>3. QED
    BY <2>1, <2>2
<1>3. Recorded'
  BY <1>2 DEF VoteInv, Recorded
<1>4. VerdictIsMajority'
  BY DEF VoteInv, VerdictIsMajority
<1>5. QED
  BY <1>1, <1>3, <1>4 DEF VoteInv, VotingInv

\* Every step keeps the invariant.
LEMMA VoteNext ==
  ASSUME VoteInv, [Next]_vars
  PROVE  VoteInv'
<1> USE DEF unchangedButParams
<1>1. TypeOK /\ Recorded
  BY DEF VoteInv, VotingInv
<1>2. ASSUME NEW v \in Voters, NEW approve \in BOOLEAN, cast_vote(v, approve)
      PROVE  VoteInv'
  BY <1>2, VoteCast
<1>3. ASSUME NEW v \in Voters, NEW finalize \in BOOLEAN, purge_voting_state(v, finalize)
      PROVE  VoteInv'
  <2>1. UNCHANGED tallyVars \/ ClearTally
    BY <1>3 DEF purge_voting_state
  <2>2. /\ has_voted' \subseteq has_voted /\ ~campaign'.is_active
        /\ UNCHANGED <<now, paused, campaign, text, paramVars, wallet, historyVars>>
    BY <1>1, <1>3 DEF purge_voting_state, Purgeable, Recorded
  <2>3. /\ approve_votes' \in Nat /\ reject_votes' \in Nat
        /\ ballots' \subseteq [voter: Voters, approve: BOOLEAN]
    BY <1>1, <2>1 DEF TypeOK, ClearTally
  <2>4. TypeOK'
    BY <1>1, <2>2, <2>3 DEF TypeOK
  <2>5. QED
    BY <2>1, <2>2, <2>4, VoteClose
<1>4. ASSUME NEW v \in Voters, NEW to \in Voters \ {v}, transfer(v, to)
      PROVE  VoteInv'
  <2>1. wallet' \in [Voters -> Nat]
    BY <1>1, <1>4 DEF TypeOK, transfer
  <2>2. UNCHANGED <<now, paused, campaign, text, tallyVars, has_voted, paramVars, historyVars>>
    BY <1>4 DEF transfer
  <2>3. TypeOK'
    BY <1>1, <2>1, <2>2 DEF TypeOK
  <2>4. QED
    BY <2>2, <2>3, VoteQuiet
<1>5. CASE admin_verify
  BY <1>5, VoteVerify DEF admin_verify
<1>6. CASE verify_with_votes
  BY <1>6, VoteVerify, VotePass DEF verify_with_votes
<1>7. CASE update_campaign_description
  BY <1>7, VoteEdit
<1>8. CASE cancel_campaign
  <2>1. /\ campaign' = [campaign EXCEPT !.is_cancelled = TRUE, !.is_active = FALSE]
        /\ ClearTally
        /\ UNCHANGED <<now, paused, text, has_voted, paramVars, wallet, historyVars>>
    BY <1>8 DEF cancel_campaign
  <2>2. TypeOK' /\ ~campaign'.is_active
    BY <1>1, <2>1 DEF TypeOK, ClearTally
  <2>3. QED
    BY <2>1, <2>2, VoteClose
<1>9. CASE withdraw_funds
  <2>1. /\ campaign' = [campaign EXCEPT !.funds_withdrawn = TRUE, !.is_active = FALSE]
        /\ UNCHANGED <<now, paused, text, tallyVars, has_voted, paramVars, wallet, historyVars>>
    BY <1>9 DEF withdraw_funds
  <2>2. TypeOK' /\ ~campaign'.is_active
    BY <1>1, <2>1 DEF TypeOK
  <2>3. QED
    BY <2>1, <2>2, VoteClose
<1>10. ASSUME NEW q \in Quorums, NEW t \in Thresholds, set_params(q, t)
       PROVE  VoteInv'
  <2>1. TypeOK'
    BY <1>1, <1>10 DEF TypeOK, set_params
  <2>2. QED
    BY <1>10, <2>1, VoteQuiet DEF set_params
<1>11. ASSUME NEW t \in Thresholds \cup {Unset}, set_category_voting_threshold(t)
       PROVE  VoteInv'
  <2>1. TypeOK'
    BY <1>1, <1>11 DEF TypeOK, set_category_voting_threshold, CategoryThresholds
  <2>2. QED
    BY <1>11, <2>1, VoteQuiet DEF set_category_voting_threshold
<1>12. ASSUME NEW m \in MinBalances, set_min_voting_balance(m)
       PROVE  VoteInv'
  <2>1. TypeOK'
    BY <1>1, <1>12 DEF TypeOK, set_min_voting_balance
  <2>2. QED
    BY <1>12, <2>1, VoteQuiet DEF set_min_voting_balance
<1>13. CASE set_paused
  <2>1. TypeOK'
    BY <1>1, <1>13 DEF TypeOK, set_paused
  <2>2. QED
    BY <1>13, <2>1, VoteQuiet DEF set_paused
<1>14. CASE Tick
  <2>1. TypeOK'
    BY <1>1, <1>14 DEF TypeOK, Tick
  <2>2. QED
    BY <1>14, <2>1, VoteQuiet DEF Tick
<1>15. CASE UNCHANGED vars
  <2>1. TypeOK'
    BY <1>1, <1>15 DEF TypeOK, vars
  <2>2. QED
    BY <1>15, <2>1, VoteQuiet DEF vars
<1>16. QED
  BY <1>2, <1>3, <1>4, <1>5, <1>6, <1>7, <1>8, <1>9, <1>10, <1>11, <1>12, <1>13,
     <1>14, <1>15 DEF Next

\* Votes, tallies and verdicts fit in every reachable state.
LEMMA VoteInvariant == Spec => []VoteInv
<1>1. Init => VoteInv
  BY VoteInit
<1>2. VoteInv /\ [Next]_vars => VoteInv'
  BY VoteNext
<1>3. QED
  BY <1>1, <1>2, PTL DEF Spec

-----------------------------------------------------------------------------
(* The theorems.                                                           *)

\* Whatever the voters, their balances and the parameters: cast_vote, the edits that
\* clear the tally and purge_voting_state keep the counts equal to the number of
\* different addresses that voted since the tally was last empty.
THEOREM VotingHolds == Spec => []VotingInv
<1>1. VoteInv => VotingInv
  BY DEF VoteInv
<1>2. QED
  BY <1>1, VoteInvariant, PTL

\* verify_campaign_with_votes: a campaign verified by votes has at least the minimum
\* share of different approving addresses, however set_voting_params and the category
\* thresholds were changed before and since.
THEOREM Majority == Spec => []VerdictIsMajority
<1>1. VoteInv => VerdictIsMajority
  BY DEF VoteInv
<1>2. QED
  BY <1>1, VoteInvariant, PTL

\* update_campaign_description clears the tally and leaves the HasVoted records: after
\* any number of revocations no address is counted for a second verification.
THEOREM FreshVoters == Spec => []FreshVotersAfterRevocation
<1>1. VoteInv => FreshVotersAfterRevocation
  BY DEF VoteInv, Recorded, FreshVotersAfterRevocation
<1>2. QED
  BY <1>1, VoteInvariant, PTL
=============================================================================
