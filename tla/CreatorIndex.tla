---------------------------- MODULE CreatorIndex ----------------------------
(***************************************************************************)
(* The index of campaigns by creator: lists of ids cut into buckets, a     *)
(* counter per creator that decides in which bucket the next id goes, and  *)
(* a position record per campaign that lets a transfer of ownership take   *)
(* the id out of its bucket without a scan.  Queries page through the      *)
(* buckets with the helper they share with the category and tag indexes,   *)
(* which only ever grow and so have no gaps (Dense).                       *)
(*                                                                         *)
(* An invocation is atomic.  A query is a loop that may not end, so it is  *)
(* taken one iteration at a time, and nothing else happens meanwhile.      *)
(***************************************************************************)
EXTENDS Integers, Sequences, FiniteSets, SequencesExt

CONSTANTS
  Creators,                        \* addresses that own campaigns
  Heirs,                           \* addresses a campaign may be transferred to
  None,
  CREATOR_CAMPAIGNS_BUCKET_SIZE, LIST_MAX_LIMIT,
  Limits,                          \* page sizes callers ask for
  MaxCampaigns                     \* bound: campaigns created

ASSUME IndexAssumption ==
  /\ Heirs \subseteq Creators /\ None \notin Creators
  /\ CREATOR_CAMPAIGNS_BUCKET_SIZE \in Nat \ {0}
  /\ LIST_MAX_LIMIT \in Nat \ {0} /\ Limits \subseteq Nat /\ MaxCampaigns \in Nat

CampaignIds == 1..MaxCampaigns
Size == CREATOR_CAMPAIGNS_BUCKET_SIZE

VARIABLES
  paused,
  campaign_count,
  campaign,        \* creator, pending_creator and is_active of every campaign
  count,           \* CreatorCampaignCount
  bucket,          \* CreatorCampaignBucket, by creator and bucket number
  position,        \* CreatorCampaignPosition: <<bucket number, slot>>, or <<>>
  creator_index,   \* CampaignCreatorIndex: the reverse index, by campaign
  query            \* the query in progress

indexVars == <<count, bucket, position, creator_index>>
vars == <<paused, campaign_count, campaign, indexVars, query>>

NoCampaign == [creator |-> None, pending_creator |-> None, is_active |-> FALSE]
NoQuery == [creator |-> None, start |-> 0, position |-> 0, end |-> 0, page |-> <<>>]

\* Bucket numbers that can occur: counters never exceed MaxCampaigns.
BucketIds == 0..(MaxCampaigns \div Size)

Init ==
  /\ paused = FALSE
  /\ campaign_count = 0
  /\ campaign = [c \in CampaignIds |-> NoCampaign]
  /\ count = [u \in Creators |-> 0]
  /\ bucket = [u \in Creators |-> [i \in BucketIds |-> <<>>]]
  /\ position = [u \in Creators |-> [c \in CampaignIds |-> <<>>]]
  /\ creator_index = [c \in CampaignIds |-> None]
  /\ query = NoQuery

\* No query is running.
Idle == query.creator = None

-----------------------------------------------------------------------------
\* Appending id c to u's last bucket and entering it in the reverse index, as
\* create_campaign and accept_campaign_transfer do.
AppendTo(u, c, buckets, positions) ==
  LET idx == count[u] \div Size IN
  /\ bucket' = [buckets EXCEPT ![u][idx] = Append(@, c)]
  /\ position' = [positions EXCEPT ![u][c] = <<idx, Len(buckets[u][idx])>>]
  /\ creator_index' = [creator_index EXCEPT ![c] = u]

\* The index part of create_campaign.
create_campaign(u) ==
  LET c == campaign_count + 1 IN
  /\ Idle /\ ~paused
  /\ c \in CampaignIds
  /\ campaign_count' = c
  /\ campaign' = [campaign EXCEPT ![c] = [creator |-> u, pending_creator |-> None,
                                          is_active |-> TRUE]]
  /\ count' = [count EXCEPT ![u] = @ + 1]
  /\ AppendTo(u, c, bucket, position)
  /\ UNCHANGED <<paused, query>>

\* initiate_campaign_transfer, by the creator.
initiate_campaign_transfer(c, new_creator) ==
  /\ Idle /\ ~paused
  /\ campaign[c].is_active
  /\ new_creator # campaign[c].creator
  /\ campaign[c].pending_creator = None
  /\ campaign' = [campaign EXCEPT ![c].pending_creator = new_creator]
  /\ UNCHANGED <<paused, campaign_count, indexVars, query>>

\* Mutant: the position of the id that takes the free slot is not updated.
SwapRemovedPositionsStale(u, c, slot, last) == [position EXCEPT ![u][c] = <<>>]

\* The position records after the swap removal.
SwapRemovedPositions(u, c, slot, last) ==
  [position EXCEPT ![u][last] = slot, ![u][c] = <<>>]

\* The counters after a transfer.
CountAfterTransfer(old, new) == [count EXCEPT ![old] = @ - 1, ![new] = @ + 1]

\* accept_campaign_transfer, by the nominated creator: the id leaves its bucket by
\* swap removal and is appended to the new creator's last bucket.  Every campaign
\* has a position record, so the scan for campaigns without one is not reached.
accept_campaign_transfer(c) ==
  LET old  == campaign[c].creator
      new  == campaign[c].pending_creator
      slot == position[old][c]
      from == bucket[old][slot[1]]
      last == from[Len(from)]
      rest == Front([from EXCEPT ![slot[2] + 1] = last])
  IN
  /\ Idle /\ ~paused
  /\ campaign[c].is_active
  /\ new # None /\ new # old
  /\ slot # <<>>
  /\ slot[2] < Len(from) /\ from[slot[2] + 1] = c
  /\ count' = CountAfterTransfer(old, new)
  /\ AppendTo(new, c, [bucket EXCEPT ![old][slot[1]] = rest],
              SwapRemovedPositions(old, c, slot, last))
  /\ campaign' = [campaign EXCEPT ![c].creator = new, ![c].pending_creator = None]
  /\ UNCHANGED <<paused, campaign_count, query>>

\* cancel_campaign_transfer, by the creator, in any state of the campaign.
cancel_campaign_transfer(c) ==
  /\ Idle /\ ~paused
  /\ campaign[c].pending_creator # None
  /\ campaign' = [campaign EXCEPT ![c].pending_creator = None]
  /\ UNCHANGED <<paused, campaign_count, indexVars, query>>

\* The campaign is cancelled or withdrawn: it stays in the index.
close_campaign(c) ==
  /\ Idle /\ ~paused
  /\ campaign[c].is_active
  /\ campaign' = [campaign EXCEPT ![c].is_active = FALSE]
  /\ UNCHANGED <<paused, campaign_count, indexVars, query>>

set_paused ==
  /\ Idle
  /\ paused' = ~paused
  /\ UNCHANGED <<campaign_count, campaign, indexVars, query>>

-----------------------------------------------------------------------------
\* Mutant: the end of the page may lie one past the number of entries.
PageEndOneLate(start, capped_limit, total) ==
  Min({start + capped_limit, total + 1})

PageEnd(start, capped_limit, total) == Min({start + capped_limit, total})

\* get_creator_campaigns, up to its loop: an empty page is answered at once.
get_creator_campaigns(u, start, limit) ==
  LET capped_limit == Min({limit, LIST_MAX_LIMIT}) IN
  /\ Idle
  /\ start < count[u] /\ capped_limit # 0
  /\ query' = [creator |-> u, start |-> start, position |-> start,
               end |-> PageEnd(start, capped_limit, count[u]), page |-> <<>>]
  /\ UNCHANGED <<paused, campaign_count, campaign, indexVars>>

\* Mutant: the next position is always the next bucket boundary.
NextPositionAtBoundary(pos, bucket_start, idx, len) ==
  IF idx >= len THEN bucket_start + Size + 1 ELSE pos

\* Where the loop continues after a bucket.
NextPosition(pos, bucket_start, idx, len) ==
  IF idx < len THEN pos
  ELSE IF len = 0 THEN bucket_start + Size ELSE bucket_start + len

\* One iteration of the loop of get_campaigns_from_buckets, inner loop included.
query_step ==
  LET bucket_idx   == query.position \div Size
      entries      == bucket[query.creator][bucket_idx]
      bucket_start == bucket_idx * Size
      idx          == query.position - bucket_start
      visited      == Max({0, Min({Len(entries) - idx,
                                   query.end - query.position})})
  IN
  /\ ~Idle
  /\ query.position < query.end
  /\ query' = [query EXCEPT
       !.page = @ \o SubSeq(entries, idx + 1, idx + visited),
       !.position = NextPosition(@ + visited, bucket_start, idx + visited,
                                 Len(entries))]
  /\ UNCHANGED <<paused, campaign_count, campaign, indexVars>>

\* The loop ends and the page is returned.
query_return ==
  /\ ~Idle
  /\ query.position >= query.end
  /\ query' = NoQuery
  /\ UNCHANGED <<paused, campaign_count, campaign, indexVars>>

\* The ids get_creator_stats visits.
StatsVisited(u) ==
  LET num_buckets == (count[u] + Size - 1) \div Size
  IN UNION {ToSet(bucket[u][i]) : i \in 0..(num_buckets - 1)}

-----------------------------------------------------------------------------
\* What happens to a campaign once it exists.
OwnershipNext ==
  \E c \in CampaignIds :
    \/ \E u \in Heirs : initiate_campaign_transfer(c, u)
    \/ accept_campaign_transfer(c)
    \/ cancel_campaign_transfer(c)
    \/ close_campaign(c)

QueryNext ==
  \/ \E u \in Creators, start \in 0..(MaxCampaigns - 1), limit \in Limits :
       get_creator_campaigns(u, start, limit)
  \/ query_step
  \/ query_return

Next ==
  \/ \E u \in Creators : create_campaign(u)
  \/ OwnershipNext
  \/ set_paused
  \/ QueryNext

Spec == Init /\ [][Next]_vars

\* A query that has been started runs: the host executes an invocation at once.
FairSpec == Spec /\ WF_vars(query_step \/ query_return)

-----------------------------------------------------------------------------
(* Properties.                                                             *)

\* Every variable has its type.
TypeOK ==
  /\ paused \in BOOLEAN
  /\ campaign_count \in 0..MaxCampaigns
  /\ campaign \in [CampaignIds -> [creator: Creators \cup {None},
                                   pending_creator: Creators \cup {None},
                                   is_active: BOOLEAN]]
  /\ count \in [Creators -> 0..MaxCampaigns]
  /\ bucket \in [Creators -> [BucketIds -> Seq(CampaignIds)]]
  /\ position \in [Creators -> [CampaignIds -> {<<>>} \cup (BucketIds \X Nat)]]
  /\ creator_index \in [CampaignIds -> Creators \cup {None}]

\* After any sequence of creations and transfers, the index of a creator holds the
\* campaigns the creator owns, each exactly once and at the position on record,
\* the counter is their number, and the reverse index (is_campaign_creator) names
\* the same owner: no transfer is ever refused for a position
\* that has become stale.
IndexCoherent ==
  \A u \in Creators :
    LET owned == {c \in CampaignIds : campaign[c].creator = u} IN
    /\ count[u] = Cardinality(owned)
    /\ \A c \in owned :
         LET slot == position[u][c] IN
         slot # <<>> /\ slot[2] < Len(bucket[u][slot[1]])
                     /\ bucket[u][slot[1]][slot[2] + 1] = c
    /\ \A c \in CampaignIds \ owned : position[u][c] = <<>>
    /\ \A i \in BucketIds : \A k \in DOMAIN bucket[u][i] :
         position[u][bucket[u][i][k]] = <<i, k - 1>>
    /\ owned = {c \in CampaignIds : creator_index[c] = u}

\* Typing and coherence of the index together: what each call of create_campaign and
\* accept_ownership relies on and leaves to the next.
IndexInv == TypeOK /\ IndexCoherent

\* No transfer has left a gap: every bucket of u but the last one is full.
Dense(u) ==
  \A i \in BucketIds :
    Len(bucket[u][i]) = Max({0, Min({Size, count[u] - i * Size})})

\* The ids of a creator whose list has no gaps, in the order they are stored.
Stored(u) ==
  [p \in 1..count[u] |-> bucket[u][(p - 1) \div Size][((p - 1) % Size) + 1]]

\* A page of a list without gaps is the slice that was asked for, across bucket
\* boundaries.
PageExact ==
  ~Idle /\ query.position >= query.end /\ Dense(query.creator) =>
    LET ids == Stored(query.creator) IN
    query.page = SubSeq(ids, query.start + 1, Min({query.end, Len(ids)}))

\* get_creator_stats aggregates over every campaign the creator owns, if the
\* creator's list has no gaps.
StatsComplete ==
  \A u \in Creators :
    Dense(u) => StatsVisited(u) = {c \in CampaignIds : campaign[c].creator = u}

\* Creator queries answer exactly, on lists without gaps.
AnswersExact == PageExact /\ StatsComplete

\* A query over a list without gaps ends.
QueryEnds == ~Idle /\ Dense(query.creator) ~> Idle

\* Every query ends (the loop of get_campaigns_from_buckets: "When the bucket is
\* exhausted, advance `position` past the bucket boundary").
QueryAlwaysEnds == ~Idle ~> Idle
=============================================================================
