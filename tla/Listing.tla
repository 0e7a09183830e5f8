------------------------------ MODULE Listing ------------------------------
(***************************************************************************)
(* Clients that walk through all campaigns, page by page, while creators   *)
(* go on opening, transferring and closing them.  Each page is one         *)
(* invocation; between two pages anything may happen.                      *)
(*                                                                         *)
(* list_campaigns is followed as its comment tells clients to: continue    *)
(* after the last id received, stop at a page shorter than the limit.      *)
(* list_active_campaigns returns the cursor to continue with, 0 at the end.*)
(*                                                                         *)
(* A walk depends on the ids in use and the is_active flags only: creations*)
(* and closings are interleaved with it; transfers, pauses and creator     *)
(* queries, which change neither, are left to the time between two walks.  *)
(***************************************************************************)
EXTENDS CreatorIndex

CONSTANTS MAX_SCAN_WINDOW

ASSUME ListingAssumption == MAX_SCAN_WINDOW \in Nat \ {0}

VARIABLE walk    \* the client: which list, its page limit, the cursor of its next
                 \* page, how many campaigns there were when it started, the ids it
                 \* has received and the cursors it has been given

NoWalk == [list |-> "none", limit |-> 0, start |-> 0, known |-> 0,
           seen |-> <<>>, cursors |-> {}]

listVars == <<vars, walk>>

ListInit == Init /\ walk = NoWalk

\* A client starts at the beginning.
start_walk(list, limit) ==
  /\ Idle
  /\ walk.list = "none"
  /\ walk' = [NoWalk EXCEPT !.list = list, !.limit = limit, !.known = campaign_count]
  /\ UNCHANGED vars

Capped(limit) == Min({limit, LIST_MAX_LIMIT})

-----------------------------------------------------------------------------
\* Mutant: the cursor is inclusive.
PageOfInclusive(start, limit) ==
  [i \in 1..Max({0, Min({start + Capped(limit), campaign_count}) - start}) |->
     Max({1, start + i - 1})]

\* list_campaigns: the ids after start, at most a page of them.
PageOf(start, limit) ==
  [i \in 1..Max({0, Min({start + Capped(limit), campaign_count}) - start}) |-> start + i]

\* The next page of all campaigns.
list_campaigns ==
  LET page == PageOf(walk.start, walk.limit) IN
  /\ walk.list = "all"
  /\ walk' = [walk EXCEPT
       !.seen  = @ \o page,
       !.start = IF page = <<>> THEN @ ELSE Last(page),
       !.list  = IF page = <<>> \/ Len(page) < walk.limit THEN "all done" ELSE @]
  /\ UNCHANGED vars

Ascending(s) == \A i, j \in DOMAIN s : i < j => s[i] < s[j]

\* A set of ids in the order a scan meets them.
InOrder(A) == CHOOSE s \in [1..Cardinality(A) -> A] : ToSet(s) = A /\ Ascending(s)

\* The active ids list_active_campaigns can reach from start.
ActiveFrom(start) ==
  InOrder({c \in (start + 1)..Min({start + MAX_SCAN_WINDOW, campaign_count}) :
             campaign[c].is_active})

\* The cursor list_active_campaigns returns: one past the last id of a full page,
\* the first id it did not look at when the scan window is exhausted, or 0.
NextCursor(start, page, limit) ==
  IF Len(page) = Capped(limit) THEN Last(page) + 1
  ELSE IF start + MAX_SCAN_WINDOW < campaign_count THEN start + MAX_SCAN_WINDOW + 1
  ELSE 0

\* The next page of active campaigns: it starts after the cursor.
list_active_campaigns ==
  LET start  == walk.start
      empty  == start >= campaign_count \/ walk.limit = 0
      active == IF empty THEN <<>> ELSE ActiveFrom(start)
      page   == SubSeq(active, 1, Min({Len(active), Capped(walk.limit)}))
      next   == IF empty THEN 0 ELSE NextCursor(start, page, walk.limit)
  IN
  /\ walk.list = "active"
  /\ walk' = [walk EXCEPT
       !.seen    = @ \o page,
       !.start   = next,
       !.cursors = @ \cup {next},
       !.list    = IF next = 0 THEN "active done" ELSE @]
  /\ UNCHANGED vars

\* The client is done with what it received.
end_walk ==
  /\ walk.list \in {"all done", "active done"}
  /\ walk' = NoWalk
  /\ UNCHANGED vars

ListNext ==
  \/ \E u \in Creators : create_campaign(u) /\ UNCHANGED walk
  \/ \E c \in CampaignIds : close_campaign(c) /\ UNCHANGED walk
  \/ walk = NoWalk /\ (OwnershipNext \/ set_paused \/ QueryNext) /\ UNCHANGED walk
  \/ \E limit \in Limits, list \in {"all", "active"} : start_walk(list, limit)
  \/ list_campaigns
  \/ list_active_campaigns
  \/ end_walk

\* A query that has been started runs (as in CreatorIndex).
ListSpec ==
  /\ ListInit /\ [][ListNext]_listVars
  /\ WF_listVars((query_step \/ query_return) /\ UNCHANGED walk)

-----------------------------------------------------------------------------
(* Properties.                                                             *)

\* No walk, over all or over active campaigns, receives a campaign twice or out of
\* order, and a walk over all with a limit the contract grants receives every
\* campaign there was when it started, whatever was created and closed on the way.
\* (With a limit above LIST_MAX_LIMIT the documented stop rule ends it after the
\* first page; with limit 0 every page is empty.)
ListComplete ==
  /\ Ascending(walk.seen)
  /\ walk.list = "all done" /\ walk.limit \in 1..LIST_MAX_LIMIT =>
       1..walk.known \subseteq ToSet(walk.seen)

\* A client of list_active_campaigns that asks again with each cursor it is handed
\* ("re-query with the returned cursor rather than assuming pagination is
\* complete") has received, when the cursor is 0, every campaign that was there
\* when it started and is still active.  (A limit of 0 asks for nothing.)
ActiveComplete ==
  walk.list = "active done" /\ walk.limit # 0 =>
    \A c \in 1..walk.known : campaign[c].is_active => c \in ToSet(walk.seen)

\* What such a client may miss: ids it was handed as cursors and nothing else.  The
\* scan starts after the cursor, and the cursor is an id that was not looked at.
ActiveMissesOnlyCursors ==
  walk.list = "active done" /\ walk.limit # 0 =>
    \A c \in 1..walk.known :
      campaign[c].is_active => c \in ToSet(walk.seen) \cup walk.cursors
=============================================================================
