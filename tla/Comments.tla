------------------------------ MODULE Comments ------------------------------
(***************************************************************************)
(* The on-chain record of censured comments.  The admin marks a comment    *)
(* hash and may lift the mark; both calls are safe to retry.  The events   *)
(* they publish are the audit trail the mechanism is for.                  *)
(***************************************************************************)
EXTENDS Registry

CONSTANTS
  Hashes,          \* hashes of off-chain comments
  Reasons,         \* reasons of admissible length
  MaxActs          \* bound: events published

ASSUME CommentsAssumption ==
  IsFiniteSet(Hashes) /\ None \notin Reasons /\ MaxActs \in Nat

VARIABLES
  censure,         \* CommentCensured: the reason on record, or None
  censured_count,  \* CampaignCensuredCount
  audit            \* the events, in the order they were published

commentVars == <<censure, censured_count, audit>>

CommentsInit ==
  /\ censure = [c \in CampaignIds |-> [h \in Hashes |-> None]]
  /\ censured_count = [c \in CampaignIds |-> 0]
  /\ audit = <<>>

Event(act, c, h, reason) == [act |-> act, campaign |-> c, hash |-> h, reason |-> reason]

\* Mutant: only a call with the reason on record is recognised as a retry.
AlreadyCensuredSame(c, h, reason) == censure[c][h] = reason

\* A censure that is already on record: the call succeeds and changes nothing.
AlreadyCensured(c, h, reason) == censure[c][h] # None

\* censure_comment, by the admin.  A retry is a step that leaves all unchanged.
censure_comment(c, h, reason) ==
  /\ NotPaused
  /\ Created(c)
  /\ IF AlreadyCensured(c, h, reason)
     THEN UNCHANGED commentVars
     ELSE /\ Len(audit) < MaxActs
          /\ censure' = [censure EXCEPT ![c][h] = reason]
          /\ censured_count' = [censured_count EXCEPT ![c] = @ + 1]
          /\ audit' = Append(audit, Event("censured", c, h, reason))

\* There is nothing to lift.
NotCensured(c, h) == censure[c][h] = None

\* uncensure_comment, by the admin.
uncensure_comment(c, h) ==
  /\ NotPaused
  /\ Created(c)
  /\ IF NotCensured(c, h)
     THEN UNCHANGED commentVars
     ELSE /\ Len(audit) < MaxActs
          /\ censure' = [censure EXCEPT ![c][h] = None]
          /\ censured_count' = [censured_count EXCEPT
                                  ![c] = IF @ > 0 THEN @ - 1 ELSE 0]
          /\ audit' = Append(audit, Event("uncensured", c, h, None))

CommentsNext ==
  \E c \in CampaignIds, h \in Hashes :
    \/ \E reason \in Reasons : censure_comment(c, h, reason)
    \/ uncensure_comment(c, h)

CommentsTypeOK ==
  /\ censure \in [CampaignIds -> [Hashes -> Reasons \cup {None}]]
  /\ censured_count \in [CampaignIds -> Nat]
  /\ Len(audit) <= MaxActs

-----------------------------------------------------------------------------
(* Properties.                                                             *)

\* The counter shown for a campaign is the number of comments under censure,
\* whatever is retried, with the same reason or another one.
CensureCountExact ==
  \A c \in CampaignIds :
    censured_count[c] = Cardinality({h \in Hashes : censure[c][h] # None})

\* The places of the events about one comment.
Trail(c, h) == {i \in DOMAIN audit : audit[i].campaign = c /\ audit[i].hash = h}

\* An observer who has only the events knows the record: about every comment they
\* begin with a censure and alternate with its lifting, no retry adds one ("must not
\* produce a second event"), and the last of them, with its reason, is what is stored.
AuditExact ==
  \A c \in CampaignIds, h \in Hashes :
    LET t == Trail(c, h) IN
    /\ t = {} => censure[c][h] = None
    /\ \A i \in t : (\A n \in t : i <= n) => audit[i].act = "censured"
    /\ \A i, j \in t : i < j /\ (\A n \in t : n <= i \/ j <= n)
                         => audit[i].act # audit[j].act
    /\ \A i \in t : (\A n \in t : n <= i) =>
         /\ censure[c][h] = audit[i].reason
         /\ censure[c][h] # None <=> audit[i].act = "censured"

\* What censure_comment and uncensure_comment leave behind is exact: the counter
\* and the event trail both tell what is stored.
ModerationExact == CensureCountExact /\ AuditExact
=============================================================================
