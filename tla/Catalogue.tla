----------------------------- MODULE Catalogue -----------------------------
(***************************************************************************)
(* How campaigns enter the catalogue and are found in it: the titles a     *)
(* creator has taken, the category index and the tags with their inverted  *)
(* index, composed with the ownership transfers of CreatorIndex.  The      *)
(* category and tag indexes only grow; the title index is written at       *)
(* creation and by nothing else.  A pause and the creation switch only     *)
(* disable actions and are left out.                                       *)
(***************************************************************************)
EXTENDS CreatorIndex

CONSTANTS
  Titles, Categories, Tags,
  CATEGORY_CAMPAIGNS_BUCKET_SIZE, TAG_CAMPAIGNS_BUCKET_SIZE,
  MAX_TAGS_PER_CAMPAIGN

ASSUME CatalogueAssumption ==
  /\ None \notin Titles \cup Categories
  /\ CATEGORY_CAMPAIGNS_BUCKET_SIZE \in Nat \ {0}
  /\ TAG_CAMPAIGNS_BUCKET_SIZE \in Nat \ {0}
  /\ MAX_TAGS_PER_CAMPAIGN \in Nat

VARIABLES
  entry,             \* title, first_creator, category and tags of every campaign
  title_index,       \* CreatorCampaignTitleIndex: the titles a creator has taken
  category_index,    \* CategoryCampaignCount and CategoryCampaignsBucket
  tag_index,         \* TagCampaignCount and TagCampaignsBucket
  edited             \* history: campaigns whose title was edited

catalogueVars == <<entry, title_index, category_index, tag_index, edited>>
catVars == <<vars, catalogueVars>>

NoEntry == [title |-> None, first_creator |-> None, category |-> None, tags |-> <<>>]
EmptyIndex(size) ==
  [count |-> 0, bucket |-> [i \in 0..(MaxCampaigns \div size) |-> <<>>]]

CatInit ==
  /\ Init
  /\ entry = [c \in CampaignIds |-> NoEntry]
  /\ title_index = [u \in Creators |-> {}]
  /\ category_index = [x \in Categories |-> EmptyIndex(CATEGORY_CAMPAIGNS_BUCKET_SIZE)]
  /\ tag_index = [x \in Tags |-> EmptyIndex(TAG_CAMPAIGNS_BUCKET_SIZE)]
  /\ edited = {}

\* Mutant: the bucket is chosen with the number of entries after the append.
AppendedLate(index, c, size) ==
  [count  |-> index.count + 1,
   bucket |-> [index.bucket EXCEPT ![(index.count + 1) \div size] = Append(@, c)]]

\* append_campaign_to_tag, and the same lines of create_campaign for the category.
Appended(index, c, size) ==
  [count  |-> index.count + 1,
   bucket |-> [index.bucket EXCEPT ![index.count \div size] = Append(@, c)]]

\* creator_has_title.
HasTitle(u, t) == t \in title_index[u]

\* create_campaign: the campaign with its place in every index.  Goal, duration,
\* text lengths, token and the creation switch are checked too; they only narrow
\* when it succeeds.
create(u, t, x) ==
  LET c == campaign_count + 1 IN
  /\ create_campaign(u)
  /\ ~HasTitle(u, t)
  /\ entry' = [entry EXCEPT ![c] = [title |-> t, first_creator |-> u, category |-> x,
                                    tags |-> <<>>]]
  /\ category_index' = [category_index EXCEPT
       ![x] = Appended(@, c, CATEGORY_CAMPAIGNS_BUCKET_SIZE)]
  /\ title_index' = [title_index EXCEPT ![u] = @ \cup {t}]
  /\ UNCHANGED <<tag_index, edited>>

\* update_campaign, by the creator: the title index is neither consulted nor
\* written.  It needs a campaign that is not verified and has raised nothing, which
\* an active campaign may be at any time before its first contribution.
update_campaign(c, t) ==
  /\ ~paused
  /\ campaign[c].is_active
  /\ entry' = [entry EXCEPT ![c].title = t]
  /\ edited' = edited \cup {c}
  /\ UNCHANGED <<vars, title_index, category_index, tag_index>>

\* add_campaign_tag refuses a tag the campaign has.
TagNew(c, x) == x \notin ToSet(entry[c].tags)

\* add_campaign_tag, by the creator.
add_campaign_tag(c, x) ==
  /\ ~paused
  /\ campaign[c].is_active
  /\ Len(entry[c].tags) < MAX_TAGS_PER_CAMPAIGN
  /\ TagNew(c, x)
  /\ tag_index' = [tag_index EXCEPT ![x] = Appended(@, c, TAG_CAMPAIGNS_BUCKET_SIZE)]
  /\ entry' = [entry EXCEPT ![c].tags = Append(@, x)]
  /\ UNCHANGED <<vars, title_index, category_index, edited>>

CatNext ==
  \/ \E u \in Creators, t \in Titles, x \in Categories : create(u, t, x)
  \/ \E c \in CampaignIds :
       \/ \E t \in Titles : update_campaign(c, t)
       \/ \E x \in Tags : add_campaign_tag(c, x)
  \/ OwnershipNext /\ UNCHANGED catalogueVars

CatSpec == CatInit /\ [][CatNext]_catVars

-----------------------------------------------------------------------------
(* Properties.                                                             *)

\* No gaps, so that get_campaigns_from_buckets may jump to a bucket by division.
NoGaps(index, size) ==
  \A i \in DOMAIN index.bucket :
    Len(index.bucket[i]) = Max({0, Min({size, index.count - i * size})})

\* The ids of an index without gaps, in the order a page query meets them.
Ids(index, size) ==
  [p \in 1..index.count |-> index.bucket[(p - 1) \div size][((p - 1) % size) + 1]]

\* The category index lists the campaigns of a category, each once, in the order of
\* their ids and without gaps, whatever is edited, closed or transferred.
CategoryIndexExact ==
  \A x \in Categories :
    LET ids == Ids(category_index[x], CATEGORY_CAMPAIGNS_BUCKET_SIZE) IN
    /\ NoGaps(category_index[x], CATEGORY_CAMPAIGNS_BUCKET_SIZE)
    /\ ToSet(ids) = {c \in CampaignIds : entry[c].category = x}
    /\ \A i, j \in DOMAIN ids : i < j => ids[i] < ids[j]

\* The inverted index agrees with the tags of the campaigns: a campaign is under a tag
\* exactly once if it carries the tag, and not otherwise ("would push the campaign id
\* into the tag's index bucket twice").
TagIndexExact ==
  \A x \in Tags :
    LET ids == Ids(tag_index[x], TAG_CAMPAIGNS_BUCKET_SIZE) IN
    /\ NoGaps(tag_index[x], TAG_CAMPAIGNS_BUCKET_SIZE)
    /\ IsInjective(ids)
    /\ ToSet(ids) = {c \in CampaignIds : x \in ToSet(entry[c].tags)}

\* Both indexes that create_campaign and add_campaign_tag append to are exact.
IndexesExact == CategoryIndexExact /\ TagIndexExact

\* Two campaigns opened by the same creator have different titles as long as neither
\* title has been edited, whatever was closed or transferred in between.  (Edits are
\* not checked against the index, and the title a creator edits away stays taken.)
TitlesDistinct ==
  \A c, d \in (1..campaign_count) \ edited :
    c # d /\ entry[c].first_creator = entry[d].first_creator
      => entry[c].title # entry[d].title
=============================================================================
