----------------------------- MODULE Bookmarks -----------------------------
(***************************************************************************)
(* The list of saved campaigns of each wallet.  Only the wallet edits its  *)
(* list, one id or a batch at a time, also while the contract is paused;   *)
(* cancellations never touch the list (get_saved filters it when it reads).*)
(***************************************************************************)
EXTENDS Registry

CONSTANTS
  Wallets,
  MAX_BOOKMARKS_PER_WALLET,
  MaxBatch         \* bound: length of a batch

ASSUME BookmarksAssumption == MAX_BOOKMARKS_PER_WALLET \in Nat /\ MaxBatch \in Nat

VARIABLES
  saved,           \* SavedCampaigns: the ids a wallet saved, in order
  batched          \* history: the wallets that ever saved a batch

bookmarkVars == <<saved, batched>>

\* The lists of ids a caller may pass, repeated and unknown ids included.
Batches == UNION {[1..n -> CampaignIds] : n \in 0..MaxBatch}

BookmarksInit ==
  /\ saved = [w \in Wallets |-> <<>>]
  /\ batched = {}

\* save_campaign's limit.
RoomLeft(w) == Len(saved[w]) < MAX_BOOKMARKS_PER_WALLET

save_campaign(w, c) ==
  /\ Created(c)
  /\ c \notin ToSet(saved[w])
  /\ RoomLeft(w)
  /\ saved' = [saved EXCEPT ![w] = Append(@, c)]
  /\ UNCHANGED batched

remove_saved_campaign(w, c) ==
  /\ c \in ToSet(saved[w])
  /\ saved' = [saved EXCEPT ![w] = RemoveFirst(@, c)]
  /\ UNCHANGED batched

\* Mutant: ids are only compared with the stored list, not with the batch.
SavableStored(w, ids) ==
  \A i \in DOMAIN ids : Created(ids[i]) /\ ids[i] \notin ToSet(saved[w])

\* Every id of the batch exists and is neither in the stored list nor earlier in
\* the batch: the check runs on the list as it grows.
Savable(w, ids) ==
  \A i \in DOMAIN ids :
    /\ Created(ids[i])
    /\ ids[i] \notin ToSet(saved[w] \o SubSeq(ids, 1, i - 1))

\* batch_save_campaigns: all or nothing, without a look at the limit.
batch_save_campaigns(w, ids) ==
  /\ Savable(w, ids)
  /\ saved' = [saved EXCEPT ![w] = @ \o ids]
  /\ batched' = batched \cup {w}

clear_saved_campaigns(w) ==
  /\ saved' = [saved EXCEPT ![w] = <<>>]
  /\ UNCHANGED batched

BookmarksNext ==
  \E w \in Wallets :
    \/ \E c \in CampaignIds : save_campaign(w, c) \/ remove_saved_campaign(w, c)
    \/ \E ids \in Batches : batch_save_campaigns(w, ids)
    \/ clear_saved_campaigns(w)

BookmarksTypeOK ==
  /\ saved \in [Wallets -> Seq(CampaignIds)]
  /\ batched \subseteq Wallets

-----------------------------------------------------------------------------
(* Properties.                                                             *)

\* A wallet's list names campaigns that exist, each at most once, however single
\* saves, removals and batches (which may repeat an id) are mixed: so removing an
\* id removes it, and get_saved_count counts campaigns.
BookmarksDistinct ==
  \A w \in Wallets :
    /\ IsInjective(saved[w])
    /\ \A i \in DOMAIN saved[w] : Created(saved[w][i])

\* The limit that bounds the storage entry ("Bounds a single persistent storage
\* entry") holds for every wallet that has never used batch_save_campaigns.
BookmarkLimit ==
  \A w \in Wallets \ batched : Len(saved[w]) <= MAX_BOOKMARKS_PER_WALLET

\* The bookmark lists are sound: without repetitions, and within the limit as far
\* as save_campaign alone filled them.
BookmarksSound == BookmarksDistinct /\ BookmarkLimit
=============================================================================
