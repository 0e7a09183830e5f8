--------------------------- MODULE CommunityProofs ---------------------------
(***************************************************************************)
(* Bookmarks, comment moderation and pausing for every number of           *)
(* campaigns, wallets, comments and signers, any limits and any lengths of *)
(* batches and ledgers.                                                    *)
(*                                                                         *)
(* The three features share only the registry, so each has an invariant of *)
(* its own (ListsInv, CensureInv, PauseInv); PauseInv says what an         *)
(* invocation that has run and is not yet committed may write (InFlight).  *)
(***************************************************************************)
EXTENDS Community, FiniteSetTheorems, WellFoundedInduction, TLAPS

USE RegistryAssumption, BookmarksAssumption, CommentsAssumption, PausingAssumption
USE DEF registryVars, bookmarkVars, commentVars, pausingVars

-----------------------------------------------------------------------------
(* Lists without repetitions.                                              *)

\* A non-empty set of positions has a smallest one.
LEMMA SmallestPosition ==
  ASSUME NEW I, I \subseteq Nat, I # {}
  PROVE  Min(I) \in I
<1> DEFINE T == {0..x : x \in I}
<1>1. \A x \in I : 0..x \in FiniteSubsetsOf(Nat)
  BY FS_Interval DEF FiniteSubsetsOf
<1>2. IsWellFoundedOn(StrictSubsetOrdering(Nat), FiniteSubsetsOf(Nat))
  BY FS_StrictSubsetOrderingWellFounded
<1>3. T \subseteq FiniteSubsetsOf(Nat) /\ T # {}
  BY <1>1
<1>4. PICK A \in T : \A B \in T : ~(<<B, A>> \in StrictSubsetOrdering(Nat))
  <2> HIDE DEF T
  <2>1. QED
    BY <1>2, <1>3, WFMin
<1>5. PICK x \in I : A = 0..x
  OBVIOUS
<1>6. ASSUME NEW y \in I PROVE x <= y
  <2>1. x \in Nat /\ y \in Nat
    OBVIOUS
  <2>2. SUFFICES ASSUME y < x PROVE FALSE
    BY <2>1
  <2>3. 0..y \subseteq 0..x /\ 0..y # 0..x /\ 0..y \subseteq Nat /\ 0..x \subseteq Nat
    <3>1. x \in 0..x /\ x \notin 0..y
      BY <2>1, <2>2
    <3>2. QED
      BY <2>1, <2>2, <3>1
  <2>4. <<0..y, 0..x>> \in StrictSubsetOrdering(Nat)
    BY <2>3 DEF StrictSubsetOrdering
  <2>5. QED
    BY <1>4, <1>5, <2>4
<1>7. QED
  BY <1>6 DEF Min

\* RemoveFirst takes out one position.
LEMMA RemoveFirstPosition ==
  ASSUME NEW S, NEW s \in Seq(S), NEW e, e \in ToSet(s)
  PROVE  \E k \in 1..Len(s) : RemoveFirst(s, e) = RemoveAt(s, k)
<1> DEFINE I == {i \in 1..Len(s) : s[i] = e}
<1>1. \E i \in 1..Len(s) : s[i] = e
  BY DEF ToSet
<1>2. I \subseteq Nat /\ I # {}
  BY <1>1
<1>3. Min(I) \in 1..Len(s)
  BY <1>2, SmallestPosition
<1>4. SelectInSeq(s, LAMBDA v : v = e) = Min(I)
  BY <1>2 DEF SelectInSeq
<1>5. QED
  BY <1>1, <1>3, <1>4 DEF RemoveFirst

\* What is left when one position is taken out.
LEMMA RemoveAtList ==
  ASSUME NEW S, NEW s \in Seq(S), IsInjective(s), NEW k \in 1..Len(s)
  PROVE  /\ RemoveAt(s, k) \in Seq(S) /\ IsInjective(RemoveAt(s, k))
         /\ Len(RemoveAt(s, k)) <= Len(s)
         /\ ToSet(RemoveAt(s, k)) \subseteq ToSet(s)
<1> DEFINE r == RemoveAt(s, k)
           n == Len(s)
<1>1. n \in Nat /\ DOMAIN s = 1..n
  OBVIOUS
<1>2. r = SubSeq(s, 1, k - 1) \o SubSeq(s, k + 1, n)
  BY DEF RemoveAt
<1>3. /\ SubSeq(s, 1, k - 1) \in Seq(S) /\ Len(SubSeq(s, 1, k - 1)) = k - 1
      /\ SubSeq(s, k + 1, n) \in Seq(S) /\ Len(SubSeq(s, k + 1, n)) = n - k
      /\ \A i \in 1..(k - 1) : SubSeq(s, 1, k - 1)[i] = s[i]
      /\ \A i \in 1..(n - k) : SubSeq(s, k + 1, n)[i] = s[k + i]
  OBVIOUS
<1> DEFINE a == SubSeq(s, 1, k - 1)
           b == SubSeq(s, k + 1, n)
<1> HIDE DEF a, b, r, n
<1>4. /\ r \in Seq(S) /\ Len(r) = n - 1
      /\ \A i \in 1..(n - 1) : r[i] = IF i < k THEN s[i] ELSE s[i + 1]
  <2>1. /\ a \in Seq(S) /\ b \in Seq(S) /\ r = a \o b /\ k \in 1..n
        /\ Len(a) = k - 1 /\ Len(b) = n - k
        /\ \A i \in 1..(k - 1) : a[i] = s[i]
        /\ \A i \in 1..(n - k) : b[i] = s[k + i]
    BY <1>2, <1>3 DEF a, b, n
  <2>2. r \in Seq(S) /\ Len(r) = n - 1
    <3>1. a \in Seq(S) /\ b \in Seq(S)
      BY <2>1
    <3>2. a \o b \in Seq(S) /\ Len(a \o b) = Len(a) + Len(b)
      BY <3>1
    <3>3. QED
      BY <1>1, <2>1, <3>2
  <2>3. ASSUME NEW i \in 1..(n - 1), i < k PROVE r[i] = s[i]
    BY <1>1, <2>1, <2>3
  <2>4. ASSUME NEW i \in 1..(n - 1), ~(i < k) PROVE r[i] = s[i + 1]
    <3>1. i - (k - 1) \in 1..(n - k) /\ k + (i - (k - 1)) = i + 1
      BY <1>1, <2>1, <2>4
    <3>2. r[i] = b[i - (k - 1)]
      BY <1>1, <2>1, <2>4
    <3>3. QED
      BY <2>1, <3>1, <3>2
  <2>5. QED
    BY <2>2, <2>3, <2>4
<1>5. IsInjective(r)
  <2> SUFFICES ASSUME NEW x \in 1..(n - 1), NEW y \in 1..(n - 1), x < y PROVE r[x] # r[y]
    BY <1>1, <1>4 DEF IsInjective
  <2>1. PICK u \in 1..n, v \in 1..n : u # v /\ r[x] = s[u] /\ r[y] = s[v]
    BY <1>1, <1>4
  <2>2. QED
    BY <1>1, <2>1 DEF IsInjective
<1>6. ToSet(r) \subseteq ToSet(s)
  BY <1>1, <1>4 DEF ToSet
<1>7. QED
  BY <1>1, <1>4, <1>5, <1>6 DEF r, n

\* One more element that is not in the list.
LEMMA AppendList ==
  ASSUME NEW S, NEW s \in Seq(S), IsInjective(s), NEW e \in S, e \notin ToSet(s)
  PROVE  /\ Append(s, e) \in Seq(S) /\ IsInjective(Append(s, e))
         /\ Len(Append(s, e)) = Len(s) + 1
         /\ ToSet(Append(s, e)) = ToSet(s) \cup {e}
<1> DEFINE r == Append(s, e)
           n == Len(s)
<1>1. /\ n \in Nat /\ DOMAIN s = 1..n /\ r \in Seq(S) /\ Len(r) = n + 1
      /\ DOMAIN r = 1..(n + 1)
      /\ \A i \in 1..n : r[i] = s[i]
      /\ r[n + 1] = e
  OBVIOUS
<1> HIDE DEF r
<1>2. \A i \in 1..n : s[i] # e
  BY <1>1 DEF ToSet
<1>3. IsInjective(r)
  BY <1>1, <1>2 DEF IsInjective
<1>4. ToSet(r) = ToSet(s) \cup {e}
  BY <1>1 DEF ToSet
<1>5. QED
  BY <1>1, <1>3, <1>4 DEF r

\* A batch none of whose elements is in the list as it grows.
LEMMA BatchList ==
  ASSUME NEW S, NEW s \in Seq(S), IsInjective(s), NEW ids \in Seq(S),
         \A i \in DOMAIN ids : ids[i] \notin ToSet(s \o SubSeq(ids, 1, i - 1))
  PROVE  /\ s \o ids \in Seq(S) /\ IsInjective(s \o ids)
         /\ ToSet(s \o ids) = ToSet(s) \cup ToSet(ids)
<1> DEFINE r == s \o ids
           n == Len(s)
           m == Len(ids)
<1>1. /\ n \in Nat /\ m \in Nat /\ DOMAIN s = 1..n /\ DOMAIN ids = 1..m
      /\ r \in Seq(S) /\ Len(r) = n + m /\ DOMAIN r = 1..(n + m)
      /\ \A i \in 1..n : r[i] = s[i]
      /\ \A i \in 1..m : r[n + i] = ids[i]
  OBVIOUS
<1>2. \A i \in 1..m : ids[i] \notin ToSet(s \o SubSeq(ids, 1, i - 1))
  BY <1>1
<1> HIDE DEF r, n, m
<1>3. ASSUME NEW i \in 1..m
      PROVE  /\ \A a \in 1..n : s[a] # ids[i]
             /\ \A b \in 1..(i - 1) : ids[b] # ids[i]
  <2> DEFINE p == SubSeq(ids, 1, i - 1)
             q == s \o p
  <2>1. p \in Seq(S) /\ Len(p) = i - 1 /\ \A b \in 1..(i - 1) : p[b] = ids[b]
    BY <1>1 DEF m
  <2> HIDE DEF p
  <2>2. /\ DOMAIN q = 1..(n + i - 1)
        /\ \A a \in 1..n : q[a] = s[a]
        /\ \A b \in 1..(i - 1) : q[n + b] = ids[b]
    <3>1. /\ Len(q) = n + (i - 1) /\ DOMAIN q = 1..Len(q)
          /\ \A a \in 1..n : q[a] = s[a]
          /\ \A b \in 1..(i - 1) : q[n + b] = p[b]
      <4>1. p \in Seq(S) /\ s \in Seq(S) /\ Len(p) = i - 1
        BY <2>1
      <4>2. /\ Len(q) = Len(s) + Len(p) /\ DOMAIN q = 1..(Len(s) + Len(p))
            /\ \A a \in 1..Len(s) : q[a] = s[a]
            /\ \A b \in 1..Len(p) : q[Len(s) + b] = p[b]
        BY <4>1
      <4>3. QED
        BY <4>1, <4>2 DEF n
    <3>2. QED
      BY <1>1, <2>1, <3>1
  <2>3. ids[i] \notin ToSet(q)
    BY <1>2 DEF p
  <2> HIDE DEF q
  <2>4. \A a \in 1..(n + i - 1) : q[a] # ids[i]
    BY <2>2, <2>3 DEF ToSet
  <2>5. /\ \A a \in 1..n : a \in 1..(n + i - 1)
        /\ \A b \in 1..(i - 1) : n + b \in 1..(n + i - 1)
    BY <1>1
  <2>6. QED
    BY <2>2, <2>4, <2>5
<1>4. IsInjective(r)
  <2> SUFFICES ASSUME NEW a \in 1..(n + m), NEW b \in 1..(n + m), a < b PROVE r[a] # r[b]
    BY <1>1 DEF IsInjective
  <2>1. CASE b <= n
    <3>1. a \in 1..n /\ b \in 1..n /\ a # b
      BY <1>1, <2>1
    <3>2. QED
      BY <1>1, <3>1 DEF IsInjective
  <2>2. CASE b > n
    <3>1. PICK j \in 1..m : b = n + j
      <4>1. b - n \in 1..m /\ b = n + (b - n)
        BY <1>1, <2>2
      <4>2. QED
        BY <4>1
    <3>2. r[b] = ids[j]
      BY <1>1, <3>1
    <3>3. CASE a <= n
      BY <1>1, <1>3, <3>2, <3>3
    <3>4. CASE a > n
      <4>1. PICK i \in 1..(j - 1) : a = n + i
        <5>1. a - n \in 1..(j - 1) /\ a = n + (a - n)
          BY <1>1, <3>1, <3>4
        <5>2. QED
          BY <5>1
      <4>2. i \in 1..m /\ r[a] = ids[i]
        BY <1>1, <4>1
      <4>3. QED
        BY <1>3, <3>2, <4>2
    <3>5. QED
      BY <1>1, <3>3, <3>4
  <2>3. QED
    BY <1>1, <2>1, <2>2
<1>5. ToSet(r) = ToSet(s) \cup ToSet(ids)
  <2>1. \A a \in 1..(n + m) : a \in 1..n \/ \E i \in 1..m : a = n + i
    <3> SUFFICES ASSUME NEW a \in 1..(n + m), a \notin 1..n PROVE \E i \in 1..m : a = n + i
      OBVIOUS
    <3>1. a - n \in 1..m /\ a = n + (a - n)
      BY <1>1
    <3>2. QED
      BY <3>1
  <2>2. \A i \in 1..m : n + i \in 1..(n + m)
    BY <1>1
  <2>3. \A i \in 1..n : i \in 1..(n + m)
    BY <1>1
  <2>4. ASSUME NEW x \in ToSet(r) PROVE x \in ToSet(s) \cup ToSet(ids)
    <3>1. PICK a \in 1..(n + m) : x = r[a]
      BY <1>1 DEF ToSet
    <3>2. CASE a \in 1..n
      BY <1>1, <3>1, <3>2 DEF ToSet
    <3>3. CASE \E i \in 1..m : a = n + i
      BY <1>1, <3>1, <3>3 DEF ToSet
    <3>4. QED
      BY <2>1, <3>2, <3>3
  <2>5. ToSet(s) \subseteq ToSet(r)
    BY <1>1, <2>3 DEF ToSet
  <2>6. ToSet(ids) \subseteq ToSet(r)
    BY <1>1, <2>2 DEF ToSet
  <2>7. QED
    BY <2>4, <2>5, <2>6
<1>6. QED
  BY <1>1, <1>4, <1>5 DEF r
-----------------------------------------------------------------------------
(* Pausing.                                                                *)

\* A campaign as the registry keeps it.
CampaignRecords == [creator: Creators \cup {None}, is_active: BOOLEAN, is_cancelled: BOOLEAN]

\* The burst counter of one campaign covers what the current ledger accepted.
CounterCovers(c) ==
  /\ burst[c].ledger <= sequence
  /\ accepted[c] <= IF burst[c].ledger = sequence THEN burst[c].count ELSE 0
  /\ accepted[c] <= AUTO_PAUSE_BURST_THRESHOLD

\* What a handler that returned Ok and waits for its commit may write for one
\* campaign: the counter as it is, or counted on below the threshold.
CountsOn(c) ==
  \/ invocation.writes.burst[c] = burst[c]
  \/ /\ invocation.writes.burst[c] = NextBurst(c)
     /\ NextBurst(c).count <= AUTO_PAUSE_BURST_THRESHOLD

\* A handler that returned Ok started while nothing was paused, and pauses nothing.
InFlight ==
  /\ invocation.running \in BOOLEAN
  /\ Running => invocation.ok \in BOOLEAN
  /\ Running /\ invocation.ok =>
       /\ ~paused
       /\ invocation.writes.auto_paused = FALSE
       /\ invocation.writes.raised \in [CampaignIds -> 0..MaxRaised]
       /\ invocation.writes.burst \in [CampaignIds -> [ledger: Nat, count: Nat]]
       /\ \A c \in CampaignIds : CountsOn(c)

PauseInv ==
  /\ RegistryTypeOK
  /\ PausingTypeOK
  /\ AutoPauseRolledBack
  /\ InFlight
  /\ \A c \in CampaignIds : CounterCovers(c)

\* Nothing is paused and no burst is counted at first.
LEMMA PauseInit == Init => PauseInv
<1> SUFFICES ASSUME Init PROVE PauseInv
  OBVIOUS
<1> USE DEF Init, RegistryInit, PausingInit
<1>1. RegistryTypeOK
  <2>1. campaign_count \in 0..MaxCampaigns
    OBVIOUS
  <2>2. NoCampaign \in CampaignRecords /\ ~NoCampaign.is_active
    BY DEF NoCampaign, CampaignRecords
  <2>3. QED
    BY <2>1, <2>2 DEF RegistryTypeOK, CampaignRecords
<1>2. PausingTypeOK
  BY DEF PausingTypeOK, CampaignIds
<1>3. AutoPauseRolledBack /\ InFlight
  BY DEF AutoPauseRolledBack, InFlight, NoInvocation, Running
<1>4. \A c \in CampaignIds : CounterCovers(c)
  BY DEF CounterCovers
<1>5. QED
  BY <1>1, <1>2, <1>3, <1>4 DEF PauseInv

\* Opening and closing campaigns.
LEMMA RegistryStep ==
  ASSUME PauseInv, ~Running, RegistryNext, UNCHANGED pausingVars
  PROVE  PauseInv' /\ campaign_count <= campaign_count'
<1> USE DEF PauseInv
<1>1. paused' = paused /\ auto_paused' = auto_paused
  BY DEF RegistryNext, create_campaign, cancel_campaign, withdraw_funds
<1>2. RegistryTypeOK' /\ campaign_count <= campaign_count'
  <2> USE DEF RegistryTypeOK
  <2>1. ASSUME NEW u \in Creators, create_campaign(u)
        PROVE  RegistryTypeOK' /\ campaign_count <= campaign_count'
    BY <2>1 DEF create_campaign, CampaignIds
  <2>2. ASSUME NEW c \in CampaignIds, cancel_campaign(c)
        PROVE  RegistryTypeOK' /\ campaign_count <= campaign_count'
    <3>1. campaign' = [campaign EXCEPT ![c] = Cancelled(campaign[c])] /\ UNCHANGED campaign_count
      BY <2>2 DEF cancel_campaign
    <3>2. /\ campaign[c] \in CampaignRecords
          /\ campaign \in [CampaignIds -> CampaignRecords]
      BY DEF CampaignRecords
    <3>3. Cancelled(campaign[c]) \in CampaignRecords /\ ~Cancelled(campaign[c]).is_active
      BY <3>2 DEF CampaignRecords, Cancelled
    <3>4. campaign' \in [CampaignIds -> CampaignRecords]
      BY <3>1, <3>2, <3>3
    <3>5. \A d \in CampaignIds : ~(campaign'[d].is_active /\ campaign'[d].is_cancelled)
      BY <3>1, <3>2, <3>3
    <3>6. QED
      BY <1>1, <3>1, <3>4, <3>5 DEF CampaignRecords
  <2>3. ASSUME NEW c \in CampaignIds, withdraw_funds(c)
        PROVE  RegistryTypeOK' /\ campaign_count <= campaign_count'
    <3>1. campaign' = [campaign EXCEPT ![c] = [campaign[c] EXCEPT !.is_active = FALSE]] /\ UNCHANGED campaign_count
      BY <2>3 DEF withdraw_funds
    <3>2. /\ campaign[c] \in CampaignRecords
          /\ campaign \in [CampaignIds -> CampaignRecords]
      BY DEF CampaignRecords
    <3>3. [campaign[c] EXCEPT !.is_active = FALSE] \in CampaignRecords /\ ~[campaign[c] EXCEPT !.is_active = FALSE].is_active
      BY <3>2 DEF CampaignRecords
    <3>4. campaign' \in [CampaignIds -> CampaignRecords]
      BY <3>1, <3>2, <3>3
    <3>5. \A d \in CampaignIds : ~(campaign'[d].is_active /\ campaign'[d].is_cancelled)
      BY <3>1, <3>2, <3>3
    <3>6. QED
      BY <1>1, <3>1, <3>4, <3>5 DEF CampaignRecords
  <2>4. QED
    BY <2>1, <2>2, <2>3 DEF RegistryNext
<1>3. PausingTypeOK' /\ AutoPauseRolledBack'
  BY <1>1 DEF PausingTypeOK, AutoPauseRolledBack
<1>4. InFlight'
  BY <1>1 DEF InFlight, Running, CountsOn, NextBurst
<1>5. \A c \in CampaignIds : CounterCovers(c)'
  BY DEF CounterCovers
<1>6. QED
  BY <1>2, <1>3, <1>4, <1>5

\* The switches of the admin and the signers, and the next ledger.
LEMMA SwitchStep ==
  ASSUME PauseInv, ~Running,
         \/ Tick \/ pause \/ unpause
         \/ \E set \in SUBSET Signers : set_emergency_pause_signers(set)
         \/ \E u \in Signers : emergency_pause(u)
  PROVE  /\ PauseInv'
         /\ UNCHANGED <<campaign_count, campaign, raised, burst>>
<1> USE DEF PauseInv
<1>1. invocation' = invocation /\ UNCHANGED <<campaign_count, campaign, raised, burst>>
  BY DEF Tick, pause, unpause, set_emergency_pause_signers, emergency_pause
<1>2. paused' \in BOOLEAN /\ auto_paused' = FALSE
  BY DEF Tick, pause, unpause, set_emergency_pause_signers, emergency_pause,
         RegistryTypeOK, AutoPauseRolledBack
<1>3. RegistryTypeOK' /\ AutoPauseRolledBack'
  BY <1>1, <1>2 DEF RegistryTypeOK, AutoPauseRolledBack
<1>4. InFlight'
  BY <1>1 DEF InFlight, Running
<1>5. PausingTypeOK' /\ \A c \in CampaignIds : CounterCovers(c)'
  <2>1. CASE Tick
    BY <2>1 DEF Tick, PausingTypeOK, CounterCovers
  <2>2. CASE UNCHANGED <<sequence, raised, burst, accepted>> /\ signers' \subseteq Signers
    BY <2>2 DEF PausingTypeOK, CounterCovers
  <2>3. QED
    BY <2>1, <2>2 DEF pause, unpause, set_emergency_pause_signers, emergency_pause,
                      PausingTypeOK
<1>6. QED
  BY <1>1, <1>3, <1>4, <1>5

\* The handler of contribute has run.
LEMMA ContributeStep ==
  ASSUME PauseInv, ~Running, NEW c \in CampaignIds, NEW amt \in Amounts, contribute(c, amt)
  PROVE  PauseInv'
<1> USE DEF PauseInv
<1> DEFINE counted == ~Huge(amt) /\ BurstChecked(c)
           tripped == Huge(amt) \/ (counted /\ NextBurst(c).count > AUTO_PAUSE_BURST_THRESHOLD)
           W == invocation'.writes
<1>1. /\ ~paused /\ UNCHANGED <<registryVars, sequence, signers, raised, burst, accepted>>
      /\ raised[c] + amt <= MaxRaised \/ tripped
      /\ invocation'.running = TRUE /\ invocation'.ok = ~tripped
      /\ W.auto_paused = (auto_paused \/ tripped)
      /\ W.raised = IF tripped THEN raised ELSE [raised EXCEPT ![c] = @ + amt]
      /\ W.burst = IF counted THEN [burst EXCEPT ![c] = NextBurst(c)] ELSE burst
  BY DEF contribute, Return, GuardResult, NotPaused
<1> HIDE DEF tripped, W
<1>2. /\ RegistryTypeOK' /\ PausingTypeOK' /\ AutoPauseRolledBack'
      /\ \A d \in CampaignIds : CounterCovers(d)'
  BY <1>1 DEF RegistryTypeOK, PausingTypeOK, AutoPauseRolledBack, CounterCovers
<1>3. NextBurst(c) \in [ledger: Nat, count: Nat] /\ \A d \in CampaignIds : NextBurst(d)' = NextBurst(d)
  BY <1>1 DEF NextBurst, PausingTypeOK
<1>4. InFlight'
  <2>1. CASE tripped
    BY <1>1, <2>1 DEF InFlight, Running
  <2>2. CASE ~tripped
    <3>1. W.auto_paused = FALSE
      BY <1>1, <2>2 DEF AutoPauseRolledBack, RegistryTypeOK
    <3>2. W.raised \in [CampaignIds -> 0..MaxRaised]
      <4>1. amt \in Nat /\ raised \in [CampaignIds -> 0..MaxRaised]
        BY DEF PausingTypeOK
      <4>2. raised[c] + amt \in 0..MaxRaised
        BY <1>1, <2>2, <4>1
      <4>3. QED
        BY <1>1, <2>2, <4>1, <4>2
    <3>3. W.burst \in [CampaignIds -> [ledger: Nat, count: Nat]]
      BY <1>1, <1>3 DEF PausingTypeOK
    <3>4. counted => NextBurst(c).count <= AUTO_PAUSE_BURST_THRESHOLD
      BY <1>3, <2>2 DEF tripped
    <3>5. ASSUME NEW d \in CampaignIds PROVE CountsOn(d)'
      <4>1. W.burst[d] = burst[d] \/ (counted /\ d = c /\ W.burst[d] = NextBurst(d))
        BY <1>1 DEF PausingTypeOK
      <4>2. burst'[d] = burst[d] /\ NextBurst(d)' = NextBurst(d)
        BY <1>1, <1>3
      <4>3. QED
        BY <3>4, <4>1, <4>2 DEF CountsOn, W
    <3>6. QED
      BY <1>1, <2>2, <3>1, <3>2, <3>3, <3>5 DEF InFlight, Running, W
  <2>3. QED
    BY <2>1, <2>2
<1>5. QED
  BY <1>2, <1>4

\* resume_campaign finds nothing to resume.
LEMMA ResumeStep ==
  ASSUME PauseInv, ~Running, NEW c \in CampaignIds, NEW u, resume_campaign(c, u)
  PROVE  PauseInv'
<1> USE DEF PauseInv
<1>1. invocation'.running = TRUE /\ invocation'.ok = FALSE
  BY DEF resume_campaign, Return, AutoPauseRolledBack
<1>2. InFlight'
  BY <1>1 DEF InFlight, Running
<1>3. /\ RegistryTypeOK' /\ PausingTypeOK' /\ AutoPauseRolledBack'
      /\ \A d \in CampaignIds : CounterCovers(d)'
  BY DEF resume_campaign, RegistryTypeOK, PausingTypeOK, AutoPauseRolledBack, CounterCovers
<1>4. QED
  BY <1>2, <1>3

\* The host commits or drops what was written.
LEMMA HostStep ==
  ASSUME PauseInv, host_return
  PROVE  PauseInv' /\ UNCHANGED <<paused, campaign_count, campaign>>
<1> USE DEF PauseInv
<1>1. /\ Running /\ invocation' = NoInvocation
      /\ UNCHANGED <<paused, campaign_count, campaign, sequence, signers>>
  BY DEF host_return
<1>2. InFlight'
  BY <1>1 DEF InFlight, NoInvocation, Running
<1>3. CASE ~invocation.ok
  <2>1. UNCHANGED <<auto_paused, raised, burst, accepted>>
    BY <1>3 DEF host_return
  <2>2. /\ RegistryTypeOK' /\ PausingTypeOK' /\ AutoPauseRolledBack'
        /\ \A d \in CampaignIds : CounterCovers(d)'
    BY <1>1, <2>1 DEF RegistryTypeOK, PausingTypeOK, AutoPauseRolledBack, CounterCovers
  <2>3. QED
    BY <1>1, <1>2, <2>1, <2>2
<1>4. CASE invocation.ok
  <2>1. /\ ~paused /\ auto_paused' = FALSE
        /\ raised' \in [CampaignIds -> 0..MaxRaised]
        /\ burst' \in [CampaignIds -> [ledger: Nat, count: Nat]]
        /\ \A d \in CampaignIds :
             \/ burst'[d] = burst[d]
             \/ burst'[d] = NextBurst(d) /\ NextBurst(d).count <= AUTO_PAUSE_BURST_THRESHOLD
    BY <1>1, <1>4 DEF host_return, InFlight, CountsOn
  <2>2. accepted' = [d \in CampaignIds |->
                       IF burst'[d] # burst[d] THEN accepted[d] + 1 ELSE accepted[d]]
    BY <1>4 DEF host_return
  <2>3. RegistryTypeOK' /\ PausingTypeOK' /\ AutoPauseRolledBack'
    <3>1. accepted' \in [CampaignIds -> Nat]
      BY <2>2 DEF PausingTypeOK
    <3>2. RegistryTypeOK' /\ AutoPauseRolledBack'
      BY <1>1, <2>1 DEF RegistryTypeOK, AutoPauseRolledBack
    <3>3. PausingTypeOK'
      BY <1>1, <2>1, <3>1 DEF PausingTypeOK
    <3>4. QED
      BY <3>2, <3>3
  <2>4. ASSUME NEW d \in CampaignIds PROVE CounterCovers(d)'
    <3>1. /\ burst[d].ledger \in Nat /\ burst[d].count \in Nat /\ accepted[d] \in Nat
          /\ sequence \in Nat /\ sequence' = sequence
      BY <1>1 DEF PausingTypeOK
    <3>2. CASE burst'[d] = burst[d]
      BY <2>2, <3>1, <3>2 DEF CounterCovers
    <3>3. CASE burst'[d] # burst[d]
      <4>1. /\ burst'[d].ledger = sequence /\ accepted'[d] = accepted[d] + 1
            /\ burst'[d].count = IF burst[d].ledger = sequence THEN burst[d].count + 1 ELSE 1
            /\ burst'[d].count <= AUTO_PAUSE_BURST_THRESHOLD
        BY <2>1, <2>2, <3>3 DEF NextBurst
      <4>2. QED
        BY <3>1, <4>1 DEF CounterCovers
    <3>4. QED
      BY <3>2, <3>3
  <2>5. QED
    BY <1>1, <1>2, <2>1, <2>3, <2>4
<1>5. QED
  BY <1>1, <1>3, <1>4 DEF InFlight

\* One step of the composition.
LEMMA PauseNext ==
  ASSUME PauseInv, [Next]_vars
  PROVE  PauseInv' /\ campaign_count <= campaign_count'
<1>1. campaign_count \in Nat
  BY DEF PauseInv, RegistryTypeOK
<1>2. CASE ~Running /\ RegistryNext /\ UNCHANGED pausingVars
  BY <1>2, RegistryStep
<1>3. CASE UNCHANGED <<registryVars, pausingVars>>
  BY <1>1, <1>3 DEF PauseInv, RegistryTypeOK, PausingTypeOK, AutoPauseRolledBack, InFlight,
                    Running, CountsOn, NextBurst, CounterCovers
<1>4. CASE PausingNext
  <2>1. CASE host_return
    BY <1>1, <2>1, HostStep
  <2>2. ASSUME ~Running, NEW c \in CampaignIds, NEW amt \in Amounts, contribute(c, amt)
        PROVE  PauseInv' /\ UNCHANGED campaign_count
    BY <2>2, ContributeStep DEF contribute
  <2>3. ASSUME ~Running, NEW c \in CampaignIds, NEW u, resume_campaign(c, u)
        PROVE  PauseInv' /\ UNCHANGED campaign_count
    BY <2>3, ResumeStep DEF resume_campaign
  <2>4. CASE ~Running /\ \/ Tick \/ pause \/ unpause
                         \/ \E set \in SUBSET Signers : set_emergency_pause_signers(set)
                         \/ \E u \in Signers : emergency_pause(u)
    BY <1>1, <2>4, SwitchStep
  <2>5. QED
    BY <1>1, <1>4, <2>1, <2>2, <2>3, <2>4 DEF PausingNext
<1>5. QED
  BY <1>2, <1>3, <1>4 DEF Next, vars

-----------------------------------------------------------------------------
(* Bookmarks.                                                              *)

\* The lists of saved campaigns, over the ids in use.
ListsInv == BookmarksTypeOK /\ BookmarksSound

\* A wallet's new list is sound when its elements are in use, without repetition,
\* and within the limit unless the wallet has saved a batch.
LEMMA ListUpdate ==
  ASSUME ListsInv, NEW w \in Wallets, NEW list \in Seq(CampaignIds), IsInjective(list),
         \A c \in ToSet(list) : Created(c),
         saved' = [saved EXCEPT ![w] = list], UNCHANGED campaign_count,
         batched' \subseteq Wallets, batched \subseteq batched',
         w \in batched' \/ Len(list) <= MAX_BOOKMARKS_PER_WALLET
  PROVE  ListsInv'
<1> USE DEF ListsInv, BookmarksTypeOK, BookmarksSound
<1>1. saved' \in [Wallets -> Seq(CampaignIds)] /\ saved'[w] = list
      /\ \A v \in Wallets \ {w} : saved'[v] = saved[v]
  OBVIOUS
<1>2. campaign_count' = campaign_count
  OBVIOUS
<1>3. \A i \in DOMAIN list : list[i] \in 1..campaign_count
  BY DEF ToSet, Created
<1>4. ASSUME NEW v \in Wallets
      PROVE  /\ IsInjective(saved'[v])
             /\ \A i \in DOMAIN saved'[v] : saved'[v][i] \in 1..campaign_count'
  <2>1. CASE v = w
    BY <1>1, <1>2, <1>3, <2>1
  <2>2. CASE v # w
    <3>1. saved'[v] = saved[v]
      BY <1>1, <2>2
    <3>2. /\ IsInjective(saved[v])
          /\ \A i \in DOMAIN saved[v] : saved[v][i] \in 1..campaign_count
      BY DEF BookmarksDistinct, Created
    <3>3. QED
      BY <1>2, <3>1, <3>2
  <2>3. QED
    BY <2>1, <2>2
<1>5. ASSUME NEW v \in Wallets \ batched' PROVE Len(saved'[v]) <= MAX_BOOKMARKS_PER_WALLET
  BY <1>1 DEF BookmarkLimit
<1>6. BookmarksDistinct'
  BY <1>4 DEF BookmarksDistinct, Created
<1>7. QED
  BY <1>1, <1>5, <1>6 DEF BookmarkLimit

\* The calls of the wallets.
LEMMA ListsStep ==
  ASSUME ListsInv, campaign_count \in Nat, BookmarksNext, UNCHANGED campaign_count
  PROVE  ListsInv'
<1>1. PICK w \in Wallets :
        \/ \E c \in CampaignIds : save_campaign(w, c) \/ remove_saved_campaign(w, c)
        \/ \E ids \in Batches : batch_save_campaigns(w, ids)
        \/ clear_saved_campaigns(w)
  BY DEF BookmarksNext
<1> DEFINE list == saved[w]
<1>2. /\ list \in Seq(CampaignIds) /\ IsInjective(list) /\ Len(list) \in Nat
      /\ batched \subseteq Wallets
      /\ w \in batched \/ Len(list) <= MAX_BOOKMARKS_PER_WALLET
  BY DEF ListsInv, BookmarksTypeOK, BookmarksSound, BookmarksDistinct, BookmarkLimit
<1>3. \A c \in ToSet(list) : Created(c)
  BY DEF ListsInv, BookmarksSound, BookmarksDistinct, ToSet
<1>4. saved \in [Wallets -> Seq(CampaignIds)]
  BY DEF ListsInv, BookmarksTypeOK
<1>5. ASSUME NEW c \in CampaignIds, save_campaign(w, c) PROVE ListsInv'
  <2> DEFINE new == Append(list, c)
  <2>1. /\ Created(c) /\ c \notin ToSet(list) /\ Len(list) < MAX_BOOKMARKS_PER_WALLET
        /\ saved' = [saved EXCEPT ![w] = new] /\ batched' = batched
    BY <1>5 DEF save_campaign, RoomLeft
  <2> HIDE DEF list
  <2>2. /\ new \in Seq(CampaignIds) /\ IsInjective(new) /\ Len(new) = Len(list) + 1
        /\ ToSet(new) = ToSet(list) \cup {c}
    BY <1>2, <2>1, AppendList
  <2> HIDE DEF new
  <2>3. Len(new) <= MAX_BOOKMARKS_PER_WALLET /\ \A d \in ToSet(new) : Created(d)
    BY <1>2, <1>3, <2>1, <2>2
  <2>4. QED
    BY <1>2, <2>1, <2>2, <2>3, ListUpdate
<1>6. ASSUME NEW c \in CampaignIds, remove_saved_campaign(w, c) PROVE ListsInv'
  <2> DEFINE new == RemoveFirst(list, c)
  <2>1. /\ c \in ToSet(list) /\ saved' = [saved EXCEPT ![w] = new] /\ batched' = batched
    BY <1>6 DEF remove_saved_campaign
  <2> HIDE DEF list
  <2>2. PICK k \in 1..Len(list) : new = RemoveAt(list, k)
    BY <1>2, <2>1, RemoveFirstPosition
  <2>3. /\ RemoveAt(list, k) \in Seq(CampaignIds) /\ IsInjective(RemoveAt(list, k))
        /\ Len(RemoveAt(list, k)) <= Len(list)
        /\ ToSet(RemoveAt(list, k)) \subseteq ToSet(list)
    BY <1>2, RemoveAtList
  <2> HIDE DEF new
  <2>4. new \in Seq(CampaignIds) /\ IsInjective(new) /\ Len(new) \in Nat
    BY <2>2, <2>3
  <2>5. /\ w \in batched \/ Len(new) <= MAX_BOOKMARKS_PER_WALLET
        /\ \A d \in ToSet(new) : Created(d)
    BY <1>2, <1>3, <2>2, <2>3, <2>4
  <2>6. QED
    BY <1>2, <2>1, <2>4, <2>5, ListUpdate
<1>7. ASSUME NEW ids \in Batches, batch_save_campaigns(w, ids) PROVE ListsInv'
  <2> DEFINE new == list \o ids
  <2>1. /\ saved' = [saved EXCEPT ![w] = new] /\ batched' = batched \cup {w}
        /\ Savable(w, ids)
    BY <1>7 DEF batch_save_campaigns
  <2>2. PICK n \in 0..MaxBatch : ids \in [1..n -> CampaignIds]
    BY DEF Batches
  <2>3. ids \in Seq(CampaignIds)
    BY <2>2
  <2>4. /\ \A i \in DOMAIN ids : ids[i] \notin ToSet(list \o SubSeq(ids, 1, i - 1))
        /\ \A i \in DOMAIN ids : Created(ids[i])
    BY <2>1 DEF Savable
  <2> HIDE DEF list
  <2>5. /\ new \in Seq(CampaignIds) /\ IsInjective(new)
        /\ ToSet(new) = ToSet(list) \cup ToSet(ids)
    BY <1>2, <2>3, <2>4, BatchList
  <2>6. \A d \in ToSet(ids) : Created(d)
    BY <2>4 DEF ToSet
  <2> HIDE DEF new
  <2>7. \A d \in ToSet(new) : Created(d)
    BY <1>3, <2>5, <2>6
  <2>8. QED
    BY <1>2, <2>1, <2>5, <2>7, ListUpdate
<1>8. ASSUME clear_saved_campaigns(w) PROVE ListsInv'
  <2>1. saved' = [saved EXCEPT ![w] = <<>>] /\ batched' = batched
    BY <1>8 DEF clear_saved_campaigns
  <2>2. PICK new \in Seq(CampaignIds) : new = <<>>
    <3>1. <<>> \in Seq(CampaignIds)
      OBVIOUS
    <3>2. QED
      BY <3>1, Zenon
  <2>3. IsInjective(new) /\ Len(new) <= MAX_BOOKMARKS_PER_WALLET /\ ToSet(new) = {}
    BY <2>2 DEF IsInjective, ToSet
  <2>4. QED
    BY <1>2, <2>1, <2>2, <2>3, ListUpdate
<1>9. QED
  BY <1>1, <1>5, <1>6, <1>7, <1>8

\* All lists are empty at first.
LEMMA ListsInit == Init => ListsInv
<1> SUFFICES ASSUME Init PROVE ListsInv
  OBVIOUS
<1>1. /\ saved \in [Wallets -> Seq(CampaignIds)] /\ batched = {}
      /\ \A w \in Wallets : saved[w] = <<>>
  BY DEF Init, BookmarksInit
<1>2. IsInjective(<<>>) /\ Len(<<>>) = 0 /\ DOMAIN <<>> = {}
  BY DEF IsInjective
<1>3. QED
  BY <1>1, <1>2 DEF ListsInv, BookmarksTypeOK, BookmarksSound, BookmarksDistinct, BookmarkLimit

\* Campaigns are never removed, so what others do leaves the lists sound.
LEMMA ListsKept ==
  ASSUME ListsInv, campaign_count \in Nat, campaign_count' \in Nat,
         campaign_count <= campaign_count', UNCHANGED bookmarkVars
  PROVE  ListsInv'
<1>1. \A c : Created(c) => Created(c)'
  BY DEF Created
<1>2. saved' = saved /\ batched' = batched
  OBVIOUS
<1>3. BookmarksTypeOK' /\ BookmarkLimit'
  BY <1>2 DEF ListsInv, BookmarksTypeOK, BookmarksSound, BookmarkLimit
<1>4. BookmarksDistinct'
  BY <1>1, <1>2 DEF ListsInv, BookmarksSound, BookmarksDistinct
<1>5. QED
  BY <1>3, <1>4 DEF ListsInv, BookmarksSound

-----------------------------------------------------------------------------
(* Comment moderation.                                                     *)

\* The events that are published.
Events == [act: {"censured", "uncensured"}, campaign: CampaignIds, hash: Hashes,
           reason: Reasons \cup {None}]

\* What AuditExact says of one comment, given the places t of its events.
TellsOf(c, h, t) ==
  /\ t = {} => censure[c][h] = None
  /\ \A i \in t : (\A n \in t : i <= n) => audit[i].act = "censured"
  /\ \A i, j \in t : i < j /\ (\A n \in t : n <= i \/ j <= n)
                       => audit[i].act # audit[j].act
  /\ \A i \in t : (\A n \in t : n <= i) =>
       /\ censure[c][h] = audit[i].reason
       /\ censure[c][h] # None <=> audit[i].act = "censured"

CensureInv == CommentsTypeOK /\ audit \in Seq(Events) /\ ModerationExact

\* The comments of a campaign that are under censure.
UnderCensure(c) == {h \in Hashes : censure[c][h] # None}

\* A change of one entry of the record, and its event.
LEMMA AuditStep ==
  ASSUME CommentsTypeOK, audit \in Seq(Events), AuditExact,
         NEW c \in CampaignIds, NEW h \in Hashes,
         NEW act \in {"censured", "uncensured"}, NEW reason \in Reasons \cup {None},
         act = "censured" <=> reason # None,
         censure[c][h] = None <=> reason # None,
         censure' = [censure EXCEPT ![c][h] = reason],
         audit' = Append(audit, Event(act, c, h, reason))
  PROVE  audit' \in Seq(Events) /\ AuditExact'
<1> DEFINE e == Event(act, c, h, reason)
           n == Len(audit)
<1>1. /\ e \in Events /\ e.act = act /\ e.campaign = c /\ e.hash = h /\ e.reason = reason
  BY DEF Event, Events
<1> HIDE DEF e
<1>2. /\ n \in Nat /\ DOMAIN audit = 1..n /\ audit' \in Seq(Events) /\ DOMAIN audit' = 1..(n + 1)
      /\ \A i \in 1..n : audit'[i] = audit[i]
      /\ audit'[n + 1] = e
  BY <1>1 DEF e
<1> HIDE DEF n
<1>3. ASSUME NEW d \in CampaignIds, NEW g \in Hashes
      PROVE  /\ Trail(d, g) \subseteq 1..n
             /\ \A i \in Trail(d, g) : audit'[i] = audit[i]
             /\ TellsOf(d, g, Trail(d, g))
  <2>1. Trail(d, g) \subseteq 1..n
    BY <1>2 DEF Trail
  <2>2. TellsOf(d, g, Trail(d, g))
    BY DEF AuditExact, TellsOf
  <2>3. QED
    BY <1>2, <2>1, <2>2
<1>4. 1..(n + 1) = 1..n \cup {n + 1}
  BY <1>2
<1>5. ASSUME NEW d \in CampaignIds, NEW g \in Hashes, <<d, g>> # <<c, h>>
      PROVE  TellsOf(d, g, Trail(d, g))'
  <2>1. Trail(d, g)' = Trail(d, g)
    <3>1. ~(audit'[n + 1].campaign = d /\ audit'[n + 1].hash = g)
      BY <1>1, <1>2, <1>5
    <3>2. Trail(d, g)' = {i \in 1..(n + 1) : audit'[i].campaign = d /\ audit'[i].hash = g}
      BY <1>2 DEF Trail
    <3>3. Trail(d, g) = {i \in 1..n : audit[i].campaign = d /\ audit[i].hash = g}
      BY <1>2 DEF Trail
    <3>4. QED
      BY <1>2, <1>4, <3>1, <3>2, <3>3
  <2>2. censure'[d][g] = censure[d][g]
    BY <1>5 DEF CommentsTypeOK
  <2> DEFINE t == Trail(d, g)
  <2>3. /\ t = {} => censure[d][g] = None
        /\ \A i \in t : (\A m \in t : i <= m) => audit[i].act = "censured"
        /\ \A i, j \in t : i < j /\ (\A m \in t : m <= i \/ j <= m)
                             => audit[i].act # audit[j].act
        /\ \A i \in t : (\A m \in t : m <= i) =>
             /\ censure[d][g] = audit[i].reason
             /\ censure[d][g] # None <=> audit[i].act = "censured"
    BY <1>3 DEF TellsOf
  <2>4. \A i \in t : audit'[i] = audit[i]
    BY <1>3
  <2> HIDE DEF t
  <2>5. Trail(d, g)' = t
    BY <2>1 DEF t
  <2>6. \A i \in t : (\A m \in t : i <= m) => audit'[i].act = "censured"
    BY <2>3, <2>4
  <2>7. \A i, j \in t : i < j /\ (\A m \in t : m <= i \/ j <= m)
                         => audit'[i].act # audit'[j].act
    <3> SUFFICES ASSUME NEW i \in t, NEW j \in t, i < j, \A m \in t : m <= i \/ j <= m
                 PROVE  audit'[i].act # audit'[j].act
      OBVIOUS
    <3>1. audit[i].act # audit[j].act
      BY <2>3
    <3>2. QED
      BY <2>4, <3>1
  <2>8. \A i \in t : (\A m \in t : m <= i) =>
          /\ censure'[d][g] = audit'[i].reason
          /\ censure'[d][g] # None <=> audit'[i].act = "censured"
    BY <2>2, <2>3, <2>4
  <2>9. t = {} => censure'[d][g] = None
    BY <2>2, <2>3
  <2>10. QED
    BY <2>5, <2>6, <2>7, <2>8, <2>9 DEF TellsOf
<1>6. TellsOf(c, h, Trail(c, h))'
  <2> DEFINE t == Trail(c, h)
             u == Trail(c, h)'
  <2>1. u = t \cup {n + 1}
    <3>1. audit'[n + 1].campaign = c /\ audit'[n + 1].hash = h
      BY <1>1, <1>2
    <3>2. u = {i \in 1..(n + 1) : audit'[i].campaign = c /\ audit'[i].hash = h}
      BY <1>2 DEF Trail
    <3>3. t = {i \in 1..n : audit[i].campaign = c /\ audit[i].hash = h}
      BY <1>2 DEF Trail
    <3>4. QED
      BY <1>2, <1>4, <3>1, <3>2, <3>3
  <2>2. /\ \A i \in t : i \in 1..n /\ audit'[i] = audit[i]
        /\ TellsOf(c, h, t)
    BY <1>3
  <2>3. censure'[c][h] = reason
    BY DEF CommentsTypeOK
  <2>4. audit'[n + 1].act = act /\ audit'[n + 1].reason = reason
    BY <1>1, <1>2
  <2> HIDE DEF t, u
  <2>5. \A i \in u : (\A m \in u : i <= m) => audit'[i].act = "censured"
    <3> SUFFICES ASSUME NEW i \in u, \A m \in u : i <= m PROVE audit'[i].act = "censured"
      OBVIOUS
    <3>1. CASE i \in t
      BY <2>1, <2>2, <3>1 DEF TellsOf
    <3>2. CASE i = n + 1
      <4>1. t = {}
        BY <1>2, <2>1, <2>2, <3>2
      <4>2. QED
        BY <2>2, <2>4, <3>2, <4>1 DEF TellsOf
    <3>3. QED
      BY <2>1, <3>1, <3>2
  <2>6. \A i, j \in u : i < j /\ (\A m \in u : m <= i \/ j <= m)
                         => audit'[i].act # audit'[j].act
    <3> SUFFICES ASSUME NEW i \in u, NEW j \in u, i < j, \A m \in u : m <= i \/ j <= m
                 PROVE  audit'[i].act # audit'[j].act
      OBVIOUS
    <3>1. i \in t
      BY <1>2, <2>1, <2>2
    <3>2. CASE j \in t
      <4>1. \A m \in t : m <= i \/ j <= m
        BY <2>1
      <4>2. audit[i].act # audit[j].act
        BY <2>2, <3>1, <3>2, <4>1 DEF TellsOf
      <4>3. QED
        BY <2>2, <3>1, <3>2, <4>2
    <3>3. CASE j = n + 1
      <4>1. \A m \in t : m <= i
        BY <1>2, <2>1, <2>2, <3>3
      <4>2. censure[c][h] # None <=> audit'[i].act = "censured"
        BY <2>2, <3>1, <4>1 DEF TellsOf
      <4>3. QED
        BY <2>4, <3>3, <4>2
    <3>4. QED
      BY <2>1, <3>2, <3>3
  <2>7. \A i \in u : (\A m \in u : m <= i) => i = n + 1
    BY <1>2, <2>1, <2>2
  <2>8. /\ u # {} /\ reason = audit'[n + 1].reason
        /\ reason # None <=> audit'[n + 1].act = "censured"
    BY <2>1, <2>4
  <2>9. QED
    BY <2>3, <2>5, <2>6, <2>7, <2>8 DEF TellsOf, u
<1>7. ASSUME NEW d \in CampaignIds, NEW g \in Hashes
      PROVE  TellsOf(d, g, Trail(d, g))'
  BY <1>5, <1>6
<1>8. AuditExact'
  BY <1>7 DEF AuditExact, TellsOf
<1>9. QED
  BY <1>2, <1>8

\* censure_comment on a comment without a mark.
LEMMA CensureStep ==
  ASSUME CensureInv, NEW c \in CampaignIds, NEW h \in Hashes, NEW reason \in Reasons,
         censure_comment(c, h, reason)
  PROVE  CensureInv'
<1>1. CASE AlreadyCensured(c, h, reason)
  <2>1. censure' = censure /\ censured_count' = censured_count /\ audit' = audit
    BY <1>1 DEF censure_comment
  <2>2. QED
    BY <2>1 DEF CensureInv, CommentsTypeOK, ModerationExact, CensureCountExact, AuditExact, Trail
<1>2. CASE ~AlreadyCensured(c, h, reason)
  <2>1. /\ censure[c][h] = None /\ Len(audit) < MaxActs
        /\ censure' = [censure EXCEPT ![c][h] = reason]
        /\ censured_count' = [censured_count EXCEPT ![c] = @ + 1]
        /\ audit' = Append(audit, Event("censured", c, h, reason))
    BY <1>2 DEF censure_comment, AlreadyCensured
  <2>2. /\ CommentsTypeOK /\ audit \in Seq(Events) /\ AuditExact /\ reason # None
        /\ reason \in Reasons \cup {None}
        /\ \A d \in CampaignIds : censured_count[d] = Cardinality(UnderCensure(d))
    BY DEF CensureInv, ModerationExact, CensureCountExact, UnderCensure
  <2>3. audit' \in Seq(Events) /\ AuditExact'
    <3>1. PICK act \in {"censured", "uncensured"} : act = "censured"
      OBVIOUS
    <3>2. QED
      BY <2>1, <2>2, <3>1, AuditStep
  <2>4. CommentsTypeOK'
    BY <2>1, <2>2 DEF CommentsTypeOK
  <2>5. ASSUME NEW d \in CampaignIds PROVE censured_count'[d] = Cardinality(UnderCensure(d)')
    <3>1. CASE d # c
      <4>1. censured_count'[d] = censured_count[d] /\ UnderCensure(d)' = UnderCensure(d)
        BY <2>1, <2>2, <3>1 DEF CommentsTypeOK, UnderCensure
      <4>2. QED
        BY <2>2, <4>1
    <3>2. CASE d = c
      <4>1. UnderCensure(c)' = UnderCensure(c) \cup {h} /\ h \notin UnderCensure(c)
        BY <2>1, <2>2 DEF CommentsTypeOK, UnderCensure
      <4>2. IsFiniteSet(UnderCensure(c))
        BY FS_Subset DEF UnderCensure
      <4>3. Cardinality(UnderCensure(c) \cup {h}) = Cardinality(UnderCensure(c)) + 1
        BY <4>1, <4>2, FS_AddElement
      <4>4. censured_count'[c] = censured_count[c] + 1
        BY <2>1, <2>2 DEF CommentsTypeOK
      <4>5. QED
        BY <2>2, <3>2, <4>1, <4>3, <4>4
    <3>3. QED
      BY <3>1, <3>2
  <2>6. QED
    BY <2>3, <2>4, <2>5 DEF CensureInv, ModerationExact, CensureCountExact, UnderCensure
<1>3. QED
  BY <1>1, <1>2

\* uncensure_comment on a comment with a mark.
LEMMA UncensureStep ==
  ASSUME CensureInv, NEW c \in CampaignIds, NEW h \in Hashes, uncensure_comment(c, h)
  PROVE  CensureInv'
<1>1. CASE NotCensured(c, h)
  <2>1. censure' = censure /\ censured_count' = censured_count /\ audit' = audit
    BY <1>1 DEF uncensure_comment
  <2>2. QED
    BY <2>1 DEF CensureInv, CommentsTypeOK, ModerationExact, CensureCountExact, AuditExact, Trail
<1>2. CASE ~NotCensured(c, h)
  <2>1. /\ censure[c][h] # None /\ Len(audit) < MaxActs
        /\ censure' = [censure EXCEPT ![c][h] = None]
        /\ censured_count' = [censured_count EXCEPT ![c] = IF @ > 0 THEN @ - 1 ELSE 0]
        /\ audit' = Append(audit, Event("uncensured", c, h, None))
    BY <1>2 DEF uncensure_comment, NotCensured
  <2>2. /\ CommentsTypeOK /\ audit \in Seq(Events) /\ AuditExact
        /\ \A d \in CampaignIds : censured_count[d] = Cardinality(UnderCensure(d))
    BY DEF CensureInv, ModerationExact, CensureCountExact, UnderCensure
  <2>3. audit' \in Seq(Events) /\ AuditExact'
    <3>1. PICK act \in {"censured", "uncensured"}, reason \in Reasons \cup {None} :
            act = "uncensured" /\ reason = None
      OBVIOUS
    <3>2. QED
      BY <2>1, <2>2, <3>1, AuditStep
  <2>4. CommentsTypeOK'
    BY <2>1, <2>2 DEF CommentsTypeOK
  <2>5. ASSUME NEW d \in CampaignIds PROVE censured_count'[d] = Cardinality(UnderCensure(d)')
    <3>1. CASE d # c
      <4>1. censured_count'[d] = censured_count[d] /\ UnderCensure(d)' = UnderCensure(d)
        BY <2>1, <2>2, <3>1 DEF CommentsTypeOK, UnderCensure
      <4>2. QED
        BY <2>2, <4>1
    <3>2. CASE d = c
      <4>1. UnderCensure(c)' = UnderCensure(c) \ {h} /\ h \in UnderCensure(c)
        BY <2>1, <2>2 DEF CommentsTypeOK, UnderCensure
      <4>2. IsFiniteSet(UnderCensure(c))
        BY FS_Subset DEF UnderCensure
      <4>3. /\ IsFiniteSet(UnderCensure(c) \ {h})
            /\ Cardinality(UnderCensure(c) \ {h}) = Cardinality(UnderCensure(c)) - 1
        BY <4>1, <4>2, FS_RemoveElement
      <4>4. Cardinality(UnderCensure(c)) \in Nat /\ Cardinality(UnderCensure(c) \ {h}) \in Nat
        BY <4>2, <4>3, FS_CardinalityType
      <4>5. censured_count'[c] = IF censured_count[c] > 0 THEN censured_count[c] - 1 ELSE 0
        BY <2>1, <2>2 DEF CommentsTypeOK
      <4>6. QED
        BY <2>2, <3>2, <4>1, <4>3, <4>4, <4>5
    <3>3. QED
      BY <3>1, <3>2
  <2>6. QED
    BY <2>3, <2>4, <2>5 DEF CensureInv, ModerationExact, CensureCountExact, UnderCensure
<1>3. QED
  BY <1>1, <1>2

\* Nothing is censured at first.
LEMMA CensureInit == Init => CensureInv
<1> SUFFICES ASSUME Init PROVE CensureInv
  OBVIOUS
<1> USE DEF Init, CommentsInit
<1>1. CommentsTypeOK /\ audit \in Seq(Events) /\ DOMAIN audit = {}
  BY DEF CommentsTypeOK
<1>2. CensureCountExact
  <2>1. \A c \in CampaignIds : {h \in Hashes : censure[c][h] # None} = {}
    OBVIOUS
  <2>2. QED
    BY <2>1, FS_EmptySet DEF CensureCountExact
<1>3. AuditExact
  <2>1. \A c \in CampaignIds, h \in Hashes : Trail(c, h) = {} /\ censure[c][h] = None
    BY <1>1 DEF Trail
  <2>2. QED
    BY <2>1 DEF AuditExact
<1>4. QED
  BY <1>1, <1>2, <1>3 DEF CensureInv, ModerationExact

-----------------------------------------------------------------------------
(* The composition.                                                        *)

CommunityInv == PauseInv /\ ListsInv /\ CensureInv

\* Every step keeps the three parts.
LEMMA CommunityStep ==
  ASSUME CommunityInv, [Next]_vars
  PROVE  CommunityInv'
<1> USE DEF CommunityInv
<1>1. PauseInv' /\ campaign_count <= campaign_count'
  BY PauseNext
<1>2. campaign_count \in Nat /\ campaign_count' \in Nat
  BY <1>1 DEF PauseInv, RegistryTypeOK
<1>3. UNCHANGED commentVars => CensureInv'
  BY DEF CensureInv, CommentsTypeOK, ModerationExact, CensureCountExact, AuditExact, Trail
<1>4. UNCHANGED bookmarkVars => ListsInv'
  BY <1>1, <1>2, ListsKept
<1>5. CASE CommentsNext /\ UNCHANGED bookmarkVars
  <2>1. CensureInv'
    BY <1>5, CensureStep, UncensureStep DEF CommentsNext
  <2>2. QED
    BY <1>1, <1>4, <1>5, <2>1
<1>6. CASE BookmarksNext /\ UNCHANGED <<registryVars, commentVars>>
  <2>1. ListsInv'
    BY <1>2, <1>6, ListsStep
  <2>2. QED
    BY <1>1, <1>2, <1>3, <1>6, <2>1
<1>7. CASE UNCHANGED <<bookmarkVars, commentVars>>
  BY <1>1, <1>2, <1>3, <1>4, <1>7
<1>8. QED
  BY <1>5, <1>6, <1>7 DEF Next, vars

\* The three invariants hold together.
THEOREM CommunityInvariant == Spec => []CommunityInv
<1>1. Init => CommunityInv
  BY PauseInit, ListsInit, CensureInit DEF CommunityInv
<1>2. CommunityInv /\ [Next]_vars => CommunityInv'
  BY CommunityStep
<1>3. QED
  BY <1>1, <1>2, PTL DEF Spec

\* Every variable of the bookmarks, of the moderation and of pausing keeps its type
\* (storage.rs), and no campaign is both active and cancelled.
THEOREM CommunityTyping == Spec => []TypeOK
<1>1. CommunityInv => TypeOK
  BY DEF CommunityInv, PauseInv, ListsInv, CensureInv, TypeOK
<1>2. QED
  BY <1>1, CommunityInvariant, PTL

\* However many wallets, campaigns and batches there are, a list of saved campaigns
\* names existing campaigns, each once, and stays within the limit unless its wallet
\* used batch_save_campaigns (bookmarks.rs).
THEOREM BookmarksHold == Spec => []BookmarksSound
<1>1. CommunityInv => BookmarksSound
  BY DEF CommunityInv, ListsInv
<1>2. QED
  BY <1>1, CommunityInvariant, PTL

\* However many comments there are and whatever is retried, the counter of a campaign
\* and the events about a comment tell exactly what is stored (comments.rs).
THEOREM ModerationHolds == Spec => []ModerationExact
<1>1. CommunityInv => ModerationExact
  BY DEF CommunityInv, CensureInv
<1>2. QED
  BY <1>1, CommunityInvariant, PTL

\* No sequence of calls leaves AutoPaused set, whatever the thresholds are: the guard
\* of contribute sets it only in invocations that fail (check_burst_guard).
THEOREM AutoPauseNeverStays == Spec => []AutoPauseRolledBack
<1>1. CommunityInv => AutoPauseRolledBack
  BY DEF CommunityInv, PauseInv
<1>2. QED
  BY <1>1, CommunityInvariant, PTL

\* For every threshold, no ledger accepts more counted contributions to one campaign
\* than the threshold, rejected attempts in between included (check_burst_guard).
THEOREM BurstsLimited == Spec => []BurstLimited
<1>1. CommunityInv => BurstLimited
  BY DEF CommunityInv, PauseInv, CounterCovers, BurstLimited
<1>2. QED
  BY <1>1, CommunityInvariant, PTL
=============================================================================
