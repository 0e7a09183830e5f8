---------------------------- MODULE IndexProofs ----------------------------
(***************************************************************************)
(* The indexes of campaigns, for every number of creators, campaigns and   *)
(* bucket sizes: the creator index stays coherent under creations and      *)
(* transfers, queries and statistics answer exactly on lists without gaps, *)
(* walks over all and over active campaigns receive what they promise, and *)
(* category, tag and title indexes agree with the campaigns.               *)
(*                                                                         *)
(* Coherent is what the creator index says of one creator, as a relation   *)
(* between values: appending an id and removing one by swapping keep it,   *)
(* whatever bucket the counter points to.                                  *)
(***************************************************************************)
EXTENDS Listing, Catalogue, FiniteSetTheorems, WellFoundedInduction, TLAPS

USE IndexAssumption, ListingAssumption, CatalogueAssumption

-----------------------------------------------------------------------------
(* Arithmetic.                                                             *)

\* Division by the same number keeps the order.
LEMMA DivMonotone ==
  ASSUME NEW a \in Nat, NEW b \in Nat, NEW n \in Nat \ {0}, a <= b
  PROVE  a \div n \in Nat /\ a \div n <= b \div n
<1> DEFINE q == a \div n
           p == b \div n
<1>1. q \in Int /\ n * q <= a /\ a < n * q + n
  OBVIOUS
<1>2. p \in Int /\ n * p <= b /\ b < n * p + n
  OBVIOUS
<1>3. q \in Nat
  OBVIOUS
<1> HIDE DEF q, p
<1>4. ~(p + 1 <= q)
  <2> SUFFICES ASSUME p + 1 <= q
               PROVE  FALSE
    OBVIOUS
  <2>1. n * (p + 1) <= n * q
    BY <1>1, <1>2
  <2>2. n * (p + 1) = n * p + n
    BY <1>1, <1>2
  <2>3. QED
    BY <1>1, <1>2, <2>1, <2>2
<1>5. QED
  BY <1>1, <1>2, <1>3, <1>4 DEF q, p

\* A position has one bucket number and one slot.
LEMMA DivUnique ==
  ASSUME NEW a \in Nat, NEW n \in Nat \ {0}, NEW q \in Nat, n * q <= a, a < n * q + n
  PROVE  a \div n = q /\ a % n = a - n * q
<1> DEFINE p == a \div n
           r == a % n
<1>1. p \in Int /\ r \in 0..(n - 1) /\ a = n * p + r
  OBVIOUS
<1> HIDE DEF p, r
<1>2. ~(p + 1 <= q)
  <2> SUFFICES ASSUME p + 1 <= q
               PROVE  FALSE
    OBVIOUS
  <2>1. n * (p + 1) <= n * q
    BY <1>1
  <2>2. n * (p + 1) = n * p + n
    BY <1>1
  <2>3. QED
    BY <1>1, <2>1, <2>2
<1>3. ~(q + 1 <= p)
  <2> SUFFICES ASSUME q + 1 <= p
               PROVE  FALSE
    OBVIOUS
  <2>1. n * (q + 1) <= n * p
    BY <1>1
  <2>2. n * (q + 1) = n * q + n
    BY <1>1
  <2>3. QED
    BY <1>1, <2>1, <2>2
<1>4. p = q
  BY <1>1, <1>2, <1>3
<1>5. QED
  BY <1>1, <1>4 DEF p, r

\* The least and the greatest of two numbers.
LEMMA MinPair ==
  ASSUME NEW a \in Int, NEW b \in Int
  PROVE  Min({a, b}) = IF a <= b THEN a ELSE b
<1>1. \E x \in {a, b} : \A y \in {a, b} : x <= y
  BY DEF Min
<1>2. Min({a, b}) \in {a, b} /\ \A y \in {a, b} : Min({a, b}) <= y
  BY <1>1 DEF Min
<1>3. QED
  BY <1>2

\* The larger of two.
LEMMA MaxPair ==
  ASSUME NEW a \in Int, NEW b \in Int
  PROVE  Max({a, b}) = IF a >= b THEN a ELSE b
<1>1. \E x \in {a, b} : \A y \in {a, b} : x >= y
  BY DEF Max
<1>2. Max({a, b}) \in {a, b} /\ \A y \in {a, b} : Max({a, b}) >= y
  BY <1>1 DEF Max
<1>3. QED
  BY <1>2

-----------------------------------------------------------------------------
(* One creator's list.                                                     *)

\* What the index says of one creator: O is what the creator owns, n the counter,
\* B the buckets and P the positions on record.
Coherent(O, n, B, P) ==
  /\ n = Cardinality(O)
  /\ \A c \in O : /\ P[c] # <<>>
                  /\ P[c][2] < Len(B[P[c][1]])
                  /\ B[P[c][1]][P[c][2] + 1] = c
  /\ \A c \in CampaignIds \ O : P[c] = <<>>
  /\ \A i \in BucketIds : \A k \in DOMAIN B[i] : P[B[i][k]] = <<i, k - 1>>

Buckets == [BucketIds -> Seq(CampaignIds)]
Slots == {<<>>} \cup (BucketIds \X Nat)

\* Sets of ids are finite, and never larger than the number of ids.
LEMMA IdsFinite ==
  ASSUME NEW A \in SUBSET CampaignIds
  PROVE  /\ IsFiniteSet(A)
         /\ Cardinality(A) \in 0..MaxCampaigns
<1>1. IsFiniteSet(CampaignIds) /\ Cardinality(CampaignIds) = MaxCampaigns
  BY FS_Interval DEF CampaignIds
<1>2. IsFiniteSet(A) /\ Cardinality(A) <= Cardinality(CampaignIds)
  BY <1>1, FS_Subset
<1>3. QED
  BY <1>1, <1>2, FS_CardinalityType

\* What a recorded slot is.
LEMMA SlotParts ==
  ASSUME NEW s \in Slots, s # <<>>
  PROVE  s = <<s[1], s[2]>> /\ s[1] \in BucketIds /\ s[2] \in Nat
BY DEF Slots

\* Appending a new id to any bucket, with its position, keeps the list coherent.
LEMMA AppendId ==
  ASSUME NEW O \in SUBSET CampaignIds, NEW n, NEW B \in Buckets,
         NEW P \in [CampaignIds -> Slots], Coherent(O, n, B, P),
         NEW c \in CampaignIds \ O, NEW idx \in BucketIds
  PROVE  /\ [B EXCEPT ![idx] = Append(@, c)] \in Buckets
         /\ [P EXCEPT ![c] = <<idx, Len(B[idx])>>] \in [CampaignIds -> Slots]
         /\ Coherent(O \cup {c}, n + 1, [B EXCEPT ![idx] = Append(@, c)],
                     [P EXCEPT ![c] = <<idx, Len(B[idx])>>])
<1> DEFINE b == B[idx]
           B1 == [B EXCEPT ![idx] = Append(@, c)]
           P1 == [P EXCEPT ![c] = <<idx, Len(B[idx])>>]
<1>1. /\ b \in Seq(CampaignIds) /\ Len(b) \in Nat
      /\ Append(b, c) \in Seq(CampaignIds)
      /\ Len(Append(b, c)) = Len(b) + 1
      /\ \A k \in 1..Len(b) : Append(b, c)[k] = b[k] /\ b[k] \in CampaignIds
      /\ Append(b, c)[Len(b) + 1] = c
      /\ DOMAIN b = 1..Len(b) /\ DOMAIN Append(b, c) = 1..(Len(b) + 1)
  BY DEF Buckets
<1>2. /\ B1 \in Buckets /\ B1[idx] = Append(b, c)
      /\ \A i \in BucketIds \ {idx} : B1[i] = B[i]
  BY <1>1 DEF Buckets
<1>3. /\ P1 \in [CampaignIds -> Slots] /\ P1[c] = <<idx, Len(b)>>
      /\ \A d \in CampaignIds \ {c} : P1[d] = P[d]
  BY <1>1 DEF Slots
<1> HIDE DEF B1, P1, b
<1>4. \A i \in BucketIds : \A k \in DOMAIN B[i] : B[i][k] \in O
  <2> SUFFICES ASSUME NEW i \in BucketIds, NEW k \in DOMAIN B[i]
               PROVE  B[i][k] \in O
    OBVIOUS
  <2>1. B[i][k] \in CampaignIds
    BY DEF Buckets
  <2>2. P[B[i][k]] = <<i, k - 1>>
    BY DEF Coherent
  <2>3. P[B[i][k]] # <<>>
    BY <2>2
  <2>4. QED
    BY <2>1, <2>3 DEF Coherent
<1>5. n + 1 = Cardinality(O \cup {c})
  BY IdsFinite, FS_AddElement DEF Coherent
<1>6. ASSUME NEW d \in O \cup {c}
      PROVE  /\ P1[d] # <<>>
             /\ P1[d][2] < Len(B1[P1[d][1]])
             /\ B1[P1[d][1]][P1[d][2] + 1] = d
  <2>1. CASE d = c
    BY <2>1, <1>1, <1>2, <1>3
  <2>2. CASE d # c
    <3>1. d \in O /\ d \in CampaignIds /\ P1[d] = P[d]
      BY <2>2, <1>3
    <3>2. /\ P[d] # <<>> /\ P[d][2] < Len(B[P[d][1]])
          /\ B[P[d][1]][P[d][2] + 1] = d
      BY <3>1 DEF Coherent
    <3>3. P[d][1] \in BucketIds /\ P[d][2] \in Nat
      BY <3>1, <3>2, SlotParts
    <3>4. CASE P[d][1] = idx
      <4> DEFINE k == P[d][2]
      <4>1. k \in Nat /\ k < Len(b) /\ b[k + 1] = d
        BY <3>2, <3>3, <3>4 DEF b
      <4> HIDE DEF k
      <4>2. k < Len(Append(b, c)) /\ Append(b, c)[k + 1] = d
        BY <4>1, <1>1
      <4>3. QED
        BY <3>1, <3>2, <3>4, <4>2, <1>2 DEF k
    <3>5. CASE P[d][1] # idx
      BY <3>1, <3>2, <3>3, <3>5, <1>2
    <3>6. QED
      BY <3>4, <3>5
  <2>3. QED
    BY <2>1, <2>2
<1>7. \A d \in CampaignIds \ (O \cup {c}) : P1[d] = <<>>
  BY <1>3 DEF Coherent
<1>8. ASSUME NEW i \in BucketIds, NEW k \in DOMAIN B1[i]
      PROVE  P1[B1[i][k]] = <<i, k - 1>>
  <2>1. CASE i # idx
    <3>1. B1[i] = B[i]
      BY <2>1, <1>2
    <3>2. B[i][k] \in O /\ P[B[i][k]] = <<i, k - 1>>
      BY <3>1, <1>4 DEF Coherent
    <3>3. QED
      BY <3>1, <3>2, <1>3
  <2>2. CASE i = idx /\ k \in 1..Len(b)
    <3>1. B1[i][k] = b[k] /\ k \in DOMAIN B[i]
      BY <2>2, <1>1, <1>2 DEF b
    <3>2. b[k] \in O /\ P[b[k]] = <<i, k - 1>>
      BY <3>1, <2>2, <1>4 DEF Coherent, b
    <3>3. QED
      BY <3>1, <3>2, <1>3
  <2>3. CASE i = idx /\ k = Len(b) + 1
    BY <2>3, <1>1, <1>2, <1>3
  <2>4. QED
    BY <2>1, <2>2, <2>3, <1>1, <1>2
<1>9. Coherent(O \cup {c}, n + 1, B1, P1)
  BY <1>5, <1>6, <1>7, <1>8 DEF Coherent
<1>10. QED
  BY <1>2, <1>3, <1>9 DEF B1, P1

\* Swap removal: the last id of the bucket takes the free slot.
BucketsWithout(B, P, c) ==
  LET slot == P[c]
      from == B[slot[1]]
  IN [B EXCEPT ![slot[1]] = Front([from EXCEPT ![slot[2] + 1] = from[Len(from)]])]
PositionsWithout(B, P, c) ==
  LET slot == P[c]
      from == B[slot[1]]
  IN [P EXCEPT ![from[Len(from)]] = slot, ![c] = <<>>]

\* It keeps the list coherent.
LEMMA RemoveId ==
  ASSUME NEW O \in SUBSET CampaignIds, NEW n, NEW B \in Buckets,
         NEW P \in [CampaignIds -> Slots], Coherent(O, n, B, P), NEW c \in O
  PROVE  /\ BucketsWithout(B, P, c) \in Buckets
         /\ PositionsWithout(B, P, c) \in [CampaignIds -> Slots]
         /\ Coherent(O \ {c}, n - 1, BucketsWithout(B, P, c), PositionsWithout(B, P, c))
<1> PICK slot : slot = P[c]
  OBVIOUS
<1> PICK from : from = B[slot[1]]
  OBVIOUS
<1> PICK last : last = from[Len(from)]
  OBVIOUS
<1> PICK rest : rest = Front([from EXCEPT ![slot[2] + 1] = last])
  OBVIOUS
<1> DEFINE B1 == [B EXCEPT ![slot[1]] = rest]
           P1 == [P EXCEPT ![last] = slot, ![c] = <<>>]
<1>1. PICK i0 \in BucketIds, j \in Nat \ {0} : slot = <<i0, j - 1>>
  <2>1. slot # <<>> /\ slot \in Slots
    BY DEF Coherent
  <2>2. slot = <<slot[1], slot[2]>> /\ slot[1] \in BucketIds /\ slot[2] \in Nat
    BY <2>1, SlotParts
  <2>3. slot[2] + 1 \in Nat \ {0} /\ (slot[2] + 1) - 1 = slot[2]
    BY <2>2
  <2>4. QED
    BY <2>2, <2>3
<1>2. slot[1] = i0 /\ slot[2] = j - 1 /\ slot[2] + 1 = j
  BY <1>1
<1>3. from = B[i0] /\ from \in Seq(CampaignIds)
  BY <1>1, <1>2 DEF Buckets
<1>4. PICK m \in Nat : m = Len(from)
  BY <1>3
<1>5. DOMAIN from = 1..m /\ \A k \in 1..m : from[k] \in CampaignIds
  BY <1>3, <1>4
<1>6. j \in 1..m /\ from[j] = c
  <2>1. slot[2] < Len(from) /\ from[slot[2] + 1] = c
    BY DEF Coherent
  <2>2. j - 1 < m /\ from[j] = c
    BY <2>1, <1>2, <1>4
  <2>3. QED
    BY <2>2
<1>7. /\ rest \in Seq(CampaignIds) /\ Len(rest) = m - 1
      /\ DOMAIN rest = 1..(m - 1)
      /\ \A k \in 1..(m - 1) : rest[k] = IF k = j THEN last ELSE from[k]
  <2> DEFINE s == [from EXCEPT ![j] = last]
  <2>1. last \in CampaignIds
    BY <1>4, <1>5, <1>6
  <2>2. /\ s \in Seq(CampaignIds) /\ Len(s) = m
        /\ \A k \in 1..m : s[k] = IF k = j THEN last ELSE from[k]
    BY <2>1, <1>3, <1>4, <1>5, <1>6
  <2>3. rest = SubSeq(s, 1, m - 1)
    BY <2>2, <1>2 DEF Front
  <2> HIDE DEF s
  <2>4. m - 1 \in 0..m
    BY <1>6
  <2>5. /\ SubSeq(s, 1, m - 1) \in Seq(CampaignIds)
        /\ Len(SubSeq(s, 1, m - 1)) = m - 1
        /\ \A k \in 1..(m - 1) : SubSeq(s, 1, m - 1)[k] = s[k]
    BY <2>2, <2>4
  <2>6. /\ rest \in Seq(CampaignIds) /\ Len(rest) = m - 1
        /\ \A k \in 1..(m - 1) : rest[k] = s[k]
    BY <2>3, <2>5
  <2>7. DOMAIN rest = 1..Len(rest)
    BY <2>6
  <2>8. \A k \in 1..(m - 1) : k \in 1..m
    BY <2>4
  <2>9. QED
    BY <2>2, <2>6, <2>7, <2>8
<1>8. last = from[m] /\ last \in CampaignIds /\ m \in 1..m
  BY <1>4, <1>5, <1>6
<1>9. \A k \in 1..m : P[from[k]] = <<i0, k - 1>>
  BY <1>3, <1>5 DEF Coherent
<1>10. \A k, l \in 1..m : from[k] = from[l] => k = l
  <2> SUFFICES ASSUME NEW k \in 1..m, NEW l \in 1..m, from[k] = from[l]
               PROVE  k = l
    OBVIOUS
  <2>1. <<i0, k - 1>> = <<i0, l - 1>>
    BY <1>9
  <2>2. QED
    BY <2>1
<1>11. /\ B1 \in Buckets /\ B1[i0] = rest
       /\ \A i \in BucketIds \ {i0} : B1[i] = B[i]
  BY <1>2, <1>7 DEF Buckets
<1>12. /\ P1 \in [CampaignIds -> Slots] /\ P1[c] = <<>>
       /\ last # c => P1[last] = slot
       /\ \A d \in CampaignIds \ {c, last} : P1[d] = P[d]
  BY <1>1, <1>8 DEF Slots
<1> HIDE DEF B1, P1
<1>13. n - 1 = Cardinality(O \ {c})
  BY IdsFinite, FS_RemoveElement DEF Coherent
<1>14. last \in O
  <2>1. P[last] = <<i0, m - 1>>
    BY <1>8, <1>9
  <2>2. P[last] # <<>>
    BY <2>1
  <2>3. QED
    BY <2>2, <1>8 DEF Coherent
<1>15. ASSUME NEW d \in O \ {c}
       PROVE  /\ P1[d] # <<>>
              /\ P1[d][2] < Len(B1[P1[d][1]])
              /\ B1[P1[d][1]][P1[d][2] + 1] = d
  <2>1. CASE d = last
    <3>1. j # m
      BY <2>1, <1>6, <1>8
    <3>2. P1[d] = slot /\ j \in 1..(m - 1) /\ rest[j] = d
      BY <2>1, <3>1, <1>6, <1>7, <1>12
    <3>3. QED
      BY <3>2, <1>1, <1>2, <1>7, <1>11
  <2>2. CASE d # last
    <3>1. P1[d] = P[d]
      BY <2>2, <1>12
    <3>2. /\ P[d] # <<>> /\ P[d][2] < Len(B[P[d][1]])
          /\ B[P[d][1]][P[d][2] + 1] = d
      BY DEF Coherent
    <3>3. P[d][1] \in BucketIds /\ P[d][2] \in Nat
      BY <3>2, SlotParts
    <3>4. CASE P[d][1] = i0
      <4> DEFINE k == P[d][2]
      <4>1. k \in Nat /\ k < m /\ from[k + 1] = d
        BY <3>2, <3>3, <3>4, <1>3, <1>4
      <4> HIDE DEF k
      <4>2. k + 1 # m /\ k + 1 # j
        BY <4>1, <2>2, <1>6, <1>8
      <4>3. k < Len(rest) /\ rest[k + 1] = d
        BY <4>1, <4>2, <1>7
      <4>4. QED
        BY <3>1, <3>2, <3>4, <4>3, <1>11 DEF k
    <3>5. CASE P[d][1] # i0
      BY <3>1, <3>2, <3>3, <3>5, <1>11
    <3>6. QED
      BY <3>4, <3>5
  <2>3. QED
    BY <2>1, <2>2
<1>16. \A d \in CampaignIds \ (O \ {c}) : P1[d] = <<>>
  BY <1>12, <1>14 DEF Coherent
<1>17. ASSUME NEW i \in BucketIds, NEW k \in DOMAIN B1[i]
       PROVE  P1[B1[i][k]] = <<i, k - 1>>
  <2>1. CASE i # i0
    <3>1. B1[i] = B[i]
      BY <2>1, <1>11
    <3>2. B[i][k] \in CampaignIds /\ P[B[i][k]] = <<i, k - 1>>
      BY <3>1 DEF Coherent, Buckets
    <3>3. P[c] = <<i0, j - 1>> /\ P[last] = <<i0, m - 1>>
      BY <1>1, <1>8, <1>9
    <3>4. B[i][k] # c /\ B[i][k] # last
      BY <2>1, <3>2, <3>3
    <3>5. QED
      BY <3>1, <3>2, <3>4, <1>12
  <2>2. CASE i = i0 /\ k = j
    <3>1. k \in 1..(m - 1) /\ B1[i][k] = last
      BY <2>2, <1>7, <1>11
    <3>2. last # c
      BY <3>1, <2>2, <1>6, <1>8, <1>10
    <3>3. QED
      BY <2>2, <3>1, <3>2, <1>1, <1>12
  <2>3. CASE i = i0 /\ k # j
    <3>1. k \in 1..(m - 1) /\ B1[i][k] = from[k]
      BY <2>3, <1>7, <1>11
    <3>2. k \in 1..m /\ k # m
      BY <3>1
    <3>3. from[k] # c /\ from[k] # last /\ from[k] \in CampaignIds
      BY <2>3, <3>2, <1>5, <1>6, <1>8, <1>10
    <3>4. QED
      BY <2>3, <3>1, <3>2, <3>3, <1>9, <1>12
  <2>4. QED
    BY <2>1, <2>2, <2>3
<1>18. Coherent(O \ {c}, n - 1, B1, P1)
  BY <1>13, <1>15, <1>16, <1>17 DEF Coherent
<1>19. QED
  BY <1>11, <1>12, <1>18 DEF B1, P1, BucketsWithout, PositionsWithout

-----------------------------------------------------------------------------
(* The creator index.                                                      *)

Records == [creator: Creators \cup {None}, pending_creator: Creators \cup {None},
            is_active: BOOLEAN]

\* The campaigns a creator owns.
Owned(u) == {c \in CampaignIds : campaign[c].creator = u}

\* Ids are handed out in order; a campaign that exists has a creator.
IdsUsed ==
  \A c \in CampaignIds :
    IF c <= campaign_count THEN campaign[c].creator \in Creators
                           ELSE campaign[c] = NoCampaign

ListAt(u) ==
  /\ Coherent(Owned(u), count[u], bucket[u], position[u])
  /\ Owned(u) = {c \in CampaignIds : creator_index[c] = u}

OwnInv == TypeOK /\ IdsUsed /\ \A u \in Creators : ListAt(u)

\* IndexInv says this of every creator.
LEMMA IndexByCreator == IndexInv <=> TypeOK /\ \A u \in Creators : ListAt(u)
BY DEF IndexInv, IndexCoherent, ListAt, Coherent, Owned

\* The types of one creator's entries.
LEMMA ListTypes ==
  ASSUME TypeOK, NEW u \in Creators
  PROVE  /\ Owned(u) \in SUBSET CampaignIds
         /\ count[u] \in 0..MaxCampaigns
         /\ bucket[u] \in Buckets
         /\ position[u] \in [CampaignIds -> Slots]
         /\ count[u] \div Size \in BucketIds
<1>1. /\ Owned(u) \in SUBSET CampaignIds
      /\ count[u] \in 0..MaxCampaigns
      /\ bucket[u] \in Buckets
      /\ position[u] \in [CampaignIds -> Slots]
  BY DEF TypeOK, Owned, Buckets, Slots
<1>2. Size \in Nat \ {0}
  BY DEF Size
<1>3. count[u] \div Size \in Nat /\ count[u] \div Size <= MaxCampaigns \div Size
  BY <1>1, <1>2, DivMonotone
<1>4. MaxCampaigns \div Size \in Int
  BY <1>2
<1>5. QED
  BY <1>1, <1>3, <1>4 DEF BucketIds

\* The empty contract.
LEMMA OwnInit == ASSUME Init PROVE OwnInv
<1>1. TypeOK
  <2>0. 0 \in 0..MaxCampaigns
    OBVIOUS
  <2>1. /\ paused \in BOOLEAN /\ campaign_count \in 0..MaxCampaigns
        /\ campaign \in [CampaignIds -> Records]
        /\ count \in [Creators -> 0..MaxCampaigns]
    BY <2>0 DEF Init, NoCampaign, Records
  <2>2. <<>> \in Seq(CampaignIds)
    OBVIOUS
  <2>3. bucket \in [Creators -> [BucketIds -> Seq(CampaignIds)]]
    BY <2>2 DEF Init
  <2>4. /\ position \in [Creators -> [CampaignIds -> {<<>>} \cup (BucketIds \X Nat)]]
        /\ creator_index \in [CampaignIds -> Creators \cup {None}]
    BY DEF Init
  <2>5. QED
    BY <2>1, <2>3, <2>4 DEF TypeOK, Records
<1>2. IdsUsed
  BY DEF Init, IdsUsed, CampaignIds
<1>3. ASSUME NEW u \in Creators
      PROVE  ListAt(u)
  <2>1. Owned(u) = {} /\ {c \in CampaignIds : creator_index[c] = u} = {}
    BY DEF Owned, Init, NoCampaign
  <2>2. count[u] = 0 /\ \A c \in CampaignIds : position[u][c] = <<>>
    BY DEF Init
  <2>3. \A i \in BucketIds : DOMAIN bucket[u][i] = {}
    <3>1. \A i \in BucketIds : bucket[u][i] = <<>>
      BY DEF Init
    <3>2. DOMAIN <<>> = {}
      OBVIOUS
    <3>3. QED
      BY <3>1, <3>2
  <2>4. QED
    BY <2>1, <2>2, <2>3, FS_EmptySet DEF ListAt, Coherent
<1>4. QED
  BY <1>1, <1>2, <1>3 DEF OwnInv

\* Steps that change neither the index nor who owns what.
LEMMA OwnSame ==
  ASSUME OwnInv, UNCHANGED <<campaign_count, indexVars>>, paused' \in BOOLEAN,
         campaign' \in [CampaignIds -> Records],
         \A c \in CampaignIds : /\ campaign'[c].creator = campaign[c].creator
                                /\ campaign'[c] # campaign[c] => c <= campaign_count
  PROVE  OwnInv'
<1>1. TypeOK'
  BY DEF OwnInv, TypeOK, indexVars, Records
<1>2. IdsUsed'
  BY DEF OwnInv, IdsUsed
<1>3. \A u \in Creators : Owned(u)' = Owned(u)
  BY DEF Owned
<1>4. \A u \in Creators : ListAt(u)'
  BY <1>3 DEF OwnInv, ListAt, Coherent, indexVars
<1>5. QED
  BY <1>1, <1>2, <1>4 DEF OwnInv

\* create_campaign.
LEMMA OwnCreate ==
  ASSUME OwnInv, NEW u \in Creators, create_campaign(u)
  PROVE  OwnInv'
<1> DEFINE c   == campaign_count + 1
           idx == count[u] \div Size
           B1  == [bucket[u] EXCEPT ![idx] = Append(@, c)]
           P1  == [position[u] EXCEPT ![c] = <<idx, Len(bucket[u][idx])>>]
<1>1. TypeOK /\ IdsUsed /\ campaign_count \in Nat
  BY DEF OwnInv, TypeOK
<1>2. c \in CampaignIds /\ campaign[c] = NoCampaign
  BY <1>1 DEF create_campaign, IdsUsed
<1>3. /\ campaign_count' = c /\ paused' = paused
      /\ campaign' = [campaign EXCEPT ![c] = [creator |-> u, pending_creator |-> None,
                                              is_active |-> TRUE]]
      /\ count' = [count EXCEPT ![u] = count[u] + 1]
      /\ bucket' = [bucket EXCEPT ![u][idx] = Append(@, c)]
      /\ position' = [position EXCEPT ![u][c] = <<idx, Len(bucket[u][idx])>>]
      /\ creator_index' = [creator_index EXCEPT ![c] = u]
  BY DEF create_campaign, AppendTo
<1>4. \A w \in Creators : c \notin Owned(w)
  BY <1>2 DEF Owned, NoCampaign
<1> HIDE DEF c
<1>5. /\ campaign' \in [CampaignIds -> Records]
      /\ campaign'[c].creator = u
      /\ \A d \in CampaignIds \ {c} : campaign'[d] = campaign[d]
  BY <1>1, <1>2, <1>3 DEF TypeOK, Records
<1>6. /\ Owned(u)' = Owned(u) \cup {c}
      /\ \A w \in Creators \ {u} : Owned(w)' = Owned(w)
  BY <1>2, <1>4, <1>5 DEF Owned
<1>7. idx \in BucketIds
  BY <1>1, ListTypes
<1>8. /\ bucket'[u] = B1 /\ position'[u] = P1 /\ count'[u] = count[u] + 1
      /\ \A w \in Creators \ {u} : /\ bucket'[w] = bucket[w]
                                   /\ position'[w] = position[w]
                                   /\ count'[w] = count[w]
      /\ DOMAIN bucket' = Creators /\ bucket' = [w \in Creators |-> bucket'[w]]
      /\ DOMAIN position' = Creators /\ position' = [w \in Creators |-> position'[w]]
      /\ DOMAIN count' = Creators /\ count' = [w \in Creators |-> count'[w]]
  BY <1>1, <1>3 DEF TypeOK
<1> HIDE DEF idx
<1>9. /\ B1 \in Buckets /\ P1 \in [CampaignIds -> Slots]
      /\ Coherent(Owned(u) \cup {c}, count[u] + 1, B1, P1)
  <2>1. Coherent(Owned(u), count[u], bucket[u], position[u])
    BY DEF OwnInv, ListAt
  <2>2. c \in CampaignIds \ Owned(u)
    BY <1>2, <1>4
  <2>3. QED
    BY <2>1, <2>2, <1>1, <1>7, ListTypes, AppendId
<1> HIDE DEF B1, P1
<1>10. \A w \in Creators : Coherent(Owned(w)', count'[w], bucket'[w], position'[w])
  <2>1. \A w \in Creators \ {u} : Coherent(Owned(w), count[w], bucket[w], position[w])
    BY DEF OwnInv, ListAt
  <2>2. \A w \in Creators \ {u} : Coherent(Owned(w)', count'[w], bucket'[w], position'[w])
    BY <2>1, <1>6, <1>8
  <2>3. Coherent(Owned(u)', count'[u], bucket'[u], position'[u])
    BY <1>6, <1>8, <1>9
  <2>4. QED
    BY <2>2, <2>3
<1>11. \A w \in Creators : /\ bucket'[w] \in Buckets
                           /\ position'[w] \in [CampaignIds -> Slots]
                           /\ count'[w] \in 0..MaxCampaigns
  <2> SUFFICES ASSUME NEW w \in Creators
               PROVE  /\ bucket'[w] \in Buckets
                      /\ position'[w] \in [CampaignIds -> Slots]
                      /\ count'[w] \in 0..MaxCampaigns
    OBVIOUS
  <2>1. CASE w = u
    <3>1. Owned(u) \cup {c} \in SUBSET CampaignIds
      BY <1>1, <1>2, ListTypes
    <3>2. count[u] + 1 \in 0..MaxCampaigns
      BY <3>1, <1>9, IdsFinite DEF Coherent
    <3>3. QED
      BY <2>1, <3>2, <1>8, <1>9
  <2>2. CASE w # u
    BY <2>2, <1>1, <1>8, ListTypes
  <2>3. QED
    BY <2>1, <2>2
<1>12. /\ creator_index' \in [CampaignIds -> Creators \cup {None}]
       /\ \A d \in CampaignIds : creator_index'[d] = IF d = c THEN u ELSE creator_index[d]
  BY <1>1, <1>2, <1>3 DEF TypeOK
<1>13. TypeOK'
  <2>1. paused' \in BOOLEAN /\ campaign_count' \in 0..MaxCampaigns
    BY <1>1, <1>2, <1>3 DEF TypeOK, CampaignIds
  <2>2. /\ bucket' \in [Creators -> [BucketIds -> Seq(CampaignIds)]]
        /\ position' \in [Creators -> [CampaignIds -> {<<>>} \cup (BucketIds \X Nat)]]
        /\ count' \in [Creators -> 0..MaxCampaigns]
    BY <1>8, <1>11 DEF Buckets, Slots
  <2>3. QED
    BY <2>1, <2>2, <1>5, <1>12 DEF TypeOK, Records
<1>14. IdsUsed'
  BY <1>1, <1>2, <1>3, <1>5 DEF IdsUsed, CampaignIds, c
<1>15. \A w \in Creators : Owned(w)' = {d \in CampaignIds : creator_index'[d] = w}
  <2>1. \A w \in Creators : Owned(w) = {d \in CampaignIds : creator_index[d] = w}
    BY DEF OwnInv, ListAt
  <2>2. QED
    BY <2>1, <1>2, <1>4, <1>6, <1>12
<1>16. QED
  BY <1>10, <1>13, <1>14, <1>15 DEF OwnInv, ListAt

\* Updating the record of one campaign.
LEMMA RecordUpdates ==
  ASSUME NEW r \in Records, NEW x \in Creators \cup {None}
  PROVE  /\ [r EXCEPT !.pending_creator = x] \in Records
         /\ [r EXCEPT !.pending_creator = x].creator = r.creator
         /\ [r EXCEPT !.is_active = FALSE] \in Records
         /\ [r EXCEPT !.is_active = FALSE].creator = r.creator
         /\ [r EXCEPT !.creator = x, !.pending_creator = None] \in Records
         /\ [r EXCEPT !.creator = x, !.pending_creator = None].creator = x
BY DEF Records

\* Replacing one record leaves the others.
LEMMA CampaignUpdate ==
  ASSUME TypeOK, NEW c \in CampaignIds
  PROVE  /\ campaign[c] \in Records
         /\ \A r \in Records :
              /\ [campaign EXCEPT ![c] = r] \in [CampaignIds -> Records]
              /\ [campaign EXCEPT ![c] = r][c] = r
              /\ \A d \in CampaignIds \ {c} : [campaign EXCEPT ![c] = r][d] = campaign[d]
BY DEF TypeOK, Records

\* A change of a campaign's flag or nominee.
LEMMA OwnField ==
  ASSUME OwnInv, NEW c \in CampaignIds, c <= campaign_count,
         NEW r \in Records, r.creator = campaign[c].creator,
         campaign' = [campaign EXCEPT ![c] = r], paused' = paused,
         UNCHANGED <<campaign_count, indexVars>>
  PROVE  OwnInv'
<1>1. TypeOK /\ paused' \in BOOLEAN
  BY DEF OwnInv, TypeOK
<1>2. /\ campaign' \in [CampaignIds -> Records] /\ campaign'[c] = r
      /\ \A d \in CampaignIds \ {c} : campaign'[d] = campaign[d]
  BY <1>1, CampaignUpdate
<1>3. \A d \in CampaignIds : /\ campaign'[d].creator = campaign[d].creator
                             /\ campaign'[d] # campaign[d] => d <= campaign_count
  BY <1>2
<1>4. QED
  BY <1>1, <1>2, <1>3, OwnSame

\* accept_campaign_transfer: swap removal from the old list, append to the new one.
LEMMA OwnAccept ==
  ASSUME OwnInv, NEW c \in CampaignIds, accept_campaign_transfer(c)
  PROVE  OwnInv'
<1>1. TypeOK /\ IdsUsed
  BY DEF OwnInv
<1>2. /\ campaign[c].is_active
      /\ campaign[c].pending_creator # None
      /\ campaign[c].pending_creator # campaign[c].creator
  BY DEF accept_campaign_transfer
<1>3. /\ c <= campaign_count
      /\ campaign[c].creator \in Creators /\ campaign[c].pending_creator \in Creators
  <2>1. campaign[c] # NoCampaign
    BY <1>2 DEF NoCampaign
  <2>2. c <= campaign_count /\ campaign[c].creator \in Creators
    BY <1>1, <2>1 DEF IdsUsed
  <2>3. campaign[c] \in Records
    BY <1>1, CampaignUpdate
  <2>4. QED
    BY <1>2, <2>2, <2>3 DEF Records
<1> PICK old \in Creators : old = campaign[c].creator
  BY <1>3
<1> PICK new \in Creators : new = campaign[c].pending_creator
  BY <1>3
<1> DEFINE slot == position[old][c]
           from == bucket[old][slot[1]]
           last == from[Len(from)]
           rest == Front([from EXCEPT ![slot[2] + 1] = last])
           idx  == count[new] \div Size
           B0   == [bucket[old] EXCEPT ![slot[1]] = rest]
           P0   == [position[old] EXCEPT ![last] = slot, ![c] = <<>>]
           B1   == [bucket[new] EXCEPT ![idx] = Append(@, c)]
           P1   == [position[new] EXCEPT ![c] = <<idx, Len(bucket[new][idx])>>]
           buckets   == [bucket EXCEPT ![old][slot[1]] = rest]
           positions == [position EXCEPT ![old][last] = slot, ![old][c] = <<>>]
<1>0. /\ new # old
      /\ count' = [count EXCEPT ![old] = @ - 1, ![new] = @ + 1]
      /\ bucket' = [buckets EXCEPT ![new][idx] = Append(@, c)]
      /\ position' = [positions EXCEPT ![new][c] = <<idx, Len(buckets[new][idx])>>]
      /\ creator_index' = [creator_index EXCEPT ![c] = new]
      /\ campaign' = [campaign EXCEPT ![c].creator = new, ![c].pending_creator = None]
      /\ paused' = paused /\ campaign_count' = campaign_count
  BY DEF accept_campaign_transfer, AppendTo, SwapRemovedPositions, CountAfterTransfer
<1> HIDE DEF slot, from, last, rest, idx, buckets, positions, B0, P0, B1, P1
<1>4. /\ campaign' \in [CampaignIds -> Records]
      /\ campaign'[c].creator = new
      /\ \A d \in CampaignIds \ {c} : campaign'[d] = campaign[d]
  <2> DEFINE r == [campaign[c] EXCEPT !.creator = new, !.pending_creator = None]
  <2>1. campaign' = [campaign EXCEPT ![c] = r]
    BY <1>0
  <2>2. r \in Records /\ r.creator = new
    <3>1. campaign[c] \in Records /\ new \in Creators \cup {None}
      BY <1>1, CampaignUpdate
    <3>2. QED
      BY <3>1, RecordUpdates
  <2> HIDE DEF r
  <2>3. QED
    BY <2>1, <2>2, <1>1, CampaignUpdate
<1>5. /\ c \in Owned(old) /\ c \notin Owned(new)
      /\ Owned(old)' = Owned(old) \ {c}
      /\ Owned(new)' = Owned(new) \cup {c}
      /\ \A w \in Creators \ {old, new} : Owned(w)' = Owned(w)
  BY <1>0, <1>3, <1>4 DEF Owned
<1>6. /\ bucket \in [Creators -> Buckets] /\ position \in [Creators -> [CampaignIds -> Slots]]
      /\ count \in [Creators -> 0..MaxCampaigns]
  BY <1>1 DEF TypeOK, Buckets, Slots
<1>7. /\ B0 \in Buckets /\ P0 \in [CampaignIds -> Slots]
      /\ Coherent(Owned(old) \ {c}, count[old] - 1, B0, P0)
  <2>1. Coherent(Owned(old), count[old], bucket[old], position[old])
    BY <1>3 DEF OwnInv, ListAt
  <2>2. /\ Owned(old) \in SUBSET CampaignIds /\ bucket[old] \in Buckets
        /\ position[old] \in [CampaignIds -> Slots]
    BY <1>1, ListTypes
  <2>3. /\ B0 = BucketsWithout(bucket[old], position[old], c)
        /\ P0 = PositionsWithout(bucket[old], position[old], c)
    BY DEF B0, P0, BucketsWithout, PositionsWithout, rest, last, from, slot
  <2>4. QED
    BY <2>1, <2>2, <2>3, <1>5, RemoveId
<1>8. idx \in BucketIds
  BY <1>1, <1>3, ListTypes DEF idx
<1>9. /\ B1 \in Buckets /\ P1 \in [CampaignIds -> Slots]
      /\ Coherent(Owned(new) \cup {c}, count[new] + 1, B1, P1)
  <2>1. Coherent(Owned(new), count[new], bucket[new], position[new])
    BY <1>3 DEF OwnInv, ListAt
  <2>2. /\ Owned(new) \in SUBSET CampaignIds /\ bucket[new] \in Buckets
        /\ position[new] \in [CampaignIds -> Slots]
    BY <1>1, ListTypes
  <2> DEFINE O == Owned(new)
             B == bucket[new]
             P == position[new]
             n == count[new]
  <2>3. /\ O \in SUBSET CampaignIds /\ B \in Buckets /\ P \in [CampaignIds -> Slots]
        /\ Coherent(O, n, B, P) /\ c \in CampaignIds \ O
    BY <2>1, <2>2, <1>5
  <2> HIDE DEF O, B, P, n
  <2>4. /\ [B EXCEPT ![idx] = Append(@, c)] \in Buckets
        /\ [P EXCEPT ![c] = <<idx, Len(B[idx])>>] \in [CampaignIds -> Slots]
        /\ Coherent(O \cup {c}, n + 1, [B EXCEPT ![idx] = Append(@, c)],
                    [P EXCEPT ![c] = <<idx, Len(B[idx])>>])
    BY <2>3, <1>8, AppendId
  <2>5. QED
    BY <2>4 DEF B1, P1, O, B, P, n
<1>10. /\ buckets[old] = B0 /\ DOMAIN buckets = Creators
       /\ \A w \in Creators \ {old} : buckets[w] = bucket[w]
  BY <1>3, <1>6 DEF buckets, B0
<1>11. /\ positions[old] = P0 /\ DOMAIN positions = Creators
       /\ \A w \in Creators \ {old} : positions[w] = position[w]
  BY <1>3, <1>6 DEF positions, P0
<1>12. /\ bucket'[old] = B0 /\ bucket'[new] = B1
       /\ \A w \in Creators \ {old, new} : bucket'[w] = bucket[w]
       /\ bucket' = [w \in Creators |-> bucket'[w]]
  BY <1>0, <1>3, <1>10 DEF B1
<1>13. /\ position'[old] = P0 /\ position'[new] = P1
       /\ \A w \in Creators \ {old, new} : position'[w] = position[w]
       /\ position' = [w \in Creators |-> position'[w]]
  <2>1. buckets[new] = bucket[new]
    BY <1>0, <1>3, <1>10
  <2>2. position' = [positions EXCEPT ![new][c] = <<idx, Len(bucket[new][idx])>>]
    BY <1>0, <2>1
  <2>3. QED
    BY <1>0, <1>3, <1>11, <2>2 DEF P1
<1>14. /\ count'[old] = count[old] - 1 /\ count'[new] = count[new] + 1
       /\ \A w \in Creators \ {old, new} : count'[w] = count[w]
       /\ count' = [w \in Creators |-> count'[w]]
  BY <1>0, <1>3, <1>6
<1>15. \A w \in Creators : Coherent(Owned(w)', count'[w], bucket'[w], position'[w])
  <2>1. \A w \in Creators \ {old, new} : Coherent(Owned(w), count[w], bucket[w], position[w])
    BY DEF OwnInv, ListAt
  <2>2. \A w \in Creators \ {old, new} :
          Coherent(Owned(w)', count'[w], bucket'[w], position'[w])
    BY <2>1, <1>5, <1>12, <1>13, <1>14
  <2>3. /\ Coherent(Owned(old)', count'[old], bucket'[old], position'[old])
        /\ Coherent(Owned(new)', count'[new], bucket'[new], position'[new])
    BY <1>5, <1>7, <1>9, <1>12, <1>13, <1>14
  <2>4. QED
    BY <2>2, <2>3
<1>16. \A w \in Creators : bucket'[w] \in Buckets /\ position'[w] \in [CampaignIds -> Slots]
  BY <1>6, <1>7, <1>9, <1>12, <1>13
<1>17. \A w \in Creators : count'[w] \in 0..MaxCampaigns
  <2>1. \A w \in Creators : Owned(w)' \in SUBSET CampaignIds
    BY DEF Owned
  <2>2. \A w \in Creators : count'[w] = Cardinality(Owned(w)')
    BY <1>15 DEF Coherent
  <2>3. QED
    BY <2>1, <2>2, IdsFinite
<1>18. /\ creator_index' \in [CampaignIds -> Creators \cup {None}]
       /\ \A d \in CampaignIds : creator_index'[d] = IF d = c THEN new ELSE creator_index[d]
  BY <1>1, <1>0, <1>3 DEF TypeOK
<1>19. TypeOK'
  <2>1. paused' \in BOOLEAN /\ campaign_count' \in 0..MaxCampaigns
    BY <1>1, <1>0 DEF TypeOK
  <2>2. /\ bucket' \in [Creators -> [BucketIds -> Seq(CampaignIds)]]
        /\ position' \in [Creators -> [CampaignIds -> {<<>>} \cup (BucketIds \X Nat)]]
        /\ count' \in [Creators -> 0..MaxCampaigns]
    BY <1>12, <1>13, <1>14, <1>16, <1>17 DEF Buckets, Slots
  <2>3. QED
    BY <2>1, <2>2, <1>4, <1>18 DEF TypeOK, Records
<1>20. IdsUsed'
  BY <1>1, <1>0, <1>3, <1>4 DEF IdsUsed
<1>21. \A w \in Creators : Owned(w)' = {d \in CampaignIds : creator_index'[d] = w}
  <2>1. \A w \in Creators : Owned(w) = {d \in CampaignIds : creator_index[d] = w}
    BY DEF OwnInv, ListAt
  <2>2. QED
    BY <2>1, <1>0, <1>3, <1>5, <1>18
<1>22. QED
  BY <1>15, <1>19, <1>20, <1>21 DEF OwnInv, ListAt

\* Every step of the contract.
LEMMA OwnNext == ASSUME OwnInv, [Next]_vars PROVE OwnInv'
<1> USE DEF indexVars
<1>1. TypeOK /\ IdsUsed
  BY DEF OwnInv
<1>2. ASSUME NEW c \in CampaignIds, campaign[c].is_active \/ campaign[c].pending_creator # None
      PROVE  c <= campaign_count
  BY <1>1, <1>2 DEF IdsUsed, NoCampaign
<1>3. ASSUME NEW u \in Creators, create_campaign(u)
      PROVE  OwnInv'
  BY <1>3, OwnCreate
<1>4. ASSUME NEW c \in CampaignIds, NEW u \in Heirs, initiate_campaign_transfer(c, u)
      PROVE  OwnInv'
  <2> DEFINE r == [campaign[c] EXCEPT !.pending_creator = u]
  <2>1. /\ campaign' = [campaign EXCEPT ![c] = r] /\ paused' = paused
        /\ UNCHANGED <<campaign_count, indexVars>> /\ c <= campaign_count
    BY <1>2, <1>4 DEF initiate_campaign_transfer
  <2>2. r \in Records /\ r.creator = campaign[c].creator
    BY <1>1, RecordUpdates, CampaignUpdate
  <2> HIDE DEF r, indexVars
  <2>3. QED
    BY <2>1, <2>2, OwnField
<1>5. ASSUME NEW c \in CampaignIds, cancel_campaign_transfer(c)
      PROVE  OwnInv'
  <2> DEFINE r == [campaign[c] EXCEPT !.pending_creator = None]
  <2>1. /\ campaign' = [campaign EXCEPT ![c] = r] /\ paused' = paused
        /\ UNCHANGED <<campaign_count, indexVars>> /\ c <= campaign_count
    BY <1>2, <1>5 DEF cancel_campaign_transfer
  <2>2. r \in Records /\ r.creator = campaign[c].creator
    BY <1>1, RecordUpdates, CampaignUpdate
  <2> HIDE DEF r, indexVars
  <2>3. QED
    BY <2>1, <2>2, OwnField
<1>6. ASSUME NEW c \in CampaignIds, close_campaign(c)
      PROVE  OwnInv'
  <2> DEFINE r == [campaign[c] EXCEPT !.is_active = FALSE]
  <2>1. /\ campaign' = [campaign EXCEPT ![c] = r] /\ paused' = paused
        /\ UNCHANGED <<campaign_count, indexVars>> /\ c <= campaign_count
    BY <1>2, <1>6 DEF close_campaign
  <2>2. r \in Records /\ r.creator = campaign[c].creator
    BY <1>1, RecordUpdates, CampaignUpdate
  <2> HIDE DEF r, indexVars
  <2>3. QED
    BY <2>1, <2>2, OwnField
<1>7. CASE OwnershipNext
  BY <1>4, <1>5, <1>6, <1>7, OwnAccept DEF OwnershipNext
<1>8. CASE set_paused \/ QueryNext \/ UNCHANGED vars
  <2>1. UNCHANGED <<campaign_count, campaign, indexVars>> /\ paused' \in BOOLEAN
    BY <1>1, <1>8 DEF set_paused, QueryNext, get_creator_campaigns, query_step,
                      query_return, vars, TypeOK
  <2>2. campaign' \in [CampaignIds -> Records]
    BY <1>1, <2>1 DEF TypeOK, Records
  <2> HIDE DEF indexVars
  <2>3. QED
    BY <2>1, <2>2, OwnSame
<1>9. QED
  BY <1>3, <1>7, <1>8 DEF Next

\* In every reachable state each creator's buckets, counter and position records
\* describe the campaigns that creator owns, through creations, swap removals of
\* accepted transfers and queries: what IndexHolds and QueriesExact rest on.
THEOREM OwnInvariant == Spec => []OwnInv
<1>1. OwnInv /\ [Next]_vars => OwnInv'
  BY OwnNext
<1>2. QED
  BY <1>1, OwnInit, PTL DEF Spec

\* After any sequence of creations and transfers, for every number of creators and
\* every bucket size, each creator's buckets hold exactly the campaigns the creator
\* owns, at the positions on record: swap removal in accept_campaign_transfer never
\* leaves a stale position.
THEOREM IndexHolds == Spec => []IndexInv
<1>1. OwnInv => IndexInv
  BY IndexByCreator DEF OwnInv
<1>2. QED
  BY <1>1, OwnInvariant, PTL

\* A client that walks the lists only uses the contract.
THEOREM ListingUsesIndex == ListSpec => Spec
<1>1. [ListNext]_listVars => [Next]_vars
  BY DEF ListNext, listVars, Next, OwnershipNext, start_walk, list_campaigns,
         list_active_campaigns, end_walk
<1>2. QED
  BY <1>1, PTL DEF ListSpec, ListInit, Spec

\* The catalogue is an extension of the creator index: whatever create_campaign,
\* update_campaign and add_campaign_tag write besides, the index behaves as specified.
THEOREM CatalogueUsesIndex == CatSpec => Spec
<1>1. [CatNext]_catVars => [Next]_vars
  BY DEF CatNext, catVars, Next, create, update_campaign, add_campaign_tag
<1>2. QED
  BY <1>1, PTL DEF CatSpec, CatInit, Spec

-----------------------------------------------------------------------------
(* Lists without gaps.                                                     *)

\* The smaller of two numbers, but not less than zero: the length of a bucket in a
\* list without gaps, and the number of entries an iteration reads.
Clip(x, y) == Max({0, Min({x, y})})

\* What Clip computes.
LEMMA ClipValue ==
  ASSUME NEW x \in Int, NEW y \in Int
  PROVE  /\ Clip(x, y) \in Nat
         /\ x <= 0 \/ y <= 0 => Clip(x, y) = 0
         /\ x > 0 /\ y > 0 => Clip(x, y) = IF x <= y THEN x ELSE y
<1>1. Min({x, y}) = IF x <= y THEN x ELSE y
  BY MinPair
<1>2. PICK w \in Int : w = Min({x, y})
  BY <1>1
<1>3. PICK z \in Int : z = 0
  OBVIOUS
<1>4. Max({z, w}) = IF z >= w THEN z ELSE w
  BY MaxPair
<1>5. Clip(x, y) = Max({z, w})
  BY <1>2, <1>3 DEF Clip
<1>6. QED
  BY <1>1, <1>2, <1>3, <1>4, <1>5

\* How full a bucket is when a list of n entries has no gaps.
LEMMA FillLevel ==
  ASSUME NEW n \in Nat, NEW i \in Nat, NEW size \in Nat \ {0}
  PROVE  /\ i * size \in Nat
         /\ Clip(size, n - i * size) =
              IF n <= i * size THEN 0
              ELSE IF n >= i * size + size THEN size ELSE n - i * size
<1>1. PICK m \in Nat : m = i * size
  OBVIOUS
<1>2. PICK x \in Int : x = size
  OBVIOUS
<1>3. PICK y \in Int : y = n - m
  OBVIOUS
<1>4. /\ x <= 0 \/ y <= 0 => Clip(x, y) = 0
      /\ x > 0 /\ y > 0 => Clip(x, y) = IF x <= y THEN x ELSE y
  BY ClipValue
<1>5. QED
  BY <1>1, <1>2, <1>3, <1>4

\* The ids of a list cut into buckets of the given size.
Joined(B, n, size) == [p \in 1..n |-> B[(p - 1) \div size][((p - 1) % size) + 1]]

\* The buckets 0..(m \div size) of such a list: all full, then one partly, then none.
Filled(B, n, m, size) ==
  \A i \in 0..(m \div size) : Len(B[i]) = Clip(size, n - i * size)

\* Position a of a list is slot j of bucket q.
At(a, size, q, j) == q \in Nat /\ j \in 1..size /\ a = size * q + j

\* Where the entry at a position of a list without gaps is found.
LEMMA EntryAt ==
  ASSUME NEW n \in Nat, NEW size \in Nat \ {0}, NEW m \in Nat, n <= m,
         NEW B, Filled(B, n, m, size),
         NEW a \in 1..n, NEW q, NEW j, At(a, size, q, j)
  PROVE  /\ q \in 0..(m \div size)
         /\ j <= Len(B[q])
         /\ Joined(B, n, size)[a] = B[q][j]
<1>0. q \in Nat /\ j \in 1..size /\ a = size * q + j
  BY DEF At
<1>1. PICK w \in Nat : w = size * q
  BY <1>0
<1>2. w + j \in 1..n /\ w + j - 1 \in Nat
  BY <1>0, <1>1
<1>3. (w + j - 1) \div size = q /\ (w + j - 1) % size = j - 1
  <2> PICK x \in Nat : x = w + j - 1
    BY <1>2
  <2>1. size * q <= x /\ x < size * q + size /\ x - size * q = j - 1
    BY <1>0, <1>1
  <2>2. x \div size = q /\ x % size = x - size * q
    BY <2>1, <1>0, DivUnique
  <2>3. QED
    BY <2>1, <2>2
<1>4. q \in 0..(m \div size)
  <2>1. w + j - 1 <= m
    BY <1>0, <1>2
  <2>2. (w + j - 1) \div size <= m \div size /\ m \div size \in Int
    BY <2>1, <1>2, DivMonotone
  <2>3. QED
    BY <2>2, <1>0, <1>3
<1>5. Len(B[q]) = IF n <= w THEN 0 ELSE IF n >= w + size THEN size ELSE n - w
  <2>1. Len(B[q]) = Clip(size, n - q * size)
    BY <1>4 DEF Filled
  <2>2. q * size = w
    BY <1>0, <1>1
  <2>3. Clip(size, n - q * size) = IF n <= q * size THEN 0
          ELSE IF n >= q * size + size THEN size ELSE n - q * size
    BY <1>0, FillLevel
  <2>4. QED
    BY <2>1, <2>2, <2>3
<1>6. j <= Len(B[q])
  BY <1>0, <1>1, <1>2, <1>5
<1>7. Joined(B, n, size)[a] = B[q][j]
  <2>1. PICK p \in 1..n : p = w + j /\ p = a
    BY <1>0, <1>1
  <2>2. Joined(B, n, size)[p] = B[(p - 1) \div size][((p - 1) % size) + 1]
    BY DEF Joined
  <2>3. p - 1 = w + j - 1
    BY <2>1, <1>0
  <2>4. (p - 1) \div size = q /\ (p - 1) % size = j - 1
    BY <2>3, <1>3
  <2>5. (j - 1) + 1 = j
    BY <1>0
  <2>6. QED
    BY <2>1, <2>2, <2>4, <2>5
<1>8. QED
  BY <1>4, <1>6, <1>7

\* Every position of the list has its bucket and slot.
LEMMA SplitPosition ==
  ASSUME NEW p \in Nat \ {0}, NEW size \in Nat \ {0}
  PROVE  \E q, j : At(p, size, q, j)
<1> DEFINE q == (p - 1) \div size
           r == (p - 1) % size
<1>1. q \in Nat /\ r \in 0..(size - 1) /\ p - 1 = size * q + r
  OBVIOUS
<1> HIDE DEF q, r
<1>2. r + 1 \in 1..size /\ p = size * q + (r + 1)
  BY <1>1
<1>3. At(p, size, q, r + 1)
  BY <1>1, <1>2 DEF At
<1>4. QED
  BY <1>3

\* Position p of the list is an entry of one of its buckets.
Found(B, n, m, size, p) ==
  \E q, j : /\ q \in 0..(m \div size) /\ j \in Nat /\ 1 <= j /\ j <= Len(B[q])
            /\ Joined(B, n, size)[p] = B[q][j]

\* Entry p of a filled list lies where the walk looks for it.
LEMMA EntryFound ==
  ASSUME NEW n \in Nat, NEW size \in Nat \ {0}, NEW m \in Nat, n <= m,
         NEW B, Filled(B, n, m, size), NEW p \in 1..n
  PROVE  Found(B, n, m, size, p)
<1>1. PICK q, j : At(p, size, q, j)
  <2>1. p \in Nat \ {0}
    OBVIOUS
  <2>2. QED
    BY <2>1, SplitPosition
<1>2. /\ q \in 0..(m \div size) /\ j <= Len(B[q])
      /\ Joined(B, n, size)[p] = B[q][j]
  BY <1>1, EntryAt
<1>3. j \in Nat /\ 1 <= j
  BY <1>1 DEF At
<1>4. QED
  BY <1>2, <1>3 DEF Found

\* The buckets hold members of S.
Holds(B, m, size, S) == \A i \in 0..(m \div size) : B[i] \in Seq(S)

\* The list as a sequence.
LEMMA JoinedType ==
  ASSUME NEW n \in Nat, NEW size \in Nat \ {0}, NEW m \in Nat, n <= m,
         NEW S, NEW B, Filled(B, n, m, size), Holds(B, m, size, S)
  PROVE  /\ Joined(B, n, size) \in Seq(S)
         /\ Len(Joined(B, n, size)) = n
         /\ DOMAIN Joined(B, n, size) = 1..n
<1>0. ASSUME NEW p \in 1..n
      PROVE  Found(B, n, m, size, p)
  BY EntryFound
<1>1. ASSUME NEW p \in 1..n
      PROVE  Joined(B, n, size)[p] \in S
  <2>1. PICK q, j : /\ q \in 0..(m \div size) /\ j \in Nat /\ 1 <= j /\ j <= Len(B[q])
                    /\ Joined(B, n, size)[p] = B[q][j]
    BY <1>0 DEF Found
  <2>2. B[q] \in Seq(S) /\ j \in 1..Len(B[q])
    BY <2>1 DEF Holds
  <2>3. QED
    BY <2>1, <2>2
<1>2. Joined(B, n, size) = [p \in 1..n |-> Joined(B, n, size)[p]]
  BY DEF Joined
<1>3. Joined(B, n, size) \in [1..n -> S]
  BY <1>1, <1>2
<1>4. QED
  BY <1>3

-----------------------------------------------------------------------------
(* Creator queries.                                                        *)

Queries == [creator: Creators \cup {None}, start: Nat, position: Nat, end: Nat,
            page: Seq(CampaignIds)]

\* s is the part of J behind position st.
IsSlice(s, J, st) == \A k \in 1..Len(s) : s[k] = J[st + k]

\* The query has read its list from where it started to where it is.
SliceRead ==
  /\ query.start <= query.position /\ query.position <= query.end
  /\ Len(query.page) = query.position - query.start
  /\ IsSlice(query.page, Stored(query.creator), query.start)

QueryInv ==
  /\ query \in Queries
  /\ ~Idle => /\ query.end <= count[query.creator]
              /\ Dense(query.creator) => SliceRead

\* Stored and Dense in terms of buckets of any size.
LEMMA StoredJoined ==
  ASSUME TypeOK, NEW u \in Creators
  PROVE  /\ Size \in Nat \ {0} /\ count[u] \in Nat /\ count[u] <= MaxCampaigns
         /\ bucket[u] \in [0..(MaxCampaigns \div Size) -> Seq(CampaignIds)]
         /\ Stored(u) = Joined(bucket[u], count[u], Size)
         /\ Dense(u) <=> Filled(bucket[u], count[u], MaxCampaigns, Size)
<1>1. Size \in Nat \ {0} /\ count[u] \in Nat /\ count[u] <= MaxCampaigns
  BY ListTypes DEF Size
<1>2. bucket[u] \in [0..(MaxCampaigns \div Size) -> Seq(CampaignIds)]
  BY ListTypes DEF Buckets, BucketIds
<1>3. Stored(u) = Joined(bucket[u], count[u], Size)
  BY DEF Stored, Joined
<1>4. QED
  BY <1>1, <1>2, <1>3 DEF Dense, BucketIds, Clip, Filled

\* The part of a sequence behind its first x entries.
LEMMA SlicePart ==
  ASSUME NEW T, NEW s \in Seq(T), NEW x \in Nat, NEW v \in Nat, x + v <= Len(s)
  PROVE  /\ SubSeq(s, x + 1, x + v) \in Seq(T)
         /\ Len(SubSeq(s, x + 1, x + v)) = v
         /\ \A k \in 1..v : SubSeq(s, x + 1, x + v)[k] = s[x + k]
<1>1. /\ Len(SubSeq(s, x + 1, x + v)) = v
      /\ \A k \in 1..v : SubSeq(s, x + 1, x + v)[k] = s[x + k]
  OBVIOUS
<1>2. \A k \in 1..v : s[x + k] \in T
  OBVIOUS
<1>3. SubSeq(s, x + 1, x + v) = [k \in 1..v |-> s[x + k]]
  OBVIOUS
<1>4. QED
  BY <1>1, <1>2, <1>3

\* A page that is a slice of J stays one when the entries that follow are appended.
LEMMA ExtendSlice ==
  ASSUME NEW T, NEW page \in Seq(T), NEW t \in Seq(T), NEW J, NEW st \in Nat,
         IsSlice(page, J, st), IsSlice(t, J, st + Len(page))
  PROVE  /\ page \o t \in Seq(T) /\ Len(page \o t) = Len(page) + Len(t)
         /\ IsSlice(page \o t, J, st)
<1>1. /\ page \o t \in Seq(T) /\ Len(page \o t) = Len(page) + Len(t)
      /\ \A k \in 1..Len(page) : (page \o t)[k] = page[k]
      /\ \A k \in 1..Len(t) : (page \o t)[Len(page) + k] = t[k]
  OBVIOUS
<1>2. ASSUME NEW k \in 1..(Len(page) + Len(t)), k > Len(page)
      PROVE  (page \o t)[k] = J[st + k]
  <2>1. PICK i \in 1..Len(t) : k = Len(page) + i
    <3>1. k - Len(page) \in 1..Len(t) /\ k = Len(page) + (k - Len(page))
      BY <1>2
    <3>2. QED
      BY <3>1
  <2>2. st + Len(page) + i = st + k
    BY <2>1
  <2>3. QED
    BY <2>1, <2>2, <1>1 DEF IsSlice
<1>3. \A k \in 1..(Len(page) + Len(t)) : (page \o t)[k] = J[st + k]
  BY <1>1, <1>2 DEF IsSlice
<1>4. QED
  BY <1>1, <1>3 DEF IsSlice

\* The arithmetic of one iteration of the loop: in a list of n entries without gaps it
\* reads at least one entry of the bucket it is in, stops inside the page or at the end
\* of the bucket, and continues right behind what it has read.
LEMMA IterationArith ==
  ASSUME NEW S \in Nat \ {0}, NEW n \in Nat, NEW p \in Nat, NEW e \in Nat,
         p < e, e <= n,
         NEW q \in Nat, q = p \div S, NEW b \in Nat, b = q * S, NEW r \in Int, r = p - b,
         NEW l \in Nat, l = IF n <= b THEN 0 ELSE IF n >= b + S THEN S ELSE n - b
  PROVE  /\ r \in Nat /\ r + 1 \in 1..S /\ b + (r + 1) <= n
         /\ p = b + r /\ r + 1 <= l /\ l <= S /\ b + l <= n
<1>1. r \in 0..(S - 1)
  <2> DEFINE x == p % S
  <2>1. x \in 0..(S - 1) /\ p = S * q + x
    OBVIOUS
  <2> HIDE DEF x
  <2>2. S * q = b
    OBVIOUS
  <2>3. QED
    BY <2>1, <2>2
<1>2. QED
  BY <1>1

\* An entry of a list without gaps.
LEMMA DenseEntry ==
  ASSUME TypeOK, NEW u \in Creators, Dense(u),
         NEW a \in 1..count[u], NEW q, NEW j, At(a, Size, q, j)
  PROVE  /\ q \in 0..(MaxCampaigns \div Size)
         /\ Stored(u)[a] = bucket[u][q][j]
<1>1. /\ Size \in Nat \ {0} /\ count[u] \in Nat /\ count[u] <= MaxCampaigns
      /\ Filled(bucket[u], count[u], MaxCampaigns, Size)
      /\ Stored(u) = Joined(bucket[u], count[u], Size)
  BY StoredJoined
<1>2. /\ q \in 0..(MaxCampaigns \div Size)
      /\ Joined(bucket[u], count[u], Size)[a] = bucket[u][q][j]
  BY <1>1, EntryAt
<1>3. QED
  BY <1>1, <1>2

\* One iteration of the loop over a list without gaps.
LEMMA DenseStep ==
  ASSUME TypeOK, QueryInv, Dense(query.creator), query_step
  PROVE  SliceRead'
<1>1. PICK u \in Creators : u = query.creator
  BY DEF QueryInv, Queries, query_step, Idle
<1>2. PICK p \in Nat, st \in Nat, e \in Nat, page \in Seq(CampaignIds) :
        p = query.position /\ st = query.start /\ e = query.end /\ page = query.page
  BY DEF QueryInv, Queries
<1>3. PICK S \in Nat \ {0}, n \in Nat :
        S = Size /\ n = count[u] /\ n <= MaxCampaigns
  BY StoredJoined
<1>4. p < e /\ e <= n
  BY <1>1, <1>2, <1>3 DEF QueryInv, query_step
<1>5. /\ st <= p /\ Len(page) = p - st
      /\ IsSlice(page, Stored(u), st)
  BY <1>1, <1>2 DEF QueryInv, SliceRead, query_step
<1>6. /\ bucket[u] \in [0..(MaxCampaigns \div S) -> Seq(CampaignIds)]
      /\ Filled(bucket[u], n, MaxCampaigns, S)
      /\ Stored(u) = Joined(bucket[u], n, S)
  BY <1>1, <1>3, StoredJoined
<1>7. PICK q \in Nat, b \in Nat, r \in Int : q = p \div S /\ b = q * S /\ r = p - b
  <2>1. PICK q \in Nat : q = p \div S
    OBVIOUS
  <2>2. q * S \in Nat
    OBVIOUS
  <2>3. QED
    BY <2>1, <2>2
<1>8. \A j \in 1..S : b + j <= n =>
        /\ q \in 0..(MaxCampaigns \div S)
        /\ Stored(u)[b + j] = bucket[u][q][j]
  <2>1. S * q = b
    BY <1>7
  <2> SUFFICES ASSUME NEW j \in 1..S, b + j <= n
               PROVE  /\ q \in 0..(MaxCampaigns \div S)
                      /\ Stored(u)[b + j] = bucket[u][q][j]
    OBVIOUS
  <2>2. PICK x \in 1..n : x = b + j
    OBVIOUS
  <2>3. At(x, S, q, j)
    BY <2>1, <2>2 DEF At
  <2>4. Dense(u) /\ x \in 1..count[u] /\ At(x, Size, q, j)
    BY <2>3, <1>1, <1>3
  <2>5. /\ q \in 0..(MaxCampaigns \div Size)
        /\ Stored(u)[x] = bucket[u][q][j]
    BY <2>4, DenseEntry
  <2>6. QED
    BY <2>2, <2>5, <1>3
<1>9. PICK l \in Nat : l = IF n <= b THEN 0 ELSE IF n >= b + S THEN S ELSE n - b
  <2>1. (IF n <= b THEN 0 ELSE IF n >= b + S THEN S ELSE n - b) \in Nat
    OBVIOUS
  <2>2. QED
    BY <2>1
<1>10. /\ r \in Nat /\ r + 1 \in 1..S /\ b + (r + 1) <= n
       /\ p = b + r /\ r + 1 <= l /\ l <= S /\ b + l <= n
  BY <1>4, <1>7, <1>9, IterationArith
<1>11. /\ q \in 0..(MaxCampaigns \div S) /\ bucket[u][q] \in Seq(CampaignIds)
       /\ Len(bucket[u][q]) = l
  <2>1. q \in 0..(MaxCampaigns \div S)
    BY <1>8, <1>10
  <2>2. Len(bucket[u][q]) = Clip(S, n - q * S)
    BY <1>6, <2>1 DEF Filled
  <2>3. Clip(S, n - q * S) =
          IF n <= q * S THEN 0 ELSE IF n >= q * S + S THEN S ELSE n - q * S
    BY FillLevel
  <2>4. Len(bucket[u][q]) = l
    BY <2>2, <2>3, <1>7, <1>9
  <2>5. QED
    BY <2>1, <2>4, <1>6
<1>12. PICK v : v = Clip(l - r, e - p)
  OBVIOUS
<1>13. /\ v \in Nat \ {0} /\ r + v <= l /\ p + v <= e
       /\ NextPosition(p + v, b, r + v, l) = p + v
  <2>1. PICK x \in Int : x = l - r
    BY <1>10
  <2>2. PICK y \in Int : y = e - p
    OBVIOUS
  <2>3. x > 0 /\ y > 0 => Clip(x, y) = IF x <= y THEN x ELSE y
    BY ClipValue
  <2>4. v = Clip(x, y)
    BY <2>1, <2>2, <1>12
  <2>5. x > 0 /\ y > 0
    BY <2>1, <2>2, <1>4, <1>10
  <2>6. /\ v \in Nat \ {0} /\ (v = l - r \/ v = e - p)
        /\ v <= l - r /\ v <= e - p
    BY <2>1, <2>2, <2>3, <2>4, <2>5
  <2>7. QED
    BY <2>6, <1>10 DEF NextPosition
<1>14. PICK t : t = SubSeq(bucket[u][q], r + 1, r + v)
  OBVIOUS
<1>15. /\ t \in Seq(CampaignIds) /\ Len(t) = v
       /\ \A k \in 1..v : t[k] = bucket[u][q][r + k]
  BY <1>10, <1>11, <1>13, <1>14, SlicePart
<1>16. /\ query'.page = page \o t /\ query'.position = p + v
       /\ query'.start = st /\ query'.end = e /\ query'.creator = u
       /\ UNCHANGED indexVars
  <2>1. query \in Queries
    BY DEF QueryInv
  <2>2. query' = [query EXCEPT !.page = page \o t,
                               !.position = NextPosition(p + v, b, r + v, l)]
    <3>1. /\ query.position = p /\ query.end = e /\ query.creator = u /\ query.page = page
          /\ Size = S /\ p \div S = q /\ q * S = b /\ p - b = r /\ Len(bucket[u][q]) = l
      BY <1>1, <1>2, <1>3, <1>7, <1>11
    <3>2. QED
      BY <3>1, <1>12, <1>14 DEF query_step, Clip
  <2>3. UNCHANGED indexVars
    BY DEF query_step
  <2>4. QED
    BY <2>1, <2>2, <2>3, <1>1, <1>2, <1>13 DEF Queries
<1>17. \A k \in 1..v : t[k] = Stored(u)[st + Len(page) + k]
  <2> SUFFICES ASSUME NEW k \in 1..v
               PROVE  t[k] = Stored(u)[st + Len(page) + k]
    OBVIOUS
  <2>1. PICK j \in 1..S : j = r + k /\ b + j <= n
    <3>1. r + k \in 1..S /\ b + (r + k) <= n
      BY <1>10, <1>13
    <3>2. QED
      BY <3>1
  <2>2. st + Len(page) + k = b + j
    BY <2>1, <1>5, <1>10
  <2>3. Stored(u)[b + j] = bucket[u][q][j]
    BY <2>1, <1>8
  <2>4. QED
    BY <2>1, <2>2, <2>3, <1>15
<1>18. Len(page \o t) = Len(page) + v /\ IsSlice(page \o t, Stored(u), st)
  <2>1. IsSlice(t, Stored(u), st + Len(page))
    BY <1>15, <1>17 DEF IsSlice
  <2>2. QED
    BY <2>1, <1>5, <1>15, ExtendSlice
<1>19. Stored(query.creator)' = Stored(u)
  <2>1. Stored(query.creator)' = [x \in 1..count'[query'.creator] |->
          bucket'[query'.creator][(x - 1) \div Size][((x - 1) % Size) + 1]]
    BY DEF Stored
  <2>2. count' = count /\ bucket' = bucket /\ query'.creator = u
    BY <1>16 DEF indexVars
  <2>3. QED
    BY <2>1, <2>2 DEF Stored
<1>20. Len(page) + v = (p + v) - st /\ st <= p + v
  BY <1>5, <1>13
<1>21. QED
  BY <1>13, <1>16, <1>18, <1>19, <1>20 DEF SliceRead

\* Any iteration: the query stays a query.
LEMMA QueryStepType ==
  ASSUME TypeOK, QueryInv, query_step
  PROVE  query' \in Queries /\ query'.creator = query.creator /\ query'.end = query.end
<1>1. PICK u \in Creators : u = query.creator
  BY DEF QueryInv, Queries, query_step, Idle
<1>2. PICK p \in Nat, e \in Nat, page \in Seq(CampaignIds) :
        p = query.position /\ e = query.end /\ page = query.page
  BY DEF QueryInv, Queries
<1>3. PICK S \in Nat \ {0}, n \in Nat : S = Size /\ n = count[u] /\ n <= MaxCampaigns
  BY StoredJoined
<1>4. p < e /\ e <= n
  BY <1>1, <1>2, <1>3 DEF QueryInv, query_step
<1>5. PICK q \in Nat, b \in Nat, r \in Nat : q = p \div S /\ b = q * S /\ r = p - b
  <2>1. PICK q \in Nat : q = p \div S
    OBVIOUS
  <2>2. S * q <= p
    BY <2>1
  <2>3. PICK b \in Nat : b = q * S
    OBVIOUS
  <2>4. b <= p
    BY <2>2, <2>3
  <2>5. p - b \in Nat
    BY <2>4
  <2>6. QED
    BY <2>1, <2>3, <2>5
<1>6. bucket[u][q] \in Seq(CampaignIds)
  <2>1. p <= MaxCampaigns
    BY <1>3, <1>4
  <2>2. q <= MaxCampaigns \div S /\ MaxCampaigns \div S \in Int
    BY <2>1, <1>5, DivMonotone
  <2>3. bucket[u] \in [0..(MaxCampaigns \div S) -> Seq(CampaignIds)]
    BY <1>1, <1>3, StoredJoined
  <2>4. QED
    BY <2>2, <2>3
<1>7. PICK l \in Nat : l = Len(bucket[u][q])
  BY <1>6
<1>8. PICK v \in Nat : v = Clip(l - r, e - p) /\ (v = 0 \/ r + v <= l)
  <2>1. PICK x \in Int : x = l - r
    OBVIOUS
  <2>2. PICK y \in Int : y = e - p
    OBVIOUS
  <2>3. /\ Clip(x, y) \in Nat
        /\ x <= 0 \/ y <= 0 => Clip(x, y) = 0
        /\ x > 0 /\ y > 0 => Clip(x, y) = IF x <= y THEN x ELSE y
    BY ClipValue
  <2>4. Clip(x, y) = 0 \/ r + Clip(x, y) <= l
    BY <2>1, <2>2, <2>3
  <2>5. QED
    BY <2>1, <2>2, <2>3, <2>4
<1>9. PICK t : t = SubSeq(bucket[u][q], r + 1, r + v)
  OBVIOUS
<1>10. t \in Seq(CampaignIds)
  <2>1. CASE v = 0
    <3>1. \A s \in Seq(CampaignIds) : SubSeq(s, r + 1, r) = <<>>
      OBVIOUS
    <3>2. QED
      BY <3>1, <2>1, <1>6, <1>9
  <2>2. CASE r + v <= l
    BY <2>2, <1>6, <1>7, <1>9, SlicePart
  <2>3. QED
    BY <2>1, <2>2, <1>8
<1>11. NextPosition(p + v, b, r + v, l) \in Nat
  BY <1>3 DEF NextPosition
<1>12. query' = [query EXCEPT !.page = page \o t,
                              !.position = NextPosition(p + v, b, r + v, l)]
  <2>1. /\ query.position = p /\ query.end = e /\ query.creator = u /\ query.page = page
        /\ Size = S /\ p \div S = q /\ q * S = b /\ p - b = r /\ Len(bucket[u][q]) = l
    BY <1>1, <1>2, <1>3, <1>5, <1>7
  <2>2. QED
    BY <2>1, <1>8, <1>9 DEF query_step, Clip
<1>13. page \o t \in Seq(CampaignIds)
  BY <1>10
<1>14. query \in Queries
  BY DEF QueryInv
<1>15. QED
  BY <1>11, <1>12, <1>13, <1>14 DEF Queries

\* Min and Max of two numbers one of which is the smaller.
LEMMA PageEndValue ==
  ASSUME NEW s \in Nat, NEW l \in Nat, NEW n \in Nat, s < n
  PROVE  /\ PageEnd(s, l, n) \in Nat /\ s <= PageEnd(s, l, n) /\ PageEnd(s, l, n) <= n
<1>1. PICK x \in Int : x = s + l
  OBVIOUS
<1>2. Min({x, n}) = IF x <= n THEN x ELSE n
  BY MinPair
<1>3. QED
  BY <1>1, <1>2 DEF PageEnd

\* Every step keeps the page under construction a slice of the list.
LEMMA QueryNextInv == ASSUME TypeOK, QueryInv, [Next]_vars PROVE QueryInv'
<1>1. ASSUME UNCHANGED query, Idle
      PROVE  QueryInv'
  BY <1>1 DEF QueryInv, Idle
<1>2. CASE (\E u \in Creators : create_campaign(u)) \/ OwnershipNext \/ set_paused
  BY <1>1, <1>2 DEF create_campaign, OwnershipNext, set_paused,
     initiate_campaign_transfer, accept_campaign_transfer, cancel_campaign_transfer,
     close_campaign
<1>3. ASSUME NEW u \in Creators, NEW start \in 0..(MaxCampaigns - 1), NEW limit \in Limits,
             get_creator_campaigns(u, start, limit)
      PROVE  QueryInv'
  <2>1. PICK l \in Nat : l = Min({limit, LIST_MAX_LIMIT})
    <3>1. limit \in Int /\ LIST_MAX_LIMIT \in Int
      OBVIOUS
    <3>2. Min({limit, LIST_MAX_LIMIT}) = IF limit <= LIST_MAX_LIMIT THEN limit
                                         ELSE LIST_MAX_LIMIT
      BY <3>1, MinPair
    <3>3. QED
      BY <3>2
  <2>2. start \in Nat /\ count[u] \in Nat /\ start < count[u]
    BY <1>3, StoredJoined DEF get_creator_campaigns
  <2>3. PICK e \in Nat : e = PageEnd(start, l, count[u]) /\ start <= e /\ e <= count[u]
    BY <2>2, PageEndValue
  <2>4. /\ query' = [creator |-> u, start |-> start, position |-> start, end |-> e,
                     page |-> <<>>]
        /\ count' = count
    BY <1>3, <2>1, <2>3 DEF get_creator_campaigns, indexVars
  <2>5. <<>> \in Seq(CampaignIds) /\ Len(<<>>) = 0
    OBVIOUS
  <2>6. query' \in Queries
    BY <2>2, <2>4, <2>5 DEF Queries
  <2>7. query'.end <= count'[query'.creator]
    BY <2>3, <2>4
  <2>8. /\ query'.start = start /\ query'.position = start /\ query'.end = e
        /\ Len(query'.page) = 0
    BY <2>4, <2>5
  <2>9. SliceRead'
    <3>1. IsSlice(query.page, Stored(query.creator), query.start)'
      BY <2>8 DEF IsSlice
    <3>2. QED
      BY <3>1, <2>2, <2>3, <2>8 DEF SliceRead
  <2>10. QED
    BY <2>6, <2>7, <2>9 DEF QueryInv
<1>4. CASE query_step
  <2>1. query' \in Queries /\ query'.creator = query.creator /\ query'.end = query.end
    BY <1>4, QueryStepType
  <2>2. UNCHANGED indexVars /\ ~Idle
    BY <1>4 DEF query_step
  <2>3. query'.end <= count'[query'.creator]
    BY <2>1, <2>2 DEF QueryInv, indexVars
  <2>4. Dense(query.creator)' <=> Dense(query.creator)
    BY <2>1, <2>2 DEF Dense, indexVars
  <2>5. Dense(query.creator)' => SliceRead'
    BY <2>4, <1>4, DenseStep
  <2>6. QED
    BY <2>1, <2>3, <2>5 DEF QueryInv
<1>5. CASE query_return
  <2>1. <<>> \in Seq(CampaignIds) /\ 0 \in Nat
    OBVIOUS
  <2>2. query' \in Queries /\ query'.creator = None
    BY <1>5, <2>1 DEF query_return, NoQuery, Queries
  <2>3. QED
    BY <2>2 DEF QueryInv, Idle
<1>6. CASE UNCHANGED vars
  <2>1. UNCHANGED query /\ UNCHANGED indexVars
    BY <1>6 DEF vars
  <2>2. Dense(query.creator)' <=> Dense(query.creator)
    BY <2>1 DEF Dense, indexVars
  <2>3. Stored(query.creator)' = Stored(query.creator)
    BY <2>1 DEF Stored, indexVars
  <2>4. SliceRead' <=> SliceRead
    BY <2>1, <2>3 DEF SliceRead, IsSlice
  <2>5. QED
    BY <2>1, <2>2, <2>4 DEF QueryInv, Idle, indexVars
<1>7. QED
  BY <1>2, <1>3, <1>4, <1>5, <1>6 DEF Next, QueryNext

\* A sequence is known by its length and its entries.
LEMMA SliceIs ==
  ASSUME NEW T, NEW J \in Seq(T), NEW s \in Seq(T), NEW st \in Nat, NEW e \in Nat,
         st <= e, e <= Len(J), Len(s) = e - st, IsSlice(s, J, st)
  PROVE  s = SubSeq(J, st + 1, e)
<1>1. PICK v \in Nat : v = e - st /\ st + v = e
  OBVIOUS
<1>2. /\ SubSeq(J, st + 1, st + v) \in Seq(T)
      /\ Len(SubSeq(J, st + 1, st + v)) = v
      /\ \A k \in 1..v : SubSeq(J, st + 1, st + v)[k] = J[st + k]
  BY <1>1, SlicePart
<1>3. Len(s) = v /\ \A k \in 1..v : s[k] = J[st + k]
  BY <1>1 DEF IsSlice
<1>4. PICK z \in Seq(T) : z = SubSeq(J, st + 1, st + v)
  BY <1>2
<1>5. Len(z) = Len(s) /\ \A k \in 1..Len(s) : s[k] = z[k]
  BY <1>2, <1>3, <1>4
<1>6. s = z
  BY <1>5
<1>7. QED
  BY <1>1, <1>4, <1>6

\* A finished page is the slice it was asked for.
LEMMA PagesExact == ASSUME TypeOK, QueryInv PROVE PageExact
<1> SUFFICES ASSUME ~Idle, query.position >= query.end, Dense(query.creator)
             PROVE  query.page = SubSeq(Stored(query.creator), query.start + 1,
                      Min({query.end, Len(Stored(query.creator))}))
  BY DEF PageExact
<1>1. PICK u \in Creators : u = query.creator
  BY DEF QueryInv, Queries, Idle
<1>2. PICK p \in Nat, st \in Nat, e \in Nat, page \in Seq(CampaignIds) :
        p = query.position /\ st = query.start /\ e = query.end /\ page = query.page
  BY DEF QueryInv, Queries
<1>3. st <= p /\ p <= e /\ Len(page) = p - st /\ IsSlice(page, Stored(u), st)
  BY <1>1, <1>2 DEF QueryInv, SliceRead
<1>4. p = e /\ Len(page) = e - st /\ st <= e
  BY <1>2, <1>3
<1>5. Stored(u) \in Seq(CampaignIds) /\ Len(Stored(u)) = count[u]
  <2>1. /\ Size \in Nat \ {0} /\ count[u] \in Nat /\ count[u] <= MaxCampaigns
        /\ Filled(bucket[u], count[u], MaxCampaigns, Size)
        /\ Stored(u) = Joined(bucket[u], count[u], Size)
        /\ bucket[u] \in [0..(MaxCampaigns \div Size) -> Seq(CampaignIds)]
    BY <1>1, StoredJoined
  <2>2. Holds(bucket[u], MaxCampaigns, Size, CampaignIds)
    BY <2>1 DEF Holds
  <2>3. /\ Joined(bucket[u], count[u], Size) \in Seq(CampaignIds)
        /\ Len(Joined(bucket[u], count[u], Size)) = count[u]
    BY <2>1, <2>2, JoinedType
  <2>4. QED
    BY <2>1, <2>3
<1>6. e <= count[u]
  BY <1>1, <1>2 DEF QueryInv
<1>7. Min({e, count[u]}) = e
  <2>1. count[u] \in Int
    BY <1>5
  <2>2. Min({e, count[u]}) = IF e <= count[u] THEN e ELSE count[u]
    BY <2>1, MinPair
  <2>3. QED
    BY <2>2, <1>6
<1>8. page = SubSeq(Stored(u), st + 1, e)
  BY <1>3, <1>4, <1>5, <1>6, SliceIs
<1>9. QED
  BY <1>1, <1>2, <1>5, <1>7, <1>8

\* The number of buckets get_creator_stats goes through.
LEMMA BucketCount ==
  ASSUME NEW n \in Nat, NEW S \in Nat \ {0}, NEW i \in Nat
  PROVE  i \in 0..(((n + S - 1) \div S) - 1) <=> i * S < n
<1>1. PICK q \in Int : q = (n + S - 1) \div S /\ S * q <= n + S - 1 /\ n + S - 1 < S * q + S
  OBVIOUS
<1>2. S * (i + 1) = S * i + S /\ S * i = i * S /\ S * i \in Int /\ S * q \in Int
  OBVIOUS
<1>3. ASSUME i + 1 <= q
      PROVE  i * S < n
  <2>1. S * (i + 1) <= S * q
    BY <1>3
  <2>2. QED
    BY <2>1, <1>1, <1>2
<1>4. ASSUME q <= i
      PROVE  ~(i * S < n)
  <2>1. S * q <= S * i
    BY <1>4
  <2>2. QED
    BY <2>1, <1>1, <1>2
<1>5. QED
  BY <1>1, <1>3, <1>4

\* A bucket that holds an entry is within the index.
LEMMA BucketExists ==
  ASSUME NEW n \in Nat, NEW m \in Nat, n <= m, NEW S \in Nat \ {0}, NEW i \in Nat,
         i * S < n
  PROVE  i \in 0..(m \div S)
<1>1. PICK w \in Nat : w = S * i /\ w = i * S
  OBVIOUS
<1>2. w \div S = i
  <2>1. S * i <= w /\ w < S * i + S
    BY <1>1
  <2>2. QED
    BY <2>1, DivUnique
<1>3. w <= m
  BY <1>1
<1>4. w \div S <= m \div S /\ m \div S \in Int
  BY <1>3, DivMonotone
<1>5. QED
  BY <1>2, <1>4

\* get_creator_stats visits every campaign of the creator once.
LEMMA StatsExact == ASSUME OwnInv PROVE StatsComplete
<1> SUFFICES ASSUME NEW u \in Creators, Dense(u)
             PROVE  StatsVisited(u) = Owned(u)
  BY DEF StatsComplete, Owned
<1>1. TypeOK
  BY DEF OwnInv
<1>2. PICK S \in Nat \ {0}, n \in Nat : S = Size /\ n = count[u] /\ n <= MaxCampaigns
  BY <1>1, StoredJoined
<1>3. StatsVisited(u) = UNION {ToSet(bucket[u][i]) : i \in 0..(((n + S - 1) \div S) - 1)}
  BY <1>2 DEF StatsVisited
<1>4. \A i \in Nat : i \in 0..(((n + S - 1) \div S) - 1) <=> i * S < n
  BY BucketCount
<1>5. /\ Owned(u) \subseteq CampaignIds /\ position[u] \in [CampaignIds -> Slots]
      /\ bucket[u] \in Buckets
  BY <1>1, ListTypes
<1>6. /\ \A c \in Owned(u) :
           /\ position[u][c] # <<>>
           /\ position[u][c][2] < Len(bucket[u][position[u][c][1]])
           /\ bucket[u][position[u][c][1]][position[u][c][2] + 1] = c
      /\ \A c \in CampaignIds \ Owned(u) : position[u][c] = <<>>
      /\ \A i \in BucketIds : \A k \in DOMAIN bucket[u][i] :
           position[u][bucket[u][i][k]] = <<i, k - 1>>
  BY DEF OwnInv, ListAt, Coherent
<1>7. ASSUME NEW c \in Owned(u)
      PROVE  \E i \in 0..(((n + S - 1) \div S) - 1) : c \in ToSet(bucket[u][i])
  <2>1. PICK i \in BucketIds, j \in Nat : position[u][c] = <<i, j>>
    BY <1>5, <1>6 DEF Slots
  <2>2. j < Len(bucket[u][i]) /\ bucket[u][i][j + 1] = c /\ bucket[u][i] \in Seq(CampaignIds)
    BY <1>5, <1>6, <2>1 DEF Buckets
  <2>3. c \in ToSet(bucket[u][i])
    BY <2>2 DEF ToSet
  <2>4. i \in Nat
    BY <1>2 DEF BucketIds, Size
  <2>5. Len(bucket[u][i]) = Clip(S, n - i * S)
    BY <1>2, <2>1 DEF Dense, Clip
  <2>6. Clip(S, n - i * S) # 0
    BY <2>2, <2>5
  <2>7. i * S \in Nat /\ Clip(S, n - i * S) =
          IF n <= i * S THEN 0 ELSE IF n >= i * S + S THEN S ELSE n - i * S
    BY <2>4, FillLevel
  <2>8. i * S < n
    BY <2>6, <2>7
  <2>9. i \in 0..(((n + S - 1) \div S) - 1)
    BY <2>4, <2>8, <1>4
  <2>10. QED
    BY <2>3, <2>9
<1>8. ASSUME NEW i \in 0..(((n + S - 1) \div S) - 1), NEW c \in ToSet(bucket[u][i])
      PROVE  c \in Owned(u)
  <2>1. i \in Nat /\ i * S < n
    BY <1>4
  <2>2. i \in BucketIds
    <3>1. i \in 0..(MaxCampaigns \div S)
      BY <2>1, <1>2, BucketExists
    <3>2. QED
      BY <3>1, <1>2 DEF BucketIds
  <2>3. bucket[u][i] \in Seq(CampaignIds)
    BY <2>2, <1>5 DEF Buckets
  <2>4. PICK k \in DOMAIN bucket[u][i] : c = bucket[u][i][k]
    BY DEF ToSet
  <2>5. c \in CampaignIds /\ position[u][c] = <<i, k - 1>>
    <3>1. \A s \in Seq(CampaignIds) : \A x \in DOMAIN s : s[x] \in CampaignIds
      OBVIOUS
    <3>2. c \in CampaignIds
      BY <3>1, <2>3, <2>4
    <3>3. position[u][bucket[u][i][k]] = <<i, k - 1>>
      BY <2>2, <1>6
    <3>4. QED
      BY <3>2, <3>3, <2>4
  <2>6. position[u][c] # <<>>
    BY <2>5
  <2>7. QED
    BY <2>5, <2>6, <1>6
<1>9. QED
  BY <1>3, <1>7, <1>8

\* For every page size, bucket size and history: a creator query over a list without
\* gaps returns exactly the slice asked for, and get_creator_stats visits exactly the
\* campaigns the creator owns.
THEOREM QueriesExact == Spec => []AnswersExact
<1>1. Init => QueryInv
  <2>1. <<>> \in Seq(CampaignIds) /\ 0 \in Nat
    OBVIOUS
  <2>2. QED
    BY <2>1 DEF Init, QueryInv, NoQuery, Queries, Idle
<1>2. OwnInv /\ QueryInv /\ [Next]_vars => QueryInv'
  BY QueryNextInv DEF OwnInv
<1>3. OwnInv /\ QueryInv => AnswersExact
  BY PagesExact, StatsExact DEF OwnInv, AnswersExact
<1>4. QED
  BY <1>1, <1>2, <1>3, OwnInvariant, PTL DEF Spec

-----------------------------------------------------------------------------
(* Indexes that only grow.                                                 *)

\* The buckets with c appended to the one an index of n entries is filling.
BucketsWith(B, n, c, size) == [B EXCEPT ![n \div size] = Append(@, c)]

\* The number of entries in bucket i of a list of n entries without gaps.
Level(n, i, S) == Clip(S, n - i * S)

\* n entries fill q buckets, and r slots of the next one.
Fills(n, S, q, r) == n = S * q + r

\* How an append changes the level of bucket i.
LEMMA AppendLevel ==
  ASSUME NEW S \in Nat \ {0}, NEW n \in Nat, NEW q \in Nat, NEW r \in 0..(S - 1),
         Fills(n, S, q, r), NEW i \in Nat
  PROVE  /\ i = q => Level(n, i, S) = r /\ Level(n + 1, i, S) = r + 1
         /\ i # q => Level(n + 1, i, S) = Level(n, i, S)
<1>1. PICK w \in Nat : w = i * S
  OBVIOUS
<1>2. PICK v \in Nat : v = S * q
  OBVIOUS
<1>3. /\ i = q => w = v
      /\ i < q => w + S <= v
      /\ i > q => v + S <= w
  <2>1. ASSUME i = q PROVE w = v
    BY <1>1, <1>2, <2>1
  <2>2. ASSUME i + 1 <= q PROVE w + S <= v
    <3>1. S * (i + 1) <= S * q
      BY <2>2
    <3>2. S * (i + 1) = i * S + S
      OBVIOUS
    <3>3. QED
      BY <3>1, <3>2, <1>1, <1>2
  <2>3. ASSUME q + 1 <= i PROVE v + S <= w
    <3>1. S * (q + 1) <= S * i
      BY <2>3
    <3>2. S * (q + 1) = S * q + S /\ S * i = i * S
      OBVIOUS
    <3>3. QED
      BY <3>1, <3>2, <1>1, <1>2
  <2>4. QED
    BY <2>1, <2>2, <2>3
<1>4. Level(n, i, S) = IF n <= w THEN 0 ELSE IF n >= w + S THEN S ELSE n - w
  <2>1. Clip(S, n - i * S) =
          IF n <= i * S THEN 0 ELSE IF n >= i * S + S THEN S ELSE n - i * S
    BY FillLevel
  <2>2. QED
    BY <2>1, <1>1 DEF Level
<1>5. Level(n + 1, i, S) =
        IF n + 1 <= w THEN 0 ELSE IF n + 1 >= w + S THEN S ELSE n + 1 - w
  <2>1. PICK k \in Nat : k = n + 1
    OBVIOUS
  <2>2. Clip(S, k - i * S) =
          IF k <= i * S THEN 0 ELSE IF k >= i * S + S THEN S ELSE k - i * S
    BY FillLevel
  <2>3. QED
    BY <2>1, <2>2, <1>1 DEF Level
<1>6. n = v + r
  BY <1>2 DEF Fills
<1>7. QED
  BY <1>3, <1>4, <1>5, <1>6

BucketSeqs(m, size, T) == [0..(m \div size) -> Seq(T)]

\* Appending keeps a list without gaps, and adds c at its end.
LEMMA AppendJoined ==
  ASSUME NEW n \in Nat, NEW size \in Nat \ {0}, NEW m \in Nat, n < m,
         NEW T, NEW c \in T, NEW B \in BucketSeqs(m, size, T),
         Filled(B, n, m, size)
  PROVE  /\ BucketsWith(B, n, c, size) \in BucketSeqs(m, size, T)
         /\ Filled(BucketsWith(B, n, c, size), n + 1, m, size)
         /\ Joined(B, n, size) \in Seq(T) /\ Len(Joined(B, n, size)) = n
         /\ Joined(BucketsWith(B, n, c, size), n + 1, size) =
              Append(Joined(B, n, size), c)
<1> USE DEF BucketSeqs
<1>1. PICK q \in Nat, r \in 0..(size - 1) : q = n \div size /\ Fills(n, size, q, r)
  <2> DEFINE x == n \div size
             y == n % size
  <2>1. x \in Nat /\ y \in 0..(size - 1) /\ n = size * x + y
    OBVIOUS
  <2>2. Fills(n, size, x, y)
    BY <2>1 DEF Fills
  <2> HIDE DEF y
  <2>3. QED
    BY <2>1, <2>2
<1>2. q \in 0..(m \div size)
  <2>1. n \div size <= m \div size /\ m \div size \in Int
    BY DivMonotone
  <2>2. QED
    BY <2>1, <1>1
<1>3. PICK B1 : B1 = BucketsWith(B, n, c, size)
  OBVIOUS
<1>4. /\ B1[q] = Append(B[q], c)
      /\ \A i \in 0..(m \div size) : i # q => B1[i] = B[i]
      /\ B1 \in [0..(m \div size) -> Seq(T)]
  <2>1. B1 = [B EXCEPT ![q] = Append(B[q], c)]
    BY <1>1, <1>2, <1>3 DEF BucketsWith
  <2>2. Append(B[q], c) \in Seq(T)
    BY <1>2
  <2> HIDE <1>1
  <2>3. QED
    BY <1>2, <2>1, <2>2
<1>5. Len(B[q]) = r
  <2>1. Len(B[q]) = Level(n, q, size)
    BY <1>2 DEF Filled, Level
  <2>2. Level(n, q, size) = r
    BY <1>1, AppendLevel
  <2>3. QED
    BY <2>1, <2>2
<1>6. Filled(B1, n + 1, m, size)
  <2> SUFFICES ASSUME NEW i \in 0..(m \div size)
               PROVE  Len(B1[i]) = Level(n + 1, i, size)
    BY DEF Filled, Level
  <2>1. i \in Nat
    OBVIOUS
  <2>2. /\ i = q => Level(n + 1, i, size) = r + 1
        /\ i # q => Level(n + 1, i, size) = Level(n, i, size)
    BY <2>1, <1>1, AppendLevel
  <2>3. Len(B[i]) = Level(n, i, size)
    BY DEF Filled, Level
  <2>4. CASE i = q
    <3>1. B[q] \in Seq(T)
      BY <1>2
    <3>2. Len(Append(B[q], c)) = r + 1
      BY <3>1, <1>5
    <3>3. QED
      BY <2>4, <2>2, <3>2, <1>4
  <2>5. CASE i # q
    BY <2>5, <2>2, <2>3, <1>4
  <2>6. QED
    BY <2>4, <2>5
<1>7. PICK n1 \in Nat : n1 = n + 1 /\ n1 <= m
  OBVIOUS
<1>8. PICK J : J = Joined(B, n, size)
  OBVIOUS
<1>9. PICK J1 : J1 = Joined(B1, n1, size)
  OBVIOUS
<1>10. J \in Seq(T) /\ Len(J) = n
  <2>1. n <= m /\ Holds(B, m, size, T)
    BY DEF Holds
  <2>2. QED
    BY <2>1, <1>8, JoinedType
<1>11. J1 \in Seq(T) /\ Len(J1) = n1
  <2>1. Holds(B1, m, size, T) /\ Filled(B1, n1, m, size)
    BY <1>4, <1>6, <1>7 DEF Holds
  <2>2. QED
    BY <2>1, <1>7, <1>9, JoinedType
<1>12. ASSUME NEW p \in 1..n
       PROVE  J1[p] = J[p]
  <2>0. p \in Nat \ {0} /\ p \in 1..n1 /\ n <= m
    BY <1>7
  <2>1. PICK a, j : At(p, size, a, j)
    BY <2>0, SplitPosition
  <2>2. a \in 0..(m \div size) /\ j <= Len(B[a]) /\ J[p] = B[a][j]
    BY <2>0, <2>1, <1>8, EntryAt
  <2>3. J1[p] = B1[a][j]
    <3>1. Filled(B1, n1, m, size)
      BY <1>6, <1>7
    <3>2. QED
      BY <3>1, <2>0, <2>1, <1>7, <1>9, EntryAt
  <2>4. CASE a = q
    <3>1. B[q] \in Seq(T) /\ j \in 1..Len(B[q])
      BY <1>2, <2>1, <2>2, <2>4 DEF At
    <3>2. Append(B[q], c)[j] = B[q][j]
      BY <3>1
    <3>3. QED
      BY <3>2, <2>2, <2>3, <2>4, <1>4
  <2>5. CASE a # q
    BY <2>2, <2>3, <2>5, <1>4
  <2>6. QED
    BY <2>4, <2>5
<1>13. J1[n1] = c
  <2>1. At(n1, size, q, r + 1)
    BY <1>1, <1>7 DEF At, Fills
  <2>2. n1 \in 1..n1 /\ Filled(B1, n1, m, size)
    BY <1>6, <1>7
  <2>3. J1[n1] = B1[q][r + 1]
    BY <2>1, <2>2, <1>7, <1>9, EntryAt
  <2>4. B[q] \in Seq(T)
    BY <1>2
  <2>5. Append(B[q], c)[r + 1] = c
    BY <2>4, <1>5
  <2>6. QED
    BY <2>3, <2>5, <1>4
<1>14. J1 = Append(J, c)
  <2>1. Append(J, c) \in Seq(T) /\ Len(Append(J, c)) = n1
    BY <1>7, <1>10
  <2>2. /\ \A p \in 1..n : Append(J, c)[p] = J[p]
        /\ Append(J, c)[n + 1] = c
    BY <1>10
  <2>3. ASSUME NEW p \in 1..n1
        PROVE  J1[p] = Append(J, c)[p]
    <3>1. p \in 1..n \/ p = n1
      BY <1>7
    <3>2. QED
      BY <3>1, <2>2, <1>7, <1>12, <1>13
  <2>4. QED
    BY <2>1, <2>3, <1>11
<1>15. QED
  BY <1>3, <1>4, <1>6, <1>7, <1>8, <1>9, <1>10, <1>14

\* An index that lists the members of A, each once and without gaps.
Indexes(size) == [count: 0..MaxCampaigns,
                  bucket: [0..(MaxCampaigns \div size) -> Seq(CampaignIds)]]

Lists(index, size, A) ==
  /\ index \in Indexes(size)
  /\ NoGaps(index, size)
  /\ IsInjective(Ids(index, size))
  /\ ToSet(Ids(index, size)) = A

\* In the order of their ids.
Rising(index, size) ==
  \A i, j \in DOMAIN Ids(index, size) : i < j => Ids(index, size)[i] < Ids(index, size)[j]

\* An empty index lists nothing.
LEMMA EmptyLists ==
  ASSUME NEW size \in Nat \ {0}
  PROVE  Lists(EmptyIndex(size), size, {}) /\ Rising(EmptyIndex(size), size)
<1> DEFINE E == EmptyIndex(size)
<1>1. E.count = 0 /\ \A i \in 0..(MaxCampaigns \div size) : E.bucket[i] = <<>>
  BY DEF EmptyIndex
<1>2. DOMAIN E.bucket = 0..(MaxCampaigns \div size)
  BY DEF EmptyIndex
<1>3. E \in Indexes(size)
  <2>1. <<>> \in Seq(CampaignIds) /\ 0 \in 0..MaxCampaigns
    OBVIOUS
  <2>2. QED
    BY <2>1 DEF EmptyIndex, Indexes
<1>4. NoGaps(E, size)
  <2> SUFFICES ASSUME NEW i \in 0..(MaxCampaigns \div size)
               PROVE  Len(E.bucket[i]) = Clip(size, E.count - i * size)
    BY <1>2 DEF NoGaps, Clip
  <2>1. PICK n \in Nat : n = 0
    OBVIOUS
  <2>2. i \in Nat
    OBVIOUS
  <2>3. i * size \in Nat /\ Clip(size, n - i * size) =
          IF n <= i * size THEN 0 ELSE IF n >= i * size + size THEN size ELSE n - i * size
    BY <2>2, FillLevel
  <2>4. Clip(size, n - i * size) = 0
    BY <2>1, <2>3
  <2>5. Len(E.bucket[i]) = 0
    BY <1>1
  <2>6. QED
    BY <2>1, <2>4, <2>5, <1>1
<1>5. DOMAIN Ids(E, size) = {}
  BY <1>1 DEF Ids
<1> HIDE DEF E
<1>6. QED
  BY <1>3, <1>4, <1>5 DEF Lists, Rising, IsInjective, ToSet, E

\* There are MaxCampaigns ids.
LEMMA IdsCount == IsFiniteSet(CampaignIds) /\ Cardinality(CampaignIds) = MaxCampaigns
BY FS_Interval DEF CampaignIds

\* An id that is not yet in the list is appended to it.
LEMMA AppendLists ==
  ASSUME NEW size \in Nat \ {0}, NEW index, NEW A \in SUBSET CampaignIds,
         Lists(index, size, A), NEW c \in CampaignIds, c \notin A
  PROVE  /\ Lists(Appended(index, c, size), size, A \cup {c})
         /\ Rising(index, size) /\ (\A a \in A : a < c)
              => Rising(Appended(index, c, size), size)
<1>1. PICK n \in 0..MaxCampaigns, B \in BucketSeqs(MaxCampaigns, size, CampaignIds) :
        n = index.count /\ B = index.bucket
  BY DEF Lists, Indexes, BucketSeqs
<1>2. Ids(index, size) = Joined(B, n, size) /\ Filled(B, n, MaxCampaigns, size)
  BY <1>1 DEF Lists, NoGaps, Ids, Joined, Filled, Clip, BucketSeqs
<1>3. PICK J : J = Joined(B, n, size)
  OBVIOUS
<1>4. J \in Seq(CampaignIds) /\ Len(J) = n /\ DOMAIN J = 1..n
  <2>1. Holds(B, MaxCampaigns, size, CampaignIds) /\ n \in Nat /\ n <= MaxCampaigns
    BY DEF Holds, BucketSeqs
  <2>2. QED
    BY <2>1, <1>2, <1>3, JoinedType
<1>5. (\A i, j \in 1..n : J[i] = J[j] => i = j) /\ {J[i] : i \in 1..n} = A
  BY <1>2, <1>3, <1>4 DEF Lists, IsInjective, ToSet
<1>6. n < MaxCampaigns
  <2>1. J \in Injection(1..n, CampaignIds \ {c})
    <3>1. \A i \in 1..n : J[i] \in CampaignIds \ {c}
      BY <1>5
    <3>2. J = [i \in 1..n |-> J[i]]
      BY <1>4
    <3>3. J \in [1..n -> CampaignIds \ {c}]
      BY <3>1, <3>2
    <3>4. IsInjective(J)
      BY <1>4, <1>5 DEF IsInjective
    <3>5. QED
      BY <3>3, <3>4 DEF Injection
  <2>2. IsFiniteSet(CampaignIds) /\ Cardinality(CampaignIds) = MaxCampaigns
    BY IdsCount
  <2>3. /\ IsFiniteSet(CampaignIds \ {c})
        /\ Cardinality(CampaignIds \ {c}) = MaxCampaigns - 1
    BY <2>2, FS_RemoveElement
  <2>4. Cardinality(1..n) <= Cardinality(CampaignIds \ {c})
    BY <2>1, <2>3, FS_Injection
  <2>5. Cardinality(1..n) = n
    <3>1. 1 \in Int /\ n \in Int
      OBVIOUS
    <3>2. Cardinality(1..n) = IF 1 > n THEN 0 ELSE n - 1 + 1
      BY <3>1, FS_Interval
    <3>3. QED
      BY <3>2
  <2>6. QED
    BY <2>3, <2>4, <2>5
<1>7. PICK B1 : B1 = BucketsWith(B, n, c, size)
  OBVIOUS
<1>8. /\ B1 \in [0..(MaxCampaigns \div size) -> Seq(CampaignIds)]
      /\ Filled(B1, n + 1, MaxCampaigns, size)
      /\ Joined(B1, n + 1, size) = Append(J, c)
  <2>1. n \in Nat /\ MaxCampaigns \in Nat
    OBVIOUS
  <2>2. /\ n < MaxCampaigns /\ Filled(B, n, MaxCampaigns, size)
        /\ B \in BucketSeqs(MaxCampaigns, size, CampaignIds)
    BY <1>2, <1>6
  <2>3. /\ BucketsWith(B, n, c, size) \in BucketSeqs(MaxCampaigns, size, CampaignIds)
        /\ Filled(BucketsWith(B, n, c, size), n + 1, MaxCampaigns, size)
        /\ Joined(BucketsWith(B, n, c, size), n + 1, size) =
             Append(Joined(B, n, size), c)
    BY <2>1, <2>2, AppendJoined
  <2>4. QED
    BY <2>3, <1>3, <1>7 DEF BucketSeqs
<1>9. PICK I1 : I1 = Appended(index, c, size)
  OBVIOUS
<1>10. I1 = [count |-> n + 1, bucket |-> B1]
  BY <1>1, <1>7, <1>9 DEF Appended, BucketsWith
<1>11. n + 1 \in 0..MaxCampaigns
  BY <1>6
<1>12. I1 \in Indexes(size)
  BY <1>8, <1>10, <1>11 DEF Indexes
<1>13. /\ I1.count = n + 1 /\ I1.bucket = B1
       /\ DOMAIN I1.bucket = 0..(MaxCampaigns \div size)
  BY <1>8, <1>10
<1>14. NoGaps(I1, size)
  BY <1>8, <1>13 DEF NoGaps, Filled, Clip
<1>15. Ids(I1, size) = Append(J, c)
  BY <1>8, <1>13 DEF Ids, Joined
<1>16. PICK K : K = Append(J, c)
  OBVIOUS
<1>17. DOMAIN K = 1..(n + 1) /\ K[n + 1] = c /\ \A i \in 1..n : K[i] = J[i]
  BY <1>4, <1>16
<1>18. \A i \in 1..(n + 1) : i \in 1..n \/ i = n + 1
  OBVIOUS
<1>19. IsInjective(K)
  <2>1. \A i \in 1..n : J[i] # c
    BY <1>5
  <2>2. QED
    BY <2>1, <1>5, <1>17, <1>18 DEF IsInjective
<1>20. ToSet(K) = A \cup {c}
  <2>1. ToSet(K) = {K[i] : i \in 1..(n + 1)}
    BY <1>17 DEF ToSet
  <2>2. n + 1 \in 1..(n + 1) /\ \A i \in 1..n : i \in 1..(n + 1)
    OBVIOUS
  <2>3. QED
    BY <2>1, <2>2, <1>5, <1>17, <1>18
<1>21. ASSUME Rising(index, size), \A a \in A : a < c
       PROVE  Rising(I1, size)
  <2>1. \A i, j \in 1..n : i < j => J[i] < J[j]
    BY <1>21, <1>2, <1>3, <1>4 DEF Rising
  <2>2. \A i \in 1..n : J[i] < c
    BY <1>21, <1>5
  <2>3. ASSUME NEW i \in 1..(n + 1), NEW j \in 1..(n + 1), i < j
        PROVE  K[i] < K[j]
    <3>1. i \in 1..n
      BY <2>3
    <3>2. CASE j \in 1..n
      BY <3>1, <3>2, <2>1, <2>3, <1>17
    <3>3. CASE j = n + 1
      BY <3>1, <3>3, <2>2, <1>17
    <3>4. QED
      BY <3>2, <3>3, <1>18
  <2>4. QED
    BY <2>3, <1>15, <1>16, <1>17 DEF Rising
<1>22. QED
  BY <1>9, <1>12, <1>14, <1>15, <1>16, <1>19, <1>20, <1>21 DEF Lists

-----------------------------------------------------------------------------
(* The catalogue.                                                          *)

Entries == [title: Titles \cup {None}, first_creator: Creators \cup {None},
            category: Categories \cup {None}, tags: Seq(Tags)]

\* A campaign has an entry from its creation on.
EntriesOK ==
  /\ entry \in [CampaignIds -> Entries]
  /\ \A c \in CampaignIds :
       IF c <= campaign_count THEN entry[c].first_creator \in Creators
                              ELSE entry[c] = NoEntry

InCategory(x) == {c \in CampaignIds : entry[c].category = x}
WithTag(x) == {c \in CampaignIds : x \in ToSet(entry[c].tags)}

CategoryLists ==
  /\ category_index = [x \in Categories |-> category_index[x]]
  /\ \A x \in Categories :
       /\ Lists(category_index[x], CATEGORY_CAMPAIGNS_BUCKET_SIZE, InCategory(x))
       /\ Rising(category_index[x], CATEGORY_CAMPAIGNS_BUCKET_SIZE)

TagLists ==
  /\ tag_index = [x \in Tags |-> tag_index[x]]
  /\ \A x \in Tags : Lists(tag_index[x], TAG_CAMPAIGNS_BUCKET_SIZE, WithTag(x))

\* The title of a campaign that has not been edited is taken.
TitlesTaken ==
  /\ title_index \in [Creators -> SUBSET Titles]
  /\ \A c \in (1..campaign_count) \ edited :
       entry[c].title \in title_index[entry[c].first_creator]

CatInv == EntriesOK /\ CategoryLists /\ TagLists /\ TitlesTaken /\ TitlesDistinct

\* The two properties are parts of the invariant.
LEMMA CatProperties == ASSUME CatInv PROVE IndexesExact /\ TitlesDistinct
<1>1. CategoryIndexExact
  BY DEF CatInv, CategoryLists, Lists, Rising, CategoryIndexExact, InCategory
<1>2. TagIndexExact
  BY DEF CatInv, TagLists, Lists, TagIndexExact, WithTag
<1>3. QED
  BY <1>1, <1>2 DEF IndexesExact, CatInv

\* Nothing is indexed at first.
LEMMA CatStart == ASSUME CatInit PROVE CatInv
<1>1. EntriesOK
  <2>1. <<>> \in Seq(Tags)
    OBVIOUS
  <2>2. QED
    BY <2>1 DEF CatInit, Init, EntriesOK, NoEntry, Entries, CampaignIds
<1>2. \A x \in Categories : InCategory(x) = {}
  BY DEF CatInit, InCategory, NoEntry
<1>3. \A x \in Tags : WithTag(x) = {}
  <2>1. DOMAIN <<>> = {}
    OBVIOUS
  <2>2. \A c \in CampaignIds : entry[c].tags = <<>>
    BY DEF CatInit, NoEntry
  <2>3. QED
    BY <2>1, <2>2 DEF WithTag, ToSet
<1>4. CategoryLists
  <2>1. \A x \in Categories : category_index[x] = EmptyIndex(CATEGORY_CAMPAIGNS_BUCKET_SIZE)
    BY DEF CatInit
  <2>2. category_index = [x \in Categories |-> category_index[x]]
    BY DEF CatInit
  <2>3. /\ Lists(EmptyIndex(CATEGORY_CAMPAIGNS_BUCKET_SIZE), CATEGORY_CAMPAIGNS_BUCKET_SIZE, {})
        /\ Rising(EmptyIndex(CATEGORY_CAMPAIGNS_BUCKET_SIZE), CATEGORY_CAMPAIGNS_BUCKET_SIZE)
    BY EmptyLists
  <2>4. QED
    BY <2>1, <2>2, <2>3, <1>2 DEF CategoryLists
<1>5. TagLists
  <2>1. \A x \in Tags : tag_index[x] = EmptyIndex(TAG_CAMPAIGNS_BUCKET_SIZE)
    BY DEF CatInit
  <2>2. tag_index = [x \in Tags |-> tag_index[x]]
    BY DEF CatInit
  <2>3. Lists(EmptyIndex(TAG_CAMPAIGNS_BUCKET_SIZE), TAG_CAMPAIGNS_BUCKET_SIZE, {})
    BY EmptyLists
  <2>4. QED
    BY <2>1, <2>2, <2>3, <1>3 DEF TagLists
<1>6. TitlesTaken /\ TitlesDistinct
  <2>1. 1..campaign_count = {}
    BY DEF CatInit, Init
  <2>2. QED
    BY <2>1 DEF CatInit, TitlesTaken, TitlesDistinct
<1>7. QED
  BY <1>1, <1>4, <1>5, <1>6 DEF CatInv

\* create_campaign: an id no list has yet, larger than all of them.
LEMMA CatCreate ==
  ASSUME OwnInv, CatInv, NEW u \in Creators, NEW t \in Titles, NEW x \in Categories,
         create(u, t, x)
  PROVE  CatInv'
<1>1. PICK c : c = campaign_count + 1
  OBVIOUS
<1>2. /\ c \in CampaignIds /\ campaign_count' = c
      /\ campaign_count \in Nat
  BY <1>1 DEF create, create_campaign, OwnInv, TypeOK
<1>3. PICK e : e = [title |-> t, first_creator |-> u, category |-> x, tags |-> <<>>]
  OBVIOUS
<1>4. /\ t \notin title_index[u]
      /\ entry' = [entry EXCEPT ![c] = e]
      /\ category_index' = [category_index EXCEPT
           ![x] = Appended(category_index[x], c, CATEGORY_CAMPAIGNS_BUCKET_SIZE)]
      /\ title_index' = [title_index EXCEPT ![u] = title_index[u] \cup {t}]
      /\ UNCHANGED <<tag_index, edited>>
  <2>1. category_index = [y \in Categories |-> category_index[y]]
    BY DEF CatInv, CategoryLists
  <2>2. QED
    BY <2>1, <1>1, <1>3 DEF create, HasTitle, CatInv, TitlesTaken
<1>5. /\ e \in Entries /\ e.first_creator = u /\ e.title = t /\ e.category = x
      /\ e.tags = <<>>
  BY <1>3 DEF Entries
<1>6. entry[c] = NoEntry /\ \A d \in CampaignIds : d > campaign_count => entry[d] = NoEntry
  BY <1>1, <1>2 DEF CatInv, EntriesOK, CampaignIds
<1>7. /\ entry' \in [CampaignIds -> Entries] /\ entry'[c] = e
      /\ \A d \in CampaignIds : d # c => entry'[d] = entry[d]
  BY <1>2, <1>4, <1>5 DEF CatInv, EntriesOK
<1>8. EntriesOK'
  BY <1>1, <1>2, <1>5, <1>6, <1>7 DEF CatInv, EntriesOK, CampaignIds
<1>9. /\ InCategory(x)' = InCategory(x) \cup {c} /\ c \notin InCategory(x)
      /\ \A y \in Categories : y # x => InCategory(y)' = InCategory(y)
  BY <1>2, <1>5, <1>6, <1>7 DEF InCategory, NoEntry
<1>10. \A a \in InCategory(x) : a < c
  <2>1. \A a \in InCategory(x) : a \in CampaignIds /\ entry[a] # NoEntry
    BY DEF InCategory, NoEntry
  <2>2. QED
    BY <2>1, <1>1, <1>2, <1>6 DEF CampaignIds
<1>11. CategoryLists'
  <2> DEFINE I == category_index[x]
             Z == CATEGORY_CAMPAIGNS_BUCKET_SIZE
  <2>1. category_index = [y \in Categories |-> category_index[y]]
    BY DEF CatInv, CategoryLists
  <2>2. InCategory(x) \in SUBSET CampaignIds /\ Z \in Nat \ {0}
    BY DEF InCategory
  <2>3. Lists(I, Z, InCategory(x)) /\ Rising(I, Z)
    BY DEF CatInv, CategoryLists
  <2>4. PICK A : A = InCategory(x)
    OBVIOUS
  <2>5. /\ A \in SUBSET CampaignIds /\ Lists(I, Z, A) /\ c \notin A /\ Rising(I, Z)
        /\ \A a \in A : a < c
    BY <2>2, <2>3, <2>4, <1>9, <1>10
  <2> HIDE DEF I, Z
  <2>6. /\ Lists(Appended(I, c, Z), Z, A \cup {c})
        /\ Rising(Appended(I, c, Z), Z)
    BY <2>2, <2>5, <1>2, AppendLists
  <2>7. /\ category_index'[x] = Appended(I, c, Z)
        /\ \A y \in Categories : y # x => category_index'[y] = category_index[y]
        /\ category_index' = [y \in Categories |-> category_index'[y]]
    BY <2>1, <1>4 DEF I, Z
  <2>8. /\ Lists(category_index'[x], Z, InCategory(x)')
        /\ Rising(category_index'[x], Z)
    BY <2>4, <2>6, <2>7, <1>9
  <2>9. \A y \in Categories : y # x =>
          /\ Lists(category_index'[y], Z, InCategory(y)')
          /\ Rising(category_index'[y], Z)
    <3>1. \A y \in Categories :
            Lists(category_index[y], Z, InCategory(y)) /\ Rising(category_index[y], Z)
      BY DEF CatInv, CategoryLists, Z
    <3>2. QED
      BY <3>1, <2>7, <1>9
  <2>10. QED
    BY <2>7, <2>8, <2>9 DEF CategoryLists, Z
<1>12. TagLists'
  <2>1. DOMAIN <<>> = {}
    OBVIOUS
  <2>2. ASSUME NEW y \in Tags
        PROVE  WithTag(y)' = WithTag(y)
    <3>1. entry[c].tags = <<>> /\ entry'[c].tags = <<>>
      BY <1>5, <1>6, <1>7 DEF NoEntry
    <3>2. QED
      BY <2>1, <3>1, <1>7 DEF WithTag, ToSet
  <2>3. QED
    BY <2>2, <1>4 DEF CatInv, TagLists
<1>13. \A d \in (1..campaign_count') \ edited' :
         d = c \/ (d \in (1..campaign_count) \ edited /\ d \in CampaignIds /\ d # c)
  <2>1. campaign_count' = campaign_count + 1 /\ edited' = edited /\ c <= MaxCampaigns
    BY <1>1, <1>2, <1>4 DEF CampaignIds
  <2>2. QED
    BY <2>1, <1>1, <1>2 DEF CampaignIds
<1>14. /\ \A d \in (1..campaign_count) \ edited :
            entry[d].title \in title_index[entry[d].first_creator]
       /\ \A d \in (1..campaign_count) : entry[d].first_creator \in Creators
       /\ title_index \in [Creators -> SUBSET Titles]
  <2>1. \A d \in (1..campaign_count) : d \in CampaignIds /\ d <= campaign_count
    BY <1>1, <1>2 DEF CampaignIds
  <2>2. QED
    BY <2>1 DEF CatInv, TitlesTaken, EntriesOK
<1>15. TitlesTaken'
  <2>1. title_index' \in [Creators -> SUBSET Titles]
    BY <1>4, <1>14
  <2>2. ASSUME NEW d \in (1..campaign_count') \ edited'
        PROVE  entry'[d].title \in title_index'[entry'[d].first_creator]
    BY <1>4, <1>5, <1>7, <1>13, <1>14
  <2>3. QED
    BY <2>1, <2>2 DEF TitlesTaken
<1>16. TitlesDistinct'
  <2>1. \A d \in (1..campaign_count) \ edited :
          entry[d].first_creator = u => entry[d].title # t
    BY <1>4, <1>14
  <2>2. ASSUME NEW a \in (1..campaign_count') \ edited', NEW d \in (1..campaign_count') \ edited',
               a # d, entry'[a].first_creator = entry'[d].first_creator
        PROVE  entry'[a].title # entry'[d].title
    <3>1. CASE a = c
      BY <3>1, <2>1, <2>2, <1>5, <1>7, <1>13
    <3>2. CASE d = c
      BY <3>2, <2>1, <2>2, <1>5, <1>7, <1>13
    <3>3. CASE a # c /\ d # c
      BY <3>3, <2>2, <1>7, <1>13 DEF CatInv, TitlesDistinct
    <3>4. QED
      BY <3>1, <3>2, <3>3
  <2>3. QED
    BY <2>2 DEF TitlesDistinct
<1>17. QED
  BY <1>8, <1>11, <1>12, <1>15, <1>16 DEF CatInv

\* update_campaign: the campaign joins the edited ones, and no list names titles.
LEMMA CatUpdate ==
  ASSUME OwnInv, CatInv, NEW c \in CampaignIds, NEW t \in Titles, update_campaign(c, t)
  PROVE  CatInv'
<1>1. /\ c <= campaign_count /\ campaign_count' = campaign_count
      /\ category_index' = category_index /\ tag_index' = tag_index
      /\ title_index' = title_index /\ edited' = edited \cup {c}
  BY DEF update_campaign, vars, OwnInv, IdsUsed, NoCampaign
<1>2. PICK e : e = [entry[c] EXCEPT !.title = t]
  OBVIOUS
<1>3. /\ e \in Entries /\ e.first_creator = entry[c].first_creator
      /\ e.category = entry[c].category /\ e.tags = entry[c].tags
  <2>1. entry[c] \in Entries
    BY DEF CatInv, EntriesOK
  <2>2. QED
    BY <2>1, <1>2 DEF Entries
<1>4. entry' = [entry EXCEPT ![c] = e]
  BY <1>2 DEF update_campaign
<1>5. /\ entry' \in [CampaignIds -> Entries] /\ entry'[c] = e
      /\ \A d \in CampaignIds : d # c => entry'[d] = entry[d]
  BY <1>3, <1>4 DEF CatInv, EntriesOK
<1>6. EntriesOK'
  BY <1>1, <1>3, <1>5 DEF CatInv, EntriesOK
<1>7. CategoryLists'
  <2>1. \A y \in Categories : InCategory(y)' = InCategory(y)
    BY <1>3, <1>5 DEF InCategory
  <2>2. QED
    BY <2>1, <1>1 DEF CatInv, CategoryLists
<1>8. TagLists'
  <2>1. \A y \in Tags : WithTag(y)' = WithTag(y)
    BY <1>3, <1>5 DEF WithTag
  <2>2. QED
    BY <2>1, <1>1 DEF CatInv, TagLists
<1>9. \A d \in (1..campaign_count') \ edited' :
        d \in (1..campaign_count) \ edited /\ entry'[d] = entry[d]
  <2>1. \A d \in 1..campaign_count : d \in CampaignIds
    BY DEF OwnInv, TypeOK, CampaignIds
  <2>2. QED
    BY <2>1, <1>1, <1>5
<1>10. TitlesTaken'
  BY <1>1, <1>9 DEF CatInv, TitlesTaken
<1>11. TitlesDistinct'
  BY <1>9 DEF CatInv, TitlesDistinct
<1>12. QED
  BY <1>6, <1>7, <1>8, <1>10, <1>11 DEF CatInv

\* add_campaign_tag: the campaign is not yet under the tag it is given.
LEMMA CatTag ==
  ASSUME OwnInv, CatInv, NEW c \in CampaignIds, NEW x \in Tags, add_campaign_tag(c, x)
  PROVE  CatInv'
<1>1. /\ c <= campaign_count /\ campaign_count' = campaign_count
      /\ category_index' = category_index
      /\ title_index' = title_index /\ edited' = edited
  BY DEF add_campaign_tag, vars, OwnInv, IdsUsed, NoCampaign
<1>2. PICK e : e = [entry[c] EXCEPT !.tags = Append(entry[c].tags, x)]
  OBVIOUS
<1>3. entry[c] \in Entries /\ entry[c].tags \in Seq(Tags)
  BY DEF CatInv, EntriesOK, Entries
<1>4. /\ e \in Entries /\ e.first_creator = entry[c].first_creator
      /\ e.category = entry[c].category /\ e.title = entry[c].title
      /\ e.tags = Append(entry[c].tags, x)
  <2>1. Append(entry[c].tags, x) \in Seq(Tags)
    BY <1>3
  <2>2. QED
    BY <2>1, <1>2, <1>3 DEF Entries
<1>5. entry' = [entry EXCEPT ![c] = e]
  BY <1>2 DEF add_campaign_tag
<1>6. /\ entry' \in [CampaignIds -> Entries] /\ entry'[c] = e
      /\ \A d \in CampaignIds : d # c => entry'[d] = entry[d]
  BY <1>4, <1>5 DEF CatInv, EntriesOK
<1>7. EntriesOK'
  BY <1>1, <1>4, <1>6 DEF CatInv, EntriesOK
<1>8. CategoryLists'
  <2>1. \A y \in Categories : InCategory(y)' = InCategory(y)
    BY <1>4, <1>6 DEF InCategory
  <2>2. QED
    BY <2>1, <1>1 DEF CatInv, CategoryLists
<1>9. ToSet(e.tags) = ToSet(entry[c].tags) \cup {x} /\ x \notin ToSet(entry[c].tags)
  <2>1. PICK s \in Seq(Tags) : s = entry[c].tags
    BY <1>3
  <2>2. /\ DOMAIN s = 1..Len(s) /\ DOMAIN Append(s, x) = 1..(Len(s) + 1)
        /\ Append(s, x)[Len(s) + 1] = x /\ \A i \in 1..Len(s) : Append(s, x)[i] = s[i]
    OBVIOUS
  <2>3. /\ Len(s) + 1 \in 1..(Len(s) + 1)
        /\ \A i \in 1..Len(s) : i \in 1..(Len(s) + 1)
        /\ \A i \in 1..(Len(s) + 1) : i \in 1..Len(s) \/ i = Len(s) + 1
    OBVIOUS
  <2>4. ToSet(Append(s, x)) = ToSet(s) \cup {x}
    BY <2>2, <2>3 DEF ToSet
  <2>5. QED
    BY <2>1, <2>4, <1>4 DEF add_campaign_tag, TagNew
<1>10. /\ WithTag(x)' = WithTag(x) \cup {c} /\ c \notin WithTag(x)
       /\ \A y \in Tags : y # x => WithTag(y)' = WithTag(y)
  BY <1>6, <1>9 DEF WithTag
<1>11. TagLists'
  <2> DEFINE I == tag_index[x]
             Z == TAG_CAMPAIGNS_BUCKET_SIZE
  <2>1. tag_index = [y \in Tags |-> tag_index[y]]
    BY DEF CatInv, TagLists
  <2>2. PICK A \in SUBSET CampaignIds : A = WithTag(x)
    BY DEF WithTag
  <2>3. Lists(I, Z, A) /\ c \notin A /\ Z \in Nat \ {0}
    BY <2>2, <1>10 DEF CatInv, TagLists
  <2>4. tag_index' = [tag_index EXCEPT ![x] = Appended(I, c, Z)]
    BY <2>1 DEF add_campaign_tag
  <2> HIDE DEF I, Z
  <2>5. Lists(Appended(I, c, Z), Z, A \cup {c})
    BY <2>3, AppendLists
  <2>6. /\ tag_index'[x] = Appended(I, c, Z)
        /\ \A y \in Tags : y # x => tag_index'[y] = tag_index[y]
        /\ tag_index' = [y \in Tags |-> tag_index'[y]]
    BY <2>1, <2>4
  <2>7. Lists(tag_index'[x], Z, WithTag(x)')
    BY <2>2, <2>5, <2>6, <1>10
  <2>8. \A y \in Tags : Lists(tag_index[y], Z, WithTag(y))
    BY DEF CatInv, TagLists, Z
  <2>9. \A y \in Tags : y # x => Lists(tag_index'[y], Z, WithTag(y)')
    BY <2>6, <2>8, <1>10
  <2>10. QED
    BY <2>6, <2>7, <2>9 DEF TagLists, Z
<1>12. \A d \in 1..campaign_count :
         entry'[d].title = entry[d].title /\ entry'[d].first_creator = entry[d].first_creator
  <2>1. \A d \in 1..campaign_count : d \in CampaignIds
    BY DEF OwnInv, TypeOK, CampaignIds
  <2>2. QED
    BY <2>1, <1>4, <1>6
<1>13. TitlesTaken'
  BY <1>1, <1>12 DEF CatInv, TitlesTaken
<1>14. TitlesDistinct'
  BY <1>1, <1>12 DEF CatInv, TitlesDistinct
<1>15. QED
  BY <1>7, <1>8, <1>11, <1>13, <1>14 DEF CatInv

\* Every step keeps the catalogue.
LEMMA CatNextInv == ASSUME OwnInv, CatInv, [CatNext]_catVars PROVE CatInv'
<1>1. ASSUME campaign_count' = campaign_count, UNCHANGED catalogueVars
      PROVE  CatInv'
  <2>1. /\ entry' = entry /\ title_index' = title_index /\ edited' = edited
        /\ category_index' = category_index /\ tag_index' = tag_index
    BY <1>1 DEF catalogueVars
  <2>2. EntriesOK' /\ TitlesTaken' /\ TitlesDistinct'
    BY <1>1, <2>1 DEF CatInv, EntriesOK, TitlesTaken, TitlesDistinct
  <2>3. \A y : InCategory(y)' = InCategory(y) /\ WithTag(y)' = WithTag(y)
    BY <2>1 DEF InCategory, WithTag
  <2>4. CategoryLists' /\ TagLists'
    BY <2>1, <2>3 DEF CatInv, CategoryLists, TagLists
  <2>5. QED
    BY <2>2, <2>4 DEF CatInv
<1>2. CASE OwnershipNext /\ UNCHANGED catalogueVars
  BY <1>1, <1>2 DEF OwnershipNext, initiate_campaign_transfer, accept_campaign_transfer,
     cancel_campaign_transfer, close_campaign
<1>3. CASE UNCHANGED catVars
  BY <1>1, <1>3 DEF catVars, vars
<1>4. QED
  BY <1>2, <1>3, CatCreate, CatUpdate, CatTag DEF CatNext

\* In every reachable state the category and tag buckets list exactly the campaigns
\* of the category or tag, without gaps, and every unedited title is taken in the
\* record of its first creator: what CatalogueExact and TitlesStayDistinct rest on.
THEOREM CatInvariant == CatSpec => []CatInv
<1>1. OwnInv /\ CatInv /\ [CatNext]_catVars => CatInv'
  BY CatNextInv
<1>2. CatSpec => []OwnInv
  BY OwnInvariant, CatalogueUsesIndex, PTL
<1>3. QED
  BY <1>1, <1>2, CatStart, PTL DEF CatSpec

\* For every number of campaigns, every bucket size and every history of creations,
\* edits, closings and transfers: the category index lists the campaigns of each
\* category once, in order and without gaps, and the tag index those that carry the tag.
THEOREM CatalogueExact == CatSpec => []IndexesExact
<1>1. CatInv => IndexesExact
  BY CatProperties
<1>2. QED
  BY <1>1, CatInvariant, PTL

\* The title index of create_campaign keeps the titles one creator has opened campaigns
\* with apart, as long as they are not edited.
THEOREM TitlesStayDistinct == CatSpec => []TitlesDistinct
<1>1. CatInv => TitlesDistinct
  BY CatProperties
<1>2. QED
  BY <1>1, CatInvariant, PTL

-----------------------------------------------------------------------------
(* A set of ids in ascending order.                                        *)

\* A non-empty set of numbers has a least one.
LEMMA LeastNumber ==
  ASSUME NEW I, I \subseteq Nat, I # {}
  PROVE  \E x \in I : \A y \in I : x <= y
<1> DEFINE T == {0..x : x \in I}
<1>1. \A x \in I : 0..x \in FiniteSubsetsOf(Nat)
  BY FS_Interval DEF FiniteSubsetsOf
<1>2. IsWellFoundedOn(StrictSubsetOrdering(Nat), FiniteSubsetsOf(Nat))
  BY FS_StrictSubsetOrderingWellFounded
<1>3. T \subseteq FiniteSubsetsOf(Nat) /\ T # {}
  BY <1>1
<1>4. PICK A \in T : \A B \in T : ~(<<B, A>> \in StrictSubsetOrdering(Nat))
  <2> HIDE DEF T
  <2>1. QED
    BY <1>2, <1>3, WFMin
<1>5. PICK x \in I : A = 0..x
  OBVIOUS
<1>6. ASSUME NEW y \in I PROVE x <= y
  <2>1. x \in Nat /\ y \in Nat
    OBVIOUS
  <2>2. SUFFICES ASSUME y < x PROVE FALSE
    BY <2>1
  <2>3. 0..y \subseteq 0..x /\ 0..y # 0..x /\ 0..y \subseteq Nat /\ 0..x \subseteq Nat
    <3>1. x \in 0..x /\ x \notin 0..y
      BY <2>1, <2>2
    <3>2. QED
      BY <2>1, <2>2, <3>1
  <2>4. <<0..y, A>> \in StrictSubsetOrdering(Nat)
    BY <2>3, <1>5 DEF StrictSubsetOrdering
  <2>5. QED
    BY <2>4, <1>4
<1>7. QED
  BY <1>6

\* s lists the members of A in ascending order.
Orders(s, A) ==
  /\ s \in [1..Cardinality(A) -> A]
  /\ ToSet(s) = A
  /\ Ascending(s)

Ordered(A) == \E s : Orders(s, A)

\* A larger id goes to the end.
LEMMA OrderedAdd ==
  ASSUME NEW m \in Nat, NEW A \in SUBSET (1..m), NEW a \in Nat, a > m, Ordered(A)
  PROVE  Ordered(A \cup {a})
<1>1. PICK s : Orders(s, A)
  BY DEF Ordered
<1>2. IsFiniteSet(A) /\ a \notin A
  <2>1. IsFiniteSet(1..m)
    BY FS_Interval
  <2>2. IsFiniteSet(A)
    BY <2>1, FS_Subset
  <2>3. a \notin 1..m
    OBVIOUS
  <2>4. QED
    BY <2>2, <2>3
<1>3. PICK n \in Nat : n = Cardinality(A)
  BY <1>2, FS_CardinalityType
<1>4. Cardinality(A \cup {a}) = n + 1
  BY <1>2, <1>3, FS_AddElement
<1>5. s \in [1..n -> A] /\ {s[i] : i \in 1..n} = A
      /\ \A i, j \in 1..n : i < j => s[i] < s[j]
  BY <1>1, <1>3 DEF Orders, ToSet, Ascending
<1>6. PICK t : t = [i \in 1..(n + 1) |-> IF i \in 1..n THEN s[i] ELSE a]
  OBVIOUS
<1>7. \A i \in 1..(n + 1) : i \in 1..n \/ i = n + 1
  OBVIOUS
<1>8. n + 1 \in 1..(n + 1) /\ n + 1 \notin 1..n /\ \A i \in 1..n : i \in 1..(n + 1)
  OBVIOUS
<1>9. /\ t \in [1..(n + 1) -> A \cup {a}] /\ t[n + 1] = a
      /\ \A i \in 1..n : t[i] = s[i]
  BY <1>5, <1>6, <1>8
<1>10. ToSet(t) = A \cup {a}
  <2>1. ToSet(t) = {t[i] : i \in 1..(n + 1)}
    BY <1>9 DEF ToSet
  <2>2. QED
    BY <2>1, <1>5, <1>7, <1>8, <1>9
<1>11. ASSUME NEW i \in 1..(n + 1), NEW j \in 1..(n + 1), i < j
       PROVE  t[i] < t[j]
  <2>1. i \in 1..n
    BY <1>11
  <2>2. CASE j \in 1..n
    BY <2>1, <2>2, <1>5, <1>9, <1>11
  <2>3. CASE j = n + 1
    <3>1. s[i] \in 1..m
      BY <2>1, <1>5
    <3>2. s[i] < a
      BY <3>1
    <3>3. QED
      BY <3>2, <2>1, <2>3, <1>9
  <2>4. QED
    BY <2>2, <2>3, <1>7
<1>12. Ascending(t)
  BY <1>9, <1>11 DEF Ascending
<1>13. QED
  BY <1>4, <1>9, <1>10, <1>12 DEF Ordered, Orders

UpTo(A, k) == {a \in A : a <= k}

\* Prefixes of a set grow one number at a time.
LEMMA UpToParts ==
  ASSUME NEW m \in Nat, NEW A \in SUBSET (1..m), NEW k \in Nat
  PROVE  /\ UpTo(A, 0) = {} /\ UpTo(A, m) = A
         /\ UpTo(A, k) \in SUBSET (1..k)
         /\ k + 1 \in A => UpTo(A, k + 1) = UpTo(A, k) \cup {k + 1}
         /\ k + 1 \notin A => UpTo(A, k + 1) = UpTo(A, k)
<1>1. \A a \in A : a \in Int /\ 1 <= a /\ a <= m
  OBVIOUS
<1>2. \A a \in A : a <= k + 1 <=> a <= k \/ a = k + 1
  BY <1>1
<1>3. UpTo(A, 0) = {} /\ UpTo(A, m) = A
  <2>1. \A a \in A : ~(a <= 0) /\ a <= m
    BY <1>1
  <2>2. QED
    BY <2>1, Zenon DEF UpTo
<1>4. UpTo(A, k) \in SUBSET (1..k)
  <2>1. \A a \in A : a <= k => a \in 1..k
    BY <1>1
  <2>2. QED
    BY <2>1, Zenon DEF UpTo
<1>5. k + 1 \in A => UpTo(A, k + 1) = UpTo(A, k) \cup {k + 1}
  BY <1>2 DEF UpTo
<1>6. k + 1 \notin A => UpTo(A, k + 1) = UpTo(A, k)
  BY <1>2 DEF UpTo
<1>7. QED
  BY <1>3, <1>4, <1>5, <1>6

\* Every finite set of numbers can be put in order: least-number argument on the
\* first prefix that cannot.
LEMMA OrderExists ==
  ASSUME NEW m \in Nat, NEW A \in SUBSET (1..m)
  PROVE  Ordered(A)
<1> DEFINE Bad == {k \in Nat : ~Ordered(UpTo(A, k))}
<1>1. Bad = {}
  <2> SUFFICES ASSUME Bad # {}
               PROVE  FALSE
    OBVIOUS
  <2>1. PICK x \in Bad : \A y \in Bad : x <= y
    <3>1. Bad \subseteq Nat
      OBVIOUS
    <3> HIDE DEF Bad
    <3>2. QED
      BY <3>1, LeastNumber
  <2>2. x \in Nat /\ ~Ordered(UpTo(A, x)) /\ \A y \in Nat : y < x => Ordered(UpTo(A, y))
    BY <2>1
  <2> HIDE DEF Bad
  <2>3. CASE x = 0
    <3>1. UpTo(A, x) = {}
      BY <2>3, UpToParts
    <3>2. PICK s : s = [i \in {} |-> i]
      OBVIOUS
    <3>3. 1..0 = {} /\ Cardinality({}) = 0
      BY FS_EmptySet
    <3>4. Orders(s, {})
      BY <3>2, <3>3 DEF Orders, ToSet, Ascending
    <3>5. QED
      BY <2>2, <3>1, <3>4 DEF Ordered
  <2>4. CASE x > 0
    <3>1. PICK k \in Nat : x = k + 1
      <4>1. x - 1 \in Nat /\ x = (x - 1) + 1
        BY <2>2, <2>4
      <4>2. QED
        BY <4>1
    <3>2. Ordered(UpTo(A, k))
      BY <2>2, <3>1
    <3>3. UpTo(A, k) \in SUBSET (1..k)
      BY UpToParts
    <3>4. CASE x \in A
      <4>1. UpTo(A, x) = UpTo(A, k) \cup {x}
        BY <3>1, <3>4, UpToParts
      <4>2. x > k
        BY <3>1
      <4>3. Ordered(UpTo(A, k) \cup {x})
        BY <3>2, <3>3, <4>2, <2>2, OrderedAdd
      <4>4. QED
        BY <4>1, <4>3, <2>2
    <3>5. CASE x \notin A
      <4>1. UpTo(A, x) = UpTo(A, k)
        BY <3>1, <3>5, UpToParts
      <4>2. QED
        BY <4>1, <3>2, <2>2
    <3>6. QED
      BY <3>4, <3>5
  <2>5. QED
    BY <2>2, <2>3, <2>4
<1>2. UpTo(A, m) = A
  BY UpToParts
<1>3. Ordered(UpTo(A, m))
  BY <1>1
<1>4. QED
  BY <1>2, <1>3

\* InOrder puts a set in order.
LEMMA InOrderIs ==
  ASSUME NEW m \in Nat, NEW A \in SUBSET (1..m)
  PROVE  Orders(InOrder(A), A)
<1>1. PICK s : Orders(s, A)
  BY OrderExists DEF Ordered
<1>2. \E z \in [1..Cardinality(A) -> A] : ToSet(z) = A /\ Ascending(z)
  BY <1>1 DEF Orders
<1>3. QED
  BY <1>2 DEF InOrder, Orders

\* p is the first v ids of the ascending list s of A: those up to the last of them.
TakesFirst(p, v, s, A, m) ==
  /\ p \in Seq(1..m) /\ Len(p) = v
  /\ Ascending(p)
  /\ ToSet(p) \subseteq A
  /\ v # 0 => \A a \in A : a <= p[v] => a \in ToSet(p)
  /\ v = Len(s) => ToSet(p) = A

\* The first v entries are the v smallest members.
LEMMA FirstOf ==
  ASSUME NEW m \in Nat, NEW A \in SUBSET (1..m), NEW s, Orders(s, A),
         NEW v \in Nat, v <= Len(s)
  PROVE  TakesFirst(SubSeq(s, 1, v), v, s, A, m)
<1>1. PICK n \in Nat : n = Cardinality(A)
  <2>1. IsFiniteSet(1..m)
    BY FS_Interval
  <2>2. QED
    BY <2>1, FS_Subset, FS_CardinalityType
<1>2. s \in [1..n -> A] /\ {s[i] : i \in 1..n} = A
      /\ \A i, j \in 1..n : i < j => s[i] < s[j]
  BY <1>1 DEF Orders, ToSet, Ascending
<1>3. s \in Seq(1..m) /\ Len(s) = n
  <2>1. s \in [1..n -> 1..m]
    BY <1>2
  <2>2. QED
    BY <2>1
<1>4. PICK p : p = SubSeq(s, 1, v)
  OBVIOUS
<1>5. p \in Seq(1..m) /\ Len(p) = v /\ \A k \in 1..v : p[k] = s[k]
  <2>1. PICK x \in Nat : x = 0
    OBVIOUS
  <2>2. x + 1 = 1 /\ x + v = v /\ \A k \in 1..v : x + k = k
    BY <2>1
  <2>3. /\ SubSeq(s, x + 1, x + v) \in Seq(1..m)
        /\ Len(SubSeq(s, x + 1, x + v)) = v
        /\ \A k \in 1..v : SubSeq(s, x + 1, x + v)[k] = s[x + k]
    BY <1>3, <2>2, SlicePart
  <2>4. QED
    BY <2>2, <2>3, <1>4
<1>6. v <= n /\ (\A k \in 1..v : k \in 1..n) /\ DOMAIN p = 1..v
  BY <1>3, <1>5
<1>7. Ascending(p)
  BY <1>2, <1>5, <1>6 DEF Ascending
<1>8. ToSet(p) = {s[k] : k \in 1..v}
  BY <1>5, <1>6 DEF ToSet
<1>9. ToSet(p) \subseteq A
  BY <1>2, <1>6, <1>8
<1>10. v = n => ToSet(p) = A
  BY <1>2, <1>8
<1>11. ASSUME v # 0, NEW a \in A, a <= p[v]
       PROVE  a \in ToSet(p)
  <2>1. PICK k \in 1..n : a = s[k]
    BY <1>2
  <2>2. v \in 1..v /\ v \in 1..n
    BY <1>6, <1>11
  <2>3. s[k] \in 1..m /\ s[v] \in 1..m /\ s[k] <= s[v]
    BY <2>1, <2>2, <1>2, <1>5, <1>11
  <2>4. ~(v < k)
    BY <2>2, <2>3, <1>2
  <2>5. k \in 1..v
    BY <2>4
  <2>6. QED
    BY <2>1, <2>5, <1>8
<1>12. QED
  BY <1>3, <1>4, <1>5, <1>7, <1>9, <1>10, <1>11 DEF TakesFirst

-----------------------------------------------------------------------------
(* Walks through the lists.                                                *)

Walks == [list: {"none", "all", "all done", "active", "active done"}, limit: Nat,
          start: Nat, known: Nat, seen: Seq(Nat), cursors: SUBSET Nat]

\* A walk over all campaigns has received the ids 1 to start.
AllInv ==
  walk.list \in {"all", "all done"} =>
    /\ walk.start <= campaign_count
    /\ Len(walk.seen) = walk.start
    /\ \A i \in 1..walk.start : walk.seen[i] = i
    /\ walk.list = "all done" /\ walk.limit \in 1..LIST_MAX_LIMIT
         => walk.known <= walk.start

\* The walk has received the active campaigns up to n, or was handed them as cursors.
Covered(n) ==
  \A c \in 1..n : c <= campaign_count /\ campaign[c].is_active
                    => c \in ToSet(walk.seen) \cup walk.cursors

\* A walk over active campaigns has covered them up to its cursor, which may be one
\* past the last campaign and then become the id of a campaign.
ActiveInv ==
  /\ walk.list \notin {"all", "all done"} => Ascending(walk.seen)
  /\ walk.list = "active" =>
       /\ \A i \in DOMAIN walk.seen : walk.seen[i] <= walk.start
       /\ walk.start <= campaign_count + 1
       /\ walk.start # 0 => walk.start \in walk.cursors
       /\ Covered(walk.start)
  /\ walk.list = "active done" /\ walk.limit # 0 => Covered(walk.known)

WalkInv ==
  /\ walk \in Walks
  /\ walk.known <= campaign_count
  /\ AllInv /\ ActiveInv

\* The two properties are parts of the invariant.
LEMMA WalkProperties ==
  ASSUME WalkInv, campaign_count \in Nat
  PROVE  ListComplete /\ ActiveMissesOnlyCursors
<1>1. walk \in Walks
  BY DEF WalkInv
<1>2. PICK s \in Seq(Nat), st \in Nat, kn \in Nat :
        s = walk.seen /\ st = walk.start /\ kn = walk.known
  BY <1>1 DEF Walks
<1>3. ASSUME walk.list \in {"all", "all done"}
      PROVE  DOMAIN s = 1..st /\ \A i \in 1..st : s[i] = i
  <2>1. Len(walk.seen) = walk.start /\ \A i \in 1..walk.start : walk.seen[i] = i
    BY <1>3 DEF WalkInv, AllInv
  <2>2. Len(s) = st /\ \A i \in 1..st : s[i] = i
    BY <2>1, <1>2
  <2>3. QED
    BY <2>2
<1>4. Ascending(walk.seen)
  <2>1. ASSUME walk.list \in {"all", "all done"}
        PROVE  Ascending(walk.seen)
    <3>1. DOMAIN s = 1..st /\ \A i \in 1..st : s[i] = i
      BY <1>3, <2>1
    <3>2. QED
      BY <3>1, <1>2 DEF Ascending
  <2>2. QED
    BY <2>1 DEF WalkInv, ActiveInv
<1>5. ASSUME walk.list = "all done", walk.limit \in 1..LIST_MAX_LIMIT
      PROVE  1..walk.known \subseteq ToSet(walk.seen)
  <2>1. kn <= st
    BY <1>2, <1>5 DEF WalkInv, AllInv
  <2>2. DOMAIN s = 1..st /\ \A i \in 1..st : s[i] = i
    BY <1>3, <1>5
  <2>3. \A i \in 1..kn : i \in 1..st
    BY <2>1
  <2>4. \A i \in 1..kn : i \in ToSet(s)
    BY <2>2, <2>3 DEF ToSet
  <2>5. QED
    BY <2>4, <1>2
<1>6. ListComplete
  BY <1>4, <1>5 DEF ListComplete
<1>7. \A c \in 1..walk.known : c <= campaign_count
  <2>1. kn <= campaign_count
    BY <1>2 DEF WalkInv
  <2>2. \A c \in 1..kn : c <= kn
    OBVIOUS
  <2>3. \A c \in 1..kn : c <= campaign_count
    BY <2>1, <2>2
  <2>4. QED
    BY <2>3, <1>2
<1>8. ActiveMissesOnlyCursors
  BY <1>7 DEF WalkInv, ActiveInv, Covered, ActiveMissesOnlyCursors
<1>9. QED
  BY <1>6, <1>8

\* A walk that is not going on.
LEMMA WalkIdle ==
  ASSUME walk = NoWalk, campaign_count \in Nat
  PROVE  WalkInv
<1>1. <<>> \in Seq(Nat)
  OBVIOUS
<1>2. /\ walk \in Walks /\ walk.known = 0 /\ walk.list = "none"
      /\ Ascending(walk.seen)
  BY <1>1 DEF NoWalk, Walks, Ascending
<1>3. QED
  BY <1>2 DEF WalkInv, AllInv, ActiveInv

\* Without a walk there is nothing to show.
LEMMA WalkEnds ==
  ASSUME walk' = NoWalk, campaign_count' \in Nat
  PROVE  WalkInv'
<1>1. <<>> \in Seq(Nat)
  OBVIOUS
<1>2. /\ walk' \in Walks /\ walk'.known = 0 /\ walk'.list = "none"
      /\ Ascending(walk'.seen)
  BY <1>1 DEF NoWalk, Walks, Ascending
<1>3. QED
  BY <1>2 DEF WalkInv, AllInv, ActiveInv

\* Campaigns are opened and closed while a walk goes on.
LEMMA WalkWaits ==
  ASSUME WalkInv, campaign_count \in Nat, campaign_count' \in Nat,
         walk' = walk,
         campaign_count' = campaign_count \/ campaign_count' = campaign_count + 1,
         \A c \in 1..campaign_count : campaign'[c].is_active => campaign[c].is_active
  PROVE  WalkInv'
<1>1. PICK n \in Nat, m \in Nat : n = campaign_count /\ m = campaign_count'
  OBVIOUS
<1>2. PICK st \in Nat, kn \in Nat : st = walk.start /\ kn = walk.known
  BY DEF WalkInv, Walks
<1>3. kn <= n /\ (m = n \/ m = n + 1)
  BY <1>1, <1>2 DEF WalkInv
<1>4. AllInv'
  <2>1. walk.start <= campaign_count => walk'.start <= campaign_count'
    BY <1>1, <1>2, <1>3
  <2>2. QED
    BY <2>1 DEF WalkInv, AllInv
<1>5. ASSUME Covered(walk.known) PROVE Covered(walk.known)'
  <2> SUFFICES ASSUME NEW c \in 1..kn, c <= campaign_count', campaign'[c].is_active
               PROVE  c \in ToSet(walk'.seen) \cup walk'.cursors
    BY <1>2 DEF Covered
  <2>1. c \in 1..n
    BY <1>3
  <2>2. c <= campaign_count /\ campaign[c].is_active
    BY <2>1, <1>1
  <2>3. QED
    BY <2>2, <1>2, <1>5 DEF Covered
<1>6. ASSUME Covered(walk.start), walk.start <= campaign_count + 1,
             walk.start # 0 => walk.start \in walk.cursors
      PROVE  Covered(walk.start)' /\ walk'.start <= campaign_count' + 1
  <2>1. st <= n + 1
    BY <1>1, <1>2, <1>6
  <2>2. walk'.start <= campaign_count' + 1
    BY <2>1, <1>1, <1>2, <1>3
  <2>3. ASSUME NEW c \in 1..st, c <= campaign_count', campaign'[c].is_active
        PROVE  c \in ToSet(walk'.seen) \cup walk'.cursors
    <3>1. c \in 1..n \/ c = st
      BY <2>1
    <3>2. CASE c \in 1..n
      <4>1. c <= campaign_count /\ campaign[c].is_active
        BY <3>2, <2>3, <1>1
      <4>2. QED
        BY <4>1, <1>2, <1>6 DEF Covered
    <3>3. CASE c = st
      BY <3>3, <1>2, <1>6
    <3>4. QED
      BY <3>1, <3>2, <3>3
  <2>4. QED
    BY <2>2, <2>3, <1>2 DEF Covered
<1>7. ActiveInv'
  BY <1>5, <1>6 DEF WalkInv, ActiveInv
<1>8. walk'.known <= campaign_count'
  BY <1>1, <1>2, <1>3
<1>9. QED
  BY <1>4, <1>7, <1>8 DEF WalkInv

\* A walk starts with nothing seen.
LEMMA WalkStarts ==
  ASSUME campaign_count \in Nat, NEW list \in {"all", "active"}, NEW limit \in Limits,
         start_walk(list, limit)
  PROVE  WalkInv'
<1>1. /\ walk' = [list |-> list, limit |-> limit, start |-> 0, known |-> campaign_count,
                  seen |-> <<>>, cursors |-> {}]
      /\ campaign_count' = campaign_count
  BY DEF start_walk, NoWalk, vars
<1>2. <<>> \in Seq(Nat) /\ Len(<<>>) = 0 /\ DOMAIN <<>> = {} /\ 1..0 = {} /\ limit \in Nat
  OBVIOUS
<1>3. walk' \in Walks
  BY <1>1, <1>2 DEF Walks
<1>4. /\ walk'.start = 0 /\ walk'.known = campaign_count' /\ walk'.seen = <<>>
      /\ walk'.list \in {"all", "active"} /\ campaign_count' \in Nat
  BY <1>1
<1>5. walk'.known <= campaign_count' /\ walk'.start <= campaign_count'
      /\ walk'.start <= campaign_count' + 1
  BY <1>4
<1>6. AllInv'
  BY <1>2, <1>4, <1>5 DEF AllInv
<1>7. Covered(walk.start)'
  BY <1>2, <1>4 DEF Covered
<1>8. Ascending(walk'.seen)
  BY <1>2, <1>4 DEF Ascending
<1>9. ActiveInv'
  BY <1>2, <1>4, <1>5, <1>7, <1>8 DEF ActiveInv
<1>10. QED
  BY <1>3, <1>5, <1>6, <1>9 DEF WalkInv

\* The number of entries a page may have.
LEMMA CappedValue ==
  ASSUME NEW limit \in Nat
  PROVE  /\ Capped(limit) \in Nat
         /\ limit # 0 => Capped(limit) # 0
         /\ limit <= LIST_MAX_LIMIT => Capped(limit) = limit
<1>1. limit \in Int /\ LIST_MAX_LIMIT \in Int
  OBVIOUS
<1>2. Min({limit, LIST_MAX_LIMIT}) = IF limit <= LIST_MAX_LIMIT THEN limit
                                     ELSE LIST_MAX_LIMIT
  BY <1>1, MinPair
<1>3. QED
  BY <1>2 DEF Capped

\* The length of a page of all campaigns.
LEMMA PageLength ==
  ASSUME NEW st \in Nat, NEW cap \in Nat, NEW n \in Nat, st <= n
  PROVE  Max({0, Min({st + cap, n}) - st}) = IF st + cap <= n THEN cap ELSE n - st
<1>1. PICK x \in Int : x = st + cap
  OBVIOUS
<1>2. Min({x, n}) = IF x <= n THEN x ELSE n
  BY MinPair
<1>3. PICK y \in Int : y = Min({x, n}) - st
  BY <1>2
<1>4. PICK z \in Int : z = 0
  OBVIOUS
<1>5. Max({z, y}) = IF z >= y THEN z ELSE y
  BY MaxPair
<1>6. Max({0, Min({st + cap, n}) - st}) = Max({z, y})
  BY <1>1, <1>3, <1>4
<1>7. QED
  BY <1>1, <1>2, <1>3, <1>4, <1>5, <1>6

\* The entries of a concatenation.
LEMMA Concatenation ==
  ASSUME NEW T, NEW s \in Seq(T), NEW p \in Seq(T)
  PROVE  /\ s \o p \in Seq(T) /\ Len(s \o p) = Len(s) + Len(p)
         /\ \A i \in 1..Len(s) : (s \o p)[i] = s[i]
         /\ \A i \in 1..Len(p) : (s \o p)[Len(s) + i] = p[i]
OBVIOUS

\* s counts from a on, k times.
Counts(s, a, k) == Len(s) = k /\ \A i \in 1..k : s[i] = a + i

\* Two runs of consecutive numbers, one after the other.
LEMMA CountOn ==
  ASSUME NEW s \in Seq(Nat), NEW p \in Seq(Nat), NEW a \in Nat, NEW st \in Nat,
         NEW k \in Nat, Counts(s, a, st), Counts(p, a + st, k)
  PROVE  s \o p \in Seq(Nat) /\ Counts(s \o p, a, st + k)
<1>1. /\ s \o p \in Seq(Nat) /\ Len(s \o p) = Len(s) + Len(p)
      /\ \A i \in 1..Len(s) : (s \o p)[i] = s[i]
      /\ \A i \in 1..Len(p) : (s \o p)[Len(s) + i] = p[i]
  BY Concatenation
<1>2. Len(s) = st /\ Len(p) = k
  BY DEF Counts
<1>3. ASSUME NEW i \in 1..(st + k)
      PROVE  (s \o p)[i] = a + i
  <2>1. CASE i <= st
    <3>1. i \in 1..st
      BY <2>1
    <3>2. QED
      BY <3>1, <1>1, <1>2 DEF Counts
  <2>2. CASE i > st
    <3>1. PICK j \in 1..k : i = st + j
      <4>1. i - st \in 1..k /\ i = st + (i - st)
        BY <2>2
      <4>2. QED
        BY <4>1
    <3>2. (s \o p)[st + j] = p[j]
      BY <1>1, <1>2
    <3>3. p[j] = a + st + j
      BY DEF Counts
    <3>4. a + st + j = a + i
      BY <3>1
    <3>5. QED
      BY <3>1, <3>2, <3>3, <3>4
  <2>3. i <= st \/ i > st
    OBVIOUS
  <2>4. QED
    BY <2>1, <2>2, <2>3
<1>4. QED
  BY <1>1, <1>2, <1>3 DEF Counts

\* The next page of all campaigns continues where the walk is.
LEMMA WalkAll ==
  ASSUME WalkInv, campaign_count \in Nat, list_campaigns
  PROVE  WalkInv'
<1>1. walk \in Walks /\ walk.list = "all" /\ campaign_count' = campaign_count
  BY DEF WalkInv, list_campaigns, vars
<1>2. PICK s \in Seq(Nat), st \in Nat, kn \in Nat, lim \in Nat, n \in Nat :
        /\ s = walk.seen /\ st = walk.start /\ kn = walk.known /\ lim = walk.limit
        /\ n = campaign_count
  BY <1>1 DEF Walks
<1>3. st <= n /\ kn <= n /\ Len(s) = st /\ \A i \in 1..st : s[i] = i
  BY <1>1, <1>2 DEF WalkInv, AllInv
<1>4. PICK cap \in Nat : /\ cap = Capped(lim)
                         /\ lim <= LIST_MAX_LIMIT => cap = lim
  BY CappedValue
<1>5. PICK k \in Nat : k = IF st + cap <= n THEN cap ELSE n - st
  <2>1. (IF st + cap <= n THEN cap ELSE n - st) \in Nat
    BY <1>3
  <2>2. QED
    BY <2>1
<1>6. st + k <= n
  BY <1>3, <1>5
<1>7. PICK p : p = PageOf(walk.start, walk.limit)
  OBVIOUS
<1>8. p = [i \in 1..k |-> st + i]
  <2>1. Max({0, Min({st + cap, n}) - st}) = k
    BY <1>3, <1>5, PageLength
  <2>2. p = [i \in 1..Max({0, Min({st + Capped(lim), n}) - st}) |-> st + i]
    BY <1>2, <1>7 DEF PageOf
  <2>3. QED
    BY <2>1, <2>2, <1>4
<1>9. p \in Seq(Nat) /\ Len(p) = k /\ \A i \in 1..k : p[i] = st + i
  <2>1. p \in [1..k -> Nat]
    BY <1>8
  <2>2. QED
    BY <2>1, <1>8
<1>10. p = <<>> <=> k = 0
  BY <1>9
<1>11. (IF p = <<>> THEN st ELSE Last(p)) = st + k
  <2>1. CASE k = 0
    BY <2>1, <1>10
  <2>2. CASE k # 0
    <3>1. k \in 1..k /\ p # <<>>
      BY <2>2, <1>10
    <3>2. Last(p) = st + k
      BY <3>1, <1>9 DEF Last
    <3>3. QED
      BY <3>1, <3>2
  <2>3. QED
    BY <2>1, <2>2
<1>12. PICK l : /\ l \in {"all", "all done"}
                /\ l = IF p = <<>> \/ Len(p) < lim THEN "all done" ELSE "all"
  OBVIOUS
<1>13. walk' = [walk EXCEPT !.seen = s \o p, !.start = st + k, !.list = l]
  BY <1>1, <1>2, <1>7, <1>11, <1>12 DEF list_campaigns
<1>14. /\ s \o p \in Seq(Nat) /\ Len(s \o p) = st + k
       /\ \A i \in 1..(st + k) : (s \o p)[i] = i
  <2>1. PICK a \in Nat : a = 0
    OBVIOUS
  <2>2. a + st = st /\ \A i \in Nat : a + i = i
    BY <2>1
  <2>3. Counts(s, a, st) /\ Counts(p, a + st, k)
    BY <2>2, <1>3, <1>9 DEF Counts
  <2>4. s \o p \in Seq(Nat) /\ Counts(s \o p, a, st + k)
    BY <2>3, <1>9, CountOn
  <2>5. QED
    BY <2>2, <2>4 DEF Counts
<1>15. /\ walk' \in Walks /\ walk'.list = l /\ walk'.start = st + k /\ walk'.known = kn
       /\ walk'.limit = lim /\ walk'.seen = s \o p
  <2>1. PICK z \in Seq(Nat) : z = s \o p
    BY <1>14
  <2>2. PICK a \in Nat : a = st + k
    OBVIOUS
  <2>3. walk' = [walk EXCEPT !.seen = z, !.start = a, !.list = l]
    BY <2>1, <2>2, <1>13
  <2>4. /\ walk' \in Walks /\ walk'.list = l /\ walk'.start = a /\ walk'.known = walk.known
        /\ walk'.limit = walk.limit /\ walk'.seen = z
    BY <2>3, <1>1, <1>12 DEF Walks
  <2>5. QED
    BY <2>1, <2>2, <2>4, <1>2
<1>16. l = "all done" /\ lim \in 1..LIST_MAX_LIMIT => kn <= st + k
  <2>1. l = "all done" => k = 0 \/ k < lim
    BY <1>9, <1>10, <1>12
  <2>2. lim \in 1..LIST_MAX_LIMIT => lim # 0 /\ lim <= LIST_MAX_LIMIT
    OBVIOUS
  <2>3. ASSUME k = 0 \/ k < lim, lim # 0, lim <= LIST_MAX_LIMIT
        PROVE  kn <= st + k
    <3>1. cap = lim
      BY <2>3, <1>4
    <3>2. QED
      BY <3>1, <2>3, <1>3, <1>5
  <2>4. QED
    BY <2>1, <2>2, <2>3
<1>17. AllInv'
  BY <1>1, <1>2, <1>6, <1>14, <1>15, <1>16 DEF AllInv
<1>18. ActiveInv'
  BY <1>12, <1>15 DEF ActiveInv
<1>19. walk'.known <= campaign_count'
  BY <1>1, <1>2, <1>3, <1>15
<1>20. QED
  BY <1>15, <1>17, <1>18, <1>19 DEF WalkInv

\* Later ids after earlier ones.
LEMMA AscendingOn ==
  ASSUME NEW s \in Seq(Nat), NEW p \in Seq(Nat), NEW st \in Nat,
         Ascending(s), Ascending(p),
         \A i \in DOMAIN s : s[i] <= st, \A a \in ToSet(p) : a > st
  PROVE  /\ s \o p \in Seq(Nat) /\ Ascending(s \o p)
         /\ ToSet(s \o p) = ToSet(s) \cup ToSet(p)
<1>1. PICK m \in Nat, n \in Nat : m = Len(s) /\ n = Len(p)
  OBVIOUS
<1>2. /\ s \o p \in Seq(Nat) /\ Len(s \o p) = m + n
      /\ \A i \in 1..m : (s \o p)[i] = s[i]
      /\ \A i \in 1..n : (s \o p)[m + i] = p[i]
  BY <1>1, Concatenation
<1>3. DOMAIN s = 1..m /\ DOMAIN p = 1..n
  BY <1>1
<1>4. DOMAIN (s \o p) = 1..(m + n)
  BY <1>2
<1>5. PICK z : z = s \o p
  OBVIOUS
<1>6. ASSUME NEW i \in 1..(m + n)
      PROVE  i \in 1..m \/ \E j \in 1..n : i = m + j
  <2>1. CASE i <= m
    BY <2>1
  <2>2. CASE i > m
    <3>1. i - m \in 1..n /\ i = m + (i - m)
      BY <2>2
    <3>2. QED
      BY <3>1
  <2>3. i <= m \/ i > m
    OBVIOUS
  <2>4. QED
    BY <2>1, <2>2, <2>3
<1>7. /\ \A i \in 1..m : z[i] = s[i] /\ s[i] \in Nat /\ s[i] <= st
      /\ \A i \in 1..n : z[m + i] = p[i] /\ p[i] \in Nat /\ p[i] > st
  <2>1. \A i \in 1..m : s[i] \in Nat
    BY <1>3
  <2>2. \A i \in 1..n : p[i] \in Nat /\ p[i] \in ToSet(p)
    BY <1>3 DEF ToSet
  <2>3. QED
    BY <2>1, <2>2, <1>2, <1>3, <1>5
<1>8. ASSUME NEW i \in 1..(m + n), NEW j \in 1..(m + n), i < j
      PROVE  z[i] < z[j]
  <2>1. CASE i \in 1..m /\ j \in 1..m
    BY <2>1, <1>3, <1>7, <1>8 DEF Ascending
  <2>2. ASSUME i \in 1..m, NEW b \in 1..n, j = m + b
        PROVE  z[i] < z[j]
    <3>1. z[i] \in Nat /\ z[j] \in Nat /\ z[i] <= st /\ z[j] > st
      BY <2>2, <1>7
    <3>2. QED
      BY <3>1
  <2>3. ASSUME NEW a \in 1..n, i = m + a
        PROVE  z[i] < z[j]
    <3>1. j \notin 1..m
      BY <2>3, <1>8
    <3>2. PICK b \in 1..n : j = m + b
      BY <3>1, <1>6
    <3>3. a < b
      BY <2>3, <3>2, <1>8
    <3>4. p[a] < p[b]
      BY <3>3, <1>3 DEF Ascending
    <3>5. QED
      BY <3>2, <3>4, <2>3, <1>7
  <2>4. QED
    BY <2>1, <2>2, <2>3, <1>6
<1>9. Ascending(z)
  BY <1>4, <1>5, <1>8 DEF Ascending
<1>10. ToSet(z) = ToSet(s) \cup ToSet(p)
  <2>1. ToSet(z) = {z[i] : i \in 1..(m + n)}
    BY <1>4, <1>5 DEF ToSet
  <2>2. ToSet(s) = {s[i] : i \in 1..m} /\ ToSet(p) = {p[i] : i \in 1..n}
    BY <1>3 DEF ToSet
  <2>3. (\A i \in 1..m : i \in 1..(m + n)) /\ (\A i \in 1..n : m + i \in 1..(m + n))
    OBVIOUS
  <2>4. ASSUME NEW i \in 1..(m + n)
        PROVE  z[i] \in ToSet(s) \cup ToSet(p)
    <3>1. CASE i \in 1..m
      BY <3>1, <2>2, <1>7
    <3>2. ASSUME NEW j \in 1..n, i = m + j
          PROVE  z[i] \in ToSet(s) \cup ToSet(p)
      BY <3>2, <2>2, <1>7
    <3>3. QED
      BY <3>1, <3>2, <1>6
  <2>5. \A x \in ToSet(s) \cup ToSet(p) : x \in ToSet(z)
    BY <2>1, <2>2, <2>3, <1>7
  <2>6. QED
    BY <2>1, <2>4, <2>5
<1>11. QED
  BY <1>2, <1>5, <1>9, <1>10

\* One page of list_active_campaigns, as values: from cursor st, of n campaigns of
\* which those in F are active, at most cap ids, none of them beyond h, W ids after st.
ScanEnd(st, n, W, h) == h = IF st + W <= n THEN st + W ELSE n

PageIs(A, cap, s, v, p) ==
  /\ s = InOrder(A)
  /\ v = IF Len(s) <= cap THEN Len(s) ELSE cap
  /\ p = SubSeq(s, 1, v)

CursorIs(st, n, W, cap, p, next) ==
  next = IF Len(p) = cap THEN Last(p) + 1
         ELSE IF st + W < n THEN st + W + 1 ELSE 0

\* An ordering has a length.
LEMMA OrderLength ==
  ASSUME NEW h \in Nat, NEW A \in SUBSET (1..h)
  PROVE  Len(InOrder(A)) \in Nat
<1>1. Orders(InOrder(A), A)
  BY InOrderIs
<1>2. PICK k \in Nat : k = Cardinality(A)
  <2>1. 1 \in Int /\ h \in Int
    OBVIOUS
  <2>2. IsFiniteSet(1..h)
    BY <2>1, FS_Interval
  <2>3. QED
    BY <2>2, FS_Subset, FS_CardinalityType
<1>3. InOrder(A) \in [1..k -> A]
  BY <1>1, <1>2 DEF Orders
<1>4. QED
  BY <1>3

\* The page: the first ids of A, all of them unless it is full.
LEMMA PageEntries ==
  ASSUME NEW h \in Nat, NEW A \in SUBSET (1..h), NEW cap \in Nat \ {0},
         NEW s, NEW v, NEW p, PageIs(A, cap, s, v, p)
  PROVE  /\ p \in Seq(Nat) /\ Len(p) \in Nat /\ Ascending(p) /\ ToSet(p) \subseteq A
         /\ Len(p) = cap => \A a \in A : a <= Last(p) => a \in ToSet(p)
         /\ Len(p) = cap => Last(p) \in ToSet(p) /\ \A a \in ToSet(p) : a <= Last(p)
         /\ Len(p) # cap => ToSet(p) = A
<1>1. Orders(s, A)
  BY InOrderIs DEF PageIs
<1>2. Len(s) \in Nat
  BY OrderLength DEF PageIs
<1>3. PICK w \in Nat : w = v /\ w <= Len(s) /\ (w = cap \/ w = Len(s))
  <2>1. v = IF Len(s) <= cap THEN Len(s) ELSE cap
    BY DEF PageIs
  <2>2. QED
    BY <2>1, <1>2
<1>4. p = SubSeq(s, 1, w)
  BY <1>3 DEF PageIs
<1>5. TakesFirst(SubSeq(s, 1, w), w, s, A, h)
  BY <1>1, <1>3, FirstOf
<1>6. /\ p \in Seq(1..h) /\ Len(p) = w /\ Ascending(p) /\ ToSet(p) \subseteq A
      /\ w # 0 => \A a \in A : a <= p[w] => a \in ToSet(p)
      /\ w = Len(s) => ToSet(p) = A
  BY <1>4, <1>5 DEF TakesFirst
<1>7. p \in Seq(Nat) /\ DOMAIN p = 1..w
  <2>1. 1..h \subseteq Nat
    OBVIOUS
  <2>2. QED
    BY <2>1, <1>6
<1>8. ASSUME w = cap
      PROVE  /\ Last(p) = p[w] /\ w # 0 /\ Last(p) \in ToSet(p)
             /\ \A a \in ToSet(p) : a <= Last(p)
  <2>1. Last(p) = p[w] /\ w # 0 /\ w \in 1..w
    BY <1>6, <1>8 DEF Last
  <2>2. p[w] \in ToSet(p)
    BY <2>1, <1>7 DEF ToSet
  <2>3. ASSUME NEW i \in 1..w
        PROVE  p[i] <= p[w]
    <3>1. p[i] \in Nat /\ p[w] \in Nat
      BY <2>1, <1>7
    <3>2. i < w => p[i] < p[w]
      BY <2>1, <1>6, <1>7 DEF Ascending
    <3>3. i < w \/ i = w
      OBVIOUS
    <3>4. QED
      BY <3>1, <3>2, <3>3
  <2>4. QED
    BY <2>1, <2>2, <2>3, <1>7 DEF ToSet
<1>9. QED
  BY <1>3, <1>6, <1>7, <1>8

\* What the page and the cursor leave behind them: the page continues after st, and
\* the active ids before the cursor, or all of them if there is none, are in it.
PageCovers(p, next, st, n, F) ==
  /\ p \in Seq(Nat) /\ Ascending(p) /\ \A a \in ToSet(p) : a > st
  /\ next \in Nat /\ next <= n + 1
  /\ next # 0 => \A a \in ToSet(p) : a <= next
  /\ \A c \in (st + 1)..n : c \in F /\ (next = 0 \/ c < next) => c \in ToSet(p)
  /\ next # 0 => st <= next

\* A page of list_active_campaigns and its cursor skip no active campaign but, possibly,
\* the one at the cursor.
LEMMA ActivePage ==
  ASSUME NEW st \in Nat, NEW n \in Nat, st < n, NEW cap \in Nat \ {0},
         NEW W \in Nat \ {0}, NEW F, NEW h, ScanEnd(st, n, W, h),
         NEW s, NEW v, NEW p, PageIs({c \in (st + 1)..h : c \in F}, cap, s, v, p),
         NEW next, CursorIs(st, n, W, cap, p, next)
  PROVE  PageCovers(p, next, st, n, F)
<1>1. h \in Nat /\ h <= n /\ h <= st + W /\ (h = n \/ (h = st + W /\ st + W < n))
  BY DEF ScanEnd
<1>2. PICK A : A = {c \in (st + 1)..h : c \in F}
  OBVIOUS
<1>3. \A a \in A : a \in Nat /\ a \in 1..h /\ a > st
  BY <1>1, <1>2
<1>4. A \in SUBSET (1..h) /\ PageIs(A, cap, s, v, p)
  BY <1>2, <1>3
<1>5. /\ p \in Seq(Nat) /\ Len(p) \in Nat /\ Ascending(p) /\ ToSet(p) \subseteq A
      /\ Len(p) = cap => \A a \in A : a <= Last(p) => a \in ToSet(p)
      /\ Len(p) = cap => Last(p) \in ToSet(p) /\ \A a \in ToSet(p) : a <= Last(p)
      /\ Len(p) # cap => ToSet(p) = A
  BY <1>1, <1>4, PageEntries
<1>6. \A a \in ToSet(p) : a \in Nat /\ a > st /\ a <= h
  <2>1. \A a \in ToSet(p) : a \in A
    BY <1>5
  <2>2. QED
    BY <2>1, <1>1, <1>3
<1>7. \A c \in (st + 1)..n : c \in Nat /\ (c \in F /\ c <= h => c \in A)
  BY <1>1, <1>2
<1>8. CASE Len(p) = cap
  <2>1. PICK l \in Nat : l = Last(p) /\ l <= h /\ l > st
    BY <1>5, <1>6, <1>8
  <2>2. next = l + 1
    BY <2>1, <1>8 DEF CursorIs
  <2>3. next \in Nat /\ next <= n + 1 /\ next # 0 /\ st <= next
    BY <2>1, <2>2, <1>1
  <2>4. \A a \in ToSet(p) : a <= l
    BY <2>1, <1>5, <1>8
  <2>5. \A a \in ToSet(p) : a <= next
    BY <2>2, <2>4, <1>6
  <2>6. ASSUME NEW c \in (st + 1)..n, c \in F, c < next
        PROVE  c \in ToSet(p)
    <3>1. c \in Nat /\ c <= l
      BY <2>2, <2>6, <1>7
    <3>2. c \in A
      BY <3>1, <2>1, <2>6, <1>1, <1>7
    <3>3. QED
      BY <3>1, <3>2, <2>1, <1>5, <1>8
  <2>7. QED
    BY <2>3, <2>5, <2>6, <1>5, <1>6 DEF PageCovers
<1>9. CASE Len(p) # cap
  <2>1. ToSet(p) = A
    BY <1>5, <1>9
  <2>2. next = IF st + W < n THEN st + W + 1 ELSE 0
    BY <1>9 DEF CursorIs
  <2>3. next \in Nat /\ next <= n + 1 /\ (next # 0 => st <= next)
    BY <2>2
  <2>4. next # 0 => h <= next
    BY <2>2, <1>1
  <2>5. next # 0 => \A a \in ToSet(p) : a <= next
    BY <2>3, <2>4, <1>1, <1>6
  <2>6. ASSUME NEW c \in (st + 1)..n, c \in F, next = 0 \/ c < next
        PROVE  c \in ToSet(p)
    <3>1. c \in Nat /\ c <= n
      OBVIOUS
    <3>2. c <= h
      BY <3>1, <2>2, <2>6, <1>1
    <3>3. QED
      BY <3>2, <2>1, <2>6, <1>7
  <2>7. QED
    BY <2>3, <2>5, <2>6, <1>5, <1>6 DEF PageCovers
<1>10. QED
  BY <1>8, <1>9

\* The ids of the active campaigns.
Flagged == {c \in CampaignIds : campaign[c].is_active}

\* The walk receives page p and the cursor next, and they cover what they should.
PageTaken(p, next) ==
  /\ walk.list = "active"
  /\ walk' = [walk EXCEPT !.seen = @ \o p, !.start = next, !.cursors = @ \cup {next},
                          !.list = IF next = 0 THEN "active done" ELSE "active"]
  /\ UNCHANGED <<campaign_count, campaign>>
  /\ PageCovers(p, next, walk.start, campaign_count,
                IF walk.limit = 0 THEN {} ELSE Flagged)
  /\ next # 0 => walk.limit # 0

\* Such a page extends what the walk has covered.
LEMMA WalkOn ==
  ASSUME WalkInv, TypeOK, NEW p \in Seq(Nat), NEW next \in Nat, PageTaken(p, next)
  PROVE  WalkInv'
<1>1. /\ walk \in Walks /\ walk.list = "active"
      /\ campaign_count' = campaign_count /\ campaign' = campaign
  BY DEF WalkInv, PageTaken
<1>2. PICK z \in Seq(Nat), st \in Nat, kn \in Nat, lim \in Nat, n \in Nat :
        /\ z = walk.seen /\ st = walk.start /\ kn = walk.known /\ lim = walk.limit
        /\ n = campaign_count
  <2>1. campaign_count \in Nat
    BY DEF TypeOK
  <2>2. QED
    BY <2>1, <1>1 DEF Walks
<1>0. PICK cs : cs = walk.cursors /\ cs \in SUBSET Nat
  BY <1>1 DEF Walks
<1>3. /\ kn <= n /\ Ascending(z) /\ st <= n + 1
      /\ \A i \in DOMAIN z : z[i] <= st
      /\ st # 0 => st \in cs
  BY <1>0, <1>1, <1>2 DEF WalkInv, ActiveInv
<1>4. n <= MaxCampaigns /\ \A c \in 1..n : c \in CampaignIds
  BY <1>2 DEF TypeOK, CampaignIds
<1>5. \A c \in 1..st : c <= n /\ c \in Flagged => c \in ToSet(z) \cup cs
  BY <1>0, <1>1, <1>2 DEF WalkInv, ActiveInv, Covered, Flagged
<1>10. /\ Ascending(p) /\ \A a \in ToSet(p) : a > st
       /\ next <= n + 1
       /\ next # 0 => \A a \in ToSet(p) : a <= next
       /\ next # 0 => st <= next
       /\ lim # 0 => \A c \in (st + 1)..n :
            c \in Flagged /\ (next = 0 \/ c < next) => c \in ToSet(p)
       /\ next # 0 => lim # 0
  BY <1>2 DEF PageCovers, PageTaken
<1>12. /\ z \o p \in Seq(Nat) /\ Ascending(z \o p)
       /\ ToSet(z \o p) = ToSet(z) \cup ToSet(p)
  BY <1>10, <1>3, AscendingOn
<1>13. PICK y \in Seq(Nat) : y = z \o p
  BY <1>12
<1>14. PICK l : /\ l \in {"active", "active done"}
                /\ l = IF next = 0 THEN "active done" ELSE "active"
  OBVIOUS
<1>15. /\ walk' \in Walks /\ walk'.list = l /\ walk'.start = next
       /\ walk'.known = walk.known /\ walk'.limit = walk.limit /\ walk'.seen = y
       /\ walk'.cursors = cs \cup {next}
  <2>1. PICK q : q = cs \cup {next} /\ q \in SUBSET Nat
    <3>1. cs \cup {next} \in SUBSET Nat
      BY <1>0, Zenon
    <3>2. QED
      BY <3>1
  <2>2. walk' = [walk EXCEPT !.seen = y, !.start = next, !.cursors = q, !.list = l]
    BY <2>1, <1>0, <1>2, <1>13, <1>14 DEF PageTaken
  <2>3. /\ walk' \in Walks /\ walk'.list = l /\ walk'.start = next
        /\ walk'.known = walk.known /\ walk'.limit = walk.limit /\ walk'.seen = y
        /\ walk'.cursors = q
    BY <2>1, <2>2, <1>1, <1>14 DEF Walks
  <2>4. QED
    BY <2>1, <2>3
<1>16. AllInv'
  BY <1>14, <1>15 DEF AllInv
<1>17. ASSUME lim # 0, NEW c \in 1..n, c \in Flagged, next = 0 \/ c <= next
       PROVE  c \in ToSet(y) \cup (cs \cup {next})
  <2>1. CASE c <= st
    <3>1. c \in 1..st /\ c <= n
      BY <2>1
    <3>2. QED
      BY <3>1, <1>12, <1>13, <1>17, <1>5
  <2>2. CASE c > st
    <3>1. c \in (st + 1)..n
      BY <2>2
    <3>2. c <= next => c < next \/ c = next
      OBVIOUS
    <3>3. QED
      BY <3>1, <3>2, <1>10, <1>12, <1>13, <1>17
  <2>3. QED
    BY <2>1, <2>2
<1>18. ASSUME lim # 0, NEW k \in Nat, next = 0 \/ k <= next
       PROVE  \A c \in 1..k : c <= campaign_count' /\ campaign'[c].is_active
                => c \in ToSet(walk'.seen) \cup walk'.cursors
  <2> SUFFICES ASSUME NEW c \in 1..k, c <= campaign_count', campaign'[c].is_active
               PROVE  c \in ToSet(walk'.seen) \cup walk'.cursors
    OBVIOUS
  <2>1. c \in 1..n
    BY <1>1, <1>2
  <2>2. next = 0 \/ c <= next
    <3>1. k <= next => c <= next
      OBVIOUS
    <3>2. QED
      BY <3>1, <1>18
  <2>3. c \in Flagged
    BY <2>1, <1>1, <1>4 DEF Flagged
  <2>4. c \in ToSet(y) \cup (cs \cup {next})
    BY <2>1, <2>2, <2>3, <1>17, <1>18
  <2>5. QED
    BY <2>4, <1>15
<1>19. Ascending(walk'.seen)
  BY <1>12, <1>13, <1>15
<1>20. l = "active" => next # 0 /\ lim # 0
  BY <1>10, <1>14
<1>21. l = "active done" => next = 0
  BY <1>14
<1>22. ASSUME l = "active"
       PROVE  /\ \A i \in DOMAIN y : y[i] <= next
              /\ next <= campaign_count' + 1
              /\ next \in cs \cup {next}
              /\ Covered(walk.start)'
  <2>1. next # 0 /\ lim # 0
    BY <1>20, <1>22
  <2>2. \A a \in ToSet(z) \cup ToSet(p) : a <= next
    <3>1. \A a \in ToSet(z) : a \in Nat /\ a <= st
      <4>1. \A i \in DOMAIN z : z[i] \in Nat /\ z[i] <= st
        BY <1>3
      <4>2. QED
        BY <4>1 DEF ToSet
    <3>2. st <= next
      BY <2>1, <1>10
    <3>3. \A a \in Nat : a <= st => a <= next
      BY <3>2
    <3>4. QED
      BY <3>1, <3>3, <2>1, <1>10
  <2>3. \A i \in DOMAIN y : y[i] \in ToSet(y)
    BY DEF ToSet
  <2>4. \A i \in DOMAIN y : y[i] <= next
    BY <2>2, <2>3, <1>12, <1>13
  <2>5. next <= campaign_count' + 1
    BY <1>1, <1>2, <1>10
  <2>6. Covered(walk.start)'
    <3>1. next <= next
      OBVIOUS
    <3>2. QED
      BY <3>1, <2>1, <1>15, <1>18 DEF Covered
  <2>7. QED
    BY <2>4, <2>5, <2>6
<1>23. ASSUME l = "active done", lim # 0
       PROVE  Covered(walk.known)'
  <2>1. next = 0 /\ walk'.known = kn
    BY <1>15, <1>21, <1>23, <1>2
  <2>2. QED
    BY <2>1, <1>18, <1>23 DEF Covered
<1>24. ActiveInv'
  BY <1>14, <1>15, <1>19, <1>22, <1>23, <1>2 DEF ActiveInv
<1>25. walk'.known <= campaign_count'
  BY <1>15, <1>1, <1>2, <1>3
<1>26. QED
  BY <1>15, <1>16, <1>24, <1>25 DEF WalkInv

\* The next page of active campaigns: what the walk had covered, and the page.
LEMMA WalkActive ==
  ASSUME WalkInv, TypeOK, list_active_campaigns
  PROVE  WalkInv'
<1>1. /\ walk \in Walks /\ walk.list = "active"
      /\ campaign_count' = campaign_count /\ campaign' = campaign
  BY DEF WalkInv, list_active_campaigns, vars
<1>2. PICK z \in Seq(Nat), st \in Nat, kn \in Nat, lim \in Nat, n \in Nat :
        /\ z = walk.seen /\ st = walk.start /\ kn = walk.known /\ lim = walk.limit
        /\ n = campaign_count
  <2>1. campaign_count \in Nat
    BY DEF TypeOK
  <2>2. QED
    BY <2>1, <1>1 DEF Walks
<1>0. PICK cs : cs = walk.cursors /\ cs \in SUBSET Nat
  BY <1>1 DEF Walks
<1>3. /\ kn <= n /\ Ascending(z) /\ st <= n + 1
      /\ \A i \in DOMAIN z : z[i] <= st
      /\ st # 0 => st \in cs
  BY <1>0, <1>1, <1>2 DEF WalkInv, ActiveInv
<1>4. n <= MaxCampaigns /\ \A c \in 1..n : c \in CampaignIds
  BY <1>2 DEF TypeOK, CampaignIds
<1>5. \A c \in 1..st : c <= n /\ c \in Flagged => c \in ToSet(z) \cup cs
  BY <1>0, <1>1, <1>2 DEF WalkInv, ActiveInv, Covered, Flagged
<1>6. SUFFICES \E p \in Seq(Nat), next \in Nat :
         /\ walk' = [walk EXCEPT !.seen = z \o p, !.start = next, !.cursors = cs \cup {next},
                                 !.list = IF next = 0 THEN "active done" ELSE "active"]
         /\ PageCovers(p, next, st, n, IF lim = 0 THEN {} ELSE Flagged)
         /\ next # 0 => lim # 0
  <2>1. PICK p \in Seq(Nat), next \in Nat : PageTaken(p, next)
    BY <1>0, <1>1, <1>2, <1>6 DEF PageTaken
  <2>2. QED
    BY <2>1, <1>1, WalkOn
<1>7. CASE st >= n \/ lim = 0
  <2>1. walk' = [walk EXCEPT !.seen = z \o <<>>, !.start = 0, !.cursors = cs \cup {0},
                             !.list = "active done"]
    <3>1. st >= campaign_count \/ walk.limit = 0
      BY <1>2, <1>7
    <3>2. \A k \in Int : SubSeq(<<>>, 1, Min({Len(<<>>), k})) = <<>>
      <4>1. ASSUME NEW k \in Int PROVE SubSeq(<<>>, 1, Min({Len(<<>>), k})) = <<>>
        <5>1. PICK o \in Int : o = 0 /\ o = Len(<<>>)
          OBVIOUS
        <5>2. Min({o, k}) = IF o <= k THEN o ELSE k
          BY MinPair
        <5>3. PICK x \in Int : x = Min({o, k}) /\ x <= 0
          BY <5>1, <5>2
        <5>4. SubSeq(<<>>, 1, x) = <<>>
          BY <5>3
        <5>5. QED
          BY <5>1, <5>3, <5>4
      <4>2. QED
        BY <4>1
    <3>3. Capped(walk.limit) \in Int
      BY <1>2, CappedValue
    <3>4. SubSeq(<<>>, 1, Min({Len(<<>>), Capped(walk.limit)})) = <<>>
      BY <3>2, <3>3
    <3>5. QED
      BY <3>1, <3>4, <1>0, <1>1, <1>2 DEF list_active_campaigns
  <2>2. <<>> \in Seq(Nat) /\ ToSet(<<>>) = {} /\ Ascending(<<>>)
    BY DEF ToSet, Ascending
  <2>3. \A c \in (st + 1)..n : c \notin (IF lim = 0 THEN {} ELSE Flagged)
    <3>1. lim # 0 => (st + 1)..n = {}
      BY <1>7
    <3>2. QED
      BY <3>1
  <2>4. 0 <= n + 1 /\ 0 \in Nat
    OBVIOUS
  <2>5. PageCovers(<<>>, 0, st, n, IF lim = 0 THEN {} ELSE Flagged)
    BY <2>2, <2>3, <2>4 DEF PageCovers
  <2>6. QED
    BY <2>1, <2>2, <2>4, <2>5
<1>8. CASE ~(st >= n \/ lim = 0)
  <2>1. PICK cap \in Nat \ {0} : cap = Capped(lim)
    BY <1>8, CappedValue
  <2>2. PICK h : h = Min({st + MAX_SCAN_WINDOW, n})
    OBVIOUS
  <2>3. ScanEnd(st, n, MAX_SCAN_WINDOW, h)
    <3>1. PICK x \in Int : x = st + MAX_SCAN_WINDOW
      OBVIOUS
    <3>2. Min({x, n}) = IF x <= n THEN x ELSE n
      BY MinPair
    <3>3. QED
      BY <3>1, <3>2, <2>2 DEF ScanEnd
  <2>4. PICK s : s = ActiveFrom(st)
    OBVIOUS
  <2>5. PICK v : v = Min({Len(s), cap})
    OBVIOUS
  <2>6. PICK p : p = SubSeq(s, 1, v)
    OBVIOUS
  <2>7. PICK next : next = NextCursor(st, p, lim)
    OBVIOUS
  <2>8. h \in Nat /\ h <= n /\ st < n
    BY <2>3, <1>8 DEF ScanEnd
  <2>9. PageIs({c \in (st + 1)..h : c \in Flagged}, cap, s, v, p)
    <3>1. PICK A : A = {c \in (st + 1)..h : c \in Flagged}
      OBVIOUS
    <3>2. \A c \in (st + 1)..h : c \in CampaignIds
      BY <2>8, <1>4
    <3>3. A = {c \in (st + 1)..h : campaign[c].is_active}
      BY <3>1, <3>2 DEF Flagged
    <3>4. s = InOrder(A)
      BY <3>3, <2>2, <2>4, <1>2 DEF ActiveFrom
    <3>5. A \in SUBSET (1..h)
      BY <3>1, <2>8
    <3>6. Len(s) \in Int
      BY <3>4, <3>5, <2>8, OrderLength
    <3>7. v = IF Len(s) <= cap THEN Len(s) ELSE cap
      BY <3>6, <2>5, MinPair
    <3>8. QED
      BY <3>1, <3>4, <3>7, <2>6 DEF PageIs
  <2>10. CursorIs(st, n, MAX_SCAN_WINDOW, cap, p, next)
    BY <2>1, <2>7, <1>2 DEF NextCursor, CursorIs
  <2>11. PageCovers(p, next, st, n, Flagged)
    BY <2>1, <2>3, <2>8, <2>9, <2>10, ActivePage
  <2>12. walk' = [walk EXCEPT !.seen = z \o p, !.start = next, !.cursors = cs \cup {next},
                              !.list = IF next = 0 THEN "active done" ELSE "active"]
    <3>1. ~(walk.start >= campaign_count \/ walk.limit = 0)
      BY <1>2, <1>8
    <3>2. /\ ActiveFrom(walk.start) = s /\ Capped(walk.limit) = cap
          /\ NextCursor(walk.start, p, walk.limit) = next
      BY <1>2, <2>1, <2>4, <2>7
    <3>3. QED
      BY <3>1, <3>2, <2>5, <2>6, <1>0, <1>1, <1>2 DEF list_active_campaigns
  <2>13. lim # 0 /\ Flagged = (IF lim = 0 THEN {} ELSE Flagged)
    BY <1>8
  <2>14. p \in Seq(Nat) /\ next \in Nat
    BY <2>11 DEF PageCovers
  <2>15. QED
    BY <2>11, <2>12, <2>13, <2>14
<1>9. QED
  BY <1>7, <1>8

\* Every step keeps what the walk has seen.
LEMMA WalkNext == ASSUME OwnInv, WalkInv, [ListNext]_listVars PROVE WalkInv'
<1>1. TypeOK /\ campaign_count \in Nat
  BY DEF OwnInv, TypeOK
<1>2. \A c \in 1..campaign_count : c \in CampaignIds
  BY <1>1 DEF TypeOK, CampaignIds
<1>3. ASSUME NEW u \in Creators, create_campaign(u), UNCHANGED walk
      PROVE  WalkInv'
  <2>1. campaign_count' = campaign_count + 1 /\ campaign_count' \in Nat
    BY <1>1, <1>3 DEF create_campaign
  <2>2. \A c \in 1..campaign_count : campaign'[c] = campaign[c]
    <3>1. \A c \in 1..campaign_count : c # campaign_count + 1
      BY <1>1
    <3>2. campaign = [c \in CampaignIds |-> campaign[c]]
      BY <1>1 DEF TypeOK
    <3>3. QED
      BY <3>1, <3>2, <1>2, <1>3 DEF create_campaign
  <2>3. QED
    BY <2>1, <2>2, <1>1, <1>3, WalkWaits
<1>4. ASSUME NEW d \in CampaignIds, close_campaign(d), UNCHANGED walk
      PROVE  WalkInv'
  <2>1. campaign_count' = campaign_count
    BY <1>4 DEF close_campaign
  <2>2. \A c \in 1..campaign_count : campaign'[c].is_active => campaign[c].is_active
    <3>1. campaign \in [CampaignIds -> Records]
      BY <1>1 DEF TypeOK, Records
    <3>2. campaign' = [campaign EXCEPT ![d].is_active = FALSE]
      BY <1>4 DEF close_campaign
    <3>3. QED
      BY <3>1, <3>2, <1>2 DEF Records
  <2>3. QED
    BY <2>1, <2>2, <1>1, <1>4, WalkWaits
<1>5. ASSUME walk = NoWalk, OwnershipNext \/ set_paused \/ QueryNext, UNCHANGED walk
      PROVE  WalkInv'
  <2>1. campaign_count' = campaign_count
    BY <1>5 DEF OwnershipNext, set_paused, QueryNext, initiate_campaign_transfer,
       accept_campaign_transfer, cancel_campaign_transfer, close_campaign,
       get_creator_campaigns, query_step, query_return
  <2>2. QED
    BY <2>1, <1>1, <1>5, WalkEnds
<1>6. ASSUME NEW limit \in Limits, NEW list \in {"all", "active"}, start_walk(list, limit)
      PROVE  WalkInv'
  BY <1>1, <1>6, WalkStarts
<1>7. CASE list_campaigns
  BY <1>1, <1>7, WalkAll
<1>8. CASE list_active_campaigns
  BY <1>1, <1>8, WalkActive
<1>9. CASE end_walk
  <2>1. walk' = NoWalk /\ campaign_count' = campaign_count
    BY <1>9 DEF end_walk, vars
  <2>2. QED
    BY <2>1, <1>1, WalkEnds
<1>10. CASE UNCHANGED listVars
  <2>1. campaign_count' = campaign_count /\ campaign' = campaign /\ walk' = walk
    BY <1>10 DEF listVars, vars
  <2>2. QED
    BY <2>1, <1>1, WalkWaits
<1>11. QED
  BY <1>3, <1>4, <1>5, <1>6, <1>7, <1>8, <1>9, <1>10 DEF ListNext

\* In every reachable state the pages a client has collected are what the listing showed
\* up to its cursor, whatever was created or closed in between: what WalksComplete and
\* ActiveWalksMissOnlyCursors rest on.
THEOREM WalkInvariant == ListSpec => []WalkInv
<1>1. ListInit => WalkInv
  <2>1. Init => campaign_count \in Nat
    BY DEF Init
  <2>2. QED
    BY <2>1, WalkIdle DEF ListInit
<1>2. OwnInv /\ WalkInv /\ [ListNext]_listVars => WalkInv'
  BY WalkNext
<1>3. ListSpec => []OwnInv
  BY OwnInvariant, ListingUsesIndex, PTL
<1>4. QED
  BY <1>1, <1>2, <1>3, PTL DEF ListSpec

\* For every page limit and every interleaving of pages with creations and closings: a
\* client that follows list_campaigns to its end has received every campaign there was
\* when it started, in order.
THEOREM WalksComplete == ListSpec => []ListComplete
<1>1. OwnInv /\ WalkInv => ListComplete
  <2>1. OwnInv => campaign_count \in Nat
    BY DEF OwnInv, TypeOK
  <2>2. QED
    BY <2>1, WalkProperties
<1>2. ListSpec => []OwnInv
  BY OwnInvariant, ListingUsesIndex, PTL
<1>3. QED
  BY <1>1, <1>2, WalkInvariant, PTL

\* For every page limit, scan window and interleaving: a client that follows the cursors
\* of list_active_campaigns misses no active campaign but those whose ids it was handed
\* as cursors.
THEOREM ActiveWalksMissOnlyCursors == ListSpec => []ActiveMissesOnlyCursors
<1>1. OwnInv /\ WalkInv => ActiveMissesOnlyCursors
  <2>1. OwnInv => campaign_count \in Nat
    BY DEF OwnInv, TypeOK
  <2>2. QED
    BY <2>1, WalkProperties
<1>2. ListSpec => []OwnInv
  BY OwnInvariant, ListingUsesIndex, PTL
<1>3. QED
  BY <1>1, <1>2, WalkInvariant, PTL
=============================================================================
