--------------------------- MODULE RevenueProofs ---------------------------
(***************************************************************************)
(* Revenue sharing for any contributors, contributions and deposits.  The  *)
(* rounded shares fit into the contributors' part of the pool and leave at *)
(* most one unit per contributor over (DuesCovered); up to the first       *)
(* deposit that follows a claim, every claim pays the whole share, so what *)
(* is claimed and what is open together stay within that part (Settled).   *)
(***************************************************************************)
EXTENDS Revenue, LifecycleProofs

USE RevenueAssumption
USE DEF campaignVars, claimVars

Dues == [u \in Contributors |-> TotalDue(u)]
OpenClaims == [u \in Contributors |-> Open(u)]
Claimed == {u \in Contributors : revenue_claimed[u] # 0}

\* A claim on record covers the share, up to the dust, and everything open is
\* still in the contributors' part of the pool.
Settled ==
  /\ \A u \in Contributors : revenue_claimed[u] # 0 => revenue_claimed[u] >= TotalDue(u)
  /\ \A u \in Contributors : revenue_claimed[u] <= TotalDue(u) + contributor_count
  /\ Total(revenue_claimed) + Total(OpenClaims) <= ContributorPoolTotal

ClaimInv ==
  /\ RevenueInv
  /\ effective_amount_raised > 0
  /\ balance = Others + PoolLeft
  /\ creator_revenue_claimed <= CreatorShareTotal
  /\ \A u \in Contributors : revenue_claimed[u] # 0 => contribution[u] # 0
  /\ late_deposit \/ Settled

-----------------------------------------------------------------------------
(* Rounding.                                                               *)

\* A factor can be cancelled.
LEMMA Cancel ==
  ASSUME NEW k \in Nat \ {0}, NEW x \in Int, NEW y \in Int, k * x <= k * y
  PROVE  x <= y
<1> SUFFICES ASSUME x > y PROVE FALSE
  OBVIOUS
<1>1. PICK d \in Nat \ {0} : x = y + d
  OBVIOUS
<1>2. k * x = k * y + k * d /\ k * d > 0 /\ k * y \in Int /\ k * d \in Int
  BY <1>1
<1>3. QED
  BY <1>2

\* A factor can be multiplied in.
LEMMA Scale ==
  ASSUME NEW k \in Nat, NEW x \in Int, NEW y \in Int, x <= y
  PROVE  k * x <= k * y
<1>1. PICK d \in Nat : y = x + d
  OBVIOUS
<1>2. k * y = k * x + k * d /\ k * d >= 0 /\ k * x \in Int /\ k * d \in Int
  BY <1>1
<1>3. QED
  BY <1>2

\* A rounded-down quotient.
LEMMA Quotient ==
  ASSUME NEW a \in Nat, NEW n \in Nat \ {0}
  PROVE  /\ a \div n \in Nat
         /\ n * (a \div n) <= a /\ a <= n * (a \div n) + n - 1
<1> DEFINE q == a \div n
           r == a % n
<1>1. q \in Int /\ r \in 0..(n - 1) /\ a = n * q + r
  OBVIOUS
<1>2. q \in Int /\ n * q <= a /\ a <= n * q + n - 1
  BY <1>1
<1> HIDE DEF q
<1>3. q >= 0
  <2> SUFFICES ASSUME q <= -1 PROVE FALSE
    BY <1>2
  <2>1. n * q <= n * (-1)
    BY <1>2, Scale
  <2>2. QED
    BY <1>2, <2>1
<1>4. QED
  BY <1>2, <1>3 DEF q

\* Dividing twice rounds down once.
LEMMA TwoQuotients ==
  ASSUME NEW x \in Nat, NEW e \in Nat \ {0}, NEW d \in Nat \ {0}
  PROVE  /\ (x \div e) \div d \in Nat
         /\ (e * d) * ((x \div e) \div d) <= x
         /\ x <= (e * d) * ((x \div e) \div d) + e * d - 1
<1> DEFINE q == x \div e
           t == q \div d
<1>1. q \in Nat /\ e * q <= x /\ x <= e * q + e - 1
  BY Quotient
<1> HIDE DEF q
<1>2. t \in Nat /\ d * t <= q /\ q <= d * t + d - 1
  BY <1>1, Quotient
<1> HIDE DEF t
<1>3. e * (d * t) <= e * q /\ e * q <= e * (d * t + d - 1)
  BY <1>1, <1>2, Scale
<1>4. e * (d * t) = (e * d) * t /\ e * (d * t + d - 1) = (e * d) * t + e * d - e
      /\ (e * d) * t \in Int /\ e * d \in Int /\ e * q \in Int
  BY <1>1, <1>2
<1>5. (e * d) * t <= x /\ x <= (e * d) * t + e * d - 1
  BY <1>1, <1>3, <1>4
<1>6. QED
  BY <1>2, <1>5 DEF q, t

\* The contributors' part of the pool is their percentage, rounded up.
LEMMA PoolShare ==
  ASSUME TypeOK
  PROVE  /\ CreatorShareTotal \in Nat /\ ContributorPoolTotal \in Int
         /\ CreatorShareTotal <= revenue_pool
         /\ revenue_pool * revenue_share_percentage
              <= BPS_DENOMINATOR * ContributorPoolTotal
         /\ BPS_DENOMINATOR * ContributorPoolTotal
              <= revenue_pool * revenue_share_percentage + BPS_DENOMINATOR - 1
<1> DEFINE p == revenue_pool
           s == revenue_share_percentage
           r == p * s
           d == BPS_DENOMINATOR
<1>1. d \in Nat \ {0}
  BY DEF BPS_DENOMINATOR
<1>2. p \in Nat /\ s \in 0..d
  BY <1>1 DEF TypeOK
<1>3. CreatorShareTotal = (p * (d - s)) \div d
  BY DEF CreatorShareTotal, FloorBps
<1> HIDE DEF d, p, s
<1>4. PICK w \in Nat : w = d - s
  BY <1>1, <1>2
<1>5. p * w \in Nat /\ p * w = p * d - r /\ p * d \in Int /\ r \in Nat /\ p * d = d * p
  BY <1>1, <1>2, <1>4
<1> HIDE DEF r
<1>6. PICK q \in Nat : q = CreatorShareTotal /\ d * q <= p * w /\ p * w <= d * q + d - 1
  BY <1>1, <1>3, <1>4, <1>5, Quotient
<1>7. d * (p - q) = d * p - d * q /\ d * p \in Int /\ d * q \in Int /\ p - q \in Int
  BY <1>1, <1>2, <1>6
<1>8. r <= d * (p - q) /\ d * (p - q) <= r + d - 1
  BY <1>1, <1>5, <1>6, <1>7
<1>9. q <= p
  BY <1>1, <1>2, <1>5, <1>6, <1>7, Cancel
<1>10. ContributorPoolTotal = p - q
  BY <1>6 DEF ContributorPoolTotal, p
<1>11. QED
  BY <1>6, <1>7, <1>8, <1>9, <1>10 DEF p, s, r, d

\* One contributor's share, in exact terms.
LEMMA DueBounds ==
  ASSUME TypeOK, effective_amount_raised \in Nat \ {0}, NEW u \in Contributors
  PROVE  /\ TotalDue(u) \in Nat
         /\ (effective_amount_raised * BPS_DENOMINATOR) * TotalDue(u)
              <= (revenue_pool * revenue_share_percentage) * contribution[u]
         /\ (revenue_pool * revenue_share_percentage) * contribution[u]
              <= (effective_amount_raised * BPS_DENOMINATOR) * TotalDue(u)
                   + effective_amount_raised * BPS_DENOMINATOR - 1
<1> DEFINE c == contribution[u]
           x == c * revenue_pool * revenue_share_percentage
           e == effective_amount_raised
           d == BPS_DENOMINATOR
           z == (revenue_pool * revenue_share_percentage) * c
<1>1. d \in Nat \ {0}
  BY DEF BPS_DENOMINATOR
<1>2. c \in Nat /\ revenue_pool \in Nat /\ revenue_share_percentage \in Nat
  BY DEF TypeOK
<1>3. x \in Nat /\ x = z
  BY <1>2
<1>4. TotalDue(u) = (x \div e) \div d
  BY DEF TotalDue
<1>5. e \in Nat \ {0}
  OBVIOUS
<1> HIDE DEF c, x, e, d, z
<1>6. /\ TotalDue(u) \in Nat
      /\ (e * d) * TotalDue(u) <= x /\ x <= (e * d) * TotalDue(u) + e * d - 1
  BY <1>1, <1>3, <1>4, <1>5, TwoQuotients
<1>7. QED
  BY <1>3, <1>6 DEF z, e, d, c

\* The shares fit into the contributors' part of the pool, and their roundings
\* leave at most one unit per contributor.
LEMMA DuesCovered ==
  ASSUME TypeOK, effective_amount_raised > 0
  PROVE  /\ Dues \in [Contributors -> Nat] /\ Total(Dues) \in Nat
         /\ contributor_count \in Nat /\ ContributorPoolTotal \in Int
         /\ Total(Dues) <= ContributorPoolTotal
         /\ ContributorPoolTotal <= Total(Dues) + contributor_count
<1> DEFINE e == effective_amount_raised
           d == BPS_DENOMINATOR
           m == revenue_pool * revenue_share_percentage
           k == e * d
           c == contribution
           Who == {u \in Contributors : c[u] # 0}
           one == [u \in Contributors |-> IF u \in Who THEN 1 ELSE 0]
           t == Total(Dues)
           n == contributor_count
           pool == ContributorPoolTotal
<1>1. c \in [Contributors -> Nat] /\ IsFiniteSet(Contributors)
  BY DEF TypeOK
<1>2. e \in Nat \ {0}
  BY <1>1, TotalType DEF effective_amount_raised
<1>3. d \in Nat \ {0}
  BY DEF BPS_DENOMINATOR
<1>4. m \in Nat
  BY DEF TypeOK
<1>5. k \in Nat
  BY <1>2, <1>3
<1>6. \A u \in Contributors :
        TotalDue(u) \in Nat /\ k * TotalDue(u) <= m * c[u]
        /\ m * c[u] <= k * TotalDue(u) + k - 1
  BY <1>2, DueBounds
<1>7. Dues \in [Contributors -> Nat] /\ \A u \in Contributors : Dues[u] = TotalDue(u)
  BY <1>6 DEF Dues
<1>8. t \in Nat
  BY <1>1, <1>7, TotalType
<1>9. pool \in Int /\ m <= d * pool /\ d * pool <= m + d - 1
  BY PoolShare
<1>10. Who \in SUBSET Contributors /\ one \in [Contributors -> Nat]
  OBVIOUS
<1>11. Total(one) = n /\ n \in Nat
  <2>1. n = Cardinality(Who)
    BY DEF contributor_count
  <2>2. Total(one) = Cardinality(Who)
    BY <1>1, TotalIndicator
  <2>3. IsFiniteSet(Who)
    BY <1>1, <1>10, FS_Subset
  <2>4. QED
    BY <2>1, <2>2, <2>3, FS_CardinalityType
<1>12. e = Total(c)
  BY DEF effective_amount_raised
<1>13. \A u \in Contributors : m * c[u] <= k * Dues[u] + k * one[u]
  <2> SUFFICES ASSUME NEW u \in Contributors PROVE m * c[u] <= k * Dues[u] + k * one[u]
    OBVIOUS
  <2>1. c[u] \in Nat /\ Dues[u] \in Nat /\ k * Dues[u] \in Nat
    BY <1>1, <1>5, <1>7
  <2>2. CASE c[u] = 0
    <3>1. one[u] = 0 /\ m * c[u] = 0 /\ k * one[u] = 0
      BY <1>4, <1>5, <2>2
    <3>2. QED
      BY <2>1, <3>1
  <2>3. CASE c[u] # 0
    <3>1. one[u] = 1 /\ k * one[u] = k
      BY <1>5, <2>3
    <3>2. m * c[u] \in Int
      BY <1>4, <2>1
    <3> HIDE DEF k, m, c, one
    <3>3. QED
      BY <1>5, <1>6, <1>7, <2>1, <3>1, <3>2
  <2>4. QED
    BY <2>2, <2>3
<1>14. \A u \in Contributors : k * Dues[u] <= m * c[u]
  BY <1>6, <1>7
<1> HIDE DEF e, d, m, k, c, one, n, pool, Who, Dues
<1>15. k * t <= m * e
  BY <1>1, <1>4, <1>5, <1>7, <1>12, <1>14, TotalScaled
<1>16. m * e <= k * t + k * n
  <2>1. k \in Int /\ m \in Int
    BY <1>4, <1>5
  <2>2. m * Total(c) <= k * Total(Dues) + k * Total(one)
    BY <1>1, <1>7, <1>10, <1>13, <2>1, TotalLinear
  <2>3. QED
    BY <1>11, <1>12, <2>2
<1> HIDE DEF t
<1>17. d * t <= m
  <2>1. k * t = e * (d * t) /\ m * e = e * m /\ d * t \in Int /\ m \in Int
    BY <1>2, <1>3, <1>4, <1>8 DEF k
  <2>2. QED
    BY <1>2, <1>15, <2>1, Cancel
<1>18. m <= d * (t + n)
  <2>1. k * t + k * n = e * (d * (t + n)) /\ m * e = e * m
    BY <1>2, <1>3, <1>4, <1>8, <1>11 DEF k
  <2>2. d * (t + n) \in Int /\ m \in Int
    BY <1>3, <1>4, <1>8, <1>11
  <2>3. QED
    BY <1>2, <1>16, <2>1, <2>2, Cancel
<1>19. t <= pool
  <2>1. d * t <= d * pool
    BY <1>3, <1>4, <1>8, <1>9, <1>17
  <2>2. QED
    BY <1>3, <1>8, <1>9, <2>1, Cancel
<1>20. pool <= t + n
  <2> SUFFICES ASSUME t + n + 1 <= pool PROVE FALSE
    BY <1>8, <1>9, <1>11
  <2>1. d * (t + n + 1) <= d * pool
    BY <1>3, <1>8, <1>9, <1>11, Scale
  <2>2. d * (t + n + 1) = d * (t + n) + d /\ d * (t + n) \in Int /\ d * pool \in Int
    BY <1>3, <1>8, <1>9, <1>11
  <2>3. QED
    BY <1>3, <1>4, <1>9, <1>18, <2>1, <2>2
<1>21. QED
  BY <1>7, <1>8, <1>9, <1>11, <1>19, <1>20 DEF t, n, pool

-----------------------------------------------------------------------------
(* The steps.                                                              *)

\* What is open is a natural number, nothing where the claims cover the share.
LEMMA OpenType ==
  ASSUME TypeOK, effective_amount_raised > 0
  PROVE  /\ \A u \in Contributors :
              /\ TotalDue(u) \in Nat /\ Open(u) \in Nat
              /\ revenue_claimed[u] >= TotalDue(u) => Open(u) = 0
              /\ revenue_claimed[u] = 0 => Open(u) = TotalDue(u)
         /\ OpenClaims \in [Contributors -> Nat] /\ Total(OpenClaims) \in Nat
         /\ \A u \in Contributors : OpenClaims[u] = Open(u)
<1>1. \A u \in Contributors : TotalDue(u) \in Nat /\ revenue_claimed[u] \in Nat
  <2>1. \A u \in Contributors : Dues[u] = TotalDue(u)
    BY DEF Dues
  <2>2. QED
    BY <2>1, DuesCovered DEF TypeOK
<1>2. \A u \in Contributors :
        /\ Open(u) \in Nat
        /\ revenue_claimed[u] >= TotalDue(u) => Open(u) = 0
        /\ revenue_claimed[u] = 0 => Open(u) = TotalDue(u)
  BY <1>1 DEF Open
<1>3. OpenClaims \in [Contributors -> Nat]
  BY <1>2 DEF OpenClaims
<1>4. Total(OpenClaims) \in Nat
  BY <1>3, TotalType
<1>5. QED
  BY <1>1, <1>2, <1>3, <1>4 DEF OpenClaims

\* Before the first claim everything is open and covered.
LEMMA NobodyClaimed ==
  ASSUME TypeOK, effective_amount_raised > 0,
         \A u \in Contributors : revenue_claimed[u] = 0
  PROVE  Settled
<1>1. contributor_count \in Nat /\ Total(Dues) <= ContributorPoolTotal
      /\ Total(Dues) \in Nat
  BY DuesCovered
<1>2. Total(revenue_claimed) = 0
  <2>1. revenue_claimed = [u \in Contributors |-> 0]
    BY DEF TypeOK
  <2>2. QED
    BY <2>1, TotalZero
<1>3. OpenClaims = Dues
  BY OpenType DEF OpenClaims, Dues
<1>4. Total(revenue_claimed) + Total(OpenClaims) <= ContributorPoolTotal
  BY <1>1, <1>2, <1>3
<1>5. \A u \in Contributors : revenue_claimed[u] <= TotalDue(u) + contributor_count
  BY <1>1, OpenType
<1>6. QED
  BY <1>4, <1>5 DEF Settled

\* The same of the next state.
LEMMA NobodyClaimedNext ==
  (TypeOK /\ effective_amount_raised > 0 /\ (\A u \in Contributors : revenue_claimed[u] = 0)
     => Settled)'
<1>1. TypeOK /\ effective_amount_raised > 0 /\ (\A u \in Contributors : revenue_claimed[u] = 0)
        => Settled
  BY NobodyClaimed
<1>2. QED
  BY <1>1, PTL

\* The same in the next state.
LEMMA PoolShareNext == (TypeOK => CreatorShareTotal \in Nat)'
<1>1. TypeOK => CreatorShareTotal \in Nat
  BY PoolShare
<1>2. QED
  BY <1>1, PTL

\* The set of contributors with a claim on record.
LEMMA ClaimedFinite ==
  ASSUME NEW A \in SUBSET Contributors
  PROVE  IsFiniteSet(A) /\ Cardinality(A) \in Nat
BY FS_Subset, FS_CardinalityType

\* Nothing is deposited or claimed at first.
LEMMA ClaimInit == ASSUME Init PROVE ClaimInv
<1>1. TypeOK
  BY DEF Init, TypeOK
<1>2. effective_amount_raised > 0 /\ \A u \in Contributors : revenue_claimed[u] = 0
  BY DEF Init
<1>3. DistributionExact
  <2>1. Total(revenue_claimed) = 0
    BY TotalZero DEF Init
  <2>2. {u \in Contributors : revenue_claimed[u] # 0} = {}
    BY <1>2
  <2>3. QED
    BY <2>1, <2>2, FS_EmptySet DEF Init, DistributionExact
<1>4. Settled
  BY <1>1, <1>2, NobodyClaimed
<1>5. balance = Others + PoolLeft
  BY DEF Init, PoolLeft
<1>6. creator_revenue_claimed <= CreatorShareTotal
  BY <1>1, PoolShare DEF Init
<1>7. QED
  BY <1>1, <1>2, <1>3, <1>4, <1>5, <1>6 DEF ClaimInv, RevenueInv

\* A step that changes nothing but the pause flag.
LEMMA ClaimQuiet ==
  ASSUME ClaimInv, paused' \in BOOLEAN,
         UNCHANGED <<campaignVars, revenue_pool, claimVars, creator_revenue_claimed,
                     balance, late_deposit>>
  PROVE  ClaimInv'
<1>1. /\ TypeOK' /\ DistributionExact' /\ (balance = Others + PoolLeft)'
      /\ (effective_amount_raised > 0)'
  BY DEF ClaimInv, RevenueInv, TypeOK, DistributionExact, PoolLeft, effective_amount_raised
<1>2. (creator_revenue_claimed <= CreatorShareTotal)'
  BY DEF ClaimInv, CreatorShareTotal, FloorBps
<1>3. OpenClaims' = OpenClaims
  BY DEF OpenClaims, Open, TotalDue, effective_amount_raised
<1>4. Settled => Settled'
  BY <1>3 DEF Settled, TotalDue, effective_amount_raised, contributor_count,
              ContributorPoolTotal, CreatorShareTotal, FloorBps
<1>5. QED
  BY <1>1, <1>2, <1>4 DEF ClaimInv, RevenueInv

\* The creator's part grows with the pool.
LEMMA CreatorShareGrows ==
  ASSUME NEW p \in Nat, NEW q \in Nat, p <= q, NEW s \in 0..BPS_DENOMINATOR
  PROVE  FloorBps(p, BPS_DENOMINATOR - s) <= FloorBps(q, BPS_DENOMINATOR - s)
<1> DEFINE d == BPS_DENOMINATOR
           w == d - s
           a == (p * w) \div d
           b == (q * w) \div d
<1>1. d \in Nat \ {0}
  BY DEF BPS_DENOMINATOR
<1>2. w \in Nat
  BY <1>1
<1> HIDE DEF d, w
<1>3. p * w \in Nat /\ q * w \in Nat /\ p * w = w * p /\ q * w = w * q
  BY <1>2
<1>4. p * w <= q * w
  BY <1>2, <1>3, Scale
<1>5. a \in Nat /\ b \in Nat /\ d * a <= p * w /\ q * w <= d * b + d - 1
  BY <1>1, <1>3, Quotient
<1> HIDE DEF a, b
<1>6. a <= b
  <2> SUFFICES ASSUME b + 1 <= a PROVE FALSE
    BY <1>5
  <2>1. d * (b + 1) <= d * a /\ d * (b + 1) = d * b + d /\ d * b \in Int /\ d * a \in Int
    BY <1>1, <1>5, Scale
  <2>2. QED
    BY <1>1, <1>3, <1>4, <1>5, <2>1
<1>7. QED
  BY <1>6 DEF a, b, w, d, FloorBps

\* deposit_revenue.
LEMMA ClaimDeposit ==
  ASSUME ClaimInv, NEW amount \in Deposits, deposit_revenue(amount)
  PROVE  ClaimInv'
<1>1. TypeOK /\ DistributionExact /\ amount \in Nat
  BY DEF ClaimInv, RevenueInv, deposit_revenue, ValidDeposit
<1>2. /\ revenue_pool' = revenue_pool + amount
      /\ balance' = balance + amount
      /\ late_deposit' = (late_deposit \/ revenue_claimants > 0)
      /\ UNCHANGED <<paused, campaignVars, claimVars, creator_revenue_claimed>>
  BY DEF deposit_revenue
<1>3. TypeOK'
  BY <1>1, <1>2 DEF TypeOK
<1>4. DistributionExact' /\ (effective_amount_raised > 0)'
  BY <1>1, <1>2 DEF ClaimInv, DistributionExact, effective_amount_raised
<1>5. (balance = Others + PoolLeft)'
  BY <1>1, <1>2 DEF ClaimInv, PoolLeft, TypeOK
<1>6. (creator_revenue_claimed <= CreatorShareTotal)'
  <2> DEFINE s == revenue_share_percentage
             q == revenue_pool'
  <2>1. revenue_pool \in Nat /\ q \in Nat /\ revenue_pool <= q /\ s \in 0..BPS_DENOMINATOR
    BY <1>1, <1>2, <1>3, BpsDenominatorNat DEF TypeOK
  <2>2. CreatorShareTotal = FloorBps(revenue_pool, BPS_DENOMINATOR - s)
        /\ CreatorShareTotal' = FloorBps(q, BPS_DENOMINATOR - s)
    BY <1>2 DEF CreatorShareTotal
  <2>3. CreatorShareTotal <= CreatorShareTotal'
    BY <2>1, <2>2, CreatorShareGrows
  <2>4. CreatorShareTotal \in Nat /\ CreatorShareTotal' \in Nat
    BY <1>1, <1>3, PoolShare, PoolShareNext
  <2>5. creator_revenue_claimed \in Nat /\ creator_revenue_claimed <= CreatorShareTotal
    BY <1>1 DEF TypeOK, ClaimInv
  <2>6. QED
    BY <1>2, <2>3, <2>4, <2>5
<1>7. ASSUME ~late_deposit' PROVE Settled'
  <2>1. revenue_claimants = 0
    <3>1. revenue_claimants \in Nat
      BY <1>1 DEF TypeOK
    <3>2. ~(revenue_claimants > 0)
      BY <1>2, <1>7
    <3>3. QED
      BY <3>1, <3>2
  <2>2. Cardinality(Claimed) = 0 /\ IsFiniteSet(Claimed)
    BY <1>1, <2>1, ClaimedFinite DEF DistributionExact, Claimed
  <2>3. Claimed = {}
    BY <2>2, FS_EmptySet
  <2>4. \A u \in Contributors : revenue_claimed'[u] = 0
    BY <1>2, <2>3 DEF Claimed
  <2>5. QED
    BY <1>3, <1>4, <2>4, NobodyClaimedNext
<1>8. QED
  BY <1>2, <1>3, <1>4, <1>5, <1>6, <1>7 DEF ClaimInv, RevenueInv

\* claim_creator_revenue.
LEMMA ClaimCreator ==
  ASSUME ClaimInv, claim_creator_revenue
  PROVE  ClaimInv'
<1> DEFINE x == CreatorShareTotal - creator_revenue_claimed
<1>1. TypeOK /\ DistributionExact
  BY DEF ClaimInv, RevenueInv
<1>2. /\ x > 0 /\ x <= balance
      /\ creator_revenue_claimed' = creator_revenue_claimed + x
      /\ balance' = balance - x
      /\ UNCHANGED <<paused, campaignVars, revenue_pool, claimVars, late_deposit>>
  BY DEF claim_creator_revenue, CreatorClaimed
<1>3. CreatorShareTotal \in Nat /\ creator_revenue_claimed \in Nat /\ balance \in Nat
  BY <1>1, PoolShare DEF TypeOK
<1>4. x \in Int
  BY <1>3
<1>5. CreatorShareTotal' = CreatorShareTotal
  BY <1>2 DEF CreatorShareTotal, FloorBps
<1>6. (creator_revenue_claimed <= CreatorShareTotal)'
  BY <1>2, <1>3, <1>5
<1> HIDE DEF x
<1>7. creator_revenue_claimed' \in Nat /\ balance' \in Nat
  BY <1>2, <1>3, <1>4
<1>8. TypeOK'
  BY <1>1, <1>2, <1>7 DEF TypeOK
<1>9. DistributionExact' /\ (effective_amount_raised > 0)'
  BY <1>1, <1>2 DEF ClaimInv, DistributionExact, effective_amount_raised
<1>10. (balance = Others + PoolLeft)'
  BY <1>1, <1>2, <1>4 DEF ClaimInv, PoolLeft, TypeOK
<1>11. OpenClaims' = OpenClaims
  BY <1>2 DEF OpenClaims, Open, TotalDue, effective_amount_raised
<1>12. Settled => Settled'
  BY <1>2, <1>5, <1>11 DEF Settled, TotalDue, effective_amount_raised, contributor_count,
              ContributorPoolTotal
<1>13. QED
  BY <1>2, <1>6, <1>8, <1>9, <1>10, <1>12 DEF ClaimInv, RevenueInv

\* When the last contributor claims for the first time, all others have claimed.
LEMMA OthersClaimed ==
  ASSUME ClaimInv, NEW u \in Contributors, LastClaimant(u), contribution[u] # 0,
         NEW v \in Contributors \ {u}, contribution[v] # 0
  PROVE  revenue_claimed[v] # 0
<1> DEFINE Who == {w \in Contributors : contribution[w] # 0}
<1>1. revenue_claimants = Cardinality(Claimed) /\ revenue_claimants \in Nat
  BY DEF ClaimInv, RevenueInv, TypeOK, DistributionExact, Claimed
<1>2. u \notin Claimed /\ Claimed \in SUBSET Contributors /\ Claimed \subseteq Who
  BY DEF LastClaimant, FirstClaim, Claimed, ClaimInv
<1>3. Cardinality(Claimed) + 1 >= Cardinality(Who)
  BY <1>1 DEF LastClaimant, contributor_count
<1>4. IsFiniteSet(Who) /\ Cardinality(Who) \in Nat /\ IsFiniteSet(Claimed)
  BY <1>2, ClaimedFinite
<1>5. Claimed \cup {u} \subseteq Who
  BY <1>2
<1>6. Cardinality(Claimed \cup {u}) = Cardinality(Claimed) + 1
      /\ IsFiniteSet(Claimed \cup {u})
  BY <1>2, <1>4, FS_AddElement
<1>7. v \in Who
  OBVIOUS
<1> HIDE DEF Who
<1>8. Claimed \cup {u} = Who
  <2>1. Cardinality(Claimed \cup {u}) <= Cardinality(Who)
        /\ (Cardinality(Claimed \cup {u}) = Cardinality(Who) => Claimed \cup {u} = Who)
    BY <1>4, <1>5, FS_Subset
  <2>2. QED
    BY <1>1, <1>3, <1>4, <1>6, <2>1
<1>9. QED
  BY <1>7, <1>8 DEF Claimed

\* What claim_revenue pays.
LEMMA ClaimPays ==
  ASSUME ClaimInv, NEW u \in Contributors, claim_revenue(u)
  PROVE  /\ Claimable(u) \in Nat \ {0}
         /\ revenue_claimed[u] + Claimable(u) >= TotalDue(u)
         /\ \/ Claimable(u) = TotalDue(u) - revenue_claimed[u]
            \/ /\ LastClaimant(u)
               /\ Claimable(u) = ContributorPoolTotal - Total(revenue_claimed)
<1> DEFINE share == TotalDue(u) - revenue_claimed[u]
           rest == ContributorPoolTotal - revenue_distributed
<1>1. TypeOK /\ effective_amount_raised > 0 /\ revenue_distributed = Total(revenue_claimed)
  BY DEF ClaimInv, RevenueInv, DistributionExact
<1>2. TotalDue(u) \in Nat /\ revenue_claimed[u] \in Nat /\ revenue_distributed \in Nat
  BY <1>1, OpenType DEF TypeOK
<1>3. ContributorPoolTotal \in Int
  BY <1>1, PoolShare
<1>4. TotalDue(u) > revenue_claimed[u]
  BY DEF claim_revenue
<1>5. Claimable(u) = IF LastClaimant(u) /\ rest > share THEN rest ELSE share
  BY DEF Claimable
<1>6. share \in Nat \ {0} /\ rest \in Int
  BY <1>2, <1>3, <1>4
<1>7. CASE LastClaimant(u) /\ rest > share
  BY <1>1, <1>2, <1>5, <1>6, <1>7
<1>8. CASE ~(LastClaimant(u) /\ rest > share)
  BY <1>2, <1>5, <1>6, <1>8
<1>9. QED
  BY <1>7, <1>8

\* claim_revenue keeps the running sums.
LEMMA ClaimSums ==
  ASSUME ClaimInv, NEW u \in Contributors, claim_revenue(u)
  PROVE  /\ TypeOK' /\ DistributionExact'
         /\ Total(revenue_claimed') = Total(revenue_claimed) + Claimable(u)
<1> DEFINE d == Claimable(u)
           new == revenue_claimed[u] + d
<1>1. TypeOK /\ DistributionExact
  BY DEF ClaimInv, RevenueInv
<1>2. /\ revenue_claimed' = [revenue_claimed EXCEPT ![u] = new]
      /\ revenue_distributed' = revenue_distributed + d
      /\ revenue_claimants' = IF FirstClaim(u) THEN revenue_claimants + 1
                                               ELSE revenue_claimants
      /\ balance' = balance - d /\ d <= balance
      /\ UNCHANGED <<paused, campaignVars, revenue_pool, creator_revenue_claimed,
                     late_deposit>>
  BY DEF claim_revenue
<1>3. d \in Nat \ {0}
  BY ClaimPays
<1> HIDE DEF d
<1>4. revenue_claimed \in [Contributors -> Nat] /\ revenue_claimed[u] \in Nat
  BY <1>1 DEF TypeOK
<1>5. new \in Nat \ {0}
  BY <1>3, <1>4
<1> HIDE DEF new
<1>6. revenue_claimed' \in [Contributors -> Nat]
  BY <1>2, <1>4, <1>5
<1>7. TypeOK'
  BY <1>1, <1>2, <1>3, <1>6 DEF TypeOK
<1>8. Total(revenue_claimed') = Total(revenue_claimed) + d
  <2>1. Total([revenue_claimed EXCEPT ![u] = new]) = Total(revenue_claimed) - revenue_claimed[u] + new
    BY <1>4, <1>5, TotalUpdate
  <2>2. Total(revenue_claimed) \in Nat
    BY <1>4, TotalType
  <2>3. QED
    BY <1>2, <1>3, <1>4, <2>1, <2>2 DEF new
<1>9. Claimed' = Claimed \cup {u}
  <2>1. \A v \in Contributors : revenue_claimed'[v] = IF v = u THEN new ELSE revenue_claimed[v]
    BY <1>2, <1>4
  <2>2. QED
    BY <1>5, <2>1 DEF Claimed
<1>10. Claimed \in SUBSET Contributors /\ (u \in Claimed <=> ~FirstClaim(u))
  BY DEF Claimed, FirstClaim
<1>11. IsFiniteSet(Claimed) /\ Cardinality(Claimed) \in Nat
  BY <1>10, ClaimedFinite
<1>12. revenue_claimants' = Cardinality(Claimed')
  <2>1. revenue_claimants = Cardinality(Claimed)
    BY <1>1 DEF DistributionExact, Claimed
  <2>2. CASE FirstClaim(u)
    BY <1>2, <1>9, <1>10, <1>11, <2>1, <2>2, FS_AddElement
  <2>3. CASE ~FirstClaim(u)
    BY <1>2, <1>9, <1>10, <2>1, <2>3
  <2>4. QED
    BY <2>2, <2>3
<1>13. DistributionExact'
  BY <1>1, <1>2, <1>8, <1>12 DEF DistributionExact, Claimed
<1>14. QED
  BY <1>7, <1>8, <1>13 DEF d

\* claim_revenue, before any late deposit: the share is paid in one piece, and the
\* rest goes to the last claimant once nobody else has anything open.
LEMMA ClaimSettles ==
  ASSUME ClaimInv, NEW u \in Contributors, claim_revenue(u), Settled
  PROVE  Settled'
<1> DEFINE d == Claimable(u)
           n == contributor_count
           pool == ContributorPoolTotal
           new == revenue_claimed[u] + d
<1>1. TypeOK /\ effective_amount_raised > 0
  BY DEF ClaimInv, RevenueInv
<1>2. /\ revenue_claimed' = [revenue_claimed EXCEPT ![u] = new]
      /\ contribution[u] # 0 /\ TotalDue(u) > revenue_claimed[u]
      /\ UNCHANGED <<campaignVars, revenue_pool>>
  BY DEF claim_revenue
<1>3. /\ contributor_count' = n /\ ContributorPoolTotal' = pool
      /\ \A v \in Contributors : TotalDue(v)' = TotalDue(v)
  BY <1>2 DEF contributor_count, ContributorPoolTotal, CreatorShareTotal, FloorBps,
              TotalDue, effective_amount_raised
<1>4. /\ \A v \in Contributors : TotalDue(v) \in Nat /\ revenue_claimed[v] \in Nat
      /\ revenue_claimed \in [Contributors -> Nat]
      /\ OpenClaims \in [Contributors -> Nat] /\ Total(OpenClaims) \in Nat
      /\ Total(revenue_claimed) \in Nat
  BY <1>1, OpenType, TotalType DEF TypeOK
<1>5. /\ n \in Nat /\ pool \in Int /\ Dues \in [Contributors -> Nat]
      /\ Total(Dues) \in Nat /\ pool <= Total(Dues) + n
  BY <1>1, DuesCovered
<1>6. revenue_claimed[u] = 0
  BY <1>2, <1>4 DEF Settled
<1>7. /\ d \in Nat \ {0} /\ new >= TotalDue(u) /\ new = d
      /\ \/ d = TotalDue(u)
         \/ LastClaimant(u) /\ d = pool - Total(revenue_claimed)
  BY <1>4, <1>6, ClaimPays
<1>8. Total(revenue_claimed') = Total(revenue_claimed) + d
  BY ClaimSums
<1> HIDE DEF d, n, pool, new
<1>9. \A v \in Contributors : revenue_claimed'[v] = IF v = u THEN d ELSE revenue_claimed[v]
  BY <1>2, <1>4, <1>7
<1>10. OpenClaims' = [OpenClaims EXCEPT ![u] = 0]
  <2>1. \A v \in Contributors : Open(v)' = IF v = u THEN 0 ELSE Open(v)
    <3> SUFFICES ASSUME NEW v \in Contributors PROVE Open(v)' = IF v = u THEN 0 ELSE Open(v)
      OBVIOUS
    <3>1. Open(v)' = IF TotalDue(v) > revenue_claimed'[v]
                       THEN TotalDue(v) - revenue_claimed'[v] ELSE 0
      BY <1>3 DEF Open
    <3>2. CASE v = u
      BY <1>4, <1>7, <1>9, <3>1, <3>2
    <3>3. CASE v # u
      BY <1>9, <3>1, <3>3 DEF Open
    <3>4. QED
      BY <3>2, <3>3
  <2>2. QED
    BY <2>1 DEF OpenClaims
<1>11. Total(OpenClaims') = Total(OpenClaims) - Open(u) /\ Open(u) = TotalDue(u)
  <2>1. Total([OpenClaims EXCEPT ![u] = 0]) = Total(OpenClaims) - OpenClaims[u] + 0
    <3>1. PICK z \in Nat : z = 0
      OBVIOUS
    <3>2. Total([OpenClaims EXCEPT ![u] = z]) = Total(OpenClaims) - OpenClaims[u] + z
      BY <1>4, TotalUpdate
    <3>3. QED
      BY <3>1, <3>2
  <2>2. OpenClaims[u] = TotalDue(u) /\ Open(u) = TotalDue(u)
    BY <1>1, <1>6, OpenType
  <2>3. QED
    BY <1>4, <1>10, <2>1, <2>2
<1>12. \A v \in Contributors : revenue_claimed'[v] # 0 => revenue_claimed'[v] >= TotalDue(v)
  BY <1>7, <1>9 DEF Settled
<1>13. CASE d = TotalDue(u)
  <2>1. Total(revenue_claimed') + Total(OpenClaims') <= pool
    BY <1>4, <1>5, <1>8, <1>11, <1>13 DEF Settled, pool
  <2>2. \A v \in Contributors : revenue_claimed'[v] <= TotalDue(v) + n
    BY <1>4, <1>5, <1>9, <1>13 DEF Settled, n
  <2>3. QED
    BY <1>3, <1>12, <2>1, <2>2 DEF Settled
<1>14. CASE LastClaimant(u) /\ d = pool - Total(revenue_claimed)
  <2>1. \A v \in Contributors \ {u} : revenue_claimed[v] >= TotalDue(v)
    <3> SUFFICES ASSUME NEW v \in Contributors \ {u} PROVE revenue_claimed[v] >= TotalDue(v)
      OBVIOUS
    <3>1. CASE contribution[v] # 0
      BY <1>2, <1>14, <3>1, OthersClaimed DEF Settled
    <3>2. CASE contribution[v] = 0
      <4>1. contribution[v] * revenue_pool * revenue_share_percentage = 0
        BY <1>1, <3>2 DEF TypeOK
      <4>2. effective_amount_raised \in Nat \ {0}
        BY <1>1, TotalType DEF TypeOK, effective_amount_raised
      <4>3. \A k \in Nat \ {0} : 0 \div k = 0
        BY Z3
      <4>4. BPS_DENOMINATOR \in Nat \ {0}
        BY DEF BPS_DENOMINATOR
      <4>5. TotalDue(v) = 0
        BY <4>1, <4>2, <4>3, <4>4 DEF TotalDue
      <4>6. QED
        BY <1>4, <4>5
    <3>3. QED
      BY <3>1, <3>2
  <2>2. OpenClaims' = [v \in Contributors |-> 0]
    <3>1. \A v \in Contributors \ {u} : OpenClaims[v] = 0
      BY <1>1, <2>1, OpenType
    <3>2. QED
      BY <1>4, <1>10, <3>1
  <2>3. Total(OpenClaims') = 0
    BY <2>2, TotalZero
  <2>4. Total(revenue_claimed') + Total(OpenClaims') <= pool
    BY <1>4, <1>5, <1>7, <1>8, <1>14, <2>3
  <2>5. Total(Dues) <= Total(revenue_claimed) + TotalDue(u)
    <3> DEFINE h == [revenue_claimed EXCEPT ![u] = TotalDue(u)]
    <3>1. h \in [Contributors -> Nat]
      BY <1>4
    <3>2. \A v \in Contributors : Dues[v] <= h[v]
      BY <1>4, <2>1 DEF Dues
    <3>3. Total(h) = Total(revenue_claimed) - revenue_claimed[u] + TotalDue(u)
      BY <1>4, TotalUpdate
    <3> HIDE DEF h
    <3>4. Total(Dues) <= Total(h)
      BY <1>5, <3>1, <3>2, TotalMonotone
    <3>5. QED
      BY <1>4, <1>6, <3>3, <3>4
  <2>6. d <= TotalDue(u) + n
    BY <1>4, <1>5, <1>7, <1>14, <2>5
  <2>7. \A v \in Contributors : revenue_claimed'[v] <= TotalDue(v) + n
    BY <1>9, <2>6 DEF Settled, n
  <2>8. QED
    BY <1>3, <1>12, <2>4, <2>7 DEF Settled
<1>15. QED
  BY <1>7, <1>13, <1>14

\* claim_revenue by a contributor.
LEMMA ClaimContributor ==
  ASSUME ClaimInv, NEW u \in Contributors, claim_revenue(u)
  PROVE  ClaimInv'
<1> DEFINE d == Claimable(u)
<1>1. /\ revenue_claimed' = [revenue_claimed EXCEPT ![u] = @ + d]
      /\ revenue_distributed' = revenue_distributed + d
      /\ balance' = balance - d /\ contribution[u] # 0
      /\ UNCHANGED <<paused, campaignVars, revenue_pool, creator_revenue_claimed,
                     late_deposit>>
  BY DEF claim_revenue
<1>2. TypeOK' /\ DistributionExact'
  BY ClaimSums
<1>3. d \in Nat
  BY ClaimPays
<1> HIDE DEF d
<1>4. (effective_amount_raised > 0)'
  BY <1>1 DEF ClaimInv, effective_amount_raised
<1>5. (balance = Others + PoolLeft)'
  BY <1>1, <1>3 DEF ClaimInv, RevenueInv, TypeOK, PoolLeft
<1>6. (creator_revenue_claimed <= CreatorShareTotal)'
  BY <1>1 DEF ClaimInv, CreatorShareTotal, FloorBps
<1>7. (\A v \in Contributors : revenue_claimed[v] # 0 => contribution[v] # 0)'
  BY <1>1 DEF ClaimInv, RevenueInv, TypeOK
<1>8. late_deposit' \/ Settled'
  BY <1>1, ClaimSettles DEF ClaimInv
<1>9. QED
  BY <1>2, <1>4, <1>5, <1>6, <1>7, <1>8 DEF ClaimInv, RevenueInv

\* Every step keeps the claims within the pool.
LEMMA ClaimNext == ASSUME ClaimInv, [Next]_vars PROVE ClaimInv'
<1>1. CASE set_paused
  <2>1. paused' \in BOOLEAN
    BY <1>1 DEF set_paused
  <2>2. QED
    BY <1>1, <2>1, ClaimQuiet DEF set_paused
<1>2. CASE UNCHANGED vars
  <2>1. paused' \in BOOLEAN
    BY <1>2 DEF vars, ClaimInv, RevenueInv, TypeOK
  <2>2. QED
    BY <1>2, <2>1, ClaimQuiet DEF vars
<1>3. QED
  BY <1>1, <1>2, ClaimDeposit, ClaimContributor, ClaimCreator DEF Next

\* Claims fit the pool in every reachable state.
LEMMA ClaimInvariant == Spec => []ClaimInv
<1>1. Init => ClaimInv
  BY ClaimInit
<1>2. ClaimInv /\ [Next]_vars => ClaimInv'
  BY ClaimNext
<1>3. QED
  BY <1>1, <1>2, PTL DEF Spec

-----------------------------------------------------------------------------
(* The theorems.                                                           *)

\* claim_revenue's running sums are exact after any deposits and claims: the test
\* for the last claimant and the rest it takes are about the claims on record.
THEOREM RevenueHolds == Spec => []RevenueInv
<1>1. ClaimInv => RevenueInv
  BY DEF ClaimInv
<1>2. QED
  BY <1>1, ClaimInvariant, PTL

\* Up to the first deposit that follows a claim, the contract holds, next to the
\* other campaigns' money, everything contributors and creator may still claim:
\* the dust claim_revenue gives the last claimant is nobody else's.
THEOREM AllClaimsCovered == Spec => []ClaimsCovered
<1>1. ClaimInv => ClaimsCovered
  <2> SUFFICES ASSUME ClaimInv, ~late_deposit PROVE ClaimsCovered
    BY DEF ClaimsCovered
  <2>1. TypeOK /\ effective_amount_raised > 0
    BY DEF ClaimInv, RevenueInv
  <2>2. Total(OpenClaims) \in Nat /\ CreatorShareTotal \in Nat
    BY <2>1, OpenType, PoolShare
  <2>3. Total(revenue_claimed) + Total(OpenClaims) <= revenue_pool - CreatorShareTotal
    BY DEF ClaimInv, Settled, ContributorPoolTotal
  <2>4. revenue_distributed = Total(revenue_claimed) /\ balance = Others + PoolLeft
    BY DEF ClaimInv, RevenueInv, DistributionExact
  <2>5. Total(OpenClaims) + (CreatorShareTotal - creator_revenue_claimed) <= PoolLeft
    BY <2>1, <2>2, <2>3, <2>4 DEF PoolLeft, TypeOK
  <2>6. QED
    BY <2>4, <2>5 DEF ClaimsCovered, OpenClaims
<1>2. QED
  BY <1>1, ClaimInvariant, PTL

\* The last claimant's dust is at most one unit per contributor, whatever was
\* contributed and deposited.
THEOREM DustIsBounded == Spec => []DustBounded
<1>1. ClaimInv => DustBounded
  BY DEF ClaimInv, Settled, DustBounded
<1>2. QED
  BY <1>1, ClaimInvariant, PTL
=============================================================================
