-------------------------- MODULE LifecycleProofs --------------------------
(* Lemmas on the operators of Lifecycle: sums as cardinalities, and the       *)
(* basis-point arithmetic.                                                    *)
EXTENDS Lifecycle, FiniteSetTheorems, WellFoundedInduction, TLAPS

\* The units of a function on a finite set are finitely many.
LEMMA UnitsFinite ==
  ASSUME NEW S, IsFiniteSet(S), NEW f \in [S -> Nat]
  PROVE  IsFiniteSet(Units(f))
<1> DEFINE g == [x \in S |-> {x} \X (1..f[x])]
           T == { {x} \X (1..f[x]) : x \in S }
<1>1. g \in Surjection(S, T)
  BY DEF Surjection
<1>2. IsFiniteSet(T)
  BY <1>1, FS_Surjection
<1>3. ASSUME NEW x \in S
      PROVE  IsFiniteSet({x} \X (1..f[x]))
  <2>1. IsFiniteSet({x})
    BY FS_Singleton
  <2>2. IsFiniteSet(1..f[x])
    BY FS_Interval
  <2>3. QED
    BY <2>1, <2>2, FS_Product
<1>4. \A s \in T : IsFiniteSet(s)
  BY <1>3
<1>5. IsFiniteSet(UNION T)
  BY <1>2, <1>4, FS_UNION
<1>6. Units(f) = UNION T
  BY DEF Units
<1>7. QED
  BY <1>5, <1>6

\* A sum of naturals over a finite set is a natural.
LEMMA TotalType ==
  ASSUME NEW S, IsFiniteSet(S), NEW f \in [S -> Nat]
  PROVE  Total(f) \in Nat
BY UnitsFinite, FS_CardinalityType DEF Total

\* One user's units number f[x].
LEMMA OneUserUnits ==
  ASSUME NEW x, NEW n \in Nat
  PROVE  /\ IsFiniteSet({x} \X (1..n))
         /\ Cardinality({x} \X (1..n)) = n
<1>1. IsFiniteSet({x}) /\ Cardinality({x}) = 1
  BY FS_Singleton
<1>2. IsFiniteSet(1..n) /\ Cardinality(1..n) = n
  BY FS_Interval
<1>3. /\ IsFiniteSet({x} \X (1..n))
      /\ Cardinality({x} \X (1..n)) = Cardinality({x}) * Cardinality(1..n)
  <2> DEFINE A == {x}
             B == 1..n
  <2>1. IsFiniteSet(A) /\ IsFiniteSet(B)
    BY <1>1, <1>2
  <2> HIDE DEF A, B
  <2>2. IsFiniteSet(A \X B) /\ Cardinality(A \X B) = Cardinality(A) * Cardinality(B)
    BY <2>1, FS_Product
  <2>3. QED
    BY <2>2 DEF A, B
<1>4. QED
  BY <1>1, <1>2, <1>3

\* Two disjoint finite parts add up.
LEMMA DisjointParts ==
  ASSUME NEW A, IsFiniteSet(A), NEW B, IsFiniteSet(B), A \cap B = {}
  PROVE  Cardinality(A \cup B) = Cardinality(A) + Cardinality(B)
<1>1. Cardinality(A) \in Nat /\ Cardinality(B) \in Nat
  BY FS_CardinalityType
<1>2. Cardinality(A \cap B) = 0
  BY FS_EmptySet
<1>3. Cardinality(A \cup B) = Cardinality(A) + Cardinality(B) - Cardinality(A \cap B)
  BY FS_Union
<1>4. QED
  BY <1>1, <1>2, <1>3

\* Changing the value at one point changes the sum by the difference.
LEMMA TotalUpdate ==
  ASSUME NEW S, IsFiniteSet(S), NEW f \in [S -> Nat], NEW x \in S, NEW v \in Nat
  PROVE  Total([f EXCEPT ![x] = v]) = Total(f) - f[x] + v
<1> DEFINE h    == [f EXCEPT ![x] = v]
           rest == Units(f) \ ({x} \X (1..f[x]))
<1>1. h \in [S -> Nat] /\ h[x] = v /\ \A y \in S \ {x} : h[y] = f[y]
  OBVIOUS
<1> HIDE DEF h
<1>2. IsFiniteSet(Units(f)) /\ IsFiniteSet(rest)
  BY UnitsFinite, FS_Difference
<1>3. \A p : p \in Units(f) <=>
               \E y \in S : \E i \in 1..f[y] : p = <<y, i>>
  BY DEF Units
<1>4. \A p : p \in Units(h) <=>
               \E y \in S : \E i \in 1..h[y] : p = <<y, i>>
  BY <1>1 DEF Units
<1>5. \A p : p \in rest <=>
               \E y \in S \ {x} : \E i \in 1..f[y] : p = <<y, i>>
  BY <1>3
<1>6. Units(f) = rest \cup ({x} \X (1..f[x])) /\ rest \cap ({x} \X (1..f[x])) = {}
  BY <1>3, <1>5
<1>7. Units(h) = rest \cup ({x} \X (1..v)) /\ rest \cap ({x} \X (1..v)) = {}
  BY <1>1, <1>4, <1>5
<1> HIDE DEF rest
<1>8. Cardinality(Units(f)) = Cardinality(rest) + f[x]
  <2> DEFINE own == {x} \X (1..f[x])
  <2>1. IsFiniteSet(own) /\ Cardinality(own) = f[x]
    BY OneUserUnits
  <2>2. Units(f) = rest \cup own /\ rest \cap own = {}
    BY <1>6
  <2> HIDE DEF own
  <2>3. QED
    BY <1>2, <2>1, <2>2, DisjointParts
<1>9. Cardinality(Units(h)) = Cardinality(rest) + v
  <2> DEFINE own == {x} \X (1..v)
  <2>1. IsFiniteSet(own) /\ Cardinality(own) = v
    BY OneUserUnits
  <2>2. Units(h) = rest \cup own /\ rest \cap own = {}
    BY <1>7
  <2> HIDE DEF own
  <2>3. QED
    BY <1>2, <2>1, <2>2, DisjointParts
<1>10. Cardinality(rest) \in Nat
  BY <1>2, FS_CardinalityType
<1>11. QED
  BY <1>8, <1>9, <1>10 DEF Total, h

\* No summand exceeds the sum.
LEMMA TotalBound ==
  ASSUME NEW S, IsFiniteSet(S), NEW f \in [S -> Nat], NEW x \in S
  PROVE  f[x] <= Total(f)
<1>1. PICK v \in Nat : v = 0
  OBVIOUS
<1>2. [f EXCEPT ![x] = v] \in [S -> Nat]
  OBVIOUS
<1>3. Total([f EXCEPT ![x] = v]) \in Nat /\ Total(f) \in Nat
  BY <1>2, TotalType
<1>4. Total([f EXCEPT ![x] = v]) = Total(f) - f[x] + v
  BY TotalUpdate
<1>5. QED
  BY <1>1, <1>3, <1>4

\* The sum of zeros is zero.
LEMMA TotalZero ==
  ASSUME NEW S
  PROVE  Total([x \in S |-> 0]) = 0
<1>1. Units([x \in S |-> 0]) = {}
  BY DEF Units
<1>2. QED
  BY <1>1, FS_EmptySet DEF Total

-----------------------------------------------------------------------------
(* Induction over finite sets, as the least element of a set of sets.         *)

\* A set of parts of a finite set has a member that contains no other.
LEMMA LeastPart ==
  ASSUME NEW S, IsFiniteSet(S), NEW T, T \subseteq SUBSET S, T # {}
  PROVE  \E A \in T : \A B \in T : B \subseteq A => B = A
<1>1. FiniteSubsetsOf(S) = SUBSET S
  BY FS_FiniteSubsetsOfFinite
<1>2. IsWellFoundedOn(StrictSubsetOrdering(S), SUBSET S)
  BY <1>1, FS_StrictSubsetOrderingWellFounded
<1>3. PICK A \in T : \A B \in T : ~ (<<B, A>> \in StrictSubsetOrdering(S))
  BY <1>2, WFMin
<1>4. \A B \in T : B \subseteq A => B = A
  BY <1>3 DEF StrictSubsetOrdering
<1>5. QED
  BY <1>4

\* f on the part A of its domain, zero elsewhere.
OnPart(f, A) == [x \in DOMAIN f |-> IF x \in A THEN f[x] ELSE 0]

\* Taking one more summand into account.
LEMMA PartStep ==
  ASSUME NEW S, IsFiniteSet(S), NEW f \in [S -> Nat], NEW A \in SUBSET S, NEW x \in A
  PROVE  /\ Total(OnPart(f, A)) \in Nat /\ Total(OnPart(f, A \ {x})) \in Nat
         /\ Total(OnPart(f, A)) = Total(OnPart(f, A \ {x})) + f[x]
<1>1. OnPart(f, A) \in [S -> Nat] /\ OnPart(f, A \ {x}) \in [S -> Nat]
  BY DEF OnPart
<1>2. OnPart(f, A) = [OnPart(f, A \ {x}) EXCEPT ![x] = f[x]]
  BY DEF OnPart
<1>3. OnPart(f, A \ {x})[x] = 0 /\ x \in S /\ f[x] \in Nat
  BY DEF OnPart
<1> DEFINE g == OnPart(f, A \ {x})
<1>4. g \in [S -> Nat] /\ g[x] = 0
  BY <1>1, <1>3
<1> HIDE DEF g
<1>5. Total([g EXCEPT ![x] = f[x]]) = Total(g) - g[x] + f[x]
  BY <1>3, <1>4, TotalUpdate
<1>6. Total(g) \in Nat
  BY <1>4, TotalType
<1>7. Total(OnPart(f, A)) = Total(g) + f[x]
  BY <1>2, <1>3, <1>4, <1>5, <1>6 DEF g
<1>8. QED
  BY <1>1, <1>6, <1>7, TotalType DEF g

\* A linear bound on every summand is a linear bound on the sums.
LEMMA TotalLinear ==
  ASSUME NEW S, IsFiniteSet(S), NEW f \in [S -> Nat], NEW g \in [S -> Nat],
         NEW h \in [S -> Nat], NEW a \in Int, NEW b \in Int, NEW k \in Int,
         \A x \in S : a * f[x] <= b * g[x] + k * h[x]
  PROVE  a * Total(f) <= b * Total(g) + k * Total(h)
<1> DEFINE Bound(A) == a * Total(OnPart(f, A))
                         <= b * Total(OnPart(g, A)) + k * Total(OnPart(h, A))
           Bad == {A \in SUBSET S : ~Bound(A)}
<1>1. Bad = {}
  <2> SUFFICES ASSUME Bad # {} PROVE FALSE
    OBVIOUS
  <2>1. PICK A \in Bad : \A B \in Bad : B \subseteq A => B = A
    <3>1. Bad \subseteq SUBSET S /\ Bad # {}
      OBVIOUS
    <3> HIDE DEF Bad
    <3>2. QED
      BY <3>1, LeastPart
  <2>2. CASE A = {}
    <3>1. \A e \in {f, g, h} : OnPart(e, {}) = [x \in S |-> 0]
      BY DEF OnPart
    <3>2. /\ Total(OnPart(f, {})) = 0 /\ Total(OnPart(g, {})) = 0
          /\ Total(OnPart(h, {})) = 0
      BY <3>1, TotalZero
    <3>3. Bound({})
      BY <3>2
    <3>4. QED
      BY <2>2, <3>3
  <2>3. CASE A # {}
    <3>1. PICK x : x \in A
      BY <2>3
    <3>2. Bound(A \ {x}) /\ x \in S /\ A \in SUBSET S
      BY <2>1, <3>1
    <3> DEFINE F == Total(OnPart(f, A))    F0 == Total(OnPart(f, A \ {x}))
               G == Total(OnPart(g, A))    G0 == Total(OnPart(g, A \ {x}))
               H == Total(OnPart(h, A))    H0 == Total(OnPart(h, A \ {x}))
    <3>3. /\ F0 \in Nat /\ F = F0 + f[x] /\ G0 \in Nat /\ G = G0 + g[x]
          /\ H0 \in Nat /\ H = H0 + h[x]
      BY <3>1, <3>2, PartStep
    <3>4. a * F0 <= b * G0 + k * H0
      BY <3>2
    <3>5. ~ (a * F <= b * G + k * H)
      BY <2>1
    <3>6. f[x] \in Nat /\ g[x] \in Nat /\ h[x] \in Nat /\ a * f[x] <= b * g[x] + k * h[x]
      BY <3>2
    <3> HIDE DEF F, F0, G, G0, H, H0
    <3>7. /\ a * F = a * F0 + a * f[x] /\ b * G = b * G0 + b * g[x]
          /\ k * H = k * H0 + k * h[x]
      BY <3>3, <3>6
    <3>8. /\ a * F0 \in Int /\ a * f[x] \in Int /\ b * G0 \in Int /\ b * g[x] \in Int
          /\ k * H0 \in Int /\ k * h[x] \in Int
      BY <3>3, <3>6
    <3>9. QED
      BY <3>4, <3>5, <3>6, <3>7, <3>8
  <2>4. QED
    BY <2>2, <2>3
<1>2. Bound(S)
  BY <1>1
<1>3. OnPart(f, S) = f /\ OnPart(g, S) = g /\ OnPart(h, S) = h
  BY DEF OnPart
<1>4. QED
  BY <1>2, <1>3

\* Two instances: a bound by a multiple, and a bound by a sum.
LEMMA TotalScaled ==
  ASSUME NEW S, IsFiniteSet(S), NEW f \in [S -> Nat], NEW g \in [S -> Nat],
         NEW a \in Nat, NEW b \in Nat, \A x \in S : a * f[x] <= b * g[x]
  PROVE  a * Total(f) <= b * Total(g)
<1>1. PICK k \in Int : k = 0
  OBVIOUS
<1>2. \A x \in S : a * f[x] <= b * g[x] + k * g[x]
  <2> SUFFICES ASSUME NEW x \in S PROVE a * f[x] <= b * g[x] + k * g[x]
    OBVIOUS
  <2>1. a * f[x] \in Nat /\ b * g[x] \in Nat /\ k * g[x] = 0
    BY <1>1
  <2>2. QED
    BY <2>1
<1>3. a * Total(f) <= b * Total(g) + k * Total(g)
  <2>1. a \in Int /\ b \in Int
    OBVIOUS
  <2>2. QED
    BY <1>2, <2>1, TotalLinear
<1>4. Total(f) \in Nat /\ Total(g) \in Nat
  BY TotalType
<1>5. a * Total(f) \in Nat /\ b * Total(g) \in Nat /\ k * Total(g) = 0
  BY <1>1, <1>4
<1>6. QED
  BY <1>3, <1>5

\* A sum bounded term by term by two others.
LEMMA TotalSum ==
  ASSUME NEW S, IsFiniteSet(S), NEW f \in [S -> Nat], NEW g \in [S -> Nat],
         NEW h \in [S -> Nat], \A x \in S : f[x] <= g[x] + h[x]
  PROVE  Total(f) <= Total(g) + Total(h)
<1>1. PICK k \in Int : k = 1
  OBVIOUS
<1>2. \A x \in S : k * f[x] <= k * g[x] + k * h[x]
  BY <1>1
<1>3. k * Total(f) <= k * Total(g) + k * Total(h)
  BY <1>2, TotalLinear
<1>4. Total(f) \in Nat /\ Total(g) \in Nat /\ Total(h) \in Nat
  BY TotalType
<1>5. QED
  BY <1>1, <1>3, <1>4

\* A larger function has a larger sum.
LEMMA TotalMonotone ==
  ASSUME NEW S, IsFiniteSet(S), NEW f \in [S -> Nat], NEW g \in [S -> Nat],
         \A x \in S : f[x] <= g[x]
  PROVE  Total(f) <= Total(g)
<1>1. PICK k \in Nat : k = 1
  OBVIOUS
<1>2. \A x \in S : k * f[x] <= k * g[x]
  BY <1>1
<1>3. k * Total(f) <= k * Total(g)
  BY <1>2, TotalScaled
<1>4. Total(f) \in Nat /\ Total(g) \in Nat
  BY TotalType
<1>5. QED
  BY <1>1, <1>3, <1>4

\* The sum of the indicator of a part is the number of its elements.
LEMMA TotalIndicator ==
  ASSUME NEW S, IsFiniteSet(S), NEW A \in SUBSET S
  PROVE  Total([x \in S |-> IF x \in A THEN 1 ELSE 0]) = Cardinality(A)
<1> DEFINE f == [x \in S |-> IF x \in A THEN 1 ELSE 0]
           b == [x \in A |-> <<x, 1>>]
<1>1. \A p : p \in Units(f) <=> \E x \in A : p = <<x, 1>>
  BY DEF Units
<1>2. b \in Bijection(A, Units(f))
  BY <1>1 DEF Bijection, Injection, Surjection, IsInjective
<1>3. IsFiniteSet(A)
  BY FS_Subset
<1>4. ExistsBijection(A, Units(f))
  BY <1>2 DEF ExistsBijection
<1>5. QED
  BY <1>3, <1>4, FS_Bijection DEF Total

\* Changing an integer at one point changes the sum by the difference.
LEMMA NetUpdate ==
  ASSUME NEW S, IsFiniteSet(S), NEW f \in [S -> Int], NEW x \in S, NEW v \in Int
  PROVE  Net([f EXCEPT ![x] = v]) = Net(f) - f[x] + v
<1> DEFINE h  == [f EXCEPT ![x] = v]
           p  == [y \in S |-> IF f[y] > 0 THEN f[y] ELSE 0]
           n  == [y \in S |-> IF f[y] < 0 THEN -f[y] ELSE 0]
           vp == IF v > 0 THEN v ELSE 0
           vn == IF v < 0 THEN -v ELSE 0
<1>1. /\ p \in [S -> Nat] /\ n \in [S -> Nat] /\ vp \in Nat /\ vn \in Nat
      /\ vp - vn = v /\ p[x] - n[x] = f[x]
  OBVIOUS
<1>2. /\ [y \in DOMAIN h |-> IF h[y] > 0 THEN h[y] ELSE 0] = [p EXCEPT ![x] = vp]
      /\ [y \in DOMAIN h |-> IF h[y] < 0 THEN -h[y] ELSE 0] = [n EXCEPT ![x] = vn]
  OBVIOUS
<1>3. Net(f) = Total(p) - Total(n)
  BY DEF Net
<1>4. Net(h) = Total([p EXCEPT ![x] = vp]) - Total([n EXCEPT ![x] = vn])
  BY <1>2 DEF Net
<1> HIDE DEF h, p, n, vp, vn
<1>5. /\ Total([p EXCEPT ![x] = vp]) = Total(p) - p[x] + vp
      /\ Total([n EXCEPT ![x] = vn]) = Total(n) - n[x] + vn
  BY <1>1, TotalUpdate
<1>6. Total(p) \in Nat /\ Total(n) \in Nat /\ p[x] \in Nat /\ n[x] \in Nat
  BY <1>1, TotalType
<1>7. QED
  BY <1>1, <1>3, <1>4, <1>5, <1>6 DEF h

\* A sum of integers over a finite set is an integer.
LEMMA NetType ==
  ASSUME NEW S, IsFiniteSet(S), NEW f \in [S -> Int]
  PROVE  Net(f) \in Int
<1> DEFINE p == [y \in S |-> IF f[y] > 0 THEN f[y] ELSE 0]
           n == [y \in S |-> IF f[y] < 0 THEN -f[y] ELSE 0]
<1>1. p \in [S -> Nat] /\ n \in [S -> Nat] /\ Net(f) = Total(p) - Total(n)
  BY DEF Net
<1> HIDE DEF p, n
<1>2. QED
  BY <1>1, TotalType

\* f with x more at c.
Bump(f, c, x) == [f EXCEPT ![c] = f[c] + x]

\* One term of a sum changes.
LEMMA OneTerm ==
  ASSUME NEW S, IsFiniteSet(S), NEW c \in S, NEW f \in [S -> Int], NEW x \in Int
  PROVE  Net(Bump(f, c, x)) = Net(f) + x
<1>1. PICK v \in Int : v = f[c] + x
  OBVIOUS
<1>2. f[c] \in Int /\ Net(f) \in Int
  BY NetType
<1>3. Net([f EXCEPT ![c] = v]) = Net(f) - f[c] + v
  BY NetUpdate
<1>4. Bump(f, c, x) = [f EXCEPT ![c] = v]
  BY <1>1 DEF Bump
<1>5. QED
  BY <1>1, <1>2, <1>3, <1>4

\* On naturals the two sums agree.
LEMMA NetIsTotal ==
  ASSUME NEW S, IsFiniteSet(S), NEW f \in [S -> Nat]
  PROVE  Net(f) = Total(f)
<1>1. /\ [y \in DOMAIN f |-> IF f[y] > 0 THEN f[y] ELSE 0] = f
      /\ [y \in DOMAIN f |-> IF f[y] < 0 THEN -f[y] ELSE 0] = [x \in S |-> 0]
  OBVIOUS
<1>2. Total(f) \in Nat
  BY TotalType
<1>3. QED
  BY <1>1, <1>2, TotalZero DEF Net

\* The sum of zeros, again.
LEMMA NetZero == ASSUME NEW S PROVE Net([x \in S |-> 0]) = 0
<1> DEFINE z == [x \in S |-> 0]
<1>1. /\ [y \in DOMAIN z |-> IF z[y] > 0 THEN z[y] ELSE 0] = z
      /\ [y \in DOMAIN z |-> IF z[y] < 0 THEN -z[y] ELSE 0] = z
  OBVIOUS
<1>2. Total(z) = 0
  BY TotalZero
<1> HIDE DEF z
<1>3. Net(z) = 0
  BY <1>1, <1>2 DEF Net
<1>4. QED
  BY <1>3 DEF z

\* The denominator is a natural number.
LEMMA BpsDenominatorNat == BPS_DENOMINATOR \in Nat
BY DEF BPS_DENOMINATOR

\* A fee or a reserve is an integer between nothing and the whole, even though
\* it is rounded up.
LEMMA CeilBpsBounds ==
  ASSUME NEW x \in Nat, NEW bps \in 0..BPS_DENOMINATOR
  PROVE  CeilBps(x, bps) \in 0..x
<1> DEFINE n == x * bps
<1>1. n \in Nat /\ n <= x * 10000
  BY DEF BPS_DENOMINATOR
<1>2. CeilBps(x, bps) = (n + 9999) \div 10000
  BY DEF CeilBps, BPS_DENOMINATOR, BPS_CEIL_OFFSET
<1> HIDE DEF n
<1>3. (n + 9999) \div 10000 \in 0..x
  BY <1>1
<1>4. QED
  BY <1>2, <1>3

\* Fees and slices of integers are integers.
LEMMA BpsInt ==
  ASSUME NEW x \in Int, NEW bps \in Int
  PROVE  CeilBps(x, bps) \in Int /\ FloorBps(x, bps) \in Int
<1> DEFINE n == x * bps
<1>1. n \in Int
  OBVIOUS
<1>2. /\ CeilBps(x, bps) = (n + 9999) \div 10000
      /\ FloorBps(x, bps) = n \div 10000
  BY DEF CeilBps, FloorBps, BPS_DENOMINATOR, BPS_CEIL_OFFSET
<1> HIDE DEF n
<1>3. QED
  BY <1>1, <1>2

\* A milestone slice of a natural amount is a natural.
LEMMA FloorBpsNat ==
  ASSUME NEW x \in Nat, NEW bps \in Nat
  PROVE  FloorBps(x, bps) \in Nat
<1> DEFINE n == x * bps
<1>1. n \in Nat
  OBVIOUS
<1>2. FloorBps(x, bps) = n \div 10000
  BY DEF FloorBps, BPS_DENOMINATOR
<1> HIDE DEF n
<1>3. QED
  BY <1>1, <1>2

\* A fee on a natural amount is a natural.
LEMMA CeilBpsNat ==
  ASSUME NEW x \in Nat, NEW bps \in Nat
  PROVE  CeilBps(x, bps) \in Nat
<1> DEFINE n == x * bps
<1>1. n \in Nat
  OBVIOUS
<1>2. CeilBps(x, bps) = (n + 9999) \div 10000
  BY DEF CeilBps, BPS_DENOMINATOR, BPS_CEIL_OFFSET
<1> HIDE DEF n
<1>3. QED
  BY <1>1, <1>2
=============================================================================
