--------------------------- MODULE FloatingProofs ---------------------------
(****************************************************************************)
(* Rounding, whatever the precision and the spacings: what it keeps, what it*)
(* cannot pass, and how far it can be off.                                  *)
(****************************************************************************)
EXTENDS Floating, WellFoundedInduction, TLAPS

------------------------------------------------------------------------------
(* Numbers, and what rounding does to them.                                  *)

\* Division with remainder.
LEMMA DivMod ==
    ASSUME NEW a \in Nat, NEW n \in Nat \ {0}
    PROVE  /\ a \div n \in Nat /\ a % n \in 0..(n - 1)
           /\ a = n * (a \div n) + (a % n)
  OBVIOUS

\* What it bounds.
LEMMA DivisionIs ==
    ASSUME NEW a \in Nat, NEW n \in Nat \ {0}
    PROVE  /\ a \div n \in Nat
           /\ n * (a \div n) <= a /\ a < n * (a \div n + 1)
<1>1. PICK q \in Nat, r \in 0..(n - 1) : a = n * q + r /\ q = a \div n
  BY DivMod
<1>2. n * q \in Nat /\ n * (q + 1) = n * q + n  BY Z3
<1>3. n * q <= a /\ a < n * (q + 1)  BY <1>1, <1>2
<1>. QED  BY <1>1, <1>3

\* Products grow with their factors.
LEMMA ProductGrows ==
    ASSUME NEW k \in Nat, NEW a \in Nat, NEW b \in Nat, a <= b
    PROVE  k * a \in Nat /\ k * b \in Nat /\ k * a <= k * b
<1>1. PICK d \in Nat : b = a + d
  <2>1. b - a \in Nat /\ b = a + (b - a)  OBVIOUS
  <2>. QED  BY <2>1
<1>2. k * (a + d) = k * a + k * d /\ k * a \in Nat /\ k * d \in Nat  BY Z3
<1>. QED  BY <1>1, <1>2

\* Products grow strictly with a factor.
LEMMA ProductGrowsStrictly ==
    ASSUME NEW k \in Nat \ {0}, NEW a \in Nat, NEW b \in Nat, a < b
    PROVE  k * a \in Nat /\ k * b \in Nat /\ k * a < k * b
<1>1. k * (a + 1) \in Nat /\ k * b \in Nat /\ k * (a + 1) <= k * b
  BY ProductGrows
<1>2. k * (a + 1) = k * a + k /\ k * a \in Nat  BY Z3
<1>. QED  BY <1>1, <1>2

\* A set of naturals that holds 0, and n + 1 if n, holds them all.
LEMMA Induction ==
    ASSUME NEW S \in SUBSET Nat, 0 \in S, \A n \in S : n + 1 \in S
    PROVE  S = Nat
<1>. DEFINE R == OpToRel(<, Nat)
            T == Nat \ S
<1>. SUFFICES ASSUME T # {} PROVE FALSE  OBVIOUS
<1>1. IsWellFoundedOn(R, Nat)  BY NatLessThanWellFounded, Zenon
<1>2. ASSUME NEW m \in Nat, NEW n \in Nat, m < n PROVE <<m, n>> \in R
  BY <1>2 DEF OpToRel
<1>3. T \in SUBSET Nat  OBVIOUS
<1>. HIDE DEF R
<1>4. PICK n \in T : \A m \in T : ~(<<m, n>> \in R)
  <2>. HIDE DEF T
  <2>. QED  BY <1>1, <1>3, WFMin, Zenon
<1>5. n # 0 /\ n - 1 \in Nat /\ n - 1 + 1 = n /\ n - 1 < n /\ n \in Nat
  BY <1>4
<1>6. n - 1 \in S
  <2>1. n - 1 \notin T  BY <1>2, <1>4, <1>5
  <2>. QED  BY <1>5, <2>1
<1>. QED  BY <1>4, <1>5, <1>6

------------------------------------------------------------------------------
(* Floats: a quotient is rounded to the nearest, so that what is off is a    *)
(* share of it, and what is larger is not rounded to less.                   *)

\* A factor both have can be taken out.
LEMMA FactorOut ==
    ASSUME NEW k \in Nat \ {0}, NEW a \in Nat, NEW b \in Nat, k * a <= k * b
    PROVE  a <= b
<1>1. SUFFICES ASSUME b < a PROVE FALSE  OBVIOUS
<1>2. k * b \in Nat /\ k * a \in Nat /\ k * b < k * a
  BY <1>1, ProductGrowsStrictly
<1>. QED  BY <1>2

\* Naturals have a least.
LEMMA LeastIs ==
    ASSUME NEW T \in SUBSET Nat, T # {}
    PROVE  \E n \in T : \A m \in T : n <= m
<1>. DEFINE R == OpToRel(<, Nat)
<1>1. IsWellFoundedOn(R, Nat)  BY NatLessThanWellFounded, Zenon
<1>2. ASSUME NEW m \in Nat, NEW n \in Nat, m < n PROVE <<m, n>> \in R
  BY <1>2 DEF OpToRel
<1>. HIDE DEF R
<1>3. PICK n \in T : \A m \in T : ~(<<m, n>> \in R)  BY <1>1, WFMin, Zenon
<1>4. \A m \in T : n <= m
  <2>1. ASSUME NEW m \in T PROVE n <= m
    <3>1. m \in Nat /\ n \in Nat /\ ~(m < n)  BY <1>2, <1>3
    <3>. QED  BY <3>1
  <2>. QED  BY <2>1
<1>. QED  BY <1>4

\* Significands have a half; spacings are powers of two up to the widest.
LEMMA SpacingsAre ==
    /\ \E h \in Nat \ {0} : Precision = 2 * h
    /\ Widest \in Spacings /\ \A v \in Spacings : v \in Nat \ {0} /\ v <= Widest
    /\ 1 \in Spacings /\ 2 \in Spacings /\ Unit \in Spacings
    /\ 4 * Precision <= Unit
<1>1. /\ Precision \in Nat \ {0} /\ Precision % 2 = 0
      /\ Spacings \subseteq Nat \ {0} /\ {1, 2, Unit} \subseteq Spacings
      /\ \E w \in Spacings : \A v \in Spacings : v <= w
      /\ 4 * Precision <= Unit
  BY FloatsAssumption, Zenon
<1>2. Widest \in Spacings /\ \A v \in Spacings : v <= Widest
  BY <1>1, Zenon DEF Widest
<1>3. PICK p \in Nat \ {0} : p = Precision /\ p % 2 = 0  BY <1>1
<1>4. p = 2 * (p \div 2) /\ p \div 2 \in Nat \ {0}  BY <1>3
<1>. QED  BY <1>1, <1>2, <1>3, <1>4

\* Infinity, the significands and 1, as numbers; no float is beyond infinity.
LEMMA InfinityIs ==
    /\ Infinity \in Nat \ {0} /\ Precision \in Nat \ {0} /\ Unit \in Nat \ {0}
    /\ \A v \in Spacings : Precision * v <= Infinity
<1>1. /\ Widest \in Nat \ {0} /\ Precision \in Nat \ {0} /\ Unit \in Nat \ {0}
      /\ \A v \in Spacings : v \in Nat /\ v <= Widest
  BY SpacingsAre, FloatsAssumption
<1>2. Infinity \in Nat \ {0}
  <2>1. \A x, y \in Nat \ {0} : x * y \in Nat \ {0}  BY Z3
  <2>. QED  BY <1>1, <2>1, Zenon DEF Infinity
<1>3. ASSUME NEW v \in Spacings PROVE Precision * v <= Infinity
  <2>1. Precision * v <= Precision * Widest  BY <1>1, ProductGrows
  <2>. QED  BY <2>1, Zenon DEF Infinity
<1>. QED  BY <1>1, <1>2, <1>3

\* The spacing of a number is the least that reaches it.
LEMMA SpacingIs ==
    ASSUME NEW x \in Nat, x < Infinity
    PROVE  /\ Spacing(x) \in Spacings /\ x < Precision * Spacing(x)
           /\ Spacing(x) = 1 \/ Precision * Spacing(x) <= 2 * x
<1>. DEFINE T == {w \in Spacings : x < Precision * w}
<1>1. T \in SUBSET Nat /\ Widest \in T
  BY SpacingsAre DEF Infinity
<1>2. PICK w \in T : \A v \in T : w <= v  BY <1>1, LeastIs
<1>3. w = 1 \/ Precision * w <= 2 * x
  <2>1. SUFFICES ASSUME w # 1 PROVE Precision * w <= 2 * x  OBVIOUS
  <2>2. PICK v \in Spacings : w = 2 * v
    <3>1. w \in Spacings  OBVIOUS
    <3>. QED  BY <2>1, <3>1, FloatsAssumption, Zenon
  <2>3. v \in Nat \ {0} /\ Precision \in Nat  BY SpacingsAre, InfinityIs
  <2>4. v \notin T  BY <1>2, <2>2, <2>3
  <2>5. PICK y \in Nat : y = Precision * v /\ y <= x
    <3>1. Precision * v \in Nat  BY <2>3, Z3
    <3>. QED  BY <2>4, <3>1
  <2>6. Precision * (2 * v) = 2 * (Precision * v)  BY <2>3, Z3
  <2>7. Precision * w = 2 * y  BY <2>2, <2>5, <2>6, Zenon
  <2>. QED  BY <2>5, <2>7
<1>4. \E s \in Spacings : x < Precision * s /\ (s = 1 \/ Precision * s <= 2 * x)
  BY <1>3
<1>. HIDE DEF T
<1>5. LET s == Spacing(x) IN
      s \in Spacings /\ x < Precision * s /\ (s = 1 \/ Precision * s <= 2 * x)
  BY <1>4, Zenon DEF Spacing
<1>. QED  BY <1>5

\* A number lies between two multiples of its spacing, one significand apart.
LEMMA LiesBetween ==
    ASSUME NEW x \in Nat, x < Infinity, NEW w, w = Spacing(x), NEW k, k = x \div w
    PROVE  /\ w \in Spacings /\ w \in Nat \ {0} /\ k \in 0..(Precision - 1)
           /\ w * k \in Nat /\ w * (k + 1) \in Nat
           /\ w * (k + 1) = w * k + w
           /\ w * k <= x /\ x < w * (k + 1)
           /\ w = 1 \/ Precision <= 2 * k
<1>1. /\ w \in Spacings /\ x < Precision * w
      /\ w = 1 \/ Precision * w <= 2 * x
  BY SpacingIs
<1>2. /\ w \in Nat \ {0} /\ Precision \in Nat \ {0}  BY <1>1, SpacingsAre, InfinityIs
<1>3. k \in Nat /\ w * k <= x /\ x < w * (k + 1)  BY <1>2, DivisionIs
<1>4. w * (k + 1) = w * k + w /\ w * k \in Nat /\ w * (k + 1) \in Nat
  BY <1>2, <1>3, Z3
<1>5. \A i, j \in Nat : i * j = j * i /\ i * j \in Nat  BY Z3
<1>6. k < Precision
  <2>1. SUFFICES ASSUME Precision <= k PROVE FALSE  BY <1>2, <1>3
  <2>2. w * Precision <= w * k  BY <1>2, <1>3, <2>1, ProductGrows
  <2>3. w * Precision = Precision * w /\ w * Precision \in Nat  BY <1>2, <1>5
  <2>4. PICK p \in Nat : p = Precision * w /\ p <= w * k /\ x < p
    BY <1>1, <2>2, <2>3
  <2>. QED  BY <1>3, <1>4, <2>4
<1>7. ASSUME w # 1 PROVE Precision <= 2 * k
  <2>1. PICK h \in Nat \ {0} : Precision = 2 * h  BY SpacingsAre
  <2>2. Precision * w <= 2 * x  BY <1>1, <1>7
  <2>3. (2 * h) * w = 2 * (w * h) /\ w * h \in Nat  BY <1>2, Z3
  <2>4. PICK y \in Nat : y = w * h /\ y <= x
    <3>1. 2 * (w * h) <= 2 * x  BY <2>1, <2>2, <2>3, Zenon
    <3>. QED  BY <2>3, <3>1
  <2>5. h < k + 1
    <3>1. SUFFICES ASSUME k + 1 <= h PROVE FALSE  BY <1>3
    <3>2. w * (k + 1) <= w * h  BY <1>2, <1>3, <3>1, ProductGrows
    <3>. QED  BY <1>3, <1>4, <2>4, <3>2
  <2>. QED  BY <1>3, <2>1, <2>5
<1>. QED  BY <1>1, <1>2, <1>3, <1>4, <1>6, <1>7

\* Both are floats.
LEMMA NeighboursAreFloats ==
    ASSUME NEW w \in Spacings, NEW k \in 0..(Precision - 1)
    PROVE  w * k \in Floats /\ w * (k + 1) \in Floats
<1>1. PICK h \in Nat \ {0} : Precision = 2 * h  BY SpacingsAre
<1>2. w \in Nat \ {0} /\ k \in Nat /\ Precision \in Nat \ {0}
  BY SpacingsAre, InfinityIs
<1>3. \A i, j \in Nat : i * j = j * i  BY Z3
<1>4. ASSUME NEW j \in 0..(Precision - 1), NEW v \in Spacings PROVE j * v \in Floats
  BY DEF Floats, FiniteFloats
<1>5. w * k \in Floats
  <2>1. w * k = k * w  BY <1>2, <1>3
  <2>. QED  BY <1>4, <2>1
<1>6. CASE k + 1 \in 0..(Precision - 1)
  <2>1. w * (k + 1) = (k + 1) * w  BY <1>2, <1>3
  <2>2. (k + 1) * w \in Floats  BY <1>4, <1>6
  <2>. QED  BY <1>5, <2>1, <2>2
<1>7. CASE k + 1 = Precision
  <2>1. w * Precision = Precision * w  BY <1>2, <1>3
  <2>2. CASE w = Widest
    <3>1. w * (k + 1) = Infinity  BY <1>7, <2>1, <2>2, Zenon DEF Infinity
    <3>. QED  BY <1>5, <3>1 DEF Floats
  <2>3. CASE w # Widest
    <3>1. 2 * w \in Spacings  BY <2>3, FloatsAssumption, Zenon
    <3>2. h \in 0..(Precision - 1)  BY <1>1
    <3>3. h * (2 * w) \in Floats  BY <1>4, <3>1, <3>2
    <3>4. h * (2 * w) = w * (2 * h)  BY <1>2, Z3
    <3>. QED  BY <1>1, <1>5, <1>7, <3>3, <3>4, Zenon
  <2>. QED  BY <2>2, <2>3
<1>. QED  BY <1>2, <1>6, <1>7

\* A narrower spacing goes into a wider one, and twice if it is not the same.
LEMMA SpacingsDivide ==
    ASSUME NEW v \in Spacings, NEW w \in Spacings, v <= w
    PROVE  \E e \in Nat \ {0} : w = v * e /\ (v < w => e >= 2)
<1>1. v \in Nat \ {0} /\ w \in Nat \ {0}  BY SpacingsAre
<1>2. w % v = 0  BY FloatsAssumption, Zenon
<1>3. PICK e \in Nat : w = v * e + 0  BY <1>1, <1>2, DivMod
<1>4. v * e + 0 = v * e /\ v * 0 = 0 /\ v * 1 = v  BY <1>1, <1>3, Z3
<1>5. e # 0 /\ (e = 1 => w = v)  BY <1>1, <1>3, <1>4
<1>. QED  BY <1>1, <1>3, <1>4, <1>5

\* There is no float between them.
LEMMA NothingBetween ==
    ASSUME NEW w \in Spacings, NEW k \in 0..(Precision - 1),
           w = 1 \/ Precision <= 2 * k, NEW f \in Floats
    PROVE  f \in Nat /\ (f <= w * k \/ w * (k + 1) <= f)
<1>1. PICK h \in Nat \ {0} : Precision = 2 * h  BY SpacingsAre
<1>2. /\ w \in Nat \ {0} /\ k \in Nat /\ k + 1 \in Nat
      /\ Precision \in Nat \ {0} /\ Infinity \in Nat
  BY SpacingsAre, InfinityIs
<1>3. \A i, j \in Nat : i * j = j * i /\ i * j \in Nat  BY Z3
<1>4. CASE f = Infinity
  <2>1. w * (k + 1) <= w * Precision  BY <1>2, ProductGrows
  <2>2. Precision * w <= Infinity  BY InfinityIs
  <2>3. w * Precision = Precision * w /\ w * Precision \in Nat /\ w * (k + 1) \in Nat
    BY <1>2, <1>3
  <2>4. w * (k + 1) <= Infinity
    <3>1. PICK p \in Nat : p = Precision * w  BY <2>3
    <3>. QED  BY <1>2, <2>1, <2>2, <2>3, <3>1
  <2>. QED  BY <1>2, <1>4, <2>4
<1>5. CASE f \in FiniteFloats
  <2>1. PICK j \in 0..(Precision - 1), v \in Spacings : f = j * v
    BY <1>5 DEF FiniteFloats
  <2>2. j \in Nat /\ j <= Precision /\ v \in Nat \ {0}  BY <2>1, SpacingsAre
  <2>3. f \in Nat  BY <1>3, <2>1, <2>2
  <2>4. CASE w <= v
    <3>1. PICK e \in Nat : v = w * e  BY <2>4, SpacingsDivide
    <3>2. PICK i \in Nat : i = j * e  BY <1>3, <2>2, <3>1
    <3>3. f = w * i
      <4>1. j * (w * e) = w * (j * e)  BY <1>2, <2>2, <3>1, Z3
      <4>. QED  BY <2>1, <3>1, <3>2, <4>1, Zenon
    <3>4. i <= k \/ k + 1 <= i  BY <1>2, <3>2
    <3>5. w * i <= w * k \/ w * (k + 1) <= w * i
      BY <1>2, <3>2, <3>4, ProductGrows
    <3>. QED  BY <2>3, <3>3, <3>5
  <2>5. CASE v < w
    <3>1. PICK e \in Nat : w = v * e /\ e >= 2
      <4>1. v <= w  BY <1>2, <2>2, <2>5
      <4>. QED  BY <2>5, <4>1, SpacingsDivide
    <3>2. h <= k  BY <1>1, <1>2, <2>2, <2>5
    <3>3. f <= v * (2 * h)
      <4>1. v * j <= v * Precision  BY <1>2, <2>2, ProductGrows
      <4>2. j * v = v * j  BY <1>3, <2>2
      <4>. QED  BY <1>1, <2>1, <4>1, <4>2, Zenon
    <3>4. v * (2 * h) <= w * h
      <4>1. v * h \in Nat /\ 2 \in Nat  BY <1>3, <2>2
      <4>2. (v * h) * 2 <= (v * h) * e  BY <3>1, <4>1, ProductGrows
      <4>3. (v * h) * 2 = v * (2 * h) /\ (v * h) * e = (v * e) * h
        BY <2>2, <3>1, Z3
      <4>. QED  BY <3>1, <4>2, <4>3, Zenon
    <3>5. w * h <= w * k  BY <1>2, <3>2, ProductGrows
    <3>6. PICK p \in Nat, q \in Nat, r \in Nat : p = v * (2 * h) /\ q = w * h /\ r = w * k
      BY <1>2, <1>3, <2>2
    <3>7. f <= r  BY <2>3, <3>3, <3>4, <3>5, <3>6
    <3>. QED  BY <2>3, <3>6, <3>7
  <2>. QED  BY <2>2, <2>4, <2>5, <1>2
<1>. QED  BY <1>4, <1>5 DEF Floats

\* b and a are the floats next to n / d, w apart, and r is the nearer.
Rounds(r, n, d, b, a, w) ==
    /\ b \in Floats /\ a \in Floats /\ b \in Nat /\ a \in Nat /\ w \in Nat \ {0}
    /\ a = b + w /\ b * d <= n /\ n < a * d
    /\ \A f \in Floats : f \in Nat /\ (f <= b \/ a <= f)
    /\ w = 1 \/ Precision * w <= 2 * b
    /\ \/ r = b /\ 2 * n <= 2 * (b * d) + w * d
       \/ r = a /\ 2 * n >= 2 * (b * d) + w * d

\* A quotient in range is rounded to a nearest float.
LEMMA RoundsToNearest ==
    ASSUME NEW n \in Nat, NEW d \in Nat \ {0}, n \div d < Infinity
    PROVE  \E b, a, w : Rounds(Rounded(n, d), n, d, b, a, w)
<1>. DEFINE x == n \div d
            w == Spacing(x)
            k == x \div w
            middle == (2 * k + 1) * w * d
            b == w * k
            a == w * (k + 1)
<1>1. x \in Nat /\ d * x <= n /\ n < d * (x + 1)  BY DivisionIs
<1>2. Rounded(n, d) = IF 2 * n < middle \/ (2 * n = middle /\ k % 2 = 0)
                      THEN k * w ELSE (k + 1) * w
  <2>1. Nearest[n][d] = IF x >= Infinity THEN Infinity
                        ELSE IF 2 * n < middle \/ (2 * n = middle /\ k % 2 = 0)
                             THEN k * w ELSE (k + 1) * w
    BY DEF Nearest
  <2>2. ~(x >= Infinity)  BY <1>1, InfinityIs
  <2>. HIDE DEF x, w, k, middle
  <2>. QED  BY <2>1, <2>2, Zenon DEF Rounded
<1>. HIDE DEF x
<1>3. x < Infinity  BY DEF x
<1>. HIDE DEF w, k
<1>4. /\ w \in Spacings /\ w \in Nat \ {0} /\ k \in 0..(Precision - 1)
      /\ b \in Nat /\ a \in Nat /\ a = b + w /\ b <= x /\ x < a
      /\ w = 1 \/ Precision <= 2 * k
  BY <1>1, <1>3, LiesBetween DEF w, k
<1>5. b \in Floats /\ a \in Floats  BY <1>4, NeighboursAreFloats
<1>6. \A f \in Floats : f \in Nat /\ (f <= b \/ a <= f)  BY <1>4, NothingBetween
<1>7. k \in Nat /\ Precision \in Nat  BY <1>4, InfinityIs
<1>8. \A i, j \in Nat : i * j = j * i /\ i * j \in Nat  BY Z3
<1>9. w = 1 \/ Precision * w <= 2 * b
  <2>1. SUFFICES ASSUME Precision <= 2 * k PROVE Precision * w <= 2 * b
    BY <1>4
  <2>2. 2 * k \in Nat  BY <1>7
  <2>3. w * Precision <= w * (2 * k)  BY <1>4, <1>7, <2>1, <2>2, ProductGrows
  <2>4. w * Precision = Precision * w /\ w * (2 * k) = 2 * (w * k)
    BY <1>4, <1>7, Z3
  <2>. QED  BY <2>3, <2>4
<1>10. middle = 2 * (b * d) + w * d /\ k * w = b /\ (k + 1) * w = a
  <2>1. \A i, j, l \in Nat : /\ (2 * i + 1) * j * l = 2 * ((j * i) * l) + j * l
                            /\ i * j = j * i /\ (i + 1) * j = j * (i + 1)
    BY Z3
  <2>. QED  BY <1>4, <1>7, <2>1
<1>11. b * d <= n /\ n < a * d
  <2>1. d * b <= d * x /\ d * b \in Nat /\ d * x \in Nat
    BY <1>1, <1>4, ProductGrows
  <2>2. d * (x + 1) <= d * a /\ d * a \in Nat /\ d * (x + 1) \in Nat
    <3>1. x + 1 \in Nat /\ x + 1 <= a  BY <1>1, <1>4
    <3>. QED  BY <1>4, <3>1, ProductGrows
  <2>3. d * b = b * d /\ d * a = a * d  BY <1>4, <1>8
  <2>. HIDE DEF a, b
  <2>4. b * d <= n  BY <1>1, <2>1, <2>3
  <2>5. n < a * d  BY <1>1, <2>2, <2>3
  <2>. QED  BY <2>4, <2>5
<1>12. \/ Rounded(n, d) = b /\ 2 * n <= 2 * (b * d) + w * d
       \/ Rounded(n, d) = a /\ 2 * n >= 2 * (b * d) + w * d
  <2>1. PICK m \in Nat : m = middle /\ m = 2 * (b * d) + w * d
    <3>1. b * d \in Nat /\ w * d \in Nat  BY <1>4, <1>8
    <3>2. 2 * (b * d) + w * d \in Nat  BY <3>1
    <3>. QED  BY <1>10, <3>2, Zenon
  <2>2. Rounded(n, d) = IF 2 * n < m \/ (2 * n = m /\ k % 2 = 0) THEN b ELSE a
    BY <1>2, <1>10, <2>1, Zenon
  <2>3. \/ Rounded(n, d) = b /\ 2 * n <= m
        \/ Rounded(n, d) = a /\ 2 * n >= m
    BY <2>1, <2>2
  <2>. QED  BY <2>1, <2>3, Zenon
<1>. HIDE DEF a, b
<1>13. Rounds(Rounded(n, d), n, d, b, a, w)
  BY <1>4, <1>5, <1>6, <1>9, <1>11, <1>12, Zenon DEF Rounds
<1>. QED  BY <1>13

\* One that is not is infinite.
LEMMA RoundsToInfinity ==
    ASSUME NEW n \in Nat, NEW d \in Nat \ {0}, ~(n \div d < Infinity)
    PROVE  Rounded(n, d) = Infinity /\ Infinity * d <= n
<1>1. n \div d \in Nat /\ d * (n \div d) <= n  BY DivisionIs
<1>2. n \div d >= Infinity /\ Infinity \in Nat  BY <1>1, InfinityIs
<1>3. Nearest[n][d] = Infinity  BY <1>2 DEF Nearest
<1>4. d * Infinity <= d * (n \div d) /\ d * Infinity \in Nat /\ d * (n \div d) \in Nat
  BY <1>1, <1>2, ProductGrows
<1>5. d * Infinity = Infinity * d  BY <1>2, Z3
<1>6. Infinity * d <= n  BY <1>1, <1>4, <1>5
<1>. QED  BY <1>3, <1>6 DEF Rounded

\* The finite floats are those below infinity; small numbers, significands and 1
\* are among them.
LEMMA FloatsAre ==
    /\ \A f \in Floats : f \in Nat /\ f <= Infinity
    /\ \A f \in FiniteFloats : f \in Floats /\ f \in Nat /\ f < Infinity
    /\ \A f \in Floats : f < Infinity => f \in FiniteFloats
    /\ \A f \in 0..Precision : f \in Floats
    /\ Unit \in FiniteFloats /\ Infinity \in Floats
<1>1. PICK h \in Nat \ {0} : Precision = 2 * h  BY SpacingsAre
<1>2. /\ Infinity \in Nat \ {0} /\ Precision \in Nat \ {0}
      /\ \A v \in Spacings : v \in Nat \ {0} /\ Precision * v <= Infinity
  BY SpacingsAre, InfinityIs
<1>3. \A i, j \in Nat : i * j = j * i /\ i * j \in Nat  BY Z3
<1>4. ASSUME NEW f \in FiniteFloats PROVE f \in Nat /\ f < Infinity
  <2>1. PICK j \in 0..(Precision - 1), v \in Spacings : f = j * v
    BY DEF FiniteFloats
  <2>2. j \in Nat /\ j < Precision /\ v \in Nat \ {0}  BY <1>2, <2>1
  <2>3. v * j \in Nat /\ v * Precision \in Nat /\ v * j < v * Precision
    BY <1>2, <2>2, ProductGrowsStrictly
  <2>4. v * j = j * v /\ v * Precision = Precision * v  BY <1>2, <1>3, <2>2
  <2>5. PICK p \in Nat : p = Precision * v /\ p <= Infinity  BY <1>2, <2>3, <2>4
  <2>. QED  BY <1>2, <2>1, <2>3, <2>4, <2>5
<1>5. ASSUME NEW j \in 0..(Precision - 1), NEW v \in Spacings
      PROVE  j * v \in FiniteFloats
  BY DEF FiniteFloats
<1>6. ASSUME NEW f \in 0..Precision PROVE f \in Floats
  <2>1. CASE f = Precision
    <3>1. h \in 0..(Precision - 1) /\ 2 \in Spacings  BY <1>1, SpacingsAre
    <3>2. h * 2 \in FiniteFloats  BY <1>5, <3>1
    <3>. QED  BY <1>1, <2>1, <3>2 DEF Floats
  <2>2. CASE f # Precision
    <3>1. f \in 0..(Precision - 1) /\ 1 \in Spacings  BY <1>2, <2>2, SpacingsAre
    <3>2. f * 1 \in FiniteFloats  BY <1>5, <3>1
    <3>3. f * 1 = f  BY <1>2
    <3>. QED  BY <3>2, <3>3 DEF Floats
  <2>. QED  BY <2>1, <2>2
<1>7. Unit \in FiniteFloats
  <2>1. Unit \in Spacings /\ Unit \in Nat /\ 1 \in 0..(Precision - 1)
    BY <1>1, <1>2, SpacingsAre
  <2>2. 1 * Unit \in FiniteFloats  BY <1>5, <2>1
  <2>. QED  BY <2>1, <2>2
<1>8. \A f \in FiniteFloats : f \in Nat /\ f < Infinity  BY <1>4
<1>9. \A f \in Floats : f \in FiniteFloats \/ f = Infinity  BY DEF Floats
<1>10. FiniteFloats \subseteq Floats /\ Infinity \in Floats  BY DEF Floats
<1>11. \A f \in 0..Precision : f \in Floats  BY <1>6
<1>. HIDE DEF Floats, FiniteFloats
<1>. QED  BY <1>2, <1>7, <1>8, <1>9, <1>10, <1>11

\* Whatever is rounded is a float.
LEMMA RoundedIsFloat ==
    ASSUME NEW n \in Nat, NEW d \in Nat \ {0}
    PROVE  /\ Rounded(n, d) \in Floats /\ Rounded(n, d) \in Nat
           /\ Rounded(n, d) <= Infinity
<1>1. CASE n \div d < Infinity
  <2>1. PICK b, a, w : Rounds(Rounded(n, d), n, d, b, a, w)
    BY <1>1, RoundsToNearest
  <2>2. Rounded(n, d) \in Floats  BY <2>1 DEF Rounds
  <2>. QED  BY <2>2, FloatsAre
<1>2. CASE ~(n \div d < Infinity)
  BY <1>2, RoundsToInfinity, FloatsAre
<1>. QED  BY <1>1, <1>2

\* A quotient not below a float is not rounded below it, one not above it not
\* above it.
LEMMA RoundedStays ==
    ASSUME NEW n \in Nat, NEW d \in Nat \ {0}, NEW f \in Floats
    PROVE  /\ f * d <= n => f <= Rounded(n, d)
           /\ n <= f * d => Rounded(n, d) <= f
<1>. DEFINE r == Rounded(n, d)
<1>1. f \in Nat /\ f <= Infinity /\ Infinity \in Nat  BY FloatsAre, InfinityIs
<1>2. CASE n \div d < Infinity
  <2>1. PICK b, a, w : Rounds(r, n, d, b, a, w)  BY <1>2, RoundsToNearest
  <2>. HIDE DEF r
  <2>2. /\ b \in Nat /\ a \in Nat /\ w \in Nat \ {0} /\ a = b + w
        /\ f <= b \/ a <= f
        /\ r = b \/ r = a
        /\ b * d <= n /\ n < a * d
        /\ r = a => 2 * n >= 2 * (b * d) + w * d
    BY <2>1 DEF Rounds
  <2>3. \A i, j \in Nat : i * j = j * i /\ i * j \in Nat  BY Z3
  <2>4. PICK B \in Nat, A \in Nat, F \in Nat, W \in Nat :
           B = d * b /\ A = d * a /\ F = d * f /\ W = d * w
    BY <1>1, <2>2, <2>3
  <2>5. b * d = B /\ a * d = A /\ f * d = F /\ w * d = W
    BY <1>1, <2>2, <2>3, <2>4
  <2>6. f <= b => F <= B
    <3>1. SUFFICES ASSUME f <= b PROVE F <= B  OBVIOUS
    <3>. QED  BY <1>1, <2>2, <2>4, <3>1, ProductGrows
  <2>7. a <= f => A <= F
    <3>1. SUFFICES ASSUME a <= f PROVE A <= F  OBVIOUS
    <3>. QED  BY <1>1, <2>2, <2>4, <3>1, ProductGrows
  <2>8. W > 0
    <3>1. d * 0 = 0 /\ d * 0 < d * w  BY <2>2, ProductGrowsStrictly
    <3>. QED  BY <2>4, <3>1
  <2>9. b * d <= n /\ n < a * d  BY <2>2
  <2>10. B <= n /\ n < A  BY <2>5, <2>9, Zenon
  <2>11. r = a => 2 * n >= 2 * B + W  BY <2>2, <2>5, Zenon
  <2>12. F <= n => f <= r
    <3>1. SUFFICES ASSUME F <= n PROVE f <= r  OBVIOUS
    <3>2. f <= b  BY <2>2, <2>7, <2>10, <2>4, <3>1, <1>1
    <3>. QED  BY <1>1, <2>2, <3>2
  <2>13. n <= F => r <= f
    <3>1. SUFFICES ASSUME n <= F PROVE r <= f  OBVIOUS
    <3>2. CASE a <= f  BY <1>1, <2>2, <3>2
    <3>3. CASE f <= b
      <4>1. n = B /\ F = B  BY <2>4, <2>6, <2>10, <3>1, <3>3
      <4>2. r = b  BY <2>2, <2>4, <2>8, <2>11, <4>1
      <4>3. b <= f
        <5>1. d * b <= d * f  BY <2>4, <4>1
        <5>. QED  BY <1>1, <2>2, <5>1, FactorOut
      <4>. QED  BY <4>2, <4>3
    <3>. QED  BY <2>2, <3>2, <3>3
  <2>14. (f * d <= n => f <= r) /\ (n <= f * d => r <= f)
    BY <2>5, <2>12, <2>13, Zenon
  <2>. QED  BY <2>14 DEF r
<1>3. CASE ~(n \div d < Infinity)
  <2>1. Rounded(n, d) = Infinity /\ Infinity * d <= n  BY <1>3, RoundsToInfinity
  <2>2. ASSUME n <= f * d PROVE Infinity <= f
    <3>1. d * Infinity = Infinity * d /\ d * f = f * d /\ d * f \in Nat
          /\ d * Infinity \in Nat
      BY <1>1, Z3
    <3>2. PICK p \in Nat, q \in Nat : p = d * Infinity /\ q = d * f  BY <3>1
    <3>3. p <= q
      <4>1. p <= n /\ n <= q  BY <2>1, <2>2, <3>1, <3>2, Zenon
      <4>. QED  BY <3>2, <4>1
    <3>. QED  BY <1>1, <3>2, <3>3, FactorOut
  <2>. QED  BY <1>1, <2>1, <2>2
<1>. QED  BY <1>2, <1>3

\* The larger quotient is not rounded to less.
LEMMA RoundedGrows ==
    ASSUME NEW d \in Nat \ {0}, NEW m \in Nat, NEW n \in Nat, m <= n
    PROVE  Rounded(m, d) <= Rounded(n, d)
<1>. DEFINE q == Rounded(m, d)
            r == Rounded(n, d)
<1>1. q \in Floats /\ q \in Nat /\ r \in Floats /\ r \in Nat /\ r <= Infinity
      /\ q <= Infinity
  BY RoundedIsFloat
<1>2. (m <= r * d => q <= r) /\ (q * d <= n => q <= r)
  BY <1>1, RoundedStays
<1>. SUFFICES ASSUME ~(q <= r) PROVE FALSE  OBVIOUS
<1>3. \A i, j \in Nat : i * j = j * i /\ i * j \in Nat  BY Z3
<1>4. r * d < m /\ n < q * d
  <2>1. r * d \in Nat /\ q * d \in Nat  BY <1>1, <1>3
  <2>. HIDE DEF q, r
  <2>. QED  BY <1>2, <2>1
<1>5. n \div d < Infinity
  <2>1. SUFFICES ASSUME ~(n \div d < Infinity) PROVE FALSE  OBVIOUS
  <2>2. r = Infinity  BY <2>1, RoundsToInfinity
  <2>. HIDE DEF r, q
  <2>. QED  BY <1>1, <2>2
<1>6. m \div d < Infinity
  <2>1. SUFFICES ASSUME ~(m \div d < Infinity) PROVE FALSE  OBVIOUS
  <2>2. Infinity * d <= m  BY <2>1, RoundsToInfinity
  <2>3. Infinity \in Nat /\ Infinity * d <= n
    <3>1. Infinity \in Nat /\ Infinity * d \in Nat  BY InfinityIs, <1>3
    <3>. QED  BY <2>2, <3>1
  <2>4. Infinity <= r  BY <2>3, FloatsAre, RoundedStays
  <2>. HIDE DEF r, q
  <2>. QED  BY <1>1, <2>3, <2>4
<1>7. PICK b, a, w : Rounds(q, m, d, b, a, w)  BY <1>6, RoundsToNearest
<1>8. PICK c, e, v : Rounds(r, n, d, c, e, v)  BY <1>5, RoundsToNearest
<1>. HIDE DEF q, r
<1>9. /\ b \in Nat /\ a \in Nat /\ w \in Nat \ {0} /\ a = b + w
      /\ b * d <= m /\ m < a * d
      /\ r <= b \/ a <= r
      /\ \/ q = b
         \/ q = a /\ 2 * m >= 2 * (b * d) + w * d
  BY <1>1, <1>7 DEF Rounds
<1>10. /\ c \in Nat /\ e \in Nat /\ v \in Nat \ {0} /\ e = c + v
       /\ c * d <= n /\ n < e * d
       /\ q <= c \/ e <= q
       /\ \/ r = c /\ 2 * n <= 2 * (c * d) + v * d
          \/ r = e
  BY <1>1, <1>8 DEF Rounds
<1>11. PICK B \in Nat, W \in Nat, Y \in Nat, V \in Nat :
          B = b * d /\ W = w * d /\ Y = c * d /\ V = v * d
  BY <1>3, <1>9, <1>10
<1>12. a * d = B + W /\ e * d = Y + V
  <2>1. \A i, j, k \in Nat : (i + j) * k = i * k + j * k  BY Z3
  <2>. QED  BY <1>9, <1>10, <1>11, <2>1
<1>13. q = a /\ 2 * m >= 2 * B + W /\ n < B + W
  <2>1. CASE q = b
    <3>1. n < B  BY <1>4, <1>11, <2>1, Zenon
    <3>2. B <= m  BY <1>9, <1>11, Zenon
    <3>. QED  BY <1>11, <3>1, <3>2
  <2>2. CASE q = a /\ 2 * m >= 2 * (b * d) + w * d
    <3>1. n < a * d  BY <1>4, <2>2, Zenon
    <3>2. n < B + W  BY <1>12, <3>1, Zenon
    <3>3. 2 * m >= 2 * B + W  BY <1>11, <2>2, Zenon
    <3>. QED  BY <2>2, <3>2, <3>3
  <2>. QED  BY <1>9, <2>1, <2>2
<1>14. r = c /\ 2 * n <= 2 * Y + V /\ Y < m
  <2>1. CASE r = e
    <3>1. Y + V < m  BY <1>4, <1>12, <2>1, Zenon
    <3>2. n < Y + V  BY <1>10, <1>12, Zenon
    <3>. QED  BY <1>11, <3>1, <3>2
  <2>2. CASE r = c /\ 2 * n <= 2 * (c * d) + v * d
    <3>1. Y < m  BY <1>4, <1>11, <2>2, Zenon
    <3>2. 2 * n <= 2 * Y + V  BY <1>11, <2>2, Zenon
    <3>. QED  BY <2>2, <3>1, <3>2
  <2>. QED  BY <1>10, <2>1, <2>2
<1>15. Y <= B /\ Y + V <= B + W
  <2>1. c <= b /\ e <= a
    <3>1. ~(a <= c) /\ ~(a <= r)  BY <1>1, <1>9, <1>13, <1>14
    <3>2. ~(q <= c)  BY <1>1, <1>14
    <3>. QED  BY <1>9, <1>10, <1>13, <1>14, <3>1, <3>2
  <2>2. d * c <= d * b /\ d * e <= d * a  BY <1>9, <1>10, <2>1, ProductGrows
  <2>3. d * c = c * d /\ d * b = b * d /\ d * e = e * d /\ d * a = a * d
    BY <1>3, <1>9, <1>10
  <2>4. c * d <= b * d /\ e * d <= a * d  BY <2>2, <2>3, Zenon
  <2>. QED  BY <1>11, <1>12, <2>4, Zenon
<1>16. m = n  BY <1>11, <1>13, <1>14, <1>15
<1>. QED  BY <1>1, <1>16 DEF q, r

\* A rounded quotient is not much more than it was: by a significand's share.
LEMMA NotMuchMore ==
    ASSUME NEW n \in Nat, NEW d \in Nat \ {0}, Precision * d <= n
    PROVE  Precision * (d * Rounded(n, d)) <= (Precision + 1) * n
<1>. DEFINE r == Rounded(n, d)
<1>1. r \in Nat /\ Precision \in Nat /\ Infinity \in Nat /\ Precision * n \in Nat
      /\ (Precision + 1) * n = Precision * n + n
  <2>1. r \in Nat /\ Precision \in Nat /\ Infinity \in Nat
    BY RoundedIsFloat, InfinityIs
  <2>2. \A i, j \in Nat : i * j \in Nat /\ (i + 1) * j = i * j + j  BY Z3
  <2>. HIDE DEF r
  <2>. QED  BY <2>1, <2>2
<1>2. \A i, j \in Nat : i * j = j * i /\ i * j \in Nat  BY Z3
<1>3. CASE ~(n \div d < Infinity)
  <2>1. r = Infinity /\ Infinity * d <= n  BY <1>3, RoundsToInfinity
  <2>2. d * r = Infinity * d /\ d * r \in Nat  BY <1>1, <1>2, <2>1
  <2>3. Precision * (d * r) <= Precision * n
    <3>1. d * r <= n  BY <2>1, <2>2
    <3>. HIDE DEF r
    <3>. QED  BY <1>1, <2>2, <3>1, ProductGrows
  <2>4. Precision * (d * r) \in Nat  BY <1>1, <1>2, <2>2
  <2>5. Precision * (d * r) <= (Precision + 1) * n
    <3>1. PICK p \in Nat, q \in Nat : p = Precision * (d * r) /\ q = Precision * n
      BY <1>1, <2>4
    <3>. HIDE DEF r
    <3>. QED  BY <1>1, <2>3, <3>1
  <2>. QED  BY <2>5 DEF r
<1>4. CASE n \div d < Infinity
  <2>1. PICK b, a, w : Rounds(r, n, d, b, a, w)  BY <1>4, RoundsToNearest
  <2>. HIDE DEF r
  <2>2. /\ b \in Nat /\ a \in Nat /\ w \in Nat \ {0} /\ a = b + w
        /\ b * d <= n
        /\ w = 1 \/ Precision * w <= 2 * b
        /\ r = b \/ (r = a /\ 2 * n >= 2 * (b * d) + w * d)
    BY <2>1 DEF Rounds
  <2>3. PICK B \in Nat, W \in Nat, N \in Nat, PB \in Nat, PW \in Nat :
           B = b * d /\ W = w * d /\ N = Precision * n
           /\ PB = Precision * B /\ PW = Precision * W
    <3>1. b * d \in Nat /\ w * d \in Nat  BY <1>2, <2>2
    <3>. QED  BY <1>1, <1>2, <3>1
  <2>4. B <= n  BY <2>2, <2>3, Zenon
  <2>5. PB <= N  BY <1>1, <2>3, <2>4, ProductGrows
  <2>6. d * b = B /\ d * a = B + W
    <3>1. \A i, j, k \in Nat : k * (i + j) = i * k + j * k /\ k * i = i * k  BY Z3
    <3>. QED  BY <2>2, <2>3, <3>1
  <2>7. PW <= 2 * n
    <3>1. CASE w = 1
      <4>1. W = d  BY <2>3, <3>1
      <4>. QED  BY <2>3, <4>1
    <3>2. CASE Precision * w <= 2 * b
      <4>1. d * (Precision * w) <= d * (2 * b)
        <5>1. Precision * w \in Nat /\ 2 * b \in Nat  BY <1>1, <1>2, <2>2
        <5>. QED  BY <3>2, <5>1, ProductGrows
      <4>2. d * (Precision * w) = Precision * (w * d) /\ d * (2 * b) = 2 * (b * d)
        BY <1>1, <2>2, Z3
      <4>3. PW <= 2 * B  BY <2>3, <4>1, <4>2, Zenon
      <4>. QED  BY <2>3, <2>4, <4>3
    <3>. QED  BY <2>2, <3>1, <3>2
  <2>8. CASE r = b
    <3>1. Precision * (d * r) = PB  BY <2>3, <2>6, <2>8, Zenon
    <3>2. PB <= N + n  BY <2>3, <2>5
    <3>. QED  BY <1>1, <2>3, <3>1, <3>2 DEF r
  <2>9. CASE r = a /\ 2 * n >= 2 * (b * d) + w * d
    <3>1. 2 * B + W <= 2 * n  BY <2>3, <2>9
    <3>2. Precision * (2 * B + W) <= Precision * (2 * n)
      <4>1. 2 * B + W \in Nat /\ 2 * n \in Nat  BY <2>3
      <4>. QED  BY <1>1, <3>1, <4>1, ProductGrows
    <3>3. Precision * (2 * B + W) = 2 * PB + PW /\ Precision * (2 * n) = 2 * N
      <4>1. \A i, j, k \in Nat : /\ k * (2 * i + j) = 2 * (k * i) + k * j
                                /\ k * (2 * i) = 2 * (k * i)
        BY Z3
      <4>. QED  BY <1>1, <2>3, <4>1
    <3>4. Precision * (d * r) = PB + PW
      <4>1. Precision * (d * r) = Precision * (B + W)  BY <2>6, <2>9, Zenon
      <4>2. \A i, j, k \in Nat : k * (i + j) = k * i + k * j  BY Z3
      <4>. QED  BY <1>1, <2>3, <4>1, <4>2
    <3>5. 2 * PB + PW <= 2 * N  BY <3>2, <3>3, Zenon
    <3>6. PB + PW <= N + n  BY <2>3, <2>7, <3>5
    <3>. QED  BY <1>1, <2>3, <3>4, <3>6 DEF r
  <2>. QED  BY <2>2, <2>8, <2>9
<1>. QED  BY <1>3, <1>4

\* Nor is it much less, as long as it is not infinite.
LEMMA NotMuchLess ==
    ASSUME NEW n \in Nat, NEW d \in Nat \ {0}, Precision * d <= n,
           Rounded(n, d) < Infinity
    PROVE  Precision * n <= (Precision + 1) * (d * Rounded(n, d))
<1>. DEFINE r == Rounded(n, d)
<1>1. r \in Nat /\ Precision \in Nat /\ Infinity \in Nat
  BY RoundedIsFloat, InfinityIs
<1>2. \A i, j \in Nat : i * j = j * i /\ i * j \in Nat  BY Z3
<1>3. n \div d < Infinity
  <2>1. SUFFICES ASSUME ~(n \div d < Infinity) PROVE FALSE  OBVIOUS
  <2>2. r = Infinity  BY <2>1, RoundsToInfinity
  <2>3. r < Infinity  OBVIOUS
  <2>. HIDE DEF r
  <2>. QED  BY <1>1, <2>2, <2>3
<1>4. PICK b, a, w : Rounds(r, n, d, b, a, w)  BY <1>3, RoundsToNearest
<1>. HIDE DEF r
<1>5. /\ b \in Nat /\ a \in Nat /\ w \in Nat \ {0} /\ a = b + w
      /\ b * d <= n /\ n < a * d
      /\ w = 1 \/ Precision * w <= 2 * b
      /\ \/ r = b /\ 2 * n <= 2 * (b * d) + w * d
         \/ r = a
  BY <1>4 DEF Rounds
<1>6. PICK B \in Nat, W \in Nat, N \in Nat, PB \in Nat, PW \in Nat :
         B = b * d /\ W = w * d /\ N = Precision * n
         /\ PB = Precision * B /\ PW = Precision * W
  <2>1. b * d \in Nat /\ w * d \in Nat  BY <1>2, <1>5
  <2>. QED  BY <1>1, <1>2, <2>1
<1>7. B <= n /\ d * b = B /\ d * a = B + W /\ a * d = B + W
  <2>1. \A i, j, k \in Nat : /\ k * (i + j) = i * k + j * k /\ k * i = i * k
    BY Z3
  <2>2. B <= n  BY <1>5, <1>6, Zenon
  <2>. QED  BY <1>2, <1>5, <1>6, <2>1, <2>2
<1>8. PICK s \in Nat : s = d * r /\ (Precision + 1) * (d * r) = Precision * s + s
  <2>1. d * r \in Nat  BY <1>1, <1>2
  <2>2. \A i, j \in Nat : (i + 1) * j = i * j + j  BY Z3
  <2>. QED  BY <1>1, <2>1, <2>2
<1>9. CASE r = a
  <2>1. n <= s
    <3>1. s = B + W  BY <1>7, <1>8, <1>9, Zenon
    <3>2. n < B + W  BY <1>5, <1>7, Zenon
    <3>. QED  BY <1>6, <3>1, <3>2
  <2>2. Precision * n <= Precision * s /\ Precision * n \in Nat /\ Precision * s \in Nat
    BY <1>1, <1>8, <2>1, ProductGrows
  <2>3. Precision * n <= Precision * s + s  BY <1>8, <2>2
  <2>. QED  BY <1>8, <2>3, Zenon DEF r
<1>10. CASE r = b /\ 2 * n <= 2 * (b * d) + w * d
  <2>1. 2 * n <= 2 * B + W /\ s = B  BY <1>6, <1>7, <1>8, <1>10, Zenon
  <2>2. Precision * (2 * n) <= Precision * (2 * B + W)
    <3>1. 2 * B + W \in Nat /\ 2 * n \in Nat  BY <1>6
    <3>. QED  BY <1>1, <2>1, <3>1, ProductGrows
  <2>3. Precision * (2 * B + W) = 2 * PB + PW /\ Precision * (2 * n) = 2 * N
    <3>1. \A i, j, k \in Nat : /\ k * (2 * i + j) = 2 * (k * i) + k * j
                              /\ k * (2 * i) = 2 * (k * i)
      BY Z3
    <3>. QED  BY <1>1, <1>6, <3>1
  <2>4. 2 * N <= 2 * PB + PW  BY <2>2, <2>3, Zenon
  <2>5. PW <= 2 * B
    <3>1. CASE w = 1
      <4>1. W = d  BY <1>6, <3>1
      <4>2. PICK h \in Nat \ {0} : Precision = 2 * h  BY SpacingsAre
      <4>3. PW <= n  BY <1>6, <4>1
      <4>4. n < B + W  BY <1>5, <1>7, Zenon
      <4>5. PW = 2 * (h * W) /\ h * W \in Nat
        <5>1. (2 * h) * W = 2 * (h * W) /\ h * W \in Nat  BY <1>6, <4>2, Z3
        <5>. QED  BY <1>6, <4>2, <5>1, Zenon
      <4>6. h * W >= W /\ (h >= 2 => h * W >= W + W)
        <5>1. PICK g \in Nat : h = 1 + g
          <6>1. h - 1 \in Nat /\ h = 1 + (h - 1)  BY <4>2
          <6>. QED  BY <6>1
        <5>2. (1 + g) * W = W + g * W /\ g * W \in Nat  BY <1>6, <5>1, Z3
        <5>3. h >= 2 => W * 1 <= W * g /\ W * 1 = W /\ W * g = g * W
          <6>1. SUFFICES ASSUME h >= 2 PROVE W * 1 <= W * g /\ W * 1 = W /\ W * g = g * W
            OBVIOUS
          <6>2. 1 <= g  BY <4>2, <5>1, <6>1
          <6>3. W * 1 = W /\ W * g = g * W  BY <1>6, <5>1, Z3
          <6>. QED  BY <1>6, <5>1, <6>2, <6>3, ProductGrows
        <5>4. PICK p \in Nat : p = g * W /\ h * W = W + p  BY <5>1, <5>2
        <5>. QED  BY <1>6, <5>3, <5>4
      <4>. QED  BY <1>6, <2>1, <2>4, <4>3, <4>4, <4>5, <4>6
    <3>2. CASE Precision * w <= 2 * b
      <4>1. d * (Precision * w) <= d * (2 * b)
        <5>1. Precision * w \in Nat /\ 2 * b \in Nat  BY <1>1, <1>2, <1>5
        <5>. QED  BY <3>2, <5>1, ProductGrows
      <4>2. d * (Precision * w) = Precision * (w * d) /\ d * (2 * b) = 2 * (b * d)
        BY <1>1, <1>5, Z3
      <4>. QED  BY <1>6, <4>1, <4>2, Zenon
    <3>. QED  BY <1>5, <3>1, <3>2
  <2>6. N <= PB + B  BY <1>6, <2>4, <2>5
  <2>. QED  BY <1>6, <1>8, <2>1, <2>6 DEF r
<1>. QED  BY <1>5, <1>9, <1>10

\* What is rounded to more than any significand was more than that.
LEMMA LargeFromLarge ==
    ASSUME NEW n \in Nat, NEW d \in Nat \ {0}, Precision < Rounded(n, d)
    PROVE  Precision * d <= n
<1>1. Precision \in Floats /\ Precision \in Nat
  <2>1. Precision \in Nat  BY InfinityIs
  <2>2. Precision \in 0..Precision  BY <2>1
  <2>. QED  BY <2>1, <2>2, FloatsAre
<1>2. n <= Precision * d => Rounded(n, d) <= Precision
  BY <1>1, RoundedStays
<1>3. Precision * d \in Nat  BY <1>1, Z3
<1>4. Rounded(n, d) \in Nat  BY RoundedIsFloat
<1>. QED  BY <1>1, <1>2, <1>3, <1>4

\* Whole numbers up to the significands are floats; others are off by as little.
LEMMA WholeRoundsTo ==
    ASSUME NEW n \in Nat
    PROVE  /\ Rounded(n, 1) \in Nat
           /\ n <= Precision => Rounded(n, 1) = n
           /\ Precision * Rounded(n, 1) <= (Precision + 1) * n
<1>1. Rounded(n, 1) \in Nat /\ Precision \in Nat  BY RoundedIsFloat, InfinityIs
<1>2. n <= Precision => Rounded(n, 1) = n
  <2>1. SUFFICES ASSUME n <= Precision PROVE Rounded(n, 1) = n  OBVIOUS
  <2>2. n \in Floats
    <3>1. n \in 0..Precision  BY <1>1, <2>1
    <3>. QED  BY <3>1, FloatsAre
  <2>3. n * 1 = n  OBVIOUS
  <2>4. n <= Rounded(n, 1) /\ Rounded(n, 1) <= n  BY <2>2, <2>3, RoundedStays
  <2>. QED  BY <1>1, <2>4
<1>3. Precision * Rounded(n, 1) <= (Precision + 1) * n
  <2>1. PICK r \in Nat : r = Rounded(n, 1)  BY <1>1
  <2>2. CASE n <= Precision
    <3>1. \A i, j \in Nat : (i + 1) * j = i * j + j /\ i * j \in Nat  BY Z3
    <3>2. r = n  BY <1>2, <2>1, <2>2
    <3>. QED  BY <1>1, <2>1, <3>1, <3>2
  <2>3. CASE Precision <= n
    <3>1. Precision * 1 <= n  BY <1>1, <2>3
    <3>2. Precision * (1 * r) <= (Precision + 1) * n
      BY <2>1, <3>1, NotMuchMore
    <3>3. 1 * r = r  OBVIOUS
    <3>. QED  BY <2>1, <3>2, <3>3, Zenon
  <2>. QED  BY <1>1, <2>2, <2>3
<1>. QED  BY <1>1, <1>2, <1>3

\* Up to 1 they are off by less than a significand's share of it.
LEMMA RoundsWithinUnit ==
    ASSUME NEW n \in Nat, n <= Unit
    PROVE  /\ Precision * Rounded(n, 1) <= Precision * n + Unit
           /\ Precision * n <= Precision * Rounded(n, 1) + Unit
<1>. DEFINE r == Rounded(n, 1)
<1>1. r \in Nat /\ Precision \in Nat /\ Unit \in Nat  BY RoundedIsFloat, InfinityIs
<1>2. n \div 1 < Infinity
  <2>1. Unit < Infinity /\ Infinity \in Nat  BY FloatsAre, InfinityIs
  <2>2. n \div 1 = n  OBVIOUS
  <2>. QED  BY <1>1, <2>1, <2>2
<1>3. PICK b, a, w : Rounds(r, n, 1, b, a, w)  BY <1>2, RoundsToNearest
<1>. HIDE DEF r
<1>4. /\ b \in Nat /\ a \in Nat /\ w \in Nat \ {0} /\ a = b + w
      /\ b <= n /\ n < a
      /\ w = 1 \/ Precision * w <= 2 * b
      /\ \/ r = b /\ 2 * n <= 2 * b + w
         \/ r = a /\ 2 * n >= 2 * b + w
  <2>1. /\ b \in Nat /\ a \in Nat /\ w \in Nat \ {0} /\ a = b + w
        /\ b * 1 <= n /\ n < a * 1
        /\ w = 1 \/ Precision * w <= 2 * b
        /\ \/ r = b /\ 2 * n <= 2 * (b * 1) + w * 1
           \/ r = a /\ 2 * n >= 2 * (b * 1) + w * 1
    BY <1>3 DEF Rounds
  <2>2. b * 1 = b /\ a * 1 = a /\ w * 1 = w  BY <2>1
  <2>. QED  BY <2>1, <2>2, Zenon
<1>5. CASE w = 1
  <2>1. r = n  BY <1>1, <1>4, <1>5
  <2>2. Precision * n \in Nat  BY <1>1, Z3
  <2>. QED  BY <1>1, <2>1, <2>2 DEF r
<1>6. CASE Precision * w <= 2 * b
  <2>1. PICK N \in Nat, R \in Nat, W \in Nat :
           N = Precision * n /\ R = Precision * r /\ W = Precision * w
    <3>1. \A i, j \in Nat : i * j \in Nat  BY Z3
    <3>. QED  BY <1>1, <1>4, <3>1
  <2>2. W <= 2 * Unit  BY <1>1, <1>4, <1>6, <2>1
  <2>3. 2 * n <= 2 * r + w /\ 2 * r <= 2 * n + w  BY <1>1, <1>4
  <2>4. \A i, j, k \in Nat : k * (2 * i + j) = 2 * (k * i) + k * j /\ k * (2 * i) = 2 * (k * i)
    BY Z3
  <2>5. 2 * N <= 2 * R + W
    <3>1. Precision * (2 * n) <= Precision * (2 * r + w)
      <4>1. 2 * n \in Nat /\ 2 * r + w \in Nat  BY <1>1, <1>4
      <4>. QED  BY <1>1, <2>3, <4>1, ProductGrows
    <3>2. Precision * (2 * n) = 2 * N /\ Precision * (2 * r + w) = 2 * R + W
      BY <1>1, <1>4, <2>1, <2>4
    <3>. QED  BY <3>1, <3>2, Zenon
  <2>6. 2 * R <= 2 * N + W
    <3>1. Precision * (2 * r) <= Precision * (2 * n + w)
      <4>1. 2 * r \in Nat /\ 2 * n + w \in Nat  BY <1>1, <1>4
      <4>. QED  BY <1>1, <2>3, <4>1, ProductGrows
    <3>2. Precision * (2 * r) = 2 * R /\ Precision * (2 * n + w) = 2 * N + W
      BY <1>1, <1>4, <2>1, <2>4
    <3>. QED  BY <3>1, <3>2, Zenon
  <2>7. R <= N + Unit /\ N <= R + Unit  BY <1>1, <2>1, <2>2, <2>5, <2>6
  <2>. QED  BY <2>1, <2>7 DEF r
<1>. QED  BY <1>4, <1>5, <1>6
=============================================================================
