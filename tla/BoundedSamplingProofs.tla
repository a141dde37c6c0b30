------------------------ MODULE BoundedSamplingProofs ------------------------
(****************************************************************************)
(* Bits, Intn and ChooseWeighted are unbiased for every word, every bound   *)
(* and every list of weights, not only for the small words TLC counts.      *)
(****************************************************************************)
EXTENDS BoundedSampling, Functions, FunctionTheorems, FiniteSetTheorems,
        WellFoundedInduction, TLAPS

------------------------------------------------------------------------------
(* Induction, and functions defined by it.                                   *)

\* A set of naturals that is not empty has a least member.
LEMMA Least ==
    ASSUME NEW T \in SUBSET Nat, T # {}
    PROVE  \E n \in T : \A m \in T : n <= m
  <1> DEFINE R == OpToRel(<, Nat)
  <1>1. IsWellFoundedOn(R, Nat)
    BY NatLessThanWellFounded, Zenon
  <1>2. ASSUME NEW m \in Nat, NEW n \in Nat, m < n PROVE <<m, n>> \in R
    BY <1>2 DEF OpToRel
  <1> HIDE DEF R
  <1>3. PICK n \in T : \A m \in T : ~(<<m, n>> \in R)
    BY <1>1, WFMin, Zenon
  <1>4. ASSUME NEW m \in T PROVE n <= m
    <2>1. m \in Nat /\ n \in Nat
      OBVIOUS
    <2>2. ~(m < n)
      BY <1>2, <1>3, <2>1
    <2> QED BY <2>1, <2>2
  <1> QED BY <1>4

\* What holds of zero, and of n + 1 if of n, holds of every natural.
LEMMA Induction ==
    ASSUME NEW S \in SUBSET Nat, 0 \in S, \A n \in S : n + 1 \in S
    PROVE  S = Nat
  <1> SUFFICES ASSUME Nat \ S # {} PROVE FALSE
    OBVIOUS
  <1>1. PICK n \in Nat \ S : \A m \in Nat \ S : n <= m
    <2> DEFINE T == Nat \ S
    <2>1. T \in SUBSET Nat /\ T # {}
      OBVIOUS
    <2> HIDE DEF T
    <2>2. \E n \in T : \A m \in T : n <= m
      BY <2>1, Least
    <2> QED BY <2>2 DEF T
  <1>2. n # 0 /\ n - 1 \in Nat /\ n - 1 + 1 = n
    BY <1>1
  <1>3. n - 1 \in S
    BY <1>1, <1>2
  <1> QED BY <1>1, <1>2, <1>3

\* What turn n may make of a value of D.
Turns(D) == [(Nat \ {0}) \X D -> D]

\* What has been computed after 0, 1, ... n turns, turn i of step.
Trace(t, n, D, base, step) ==
    /\ t \in [0..n -> D] /\ t[0] = base
    /\ \A i \in 1..n : t[i] = step[<<i, t[i - 1]>>]

\* Any number of turns can be taken.
LEMMA TraceExists ==
    ASSUME NEW D, NEW base \in D, NEW step \in Turns(D), NEW n \in Nat
    PROVE  \E t : Trace(t, n, D, base, step)
  <1> DEFINE S == {m \in Nat : \E t : Trace(t, m, D, base, step)}
  <1>1. 0 \in S
    <2> DEFINE t == [i \in 0..0 |-> base]
    <2>1. Trace(t, 0, D, base, step)
      BY DEF Trace
    <2> QED BY <2>1
  <1>2. ASSUME NEW m \in S PROVE m + 1 \in S
    <2>1. m \in Nat
      OBVIOUS
    <2>2. PICK t : Trace(t, m, D, base, step)
      OBVIOUS
    <2>3. /\ t \in [0..m -> D] /\ t[0] = base
          /\ \A i \in 1..m : t[i] = step[<<i, t[i - 1]>>]
      BY <2>2, Zenon DEF Trace
    <2> DEFINE u == [i \in 0..(m + 1) |->
                       IF i = m + 1 THEN step[<<m + 1, t[m]>>] ELSE t[i]]
    <2>4. step[<<m + 1, t[m]>>] \in D
      <3>1. m \in 0..m /\ m + 1 \in Nat \ {0}
        BY <2>1
      <3>2. <<m + 1, t[m]>> \in (Nat \ {0}) \X D
        BY <2>3, <3>1
      <3> QED BY <3>2 DEF Turns
    <2>5. /\ u[m + 1] = step[<<m + 1, t[m]>>]
          /\ \A i \in 0..m : u[i] = t[i]
      BY <2>1
    <2>6. u \in [0..(m + 1) -> D]
      BY <2>1, <2>4, <2>3
    <2> HIDE DEF u
    <2>7. u[0] = base
      BY <2>1, <2>5, <2>3
    <2>8. ASSUME NEW i \in 1..(m + 1) PROVE u[i] = step[<<i, u[i - 1]>>]
      <3>1. CASE i = m + 1
        <4>1. i - 1 = m /\ m \in 0..m
          BY <2>1, <3>1
        <4> QED BY <2>5, <3>1, <4>1
      <3>2. CASE i # m + 1
        <4>1. i \in 1..m /\ i \in 0..m /\ i - 1 \in 0..m
          BY <2>1, <3>2
        <4> QED BY <2>3, <2>5, <3>2, <4>1
      <3> QED BY <3>1, <3>2
    <2>9. Trace(u, m + 1, D, base, step)
      BY <2>6, <2>7, <2>8, Zenon DEF Trace
    <2> QED BY <2>1, <2>9
  <1>3. S = Nat
    BY <1>1, <1>2, Induction
  <1> QED BY <1>3

\* And in one way only.
LEMMA TraceIsUnique ==
    ASSUME NEW D, NEW base, NEW step, NEW n \in Nat, NEW m \in Nat,
           NEW t, NEW u, Trace(t, n, D, base, step), Trace(u, m, D, base, step),
           NEW i \in 0..n, i \in 0..m
    PROVE  t[i] = u[i]
  <1> DEFINE S == {j \in Nat : j <= n /\ j <= m => t[j] = u[j]}
  <1>1. /\ t[0] = base /\ u[0] = base
        /\ \A j \in 1..n : t[j] = step[<<j, t[j - 1]>>]
        /\ \A j \in 1..m : u[j] = step[<<j, u[j - 1]>>]
    BY Zenon DEF Trace
  <1>2. 0 \in S
    BY <1>1
  <1>3. ASSUME NEW j \in S PROVE j + 1 \in S
    <2>1. j \in Nat /\ (j + 1) - 1 = j
      OBVIOUS
    <2>2. ASSUME j + 1 <= n, j + 1 <= m PROVE t[j + 1] = u[j + 1]
      <3>1. j + 1 \in 1..n /\ j + 1 \in 1..m /\ t[j] = u[j]
        BY <2>1, <2>2
      <3>2. t[j + 1] = step[<<j + 1, t[j]>>] /\ u[j + 1] = step[<<j + 1, u[j]>>]
        BY <1>1, <2>1, <3>1
      <3> QED BY <3>1, <3>2
    <2> QED BY <2>1, <2>2
  <1>4. S = Nat
    <2> HIDE DEF S
    <2>1. S \in SUBSET Nat
      BY DEF S
    <2> QED BY <1>2, <1>3, <2>1, Induction
  <1>5. i \in S
    BY <1>4
  <1> QED BY <1>5

\* A function that has taken them all.
Limit(f, D, base, step) ==
    /\ f \in [Nat -> D] /\ f[0] = base
    /\ \A n \in Nat : f[n + 1] = step[<<n + 1, f[n]>>]

\* There is one.
LEMMA LimitExists ==
    ASSUME NEW D, NEW base \in D, NEW step \in Turns(D)
    PROVE  \E f : Limit(f, D, base, step)
  <1> DEFINE T(n) == CHOOSE t : Trace(t, n, D, base, step)
             f == [n \in Nat |-> T(n)[n]]
  <1>1. ASSUME NEW n \in Nat PROVE Trace(T(n), n, D, base, step)
    BY TraceExists, Zenon
  <1> HIDE DEF T
  <1>2. ASSUME NEW n \in Nat
        PROVE  /\ T(n) \in [0..n -> D] /\ T(n)[0] = base
               /\ \A i \in 1..n : T(n)[i] = step[<<i, T(n)[i - 1]>>]
    BY <1>1, Zenon DEF Trace
  <1>3. f \in [Nat -> D]
    <2>1. ASSUME NEW n \in Nat PROVE T(n)[n] \in D
      <3>1. n \in 0..n
        OBVIOUS
      <3> QED BY <1>2, <3>1
    <2> QED BY <2>1
  <1>4. f[0] = base
    BY <1>2
  <1>5. ASSUME NEW n \in Nat PROVE f[n + 1] = step[<<n + 1, f[n]>>]
    <2>1. n + 1 \in Nat /\ n + 1 \in 1..(n + 1) /\ (n + 1) - 1 = n
      OBVIOUS
    <2>2. n \in 0..n /\ n \in 0..(n + 1)
      OBVIOUS
    <2>3. T(n + 1)[n + 1] = step[<<n + 1, T(n + 1)[n]>>]
      BY <1>2, <2>1
    <2>4. Trace(T(n), n, D, base, step) /\ Trace(T(n + 1), n + 1, D, base, step)
      BY <1>1, <2>1
    <2>5. T(n)[n] = T(n + 1)[n]
      BY <2>1, <2>2, <2>4, TraceIsUnique
    <2> QED BY <2>1, <2>3, <2>5
  <1>6. Limit(f, D, base, step)
    <2> HIDE DEF f
    <2> QED BY <1>3, <1>4, <1>5, Zenon DEF Limit
  <1> QED BY <1>6

------------------------------------------------------------------------------
(* Powers of two.                                                            *)

\* Pow2 is what its definition says.
LEMMA Pow2Is ==
    /\ Pow2 \in [Nat -> Nat \ {0}] /\ Pow2[0] = 1
    /\ \A n \in Nat : Pow2[n + 1] = 2 * Pow2[n]
  <1> DEFINE D == Nat \ {0}
             step == [p \in (Nat \ {0}) \X D |-> 2 * p[2]]
  <1>1. 1 \in D
    OBVIOUS
  <1>2. step \in Turns(D)
    BY DEF Turns
  <1>3. \A n \in Nat \ {0}, x \in D : step[<<n, x>>] = 2 * x
    OBVIOUS
  <1> HIDE DEF step
  <1>4. PICK f : f \in [Nat -> D] /\ f[0] = 1
                 /\ \A n \in Nat : f[n + 1] = step[<<n + 1, f[n]>>]
    <2> HIDE DEF D
    <2>1. \E f : Limit(f, D, 1, step)
      BY <1>1, <1>2, LimitExists
    <2> QED BY <2>1, Zenon DEF Limit
  <1>5. \A n \in Nat : f[n + 1] = 2 * f[n]
    <2>1. \A n \in Nat : n + 1 \in Nat \ {0} /\ f[n] \in D
      BY <1>4
    <2> HIDE DEF D
    <2> QED BY <1>3, <1>4, <2>1
  <1> DEFINE u == [n \in Nat |-> IF n = 0 THEN 1 ELSE 2 * f[n - 1]]
  <1>6. ASSUME NEW n \in Nat PROVE f[n] = u[n]
    <2>1. CASE n = 0
      BY <1>4, <2>1
    <2>2. CASE n # 0
      <3>1. n - 1 \in Nat /\ (n - 1) + 1 = n
        BY <2>2
      <3>2. f[n] = 2 * f[n - 1]
        BY <1>5, <3>1
      <3> QED BY <2>2, <3>2
    <2> QED BY <2>1, <2>2
  <1>7. f = u
    <2>1. f = [n \in Nat |-> f[n]]
      BY <1>4
    <2>2. f = [n \in Nat |-> u[n]]
      BY <1>6, <2>1, Zenon
    <2> QED BY <2>2
  <1>8. \E g : g = [n \in Nat |-> IF n = 0 THEN 1 ELSE 2 * g[n - 1]]
    BY <1>7, Zenon
  <1>9. Pow2 = [n \in Nat |-> IF n = 0 THEN 1 ELSE 2 * Pow2[n - 1]]
    BY <1>8, Zenon DEF Pow2
  <1>10. Pow2[0] = 1
    <2>1. \A n \in Nat : Pow2[n] = IF n = 0 THEN 1 ELSE 2 * Pow2[n - 1]
      BY <1>9, Zenon
    <2> QED BY <2>1
  <1>11. \A n \in Nat : Pow2[n + 1] = 2 * Pow2[n]
    <2>1. \A n \in Nat : Pow2[n] = IF n = 0 THEN 1 ELSE 2 * Pow2[n - 1]
      BY <1>9, Zenon
    <2>2. \A n \in Nat : n + 1 \in Nat /\ n + 1 # 0 /\ (n + 1) - 1 = n
      OBVIOUS
    <2> QED BY <2>1, <2>2
  <1> DEFINE S == {n \in Nat : Pow2[n] \in Nat \ {0}}
  <1>12. 0 \in S
    BY <1>10
  <1>13. ASSUME NEW n \in S PROVE n + 1 \in S
    BY <1>11
  <1>14. S = Nat
    <2> HIDE DEF S
    <2>1. S \in SUBSET Nat
      BY DEF S
    <2> QED BY <1>12, <1>13, <2>1, Induction
  <1>15. Pow2 \in [Nat -> Nat \ {0}]
    <2>1. DOMAIN Pow2 = Nat /\ Pow2 = [n \in DOMAIN Pow2 |-> Pow2[n]]
      BY <1>9, Zenon
    <2>2. \A n \in Nat : Pow2[n] \in Nat \ {0}
      BY <1>14
    <2> QED BY <2>1, <2>2, Zenon
  <1> QED BY <1>10, <1>11, <1>15

\* Exponents add up.
LEMMA Pow2Adds ==
    ASSUME NEW m \in Nat, NEW j \in Nat
    PROVE  Pow2[m + j] = Pow2[m] * Pow2[j]
  <1> DEFINE S == {i \in Nat : Pow2[m + i] = Pow2[m] * Pow2[i]}
  <1>1. Pow2[m] \in Nat /\ Pow2[0] = 1
    BY Pow2Is
  <1>2. 0 \in S
    BY <1>1
  <1>3. ASSUME NEW i \in S PROVE i + 1 \in S
    <2>1. i \in Nat /\ m + i \in Nat /\ (m + i) + 1 = m + (i + 1)
      OBVIOUS
    <2>2. Pow2[m + (i + 1)] = 2 * Pow2[m + i] /\ Pow2[i + 1] = 2 * Pow2[i]
      BY <2>1, Pow2Is
    <2>3. Pow2[i] \in Nat /\ Pow2[m + i] = Pow2[m] * Pow2[i]
      BY <2>1, Pow2Is
    <2>4. \A a, b \in Nat : 2 * (a * b) = a * (2 * b)
      BY Z3
    <2>5. Pow2[m + (i + 1)] = Pow2[m] * Pow2[i + 1]
      BY <1>1, <2>2, <2>3, <2>4
    <2> QED BY <2>1, <2>5
  <1>4. S = Nat
    <2> HIDE DEF S
    <2>1. S \in SUBSET Nat
      BY DEF S
    <2> QED BY <1>2, <1>3, <2>1, Induction
  <1>5. j \in S
    BY <1>4
  <1> QED BY <1>5

------------------------------------------------------------------------------
(* Division.                                                                 *)

\* Division with remainder.
LEMMA DivMod ==
    ASSUME NEW a \in Nat, NEW n \in Nat \ {0}
    PROVE  /\ a \div n \in Nat /\ a % n \in 0..(n - 1)
           /\ a = n * (a \div n) + (a % n)
  OBVIOUS

\* Steps of n are at least n apart.
LEMMA Apart ==
    ASSUME NEW n \in Nat \ {0}, NEW i \in Int, NEW j \in Int, i < j
    PROVE  n * i + n <= n * j
<1>1. n * (j - i) >= n
  <2>1. PICK d \in Nat \ {0} : j - i = d  OBVIOUS
  <2>2. n * d >= n  BY Z3
  <2>. QED  BY <2>1, <2>2
<1>2. n * (j - i) = n * j - n * i  BY Z3
<1>. QED  BY <1>1, <1>2

\* ... and the remainder is unique.
LEMMA QuotientIsUnique ==
    ASSUME NEW n \in Nat \ {0}, NEW q \in Nat, NEW m \in Nat,
           NEW r \in 0..(n - 1), NEW s \in 0..(n - 1), n * q + r = n * m + s
    PROVE  q = m /\ r = s
<1>1. n * q \in Nat /\ n * m \in Nat  BY Z3
<1>2. ~(q < m)
  <2>1. SUFFICES ASSUME q < m PROVE FALSE  OBVIOUS
  <2>2. n * q + n <= n * m  BY <2>1, Apart
  <2>. QED  BY <1>1, <2>2
<1>3. ~(m < q)
  <2>1. SUFFICES ASSUME m < q PROVE FALSE  OBVIOUS
  <2>2. n * m + n <= n * q  BY <2>1, Apart
  <2>. QED  BY <1>1, <2>2
<1>4. q = m  BY <1>2, <1>3
<1>. QED  BY <1>1, <1>4

\* Dividing n * q + r by n leaves r.
LEMMA ModIsUnique ==
    ASSUME NEW n \in Nat \ {0}, NEW q \in Nat, NEW r \in 0..(n - 1)
    PROVE  (n * q + r) % n = r
<1>. DEFINE a == n * q + r
<1>1. a \in Nat  BY Z3
<1>2. /\ a \div n \in Nat /\ a % n \in 0..(n - 1)
      /\ a = n * (a \div n) + (a % n)
  BY <1>1, DivMod
<1>. HIDE DEF a
<1>3. PICK m \in Nat, s \in 0..(n - 1) : a = n * m + s /\ s = a % n  BY <1>2
<1>4. n * q + r = n * m + s  BY <1>3 DEF a
<1>5. r = s  BY <1>4, QuotientIsUnique
<1>. QED  BY <1>3, <1>5 DEF a

------------------------------------------------------------------------------
(* Whole cycles.                                                             *)

\* k cycles of n draws, the first of which starts at t.
Cycles(t, n, k) == t..(t + n * k - 1)

\* The least draw from t on that leaves x.
First(t, n, x) == IF x >= t THEN x ELSE x + n

\* The one of cycle j.
Draw(t, n, x, j) == First(t, n, x) + n * j

\* A cycle has one draw that leaves x ...
LEMMA EachCycleHasOne ==
    ASSUME NEW n \in Nat \ {0}, NEW t \in 0..(n - 1), NEW k \in Nat,
           NEW x \in 0..(n - 1), NEW j \in 0..(k - 1)
    PROVE  /\ Draw(t, n, x, j) \in Cycles(t, n, k)
           /\ Draw(t, n, x, j) % n = x
<1>1. First(t, n, x) \in t..(t + n - 1)
  BY DEF First
<1>2. n * j \in Nat /\ n * k \in Nat /\ n * j + n <= n * k
  <2>1. n * j \in Nat /\ n * k \in Nat  BY Z3
  <2>2. n * j + n <= n * k  BY Apart
  <2>. QED  BY <2>1, <2>2
<1>3. First(t, n, x) + n * j \in Cycles(t, n, k)
  BY <1>1, <1>2 DEF Cycles
<1>4. (First(t, n, x) + n * j) % n = x
  <2>1. CASE x >= t
    <3>1. (n * j + x) % n = x  BY ModIsUnique
    <3>2. First(t, n, x) + n * j = n * j + x  BY <1>2, <2>1 DEF First
    <3>. QED  BY <3>1, <3>2
  <2>2. CASE ~(x >= t)
    <3>1. j + 1 \in Nat /\ n * (j + 1) = n * j + n  BY Z3
    <3>2. (n * (j + 1) + x) % n = x  BY <3>1, ModIsUnique
    <3>3. First(t, n, x) + n * j = n * (j + 1) + x
      BY <1>2, <2>2, <3>1 DEF First
    <3>. QED  BY <3>2, <3>3
  <2>. QED  BY <2>1, <2>2
<1>. QED  BY <1>3, <1>4 DEF Draw

\* ... and each draw is one of them.
LEMMA EachIsInACycle ==
    ASSUME NEW n \in Nat \ {0}, NEW t \in 0..(n - 1), NEW k \in Nat,
           NEW v \in Cycles(t, n, k)
    PROVE  v \in Nat /\ v % n \in 0..(n - 1)
           /\ \E j \in 0..(k - 1) : v = Draw(t, n, v % n, j)
<1>1. n * k \in Nat  BY Z3
<1>2. v \in Nat /\ v >= t /\ v < t + n * k
  BY <1>1 DEF Cycles
<1>3. v \div n \in Nat /\ v % n \in 0..(n - 1) /\ v = n * (v \div n) + (v % n)
  BY <1>2, DivMod
<1>4. PICK m \in Nat, x \in 0..(n - 1) : v = n * m + x /\ x = v % n
  BY <1>3
<1>5. n * m \in Nat
  BY Z3
<1>6. \E j \in 0..(k - 1) : v = Draw(t, n, x, j)
  <2>1. CASE x >= t
    <3>1. m < k
      <4>1. SUFFICES ASSUME k <= m PROVE FALSE  OBVIOUS
      <4>2. n * k <= n * m
        <5>1. CASE k = m  BY <5>1, <1>5
        <5>2. CASE k < m  BY <1>1, <1>5, <5>2, Apart
        <5>. QED  BY <4>1, <5>1, <5>2
      <4>. QED  BY <1>1, <1>2, <1>4, <1>5, <2>1, <4>2
    <3>2. v = Draw(t, n, x, m)  BY <1>4, <1>5, <2>1 DEF First, Draw
    <3>. QED  BY <3>1, <3>2
  <2>2. CASE ~(x >= t)
    <3>1. m # 0
      <4>1. SUFFICES ASSUME m = 0 PROVE FALSE  OBVIOUS
      <4>2. v = x  BY <1>4, <4>1, Z3
      <4>. QED  BY <1>2, <2>2, <4>2
    <3>2. m <= k
      <4>1. SUFFICES ASSUME k < m PROVE FALSE  OBVIOUS
      <4>2. n * k + n <= n * m  BY <4>1, Apart
      <4>. QED  BY <1>1, <1>2, <1>4, <1>5, <4>2
    <3>3. m - 1 \in 0..(k - 1)  BY <3>1, <3>2
    <3>4. n * (m - 1) = n * m - n  BY Z3
    <3>5. v = Draw(t, n, x, m - 1)
      BY <1>4, <1>5, <2>2, <3>4 DEF First, Draw
    <3>. QED  BY <3>3, <3>5
  <2>. QED  BY <2>1, <2>2
<1>. QED  BY <1>2, <1>3, <1>4, <1>6

\* The draws that leave low, ... low + w - 1.
Leaving(t, n, k, low, w) ==
    {v \in Cycles(t, n, k) : v % n \in low..(low + w - 1)}

\* There are k of each: a cycle and a remainder determine a draw, and the other
\* way round.
LEMMA RemaindersAreEven ==
    ASSUME NEW n \in Nat \ {0}, NEW t \in 0..(n - 1), NEW k \in Nat,
           NEW low \in Nat, NEW w \in Nat, low + w <= n
    PROVE  /\ IsFiniteSet(Leaving(t, n, k, low, w))
           /\ Cardinality(Leaving(t, n, k, low, w)) = k * w
<1>. DEFINE C == 0..(k - 1)
            R == low..(low + w - 1)
            L == Leaving(t, n, k, low, w)
            f == [p \in C \X R |-> Draw(t, n, p[2], p[1])]
<1>1. \A x \in R : x \in 0..(n - 1)
  OBVIOUS
<1>2. ASSUME NEW j \in C, NEW x \in R
      PROVE  /\ f[<<j, x>>] = Draw(t, n, x, j)
             /\ f[<<j, x>>] % n = x /\ f[<<j, x>>] \in L
  <2>1. f[<<j, x>>] = Draw(t, n, x, j)
    OBVIOUS
  <2>2. Draw(t, n, x, j) \in Cycles(t, n, k) /\ Draw(t, n, x, j) % n = x
    BY <1>1, EachCycleHasOne
  <2>. QED  BY <2>1, <2>2 DEF Leaving
<1>3. DOMAIN f = C \X R /\ f = [p \in C \X R |-> f[p]]
  OBVIOUS
<1>. HIDE DEF f
<1>4. f \in [C \X R -> L]
  <2>1. ASSUME NEW p \in C \X R PROVE f[p] \in L
    <3>1. p = <<p[1], p[2]>> /\ p[1] \in C /\ p[2] \in R
      OBVIOUS
    <3>2. f[<<p[1], p[2]>>] \in L
      BY <1>2, <3>1
    <3>. QED  BY <3>1, <3>2
  <2>. QED  BY <1>3, <2>1, Zenon
<1>5. ASSUME NEW p \in C \X R, NEW q \in C \X R, f[p] = f[q] PROVE p = q
  <2>1. /\ p = <<p[1], p[2]>> /\ p[1] \in C /\ p[2] \in R
        /\ q = <<q[1], q[2]>> /\ q[1] \in C /\ q[2] \in R
    OBVIOUS
  <2>2. PICK i \in C, x \in R : p = <<i, x>>
    BY <2>1
  <2>3. PICK j \in C, y \in R : q = <<j, y>>
    BY <2>1
  <2>4. x = y
    BY <1>2, <1>5, <2>2, <2>3
  <2>5. First(t, n, x) + n * i = First(t, n, x) + n * j
    BY <1>2, <1>5, <2>2, <2>3, <2>4 DEF Draw
  <2>6. First(t, n, x) \in Nat
    BY DEF First
  <2>7. i \in Nat /\ j \in Nat /\ n * i \in Nat /\ n * j \in Nat
    <3>1. i \in Nat /\ j \in Nat  OBVIOUS
    <3>. QED  BY <3>1, Z3
  <2>8. n * i = n * j
    BY <2>5, <2>6, <2>7
  <2>9. ~(i < j)
    <3>1. SUFFICES ASSUME i < j PROVE FALSE  OBVIOUS
    <3>2. n * i + n <= n * j  BY <2>7, <3>1, Apart
    <3>. QED  BY <2>7, <2>8, <3>2
  <2>10. ~(j < i)
    <3>1. SUFFICES ASSUME j < i PROVE FALSE  OBVIOUS
    <3>2. n * j + n <= n * i  BY <2>7, <3>1, Apart
    <3>. QED  BY <2>7, <2>8, <3>2
  <2>11. i = j
    BY <2>7, <2>9, <2>10
  <2>. QED  BY <2>2, <2>3, <2>4, <2>11
<1>6. ASSUME NEW v \in L PROVE \E p \in C \X R : f[p] = v
  <2>1. v \in Cycles(t, n, k) /\ v % n \in R
    BY DEF Leaving
  <2>2. PICK j \in C : v = Draw(t, n, v % n, j)
    BY <2>1, EachIsInACycle
  <2>3. f[<<j, v % n>>] = v
    BY <1>2, <2>1, <2>2
  <2>4. <<j, v % n>> \in C \X R
    BY <2>1
  <2>. QED  BY <2>3, <2>4
<1>7. ExistsBijection(C \X R, L)
  <2>. DEFINE P == C \X R
  <2>1. /\ f \in [P -> L] /\ \A p, q \in P : f[p] = f[q] => p = q
        /\ \A v \in L : \E p \in P : f[p] = v
    BY <1>4, <1>5, <1>6, Zenon
  <2>. HIDE DEF P, C, R, L
  <2>2. ExistsBijection(P, L)
    BY <2>1, Zenon
    DEF ExistsBijection, Bijection, Injection, Surjection, IsInjective
  <2>. QED  BY <2>2 DEF P
<1>8. /\ IsFiniteSet(C) /\ Cardinality(C) = k
      /\ IsFiniteSet(R) /\ Cardinality(R) = w
  BY FS_Interval
<1>. HIDE DEF C, R, L
<1>9. IsFiniteSet(C \X R) /\ Cardinality(C \X R) = k * w
  BY <1>8, FS_Product
<1>10. IsFiniteSet(L) /\ Cardinality(L) = k * w
  BY <1>7, <1>9, FS_Bijection
<1>. QED  BY <1>10 DEF L

------------------------------------------------------------------------------
(* Weights.                                                                  *)

\* The sums ChooseWeighted goes through.
SumsOf(s, weights) ==
    s = [i \in 0..Len(weights) |-> IF i = 0 THEN 0 ELSE s[i - 1] + weights[i]]

\* They start at zero, and each adds its weight.
LEMMA CumulativeIs ==
    ASSUME NEW weights \in Seq(Nat)
    PROVE  /\ Cumulative(weights, 0) = 0
           /\ \A i \in 1..Len(weights) :
                 Cumulative(weights, i) = Cumulative(weights, i - 1) + weights[i]
           /\ \A i \in 0..Len(weights) : Cumulative(weights, i) \in Nat
  <1> DEFINE n == Len(weights)
             W(i) == IF i \in 1..n THEN weights[i] ELSE 0
             step == [p \in (Nat \ {0}) \X Nat |-> p[2] + W(p[1])]
  <1>1. n \in Nat /\ \A i \in 1..n : weights[i] \in Nat
    OBVIOUS
  <1>2. \A i \in Nat : W(i) \in Nat
    OBVIOUS
  <1> HIDE DEF n
  <1>3. \A i \in 1..n : W(i) = weights[i]
    OBVIOUS
  <1> HIDE DEF W
  <1>4. step \in Turns(Nat)
    <2>1. ASSUME NEW p \in (Nat \ {0}) \X Nat PROVE p[2] + W(p[1]) \in Nat
      <3>1. p[1] \in Nat /\ p[2] \in Nat
        OBVIOUS
      <3>2. W(p[1]) \in Nat
        BY <1>2, <3>1
      <3> QED BY <3>1, <3>2
    <2> QED BY <2>1 DEF Turns
  <1>5. \A i \in Nat \ {0} : \A x \in Nat : step[<<i, x>>] = x + W(i)
    OBVIOUS
  <1> HIDE DEF step
  <1>6. PICK f : f \in [Nat -> Nat] /\ f[0] = 0
                 /\ \A i \in Nat : f[i + 1] = step[<<i + 1, f[i]>>]
    <2>1. \E f : Limit(f, Nat, 0, step)
      BY <1>4, LimitExists
    <2> QED BY <2>1, Zenon DEF Limit
  <1> DEFINE t == [i \in 0..n |-> f[i]]
             u == [i \in 0..n |-> IF i = 0 THEN 0 ELSE t[i - 1] + weights[i]]
  <1>7. ASSUME NEW i \in 0..n PROVE t[i] = u[i]
    <2>1. CASE i = 0
      BY <1>6, <2>1
    <2>2. CASE i # 0
      <3>1. /\ i \in 1..n /\ i - 1 \in 0..n /\ i - 1 \in Nat
            /\ (i - 1) + 1 = i /\ i \in Nat \ {0}
        BY <1>1, <2>2
      <3>2. f[i] = step[<<i, f[i - 1]>>] /\ f[i - 1] \in Nat
        BY <1>6, <3>1
      <3>3. f[i] = f[i - 1] + weights[i]
        BY <1>3, <1>5, <3>1, <3>2
      <3> QED BY <2>2, <3>1, <3>3
    <2> QED BY <2>1, <2>2
  <1>8. t = u
    BY <1>7
  <1>9. SumsOf(t, weights)
    <2> HIDE DEF t
    <2> QED BY <1>8, Zenon DEF SumsOf, n
  <1> DEFINE s == CHOOSE v : SumsOf(v, weights)
             T == {i \in Nat : i <= n => s[i] \in Nat}
  <1> HIDE DEF t, u
  <1>10. SumsOf(s, weights)
    BY <1>9, Zenon
  <1>11. \A i : Cumulative(weights, i) = s[i]
    BY Zenon DEF Cumulative, SumsOf
  <1> HIDE DEF s
  <1>12. s[0] = 0 /\ \A i \in 1..n : s[i] = s[i - 1] + weights[i]
    <2>1. s = [i \in 0..n |-> IF i = 0 THEN 0 ELSE s[i - 1] + weights[i]]
      BY <1>10, Zenon DEF SumsOf, n
    <2>2. 0 \in 0..n /\ \A i \in 1..n : i \in 0..n /\ i # 0
      BY <1>1
    <2> QED BY <2>1, <2>2, Zenon
  <1>13. 0 \in T
    BY <1>12
  <1>14. ASSUME NEW i \in T PROVE i + 1 \in T
    <2> SUFFICES ASSUME i + 1 <= n PROVE s[i + 1] \in Nat
      OBVIOUS
    <2>1. i + 1 \in 1..n /\ (i + 1) - 1 = i /\ s[i] \in Nat
      BY <1>1
    <2> QED BY <1>1, <1>12, <2>1
  <1>15. T = Nat
    BY <1>13, <1>14, Induction
  <1>16. \A i \in 0..n : s[i] \in Nat
    BY <1>1, <1>15
  <1> QED BY <1>11, <1>12, <1>16, Zenon DEF n

\* They never shrink.
LEMMA CumulativeGrows ==
    ASSUME NEW weights \in Seq(Nat), NEW i \in 0..Len(weights),
           NEW j \in 0..Len(weights), i <= j
    PROVE  Cumulative(weights, i) <= Cumulative(weights, j)
  <1> DEFINE n == Len(weights)
             C(m) == Cumulative(weights, m)
             T == {d \in Nat : i + d <= n => C(i) <= C(i + d)}
  <1>1. /\ n \in Nat /\ \A m \in 1..n : weights[m] \in Nat
        /\ i \in 0..n /\ j \in 0..n
    OBVIOUS
  <1>2. /\ \A m \in 1..n : C(m) = C(m - 1) + weights[m]
        /\ \A m \in 0..n : C(m) \in Nat
    BY CumulativeIs
  <1> HIDE DEF n, C
  <1>3. 0 \in T
    BY <1>1, <1>2
  <1>4. ASSUME NEW d \in T PROVE d + 1 \in T
    <2> SUFFICES ASSUME i + (d + 1) <= n PROVE C(i) <= C(i + (d + 1))
      OBVIOUS
    <2>1. /\ i + (d + 1) \in 1..n /\ (i + (d + 1)) - 1 = i + d
          /\ i + d \in 0..n /\ i + d <= n
      BY <1>1
    <2>2. C(i + (d + 1)) = C(i + d) + weights[i + (d + 1)]
      BY <1>2, <2>1
    <2>3. C(i) <= C(i + d)
      BY <2>1
    <2> QED BY <1>1, <1>2, <2>1, <2>2, <2>3
  <1>5. T = Nat
    BY <1>3, <1>4, Induction
  <1>6. j - i \in T /\ i + (j - i) = j /\ j <= n
    <2>1. j - i \in Nat /\ i + (j - i) = j /\ j <= n
      BY <1>1
    <2> HIDE DEF T
    <2> QED BY <1>5, <2>1
  <1> QED BY <1>1, <1>6 DEF C

\* The values that choose index i: its weight's share of them.
Share(weights, i) == Cumulative(weights, i)..(Cumulative(weights, i + 1) - 1)

\* Each value below the total chooses the one index whose share it is in.
LEMMA ChosenIs ==
    ASSUME NEW weights \in Seq(Nat), NEW x \in Nat,
           x < Cumulative(weights, Len(weights))
    PROVE  /\ Chosen(weights, x) \in 0..(Len(weights) - 1)
           /\ \A i \in 0..(Len(weights) - 1) :
                 Chosen(weights, x) = i <=> x \in Share(weights, i)
  <1> DEFINE n == Len(weights)
             C(m) == Cumulative(weights, m)
             Falls(k) == x < C(k) /\ \A i \in 1..(k - 1) : x >= C(i)
             T == {m \in 1..n : x < C(m)}
             k == CHOOSE m \in DOMAIN weights : Falls(m)
  <1>1. /\ n \in Nat /\ DOMAIN weights = 1..n
        /\ x < C(n)
    OBVIOUS
  <1>2. /\ C(0) = 0
        /\ \A m \in 0..n : C(m) \in Nat
    BY CumulativeIs
  <1>3. \A i, j \in 0..n : i <= j => C(i) <= C(j)
    BY CumulativeGrows
  <1>4. Chosen(weights, x) = k - 1
    BY Zenon DEF Chosen
  <1>5. Share(weights, 0) = Share(weights, 0)
        /\ \A i \in 0..(n - 1) : Share(weights, i) = C(i)..(C(i + 1) - 1)
    BY DEF Share
  <1> HIDE DEF n, C
  <1>6. n # 0 /\ n \in T /\ T \in SUBSET Nat
    BY <1>1, <1>2
  <1>7. PICK m \in T : \A j \in T : m <= j
    <2> HIDE DEF T
    <2> QED BY <1>6, Least
  <1>8. m \in 1..n /\ Falls(m)
    <2>1. m \in 1..n /\ x < C(m)
      OBVIOUS
    <2>2. ASSUME NEW i \in 1..(m - 1) PROVE x >= C(i)
      <3>1. i \in 1..n /\ ~(m <= i) /\ i \in 0..n
        BY <1>1, <2>1
      <3>2. ~(x < C(i))
        BY <1>7, <3>1
      <3> QED BY <1>2, <3>1, <3>2
    <2> QED BY <2>1, <2>2
  <1>9. k \in 1..n /\ Falls(k)
    <2> HIDE DEF Falls
    <2> QED BY <1>1, <1>8, Zenon
  <1> HIDE DEF k
  <1>10. k - 1 \in 0..(n - 1)
    BY <1>1, <1>9
  <1>11. ASSUME NEW i \in 0..(n - 1), k - 1 = i PROVE x \in C(i)..(C(i + 1) - 1)
    <2>1. k = i + 1 /\ i \in 0..n /\ k \in 0..n
      BY <1>1, <1>9, <1>11
    <2>2. C(i) <= x
      <3>1. CASE i = 0
        BY <1>2, <3>1
      <3>2. CASE i # 0
        <4>1. i \in 1..(k - 1)
          BY <1>1, <2>1, <3>2
        <4> QED BY <1>2, <1>9, <2>1, <4>1
      <3> QED BY <3>1, <3>2
    <2>3. C(i) \in Nat /\ C(i + 1) \in Nat /\ x < C(i + 1)
      BY <1>2, <1>9, <2>1
    <2> QED BY <2>2, <2>3
  <1>12. ASSUME NEW i \in 0..(n - 1), x \in C(i)..(C(i + 1) - 1) PROVE k - 1 = i
    <2>1. i \in Nat /\ i \in 0..n /\ i + 1 \in 1..n /\ i + 1 \in 0..n /\ k \in 0..n
      BY <1>1, <1>9
    <2>2. C(i) \in Nat /\ C(i + 1) \in Nat /\ C(k) \in Nat
      BY <1>2, <2>1
    <2>3. C(i) <= x /\ x < C(i + 1)
      BY <1>12, <2>2
    <2>4. ~(k < i + 1)
      <3> SUFFICES ASSUME k < i + 1 PROVE FALSE
        OBVIOUS
      <3>1. k <= i
        BY <2>1
      <3>2. C(k) <= C(i)
        BY <1>3, <2>1, <3>1
      <3> QED BY <1>9, <2>2, <2>3, <3>2
    <2>5. ~(i + 1 < k)
      <3> SUFFICES ASSUME i + 1 < k PROVE FALSE
        OBVIOUS
      <3>1. i + 1 \in 1..(k - 1)
        BY <2>1
      <3>2. x >= C(i + 1)
        BY <1>9, <3>1
      <3> QED BY <2>2, <2>3, <3>2
    <2> QED BY <2>1, <2>4, <2>5
  <1> QED BY <1>4, <1>5, <1>10, <1>11, <1>12 DEF n

------------------------------------------------------------------------------
(* Requests, and the draws they take.                                        *)

\* The parameters are counted, and so are the values of a word.
LEMMA WordIs ==
    /\ ByteBits \in Nat \ {0} /\ WordBytes \in Nat \ {0} /\ StreamBytes \in Nat \ {0}
    /\ WordBits \in Nat \ {0} /\ WordSize \in Nat \ {0}
    /\ FloatBits \in 1..WordBits
    /\ WeightLists \subseteq Seq(Nat)
  <1>1. /\ ByteBits \in Nat \ {0} /\ WordBytes \in Nat \ {0}
        /\ StreamBytes \in Nat \ {0} /\ FloatBits \in 1..WordBits
        /\ WeightLists \subseteq Seq(Word)
    BY SamplingAssumption
  <1>2. WordBits \in Nat \ {0}
    <2>1. \A a, b \in Nat \ {0} : a * b \in Nat \ {0}
      BY Z3
    <2> QED BY <1>1, <2>1 DEF WordBits
  <1>3. WordSize \in Nat \ {0}
    BY <1>2, Pow2Is DEF WordSize
  <1>4. WeightLists \subseteq Seq(Nat)
    <2>1. Word \subseteq Nat
      BY <1>3 DEF Word
    <2> HIDE DEF Word
    <2>2. ASSUME NEW ws \in WeightLists PROVE ws \in Seq(Nat)
      <3>1. ws \in Seq(Word)
        BY <1>1
      <3>2. Len(ws) \in Nat /\ ws = [i \in 1..Len(ws) |-> ws[i]]
        BY <3>1
      <3>3. \A i \in 1..Len(ws) : ws[i] \in Nat
        <4>1. \A i \in 1..Len(ws) : ws[i] \in Word
          BY <3>1
        <4> QED BY <2>1, <4>1
      <3> QED BY <3>2, <3>3
    <2> QED BY <2>2
  <1> QED BY <1>1, <1>2, <1>3, <1>4

\* What a request that is not refused asks for.
LEMMA RequestIs ==
    ASSUME NEW r \in Requests, Valid(r)
    PROVE  /\ r.n \in Nat \ {0}
           /\ OfBits(r) => r.op # "choose" /\ r.n <= WordBits
           /\ ~OfBits(r) => r.n \in 1..(WordSize - 1)
           /\ r.op = "choose" => /\ r.weights \in Seq(Nat)
                                 /\ r.n = Cumulative(r.weights, Len(r.weights))
  <1>1. WordBits \in Nat \ {0} /\ WordSize \in Nat \ {0}
    BY WordIs
  <1>2. OfBits(r) => r.op # "choose"
    BY DEF OfBits
  <1>3. OfBits(r) => r.n \in 1..WordBits
    BY DEF Valid
  <1>4. ~OfBits(r) => r.n \in 1..(WordSize - 1)
    BY DEF Valid
  <1>5. r.op = "choose" => /\ r.weights \in Seq(Nat)
                           /\ r.n = Cumulative(r.weights, Len(r.weights))
    <2> SUFFICES ASSUME r.op = "choose"
                 PROVE  /\ r.weights \in Seq(Nat)
                        /\ r.n = Cumulative(r.weights, Len(r.weights))
      OBVIOUS
    <2>1. PICK ws \in WeightLists :
             r = [op |-> "choose", n |-> Cumulative(ws, Len(ws)), weights |-> ws]
      BY DEF Requests
    <2>2. r.weights = ws /\ r.n = Cumulative(ws, Len(ws))
      BY <2>1
    <2> QED BY <2>2, WordIs
  <1>6. r.n \in Nat \ {0}
    BY <1>1, <1>3, <1>4
  <1> QED BY <1>1, <1>2, <1>3, <1>4, <1>5, <1>6

\* A draw is reduced to at least one value.
LEMMA SpanIs ==
    ASSUME NEW r \in Requests, Valid(r)
    PROVE  Span(r) \in Nat \ {0}
  <1>1. r.n \in Nat \ {0}
    BY RequestIs
  <1> QED BY <1>1, Pow2Is DEF Span

\* The bytes a draw takes hold the bits asked for.
LEMMA BytesHoldTheBits ==
    ASSUME NEW r \in Requests, Valid(r)
    PROVE  /\ BytesOf(r) \in Nat
           /\ ByteBits * BytesOf(r) \in Nat
           /\ OfBits(r) => ByteBits * BytesOf(r) - r.n \in Nat
  <1>1. ByteBits \in Nat \ {0} /\ WordBytes \in Nat \ {0} /\ r.n \in Nat \ {0}
    BY WordIs, RequestIs
  <1>2. CASE kind = "provably_fair" /\ OfBits(r)
    <2> DEFINE a == r.n + ByteBits - 1
    <2>1. a \in Nat
      BY <1>1
    <2>2. BytesOf(r) = a \div ByteBits
      BY <1>2 DEF BytesOf
    <2> HIDE DEF a
    <2>3. PICK q \in Nat, t \in 0..(ByteBits - 1) :
             a = ByteBits * q + t /\ q = a \div ByteBits
      BY <1>1, <2>1, DivMod
    <2>4. ByteBits * q \in Nat
      BY <1>1, Z3
    <2>5. ByteBits * q - r.n \in Nat
      BY <1>1, <2>3, <2>4 DEF a
    <2> QED BY <2>2, <2>3, <2>4, <2>5
  <1>3. CASE ~(kind = "provably_fair" /\ OfBits(r))
    <2>1. BytesOf(r) = WordBytes
      BY <1>3 DEF BytesOf
    <2>2. OfBits(r) => r.n <= WordBits
      BY RequestIs
    <2> QED BY <1>1, <2>1, <2>2, WordIs DEF WordBits
  <1> QED BY <1>2, <1>3

\* The draws of a request that are taken for an answer.
Accepted(r) == {v \in Draws(r) : Accepts(r, v)}

\* The accepted words are a whole number of cycles of n, at least one: what the
\* last cycle would have short is cut off at the front.
LEMMA WholeCycles ==
    ASSUME NEW n \in 1..(WordSize - 1)
    PROVE  /\ Threshold(n) \in 0..(n - 1)
           /\ \E k \in Nat \ {0} : WordSize = Threshold(n) + n * k
<1>. DEFINE a == WordSize - n
<1>1. WordSize \in Nat /\ n \in Nat \ {0} /\ a \in Nat
  BY WordIs
<1>2. Threshold(n) = a % n  BY DEF Threshold
<1>. HIDE DEF a
<1>3. PICK q \in Nat, t \in 0..(n - 1) : a = n * q + t /\ t = a % n
  BY <1>1, DivMod
<1>4. n * (q + 1) = n * q + n /\ n * q \in Nat  BY <1>1, Z3
<1>5. WordSize = t + n * (q + 1)  BY <1>1, <1>3, <1>4 DEF a
<1>6. q + 1 \in Nat \ {0}  OBVIOUS
<1>. QED  BY <1>2, <1>3, <1>5, <1>6

\* So are the draws of every request, and those thrown away are fewer.
LEMMA AcceptedAre ==
    ASSUME NEW r \in Requests, Valid(r)
    PROVE  \E t \in 0..(Span(r) - 1) : \E k \in Nat \ {0} :
              /\ Accepted(r) = Cycles(t, Span(r), k)
              /\ Draws(r) = 0..(t + Span(r) * k - 1)
  <1>1. Span(r) \in Nat \ {0} /\ r.n \in Nat \ {0}
    BY SpanIs, RequestIs
  <1>2. CASE OfBits(r)
    <2>1. Span(r) = Pow2[r.n]
      BY <1>2 DEF Span
    <2> DEFINE d == ByteBits * BytesOf(r) - r.n
    <2>2. d \in Nat /\ ByteBits * BytesOf(r) = r.n + d
      BY <1>1, <1>2, BytesHoldTheBits
    <2> HIDE DEF d
    <2>3. PICK k \in Nat \ {0} : k = Pow2[d]
      <3>1. Pow2[d] \in Nat \ {0}
        BY <2>2, Pow2Is
      <3> QED BY <3>1
    <2>4. Pow2[ByteBits * BytesOf(r)] = Span(r) * k
      <3>1. Pow2[r.n + d] = Pow2[r.n] * Pow2[d]
        <4>1. r.n \in Nat /\ d \in Nat
          BY <1>1, <2>2
        <4> QED BY <4>1, Pow2Adds
      <3> QED BY <2>1, <2>2, <2>3, <3>1, Zenon
    <2>5. Draws(r) = 0..(Span(r) * k - 1)
      BY <2>4 DEF Draws
    <2>6. Accepted(r) = Draws(r)
      BY <1>2 DEF Accepted, Accepts
    <2>7. PICK m \in Nat : m = Span(r) * k
      <3>1. Span(r) * k \in Nat
        BY <1>1, Z3
      <3> QED BY <3>1
    <2>8. 0..(0 + m - 1) = 0..(m - 1) /\ 0 \in 0..(Span(r) - 1)
      BY <1>1
    <2>9. /\ Accepted(r) = Cycles(0, Span(r), k)
          /\ Draws(r) = 0..(0 + Span(r) * k - 1)
      BY <2>5, <2>6, <2>7, <2>8, Zenon DEF Cycles
    <2> QED BY <2>8, <2>9
  <1>3. CASE ~OfBits(r)
    <2>1. r.n \in 1..(WordSize - 1) /\ Span(r) = r.n
      BY <1>3, RequestIs DEF Span
    <2>2. PICK k \in Nat \ {0} : WordSize = Threshold(r.n) + r.n * k
      BY <2>1, WholeCycles
    <2>3. Threshold(r.n) \in 0..(Span(r) - 1)
      BY <2>1, WholeCycles
    <2>4. Draws(r) = 0..(WordSize - 1)
      BY <1>3 DEF Draws, BytesOf, WordSize, WordBits
    <2>5. Accepted(r) = {v \in 0..(WordSize - 1) : v >= Threshold(r.n)}
      BY <1>3, <2>4 DEF Accepted, Accepts
    <2>6. Accepted(r) = Threshold(r.n)..(WordSize - 1)
      BY <2>1, <2>3, <2>5, WordIs
    <2>7. /\ Accepted(r) = Cycles(Threshold(r.n), Span(r), k)
          /\ Draws(r) = 0..(Threshold(r.n) + Span(r) * k - 1)
      <3>1. PICK m \in Nat : m = Span(r) * k
        <4>1. Span(r) * k \in Nat
          BY <1>1, Z3
        <4> QED BY <4>1
      <3>2. WordSize = Threshold(r.n) + m
        <4>1. r.n * k = m
          BY <2>1, <3>1, Zenon
        <4> QED BY <2>2, <4>1, Zenon
      <3>3. /\ Accepted(r) = Threshold(r.n)..(Threshold(r.n) + m - 1)
            /\ Draws(r) = 0..(Threshold(r.n) + m - 1)
        <4>1. WordSize - 1 = Threshold(r.n) + m - 1
          BY <2>1, <2>3, <3>2, WordIs
        <4> QED BY <2>4, <2>6, <4>1, Zenon
      <3> QED BY <3>1, <3>3, Zenon DEF Cycles
    <2> QED BY <2>3, <2>7
  <1> QED BY <1>2, <1>3

------------------------------------------------------------------------------
(* Answers.                                                                  *)

\* The remainders that stand for answer x start here.
Low(r, x) == IF r.op = "choose" THEN Cumulative(r.weights, x) ELSE x

\* An answer stands for as many remainders as it weighs.
LEMMA SharesAre ==
    ASSUME NEW r \in Requests, Valid(r), NEW x \in Answers(r)
    PROVE  /\ Low(r, x) \in Nat /\ Weight(r, x) \in Nat
           /\ Low(r, x) + Weight(r, x) <= Span(r)
           /\ r.op = "choose" =>
                 Share(r.weights, x) = Low(r, x)..(Low(r, x) + Weight(r, x) - 1)
  <1>1. Span(r) \in Nat \ {0}
    BY SpanIs
  <1>2. CASE r.op = "choose"
    <2> DEFINE ws == r.weights
               n == Len(r.weights)
               C(m) == Cumulative(r.weights, m)
    <2>1. ws \in Seq(Nat) /\ r.n = C(n)
      BY <1>2, RequestIs
    <2>2. Span(r) = r.n
      BY <1>2 DEF Span, OfBits
    <2>3. x \in 0..(n - 1)
      BY <1>2 DEF Answers
    <2>4. n \in Nat /\ \A i \in 1..n : ws[i] \in Nat
      BY <2>1
    <2>5. /\ \A i \in 1..n : C(i) = C(i - 1) + ws[i]
          /\ \A i \in 0..n : C(i) \in Nat
      BY <2>1, CumulativeIs
    <2>6. x + 1 \in 1..n /\ (x + 1) - 1 = x /\ x \in 0..n /\ x + 1 \in 0..n
          /\ n \in 0..n /\ x + 1 <= n
      BY <2>3, <2>4
    <2>7. C(x + 1) = C(x) + ws[x + 1] /\ C(x) \in Nat /\ ws[x + 1] \in Nat
      BY <2>4, <2>5, <2>6
    <2>8. C(x + 1) <= C(n)
      BY <2>1, <2>6, CumulativeGrows
    <2>9. Low(r, x) = C(x) /\ Weight(r, x) = ws[x + 1]
      BY <1>2 DEF Low, Weight
    <2>10. Share(ws, x) = C(x)..(C(x + 1) - 1)
      BY DEF Share
    <2> HIDE DEF ws, n, C
    <2> QED BY <2>1, <2>2, <2>7, <2>8, <2>9, <2>10 DEF ws
  <1>3. CASE r.op # "choose"
    <2>1. x \in 0..(Span(r) - 1) /\ Low(r, x) = x /\ Weight(r, x) = 1
      BY <1>3 DEF Answers, Low, Weight
    <2> QED BY <1>1, <1>3, <2>1
  <1> QED BY <1>2, <1>3

\* A draw is answered, and with x exactly if its remainder stands for x.
LEMMA ValueIs ==
    ASSUME NEW r \in Requests, Valid(r), NEW v \in Nat
    PROVE  /\ Value(r, v) \in Answers(r)
           /\ \A x \in Answers(r) : Value(r, v) = x
                <=> v % Span(r) \in Low(r, x)..(Low(r, x) + Weight(r, x) - 1)
  <1>1. Span(r) \in Nat \ {0}
    BY SpanIs
  <1>2. v % Span(r) \in 0..(Span(r) - 1)
    BY <1>1, DivMod
  <1>3. CASE r.op = "choose"
    <2>1. /\ r.weights \in Seq(Nat)
          /\ Span(r) = Cumulative(r.weights, Len(r.weights))
      BY <1>3, RequestIs DEF Span, OfBits
    <2>2. Value(r, v) = Chosen(r.weights, v % Span(r))
      BY <1>3 DEF Value
    <2>3. Answers(r) = 0..(Len(r.weights) - 1)
      BY <1>3 DEF Answers
    <2>4. PICK y \in Nat : y = v % Span(r) /\ y < Span(r)
      BY <1>1, <1>2
    <2>5. /\ Chosen(r.weights, y) \in 0..(Len(r.weights) - 1)
          /\ \A i \in 0..(Len(r.weights) - 1) :
                Chosen(r.weights, y) = i <=> y \in Share(r.weights, i)
      BY <2>1, <2>4, ChosenIs
    <2>6. \A x \in Answers(r) :
             Share(r.weights, x) = Low(r, x)..(Low(r, x) + Weight(r, x) - 1)
      BY <1>3, SharesAre
    <2> QED BY <2>2, <2>3, <2>4, <2>5, <2>6, Zenon
  <1>4. CASE r.op # "choose"
    <2>1. Value(r, v) = v % Span(r) /\ Answers(r) = 0..(Span(r) - 1)
      BY <1>4 DEF Value, Answers
    <2>2. \A x : Low(r, x) = x /\ Weight(r, x) = 1
      BY <1>4 DEF Low, Weight
    <2>3. PICK y \in 0..(Span(r) - 1) : y = v % Span(r)
      BY <1>2
    <2>4. \A x \in 0..(Span(r) - 1) : y = x <=> y \in x..(x + 1 - 1)
      BY <1>1
    <2> QED BY <2>1, <2>2, <2>3, <2>4
  <1> QED BY <1>3, <1>4

\* The accepted draws that are answered with x.
From(r, x) == {v \in Draws(r) : Accepts(r, v) /\ Value(r, v) = x}

\* They are some number of cycles times the weight of x.
LEMMA FromIs ==
    ASSUME NEW r \in Requests, Valid(r)
    PROVE  \E k \in Nat \ {0} : \A x \in Answers(r) :
              Cardinality(From(r, x)) = k * Weight(r, x)
  <1>1. PICK t \in 0..(Span(r) - 1), k \in Nat \ {0} :
           Accepted(r) = Cycles(t, Span(r), k)
    BY AcceptedAre
  <1>2. Span(r) \in Nat \ {0}
    BY SpanIs
  <1>3. ASSUME NEW x \in Answers(r) PROVE Cardinality(From(r, x)) = k * Weight(r, x)
    <2>1. /\ Low(r, x) \in Nat /\ Weight(r, x) \in Nat
          /\ Low(r, x) + Weight(r, x) <= Span(r)
      BY SharesAre
    <2>2. From(r, x) = {v \in Accepted(r) : Value(r, v) = x}
      BY Zenon DEF From, Accepted
    <2>3. \A v \in Cycles(t, Span(r), k) : v \in Nat
      BY <1>2, EachIsInACycle
    <2>4. \A v \in Cycles(t, Span(r), k) : Value(r, v) = x
             <=> v % Span(r) \in Low(r, x)..(Low(r, x) + Weight(r, x) - 1)
      BY <2>3, ValueIs
    <2>5. From(r, x) = Leaving(t, Span(r), k, Low(r, x), Weight(r, x))
      BY <1>1, <2>2, <2>4, Zenon DEF Leaving
    <2> QED BY <1>2, <2>1, <2>5, RemaindersAreEven
  <1> QED BY <1>3

------------------------------------------------------------------------------
(* The invariants.                                                           *)

\* A source that is asked for nothing yet is in order.
LEMMA InitHolds == Init => TypeOK
  <1> SUFFICES ASSUME Init PROVE TypeOK
    OBVIOUS
  <1>1. left \in 0..StreamBytes /\ kind \in {"provably_fair", "crypto", "simulation"}
    BY WordIs DEF Init
  <1>2. request \in Requests /\ pc = "idle" /\ ~answer.ok
    BY DEF Init, NoAnswer
  <1> QED BY <1>1, <1>2 DEF TypeOK

\* What a draw consumes is there.
LEMMA ConsumeHolds ==
    ASSUME TypeOK, pc = "drawing", HasBytes, Consume
    PROVE  left' \in 0..StreamBytes
  <1>1. request \in Requests /\ Valid(request) /\ left \in 0..StreamBytes
    BY DEF TypeOK
  <1>2. BytesOf(request) \in Nat
    BY <1>1, BytesHoldTheBits
  <1> QED BY <1>1, <1>2, WordIs DEF HasBytes, Consume

\* Every step keeps the types.
LEMMA NextHolds == TypeOK /\ [Next]_vars => TypeOK'
  <1> SUFFICES ASSUME TypeOK, [Next]_vars PROVE TypeOK'
    OBVIOUS
  <1>1. CASE Call
    <2>1. /\ kind' = kind /\ left' = left /\ request' \in Requests
          /\ pc' \in {"idle", "drawing"} /\ answer' = NoAnswer
          /\ pc' = "drawing" => Valid(request')
      BY <1>1 DEF Call
    <2>2. ~answer'.ok
      BY <2>1 DEF NoAnswer
    <2> QED BY <2>1, <2>2 DEF TypeOK, Valid, OfBits
  <1>2. CASE Accept
    <2>1. /\ pc = "drawing" /\ HasBytes /\ Consume
          /\ pc' = "idle" /\ kind' = kind /\ request' = request
      BY <1>2 DEF Accept
    <2>2. request \in Requests /\ Valid(request)
      BY <2>1 DEF TypeOK
    <2>3. PICK v \in Draws(request) :
             answer' = [ok |-> TRUE, value |-> Value(request, v)]
      BY <1>2 DEF Accept
    <2>4. v \in Nat
      BY <2>2, BytesHoldTheBits, Pow2Is DEF Draws
    <2>5. answer'.value = Value(request, v)
      BY <2>3
    <2>6. answer'.value \in Answers(request)
      BY <2>2, <2>4, <2>5, ValueIs
    <2>7. Answers(request') = Answers(request)
      BY <2>1 DEF Answers, Span, OfBits
    <2>8. left' \in 0..StreamBytes
      BY <2>1, ConsumeHolds
    <2> QED BY <2>1, <2>6, <2>7, <2>8 DEF TypeOK
  <1>3. CASE Reject
    <2>1. /\ pc = "drawing" /\ HasBytes /\ Consume
          /\ UNCHANGED <<kind, request, pc, answer>>
      BY <1>3 DEF Reject
    <2>2. left' \in 0..StreamBytes
      BY <2>1, ConsumeHolds
    <2> QED BY <2>1, <2>2 DEF TypeOK, Valid, OfBits, Answers, Span
  <1>4. CASE SourceFails
    <2>1. left' \in 0..StreamBytes
      BY <1>4, WordIs DEF SourceFails, TypeOK
    <2>2. pc' = "idle" /\ UNCHANGED <<kind, request, answer>>
      BY <1>4 DEF SourceFails
    <2> QED BY <2>1, <2>2 DEF TypeOK, Answers, Span, OfBits
  <1>5. CASE UNCHANGED vars
    BY <1>5 DEF vars, TypeOK, Valid, OfBits, Answers, Span
  <1> QED BY <1>1, <1>2, <1>3, <1>4, <1>5 DEF Next

\* Every answer is one of those asked for, and no source reads past its end,
\* whatever the word, the stream and the weights.
THEOREM SamplingIsTyped == Spec => []TypeOK
  BY InitHolds, NextHolds, PTL DEF Spec

\* No bias, from any source: n bits, a number below n and an index chosen by
\* weight each come of as many draws as their likelihood asks for.
THEOREM EveryAnswerIsEquallyLikely == Spec => []Uniform
  <1>1. TypeOK => Uniform
    <2> SUFFICES ASSUME TypeOK, pc = "drawing",
                        NEW x \in Answers(request), NEW y \in Answers(request)
                 PROVE  Cardinality(From(request, x)) * Weight(request, y)
                          = Cardinality(From(request, y)) * Weight(request, x)
      BY DEF Uniform, From
    <2>1. request \in Requests /\ Valid(request)
      BY DEF TypeOK
    <2>2. PICK k \in Nat \ {0} : \A z \in Answers(request) :
             Cardinality(From(request, z)) = k * Weight(request, z)
      BY <2>1, FromIs
    <2>3. Weight(request, x) \in Nat /\ Weight(request, y) \in Nat
      BY <2>1, SharesAre
    <2>4. \A a, b \in Nat : (k * a) * b = (k * b) * a
      BY Z3
    <2> QED BY <2>2, <2>3, <2>4
  <1> QED BY <1>1, SamplingIsTyped, PTL

\* Whatever is asked for, more than half of the draws are answered.
THEOREM RejectsLessThanHalf == Spec => []FewRejections
  <1>1. TypeOK => FewRejections
    <2> SUFFICES ASSUME TypeOK, pc = "drawing"
                 PROVE  2 * Cardinality(Accepted(request)) > Cardinality(Draws(request))
      BY DEF FewRejections, Accepted
    <2>1. request \in Requests /\ Valid(request)
      BY DEF TypeOK
    <2>2. Span(request) \in Nat \ {0}
      BY <2>1, SpanIs
    <2>3. PICK t \in 0..(Span(request) - 1), k \in Nat \ {0} :
             /\ Accepted(request) = Cycles(t, Span(request), k)
             /\ Draws(request) = 0..(t + Span(request) * k - 1)
      BY <2>1, AcceptedAre
    <2>4. Span(request) * k \in Nat /\ Span(request) * k >= Span(request)
      BY <2>2, Z3
    <2> DEFINE m == Span(request) * k
    <2>5. m \in Nat /\ t \in Nat /\ t < m
      BY <2>2, <2>4
    <2> HIDE DEF m
    <2>6. /\ Cardinality(t..(t + m - 1)) = m
          /\ Cardinality(0..(t + m - 1)) = t + m
      BY <2>5, FS_Interval
    <2> QED BY <2>3, <2>5, <2>6 DEF Cycles, m
  <1> QED BY <1>1, SamplingIsTyped, PTL
==============================================================================
