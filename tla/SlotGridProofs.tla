---------------------------- MODULE SlotGridProofs ----------------------------
(****************************************************************************)
(* The grid, for every definition and any number of cascades: what a reel   *)
(* keeps and where it lands, in which order its holes are filled, and that  *)
(* the evaluator pays every path across the reels.                          *)
(****************************************************************************)
EXTENDS SlotGrid, FunctionTheorems, FiniteSetTheorems, SequenceTheorems,
        WellFoundedInduction, TLAPS

------------------------------------------------------------------------------
(* Products of counts and multipliers.                                       *)

\* What the checked arithmetic returns: a multiplier or Failed, never a value out
\* of range.
Checked == Multiplier \cup {Failed}

(* The quotient guard used by Mul, MulInt and Settle is exact: it passes     *)
(* products that fit, and only those.                                        *)
LEMMA QuotientGuard ==
    ASSUME NEW a \in Nat, NEW b \in Nat \ {0}, NEW n \in Nat
    PROVE  /\ a <= n \div b <=> a * b <= n
           /\ n \div b \in Nat
  OBVIOUS

\* A multiplier times a count is exact, or reported as an overflow.
LEMMA MulIntIsExact ==
    ASSUME NEW m \in Multiplier, NEW n \in Nat
    PROVE  /\ MulInt(m, n) \in Checked
           /\ MulInt(m, n) # Failed => MulInt(m, n) = m * n
  <1>1. CASE m = 0 \/ n = 0
    <2>1. m * n = 0
      BY <1>1 DEF Multiplier
    <2> QED BY <1>1, <2>1, MoneyAssumption
            DEF MulInt, Checked, Multiplier, Failed
  <1>2. CASE m > 0 /\ n > 0
    <2>1. m > MaxInt \div n \/ m * n <= MaxInt
      BY <1>2, QuotientGuard, MoneyAssumption DEF Multiplier
    <2>2. m * n \in Nat
      BY DEF Multiplier
    <2> QED BY <1>2, <2>1, <2>2, MoneyAssumption
            DEF MulInt, Checked, Multiplier, Failed
  <1> QED BY <1>1, <1>2, MoneyAssumption DEF Multiplier

------------------------------------------------------------------------------
(* Induction, and loops.                                                     *)

\* A set of naturals that is not empty has a least member.
LEMMA Least ==
    ASSUME NEW T \in SUBSET Nat, T # {}
    PROVE  \E n \in T : \A m \in T : n <= m
  <1> DEFINE R == OpToRel(<, Nat)
  <1>1. IsWellFoundedOn(R, Nat)
    BY NatLessThanWellFounded, Zenon
  <1>2. ASSUME NEW m \in Nat, NEW n \in Nat, m < n PROVE <<m, n>> \in R
    BY <1>2 DEF OpToRel
  <1> HIDE DEF R
  <1>3. PICK n \in T : \A m \in T : ~(<<m, n>> \in R)
    BY <1>1, WFMin, Zenon
  <1>4. ASSUME NEW m \in T PROVE n <= m
    <2>1. m \in Nat /\ n \in Nat
      OBVIOUS
    <2>2. ~(m < n)
      BY <1>2, <1>3, <2>1
    <2> QED BY <2>1, <2>2
  <1> QED BY <1>4

\* What holds of zero, and of n + 1 if of n, holds of every natural.
LEMMA Induction ==
    ASSUME NEW S \in SUBSET Nat, 0 \in S, \A n \in S : n + 1 \in S
    PROVE  S = Nat
  <1> SUFFICES ASSUME Nat \ S # {} PROVE FALSE
    OBVIOUS
  <1>1. PICK n \in Nat \ S : \A m \in Nat \ S : n <= m
    <2> DEFINE T == Nat \ S
    <2>1. T \in SUBSET Nat /\ T # {}
      OBVIOUS
    <2> HIDE DEF T
    <2>2. \E n \in T : \A m \in T : n <= m
      BY <2>1, Least
    <2> QED BY <2>2 DEF T
  <1>2. n # 0 /\ n - 1 \in Nat /\ n - 1 + 1 = n
    BY <1>1
  <1>3. n - 1 \in S
    BY <1>1, <1>2
  <1> QED BY <1>1, <1>2, <1>3

\* What a loop of n turns over values of D has computed after 0, 1, ... n turns.
Trace(t, n, D, base, step) ==
    /\ t \in [0..n -> D] /\ t[0] = base
    /\ \A i \in 1..n : t[i] = step[<<i, t[i - 1]>>]

\* Every loop has a trace.
LEMMA LoopRuns ==
    ASSUME NEW n \in Nat, NEW D, NEW base \in D, NEW step \in [(1..n) \X D -> D]
    PROVE  \E t : Trace(t, n, D, base, step)
  <1> DEFINE S == {m \in Nat : m <= n => \E t : Trace(t, m, D, base, step)}
  <1>1. 0 \in S
    <2> DEFINE t == [i \in 0..0 |-> base]
    <2>1. Trace(t, 0, D, base, step)
      BY DEF Trace
    <2> QED BY <2>1
  <1>2. ASSUME NEW m \in S PROVE m + 1 \in S
    <2> SUFFICES ASSUME m + 1 <= n
                 PROVE  \E t : Trace(t, m + 1, D, base, step)
      OBVIOUS
    <2>1. m \in Nat /\ m <= n
      OBVIOUS
    <2>2. PICK t : Trace(t, m, D, base, step)
      BY <2>1
    <2>3. /\ t \in [0..m -> D] /\ t[0] = base
          /\ \A i \in 1..m : t[i] = step[<<i, t[i - 1]>>]
      BY <2>2, Zenon DEF Trace
    <2> DEFINE u == [i \in 0..(m + 1) |->
                       IF i = m + 1 THEN step[<<m + 1, t[m]>>] ELSE t[i]]
    <2>4. t[m] \in D /\ step[<<m + 1, t[m]>>] \in D
      <3>1. m \in 0..m /\ m + 1 \in 1..n
        BY <2>1
      <3>2. t[m] \in D
        BY <2>3, <3>1
      <3>3. <<m + 1, t[m]>> \in (1..n) \X D
        BY <3>1, <3>2
      <3> QED BY <3>2, <3>3
    <2>5. /\ u[m + 1] = step[<<m + 1, t[m]>>]
          /\ \A i \in 0..m : u[i] = t[i]
      BY <2>1
    <2>6. u \in [0..(m + 1) -> D]
      BY <2>1, <2>4, <2>3
    <2> HIDE DEF u
    <2>7. u[0] = base
      BY <2>1, <2>5, <2>3
    <2>8. ASSUME NEW i \in 1..(m + 1) PROVE u[i] = step[<<i, u[i - 1]>>]
      <3>1. CASE i = m + 1
        <4>1. i - 1 = m /\ m \in 0..m
          BY <2>1, <3>1
        <4> QED BY <2>5, <3>1, <4>1
      <3>2. CASE i # m + 1
        <4>1. i \in 1..m /\ i \in 0..m /\ i - 1 \in 0..m
          BY <2>1, <3>2
        <4> QED BY <2>3, <2>5, <3>2, <4>1
      <3> QED BY <3>1, <3>2
    <2>9. Trace(u, m + 1, D, base, step)
      BY <2>6, <2>7, <2>8, Zenon DEF Trace
    <2> QED BY <2>9
  <1>3. S = Nat
    BY <1>1, <1>2, Induction
  <1> QED BY <1>3

------------------------------------------------------------------------------
(* Extremes.                                                                 *)

\* A bounded set of naturals has a greatest member, which Max chooses.
LEMMA MaxIs ==
    ASSUME NEW n \in Nat, NEW S \in SUBSET (0..n), S # {}
    PROVE  Max(S) \in S /\ \A x \in S : x <= Max(S)
  <1> DEFINE T == {n - x : x \in S}
  <1>1. T \in SUBSET Nat /\ T # {}
    <2>1. \A x \in S : n - x \in Nat
      OBVIOUS
    <2> QED BY <2>1
  <1>2. PICK k \in T : \A j \in T : k <= j
    <2> HIDE DEF T
    <2> QED BY <1>1, Least
  <1>3. PICK y \in S : k = n - y
    BY <1>2
  <1>4. ASSUME NEW x \in S PROVE y >= x
    <2>1. n - x \in T
      OBVIOUS
    <2>2. n - y <= n - x /\ x \in Int /\ y \in Int
      BY <1>2, <1>3, <2>1
    <2> QED BY <2>2
  <1>5. Max(S) \in S /\ \A x \in S : Max(S) >= x
    BY <1>4, Zenon DEF Max
  <1> QED BY <1>5

\* And any set of naturals a least one, which Min chooses.
LEMMA MinIs ==
    ASSUME NEW S \in SUBSET Nat, S # {}
    PROVE  Min(S) \in S /\ \A x \in S : Min(S) <= x
  <1>1. \E n \in S : \A m \in S : n <= m
    BY Least
  <1> QED BY <1>1, Zenon DEF Min

\* A finite set of naturals is bounded.
LEMMA FiniteIsBounded ==
    ASSUME NEW T \in SUBSET Nat, IsFiniteSet(T)
    PROVE  \E b \in Nat : \A x \in T : x <= b
  <1> DEFINE S == {n \in Nat : \A U \in SUBSET T : IsFiniteSet(U) /\ Cardinality(U) = n
                                 => \E b \in Nat : \A x \in U : x <= b}
  <1>1. 0 \in S
    <2> SUFFICES ASSUME NEW U \in SUBSET T, IsFiniteSet(U), Cardinality(U) = 0
                 PROVE  \E b \in Nat : \A x \in U : x <= b
      OBVIOUS
    <2>1. U = {}
      BY FS_EmptySet
    <2> QED BY <2>1
  <1>2. ASSUME NEW n \in S PROVE n + 1 \in S
    <2> SUFFICES ASSUME NEW U \in SUBSET T, IsFiniteSet(U), Cardinality(U) = n + 1
                 PROVE  \E b \in Nat : \A x \in U : x <= b
      OBVIOUS
    <2>1. n \in Nat /\ U # {}
      BY FS_EmptySet
    <2>2. PICK y \in U : TRUE
      BY <2>1
    <2>3. IsFiniteSet(U \ {y}) /\ Cardinality(U \ {y}) = n
      <3> HIDE DEF S
      <3>1. /\ IsFiniteSet(U \ {y})
            /\ Cardinality(U \ {y}) = Cardinality(U) - 1
        BY <2>2, FS_RemoveElement
      <3> QED BY <2>1, <3>1
    <2>4. PICK b \in Nat : \A x \in U \ {y} : x <= b
      BY <2>3
    <2>5. y \in Nat
      BY <2>2
    <2>6. CASE y <= b
      BY <2>4, <2>6
    <2>7. CASE b < y
      BY <2>4, <2>5, <2>7
    <2> QED BY <2>5, <2>6, <2>7
  <1>3. S = Nat
    <2> HIDE DEF S
    <2>1. S \in SUBSET Nat
      BY DEF S
    <2> QED BY <1>1, <1>2, <2>1, Induction
  <1>4. Cardinality(T) \in S
    BY <1>3, FS_CardinalityType
  <1> QED BY <1>4

------------------------------------------------------------------------------
(* Counting the rows taken out of a reel.                                    *)

\* The rows of a set that are among the n topmost.
Upper(rows, n) == {q \in 1..n : q \in rows}

Gone(rows, n) == Cardinality(Upper(rows, n))

\* One row more is one more gone, if it is.
LEMMA GoneStep ==
    ASSUME NEW rows, NEW n \in Nat
    PROVE  /\ IsFiniteSet(Upper(rows, n)) /\ Gone(rows, n) \in Nat
           /\ Gone(rows, 0) = 0
           /\ Gone(rows, n + 1) = IF n + 1 \in rows THEN Gone(rows, n) + 1
                                                    ELSE Gone(rows, n)
  <1>1. IsFiniteSet(1..n) /\ Upper(rows, n) \in SUBSET (1..n)
    BY FS_Interval DEF Upper
  <1>2. IsFiniteSet(Upper(rows, n))
    BY <1>1, FS_Subset
  <1>3. Gone(rows, n) \in Nat
    BY <1>2, FS_CardinalityType DEF Gone
  <1>4. Gone(rows, 0) = 0
    <2>1. Upper(rows, 0) = {}
      BY DEF Upper
    <2> QED BY <2>1, FS_EmptySet DEF Gone
  <1>5. CASE n + 1 \in rows
    <2>1. Upper(rows, n + 1) = Upper(rows, n) \cup {n + 1}
      BY <1>5 DEF Upper
    <2>2. n + 1 \notin Upper(rows, n)
      BY DEF Upper
    <2>3. Gone(rows, n + 1) = Gone(rows, n) + 1
      BY <1>2, <2>1, <2>2, FS_AddElement DEF Gone
    <2> QED BY <1>2, <1>3, <1>4, <1>5, <2>3
  <1>6. CASE n + 1 \notin rows
    <2>1. Upper(rows, n + 1) = Upper(rows, n)
      BY <1>6 DEF Upper
    <2>2. Gone(rows, n + 1) = Gone(rows, n)
      BY <2>1 DEF Gone
    <2> QED BY <1>2, <1>3, <1>4, <1>6, <2>2
  <1> QED BY <1>5, <1>6

\* Between two rows no more are gone than there are, and one less if the lower
\* one stays.
LEMMA GoneBetween ==
    ASSUME NEW rows, NEW m \in Nat, NEW n \in Nat, m <= n
    PROVE  /\ Gone(rows, m) <= Gone(rows, n)
           /\ Gone(rows, n) - Gone(rows, m) <= n - m
           /\ m < n /\ n \notin rows =>
                 Gone(rows, n) - Gone(rows, m) <= n - m - 1
  <1> DEFINE G(k) == Gone(rows, k)
             S == {k \in Nat : G(m) <= G(m + k) /\ G(m + k) - G(m) <= k}
  <1>1. \A k \in Nat : /\ G(k) \in Nat
                       /\ G(k + 1) = IF k + 1 \in rows THEN G(k) + 1 ELSE G(k)
    BY GoneStep
  <1> HIDE DEF G
  <1>2. 0 \in S
    BY <1>1
  <1>3. ASSUME NEW k \in S PROVE k + 1 \in S
    <2>1. /\ m + k \in Nat /\ (m + k) + 1 = m + (k + 1)
          /\ G(m) <= G(m + k) /\ G(m + k) - G(m) <= k
      OBVIOUS
    <2>2. G(m + (k + 1)) = G(m + k) \/ G(m + (k + 1)) = G(m + k) + 1
      BY <1>1, <2>1
    <2> QED BY <1>1, <2>1, <2>2
  <1>4. S = Nat
    BY <1>2, <1>3, Induction
  <1>5. \A k \in Nat : G(m) <= G(m + k) /\ G(m + k) - G(m) <= k
    BY <1>4
  <1>6. G(m) <= G(n) /\ G(n) - G(m) <= n - m
    <2>1. n - m \in Nat /\ m + (n - m) = n
      OBVIOUS
    <2> QED BY <1>5, <2>1
  <1>7. ASSUME m < n, n \notin rows PROVE G(n) - G(m) <= n - m - 1
    <2>1. (n - 1) - m \in Nat /\ m + ((n - 1) - m) = n - 1 /\ n - 1 \in Nat
          /\ (n - 1) + 1 = n
      BY <1>7
    <2>2. G(n - 1) - G(m) <= (n - 1) - m
      BY <1>5, <2>1
    <2>3. G(n) = G(n - 1)
      BY <1>1, <1>7, <2>1
    <2> QED BY <1>1, <2>1, <2>2, <2>3
  <1> QED BY <1>6, <1>7 DEF G

\* The rows gone below a row are those gone in all but for those above it.
LEMMA GoneBelow ==
    ASSUME NEW rows, NEW n \in Nat, NEW row \in 1..n, row \notin rows
    PROVE  /\ IsFiniteSet({q \in 1..n : q > row /\ q \in rows})
           /\ Cardinality({q \in 1..n : q > row /\ q \in rows}) =
                 Gone(rows, n) - Gone(rows, row)
  <1> DEFINE B == {q \in 1..n : q > row /\ q \in rows}
             U == Upper(rows, n)
             V == Upper(rows, row)
  <1>1. IsFiniteSet(U) /\ IsFiniteSet(V)
    BY GoneStep
  <1>2. B = U \ V /\ U \cap V = V
    BY DEF Upper
  <1> HIDE DEF B, U, V
  <1>3. IsFiniteSet(B) /\ Cardinality(B) = Cardinality(U) - Cardinality(V)
    BY <1>1, <1>2, FS_Difference
  <1> QED BY <1>3 DEF B, U, V, Gone

------------------------------------------------------------------------------
(* What is left of a reel.                                                   *)

\* k holds what is left of the first 0, 1, ... cells of a reel.
KeptIn(k, reel, rows) ==
    k = [n \in 0..Len(reel) |->
           IF n = 0 THEN <<>>
           ELSE IF n \in rows THEN k[n - 1]
           ELSE Append(k[n - 1], reel[n])]

\* The loop over the rows of a reel computes something.
LEMMA KeptExists ==
    ASSUME NEW I, NEW reel \in Seq(I), NEW rows
    PROVE  \E k : KeptIn(k, reel, rows)
  <1> DEFINE L == Len(reel)
             D == Seq(I)
             step == [p \in (1..L) \X D |->
                        IF p[1] \in rows THEN p[2] ELSE Append(p[2], reel[p[1]])]
  <1>1. L \in Nat /\ <<>> \in D
    OBVIOUS
  <1>2. step \in [(1..L) \X D -> D]
    <2>1. ASSUME NEW p \in (1..L) \X D
          PROVE  (IF p[1] \in rows THEN p[2] ELSE Append(p[2], reel[p[1]])) \in D
      <3>1. p[1] \in 1..L /\ p[2] \in D
        OBVIOUS
      <3>2. reel[p[1]] \in I
        BY <3>1
      <3>3. Append(p[2], reel[p[1]]) \in D
        BY <3>1, <3>2
      <3> QED BY <3>1, <3>3
    <2> QED BY <2>1
  <1>3. \A i \in 1..L : \A s \in D :
           step[<<i, s>>] = IF i \in rows THEN s ELSE Append(s, reel[i])
    OBVIOUS
  <1> HIDE DEF D, step, L
  <1>4. PICK t : Trace(t, L, D, <<>>, step)
    BY <1>1, <1>2, LoopRuns
  <1>5. /\ t \in [0..L -> D] /\ t[0] = <<>>
        /\ \A i \in 1..L : t[i] = step[<<i, t[i - 1]>>]
    BY <1>4, Zenon DEF Trace
  <1> DEFINE u == [n \in 0..L |-> IF n = 0 THEN <<>>
                                  ELSE IF n \in rows THEN t[n - 1]
                                  ELSE Append(t[n - 1], reel[n])]
  <1>6. ASSUME NEW n \in 0..L PROVE t[n] = u[n]
    <2>1. CASE n = 0
      BY <1>5, <2>1
    <2>2. CASE n # 0
      <3>1. n \in 1..L /\ n - 1 \in 0..L
        BY <1>1, <2>2
      <3>2. t[n - 1] \in D
        BY <1>5, <3>1
      <3> QED BY <1>3, <1>5, <2>2, <3>1, <3>2
    <2> QED BY <2>1, <2>2
  <1>7. t = u
    BY <1>5, <1>6
  <1>8. KeptIn(t, reel, rows)
    BY <1>7, Zenon DEF KeptIn, L
  <1> QED BY <1>8, Zenon

\* Every row that stays is found, in order, higher by the rows gone above it.
LEMMA SurvivorsAre ==
    ASSUME NEW I, NEW reel \in Seq(I), NEW rows
    PROVE  /\ Survivors(reel, rows) \in Seq(I)
           /\ Len(Survivors(reel, rows)) = Len(reel) - Gone(rows, Len(reel))
           /\ \A row \in 1..Len(reel) : row \notin rows =>
                 /\ row - Gone(rows, row) \in 1..Len(Survivors(reel, rows))
                 /\ Survivors(reel, rows)[row - Gone(rows, row)] = reel[row]
  <1> DEFINE L == Len(reel)
             k == CHOOSE t : KeptIn(t, reel, rows)
             G(n) == Gone(rows, n)
             H(n) == /\ k[n] \in Seq(I) /\ Len(k[n]) = n - G(n)
                     /\ \A row \in 1..n : row \notin rows =>
                           /\ row - G(row) \in 1..Len(k[n])
                           /\ k[n][row - G(row)] = reel[row]
             S == {n \in Nat : n <= L => H(n)}
  <1>1. KeptIn(k, reel, rows)
    BY KeptExists, Zenon
  <1>2. Survivors(reel, rows) = k[L]
    BY Zenon DEF Survivors, KeptIn
  <1>3. /\ L \in Nat /\ k[0] = <<>>
        /\ \A n \in 1..L : k[n] = IF n \in rows THEN k[n - 1]
                                  ELSE Append(k[n - 1], reel[n])
    <2> HIDE DEF k
    <2>1. k = [n \in 0..L |-> IF n = 0 THEN <<>> ELSE IF n \in rows THEN k[n - 1]
                              ELSE Append(k[n - 1], reel[n])]
      BY <1>1, Zenon DEF KeptIn
    <2>2. L \in Nat
      OBVIOUS
    <2> HIDE DEF L
    <2>3. 0 \in 0..L /\ \A n \in 1..L : n \in 0..L /\ n # 0
      BY <2>2
    <2> QED BY <2>1, <2>2, <2>3, Zenon
  <1>4. /\ G(0) = 0
        /\ \A n \in Nat : /\ G(n) \in Nat
                          /\ G(n + 1) = IF n + 1 \in rows THEN G(n) + 1 ELSE G(n)
    BY GoneStep
  <1>5. \A n \in 1..L : reel[n] \in I
    OBVIOUS
  <1> HIDE DEF k, G, L
  <1>6. 0 \in S
    <2>1. k[0] \in Seq(I) /\ Len(k[0]) = 0 - G(0)
      BY <1>3, <1>4
    <2>2. \A row \in 1..0 : FALSE
      OBVIOUS
    <2> QED BY <2>1, <2>2, Zenon
  <1>7. ASSUME NEW n \in S PROVE n + 1 \in S
    <2> SUFFICES ASSUME n + 1 <= L PROVE H(n + 1)
      OBVIOUS
    <2>1. /\ n \in Nat /\ H(n) /\ n + 1 \in 1..L /\ (n + 1) - 1 = n
          /\ G(n) \in Nat
      BY <1>3, <1>4
    <2>2. CASE n + 1 \in rows
      <3>1. k[n + 1] = k[n] /\ G(n + 1) = G(n) + 1
        BY <1>3, <1>4, <2>1, <2>2
      <3>2. Len(k[n + 1]) = n - G(n)
        BY <2>1, <3>1
      <3> QED BY <2>1, <2>2, <3>1, <3>2
    <2>3. CASE n + 1 \notin rows
      <3>1. k[n + 1] = Append(k[n], reel[n + 1]) /\ G(n + 1) = G(n)
        BY <1>3, <1>4, <2>1, <2>3
      <3>2. k[n] \in Seq(I) /\ reel[n + 1] \in I /\ Len(k[n]) = n - G(n)
        BY <1>5, <2>1
      <3>3. /\ k[n + 1] \in Seq(I) /\ Len(k[n + 1]) = (n - G(n)) + 1
            /\ k[n + 1][(n - G(n)) + 1] = reel[n + 1]
            /\ \A i \in 1..(n - G(n)) : k[n + 1][i] = k[n][i]
        BY <3>1, <3>2, AppendProperties
      <3>4. (n - G(n)) + 1 = (n + 1) - G(n + 1) /\ n - G(n) \in Nat
        BY <2>1, <3>1, <3>2, LenProperties
      <3>5. ASSUME NEW row \in 1..(n + 1), row \notin rows
            PROVE  /\ row - G(row) \in 1..Len(k[n + 1])
                   /\ k[n + 1][row - G(row)] = reel[row]
        <4>1. CASE row = n + 1
          BY <3>3, <3>4, <4>1
        <4>2. CASE row # n + 1
          <5>1. row \in 1..n
            BY <2>1, <4>2
          <5>2. row - G(row) \in 1..(n - G(n)) /\ k[n][row - G(row)] = reel[row]
            BY <2>1, <3>2, <3>5, <5>1
          <5> QED BY <3>3, <3>4, <5>2
        <4> QED BY <4>1, <4>2
      <3> QED BY <3>3, <3>4, <3>5
    <2> QED BY <2>2, <2>3
  <1>8. S = Nat
    BY <1>6, <1>7, Induction
  <1>9. H(L)
    BY <1>3, <1>8
  <1> QED BY <1>2, <1>9 DEF L, G

\* The rows gone below a row, and where it lands.
Under(reel, rows, row) == {q \in DOMAIN reel : q > row /\ q \in rows}

Landing(reel, rows, row) == row + Cardinality(Under(reel, rows, row))

\* The holes of c on top, and below them each row that stays of a reel has
\* fallen by the rows gone below it.
Collapses(c, I, reel, rows) ==
    /\ c \in Seq(I \cup {Hole}) /\ Len(c) = Len(reel)
    /\ Gone(rows, Len(reel)) \in 0..Len(reel)
    /\ \A i \in 1..Gone(rows, Len(reel)) : c[i] = Hole
    /\ \A i \in (Gone(rows, Len(reel)) + 1)..Len(reel) : c[i] \in I
    /\ \A row \in DOMAIN reel : row \notin rows =>
          /\ Landing(reel, rows, row) \in (Gone(rows, Len(reel)) + 1)..Len(reel)
          /\ c[Landing(reel, rows, row)] = reel[row]

\* That is what becomes of a reel.
LEMMA CollapsedReelIs ==
    ASSUME NEW I, NEW reel \in Seq(I), NEW rows
    PROVE  Collapses(CollapsedReel(reel, rows), I, reel, rows)
  <1> DEFINE L == Len(reel)
             K == Survivors(reel, rows)
             h == Gone(rows, L)
             T == HolesOf(reel, rows)
             C == CollapsedReel(reel, rows)
             J == I \cup {Hole}
  <1>1. /\ K \in Seq(I) /\ Len(K) = L - h
        /\ \A row \in 1..L : row \notin rows =>
              /\ row - Gone(rows, row) \in 1..Len(K)
              /\ K[row - Gone(rows, row)] = reel[row]
    BY SurvivorsAre, Zenon
  <1>2. L \in Nat /\ h \in Nat /\ h = L - Len(K) /\ Len(K) \in Nat
    <2>1. L \in Nat
      OBVIOUS
    <2>2. h \in Nat
      BY <2>1, GoneStep
    <2>3. Len(K) \in Nat
      BY <1>1, LenProperties
    <2> HIDE DEF L, K, h
    <2> QED BY <1>1, <2>1, <2>2, <2>3
  <1>3. T = [i \in 1..h |-> Hole]
    BY <1>2, Zenon DEF HolesOf
  <1>4. DOMAIN reel = 1..L
    OBVIOUS
  <1>5. C = T \o K
    BY DEF CollapsedReel
  <1> HIDE DEF L, K, h, T, C
  <1>6. T \in Seq(J) /\ Len(T) = h /\ \A i \in 1..h : T[i] = Hole
    BY <1>2, <1>3
  <1>7. K \in Seq(J) /\ \A i \in 1..Len(K) : K[i] \in I
    BY <1>1
  <1> HIDE DEF J
  <1>8. /\ C \in Seq(J) /\ Len(C) = h + Len(K)
        /\ \A i \in 1..(h + Len(K)) : C[i] = IF i <= h THEN T[i] ELSE K[i - h]
    <2>1. /\ T \o K \in Seq(J) /\ Len(T \o K) = Len(T) + Len(K)
          /\ \A i \in 1..(Len(T) + Len(K)) :
                (T \o K)[i] = IF i <= Len(T) THEN T[i] ELSE K[i - Len(T)]
      BY <1>6, <1>7, ConcatProperties
    <2> QED BY <1>5, <1>6, <2>1
  <1>9. Len(C) = L /\ h \in 0..L
    BY <1>2, <1>8
  <1>10. ASSUME NEW i \in 1..h PROVE C[i] = Hole
    <2>1. i <= h /\ i \in 1..(h + Len(K))
      BY <1>2
    <2> QED BY <1>6, <1>8, <2>1
  <1>11. ASSUME NEW i \in (h + 1)..L PROVE C[i] \in I
    <2>1. i - h \in 1..Len(K) /\ ~(i <= h) /\ i \in 1..(h + Len(K))
      BY <1>2
    <2> QED BY <1>7, <1>8, <2>1
  <1>12. ASSUME NEW row \in 1..L, row \notin rows
         PROVE  /\ Landing(reel, rows, row) \in (h + 1)..L
                /\ C[Landing(reel, rows, row)] = reel[row]
    <2> DEFINE n == row - Gone(rows, row)
    <2>1. n \in 1..Len(K) /\ K[n] = reel[row]
      BY <1>1, <1>12
    <2>2. Landing(reel, rows, row) = row + (h - Gone(rows, row))
      <3>1. Under(reel, rows, row) = {q \in 1..L : q > row /\ q \in rows}
        BY <1>4, Zenon DEF Under
      <3>2. Cardinality({q \in 1..L : q > row /\ q \in rows}) =
               Gone(rows, L) - Gone(rows, row)
        BY <1>2, <1>12, GoneBelow
      <3> QED BY <3>1, <3>2, Zenon DEF Landing, h
    <2>3. Gone(rows, row) \in Nat
      BY GoneStep
    <2>4. Landing(reel, rows, row) = h + n /\ n \in Nat
      BY <1>2, <2>1, <2>2, <2>3
    <2> HIDE DEF n
    <2>5. h + n \in (h + 1)..L /\ ~(h + n <= h) /\ (h + n) - h = n
          /\ h + n \in 1..(h + Len(K))
      BY <1>2, <2>1
    <2> QED BY <1>8, <2>1, <2>4, <2>5
  <1> QED BY <1>4, <1>8, <1>9, <1>10, <1>11, <1>12, Zenon
          DEF Collapses, C, h, L, J

\* No two rows that stay land on the same.
LEMMA LandingsDiffer ==
    ASSUME NEW I, NEW reel \in Seq(I), NEW rows,
           NEW m \in DOMAIN reel, NEW n \in DOMAIN reel, m < n,
           m \notin rows, n \notin rows
    PROVE  Landing(reel, rows, m) # Landing(reel, rows, n)
  <1> DEFINE L == Len(reel)
  <1>1. L \in Nat /\ DOMAIN reel = 1..L /\ m \in 1..L /\ n \in 1..L
    OBVIOUS
  <1>2. \A k \in 1..L : k \notin rows =>
           Landing(reel, rows, k) = k + (Gone(rows, L) - Gone(rows, k))
    <2> TAKE k \in 1..L
    <2> HAVE k \notin rows
    <2>1. Under(reel, rows, k) = {q \in 1..L : q > k /\ q \in rows}
      BY <1>1, Zenon DEF Under
    <2>2. Cardinality({q \in 1..L : q > k /\ q \in rows}) =
             Gone(rows, L) - Gone(rows, k)
      BY <1>1, GoneBelow
    <2> QED BY <2>1, <2>2, Zenon DEF Landing
  <1>3. \A k \in Nat : Gone(rows, k) \in Nat
    BY GoneStep
  <1>4. Gone(rows, n) - Gone(rows, m) <= n - m - 1
    BY <1>1, GoneBetween
  <1>5. /\ Gone(rows, L) \in Nat /\ Gone(rows, m) \in Nat
        /\ Gone(rows, n) \in Nat
    BY <1>1, <1>3
  <1> HIDE DEF L
  <1>6. /\ Landing(reel, rows, m) = m + (Gone(rows, L) - Gone(rows, m))
        /\ Landing(reel, rows, n) = n + (Gone(rows, L) - Gone(rows, n))
    BY <1>1, <1>2
  <1> QED BY <1>1, <1>4, <1>5, <1>6

------------------------------------------------------------------------------
(* Definitions and grids.                                                    *)

CatalogIds(d) == {d.catalog[k].id : k \in DOMAIN d.catalog}

\* A grid that was generated or refilled, or the first reels of one.
Reels(d, g) ==
    /\ g \in Seq(Seq(CatalogIds(d))) /\ Len(g) <= Len(d.strips)
    /\ \A r \in 1..Len(g) : Len(g[r]) \in d.rows

Whole(d, g) == Reels(d, g) /\ Len(g) = Len(d.strips)

\* What the assumption says of a game.
LEMMA GameIs ==
    ASSUME NEW d \in Games
    PROVE  /\ d.strips \in Seq(Seq(Symbols)) /\ Len(d.strips) \in Nat
           /\ DOMAIN d.strips = 1..Len(d.strips)
           /\ d.minMatch \in Nat /\ d.minMatch >= 1
           /\ d.minMatch <= Len(d.strips)
           /\ d.rows \in SUBSET Nat /\ 0 \notin d.rows /\ d.rows # {}
           /\ IsFiniteSet(d.rows)
           /\ d.maxCascades \in Nat
           /\ CatalogIds(d) \subseteq Symbols /\ Hole \notin CatalogIds(d)
           /\ d.catalog \in
                 Seq([id : Symbols, kind : Kinds, pays : Seq(Multiplier)])
           /\ d.substitutes \in [Symbols -> SUBSET Symbols]
           /\ d.thresholds \in
                 Seq([count : Nat \ {0}, payout : Multiplier, award : Int])
  <1>1. d \in Game /\ WellFormed(d)
    BY GridAssumption
  <1>2. /\ d.strips \in Seq(Seq(Symbols)) /\ d.minMatch \in Nat \ {0}
        /\ d.rows \in SUBSET Nat /\ d.maxCascades \in Nat
        /\ d.catalog \in
              Seq([id : Symbols, kind : Kinds, pays : Seq(Multiplier)])
        /\ d.substitutes \in [Symbols -> SUBSET Symbols]
        /\ d.thresholds \in
              Seq([count : Nat \ {0}, payout : Multiplier, award : Int])
    BY <1>1, Zenon DEF Game
  <1>3. /\ d.rows # {} /\ 0 \notin d.rows /\ IsFiniteSet(d.rows)
        /\ d.minMatch <= Len(d.strips)
    BY <1>1, Zenon DEF WellFormed
  <1>4. CatalogIds(d) \subseteq Symbols
    <2> DEFINE E == [id : Symbols, kind : Kinds, pays : Seq(Multiplier)]
    <2> SUFFICES ASSUME NEW k \in DOMAIN d.catalog
                 PROVE  d.catalog[k].id \in Symbols
      BY DEF CatalogIds
    <2>1. d.catalog \in Seq(E)
      BY <1>2, Zenon
    <2>2. d.catalog[k] \in E
      <3> HIDE DEF E
      <3> QED BY <2>1
    <2> QED BY <2>2, Zenon
  <1>5. Hole \notin CatalogIds(d)
    BY <1>4, GridAssumption, Zenon
  <1>6. Len(d.strips) \in Nat /\ DOMAIN d.strips = 1..Len(d.strips)
    BY <1>2
  <1>7. d.minMatch \in Nat /\ d.minMatch >= 1
    BY <1>2
  <1> QED BY <1>2, <1>3, <1>4, <1>5, <1>6, <1>7, Zenon

\* What it says of the entries of the catalog.
LEMMA EntriesAre ==
    ASSUME NEW d \in Games, NEW i \in DOMAIN d.catalog
    PROVE  LET e == d.catalog[i] IN
           /\ e.id \in Symbols /\ e.pays \in Seq(Multiplier)
           /\ Len(e.pays) \in {0, Len(d.strips)}
           /\ e.kind # "regular" => d.substitutes[e.id] = {}
           /\ e.id \in d.scatters => e.kind = "scatter"
           /\ \A s \in Symbols : e.id \in d.substitutes[s] => e.kind = "wild"
           /\ \A j \in DOMAIN d.catalog : d.catalog[j].id = e.id => j = i
  <1>1. WellFormed(d)
    BY GridAssumption
  <1> DEFINE E == [id : Symbols, kind : Kinds, pays : Seq(Multiplier)]
  <1>2. d.catalog \in Seq(E)
    BY GameIs
  <1>3. d.catalog[i] \in E
    <2> HIDE DEF E
    <2> QED BY <1>2
  <1>4. d.catalog[i].id \in Symbols /\ d.catalog[i].pays \in Seq(Multiplier)
    BY <1>3, Zenon
  <1>5. /\ Len(d.catalog[i].pays) \in {0, Len(d.strips)}
        /\ d.catalog[i].kind # "regular" =>
              d.substitutes[d.catalog[i].id] = {}
        /\ d.catalog[i].id \in d.scatters => d.catalog[i].kind = "scatter"
        /\ \A s \in Symbols : d.catalog[i].id \in d.substitutes[s] =>
              d.catalog[i].kind = "wild"
    BY <1>1, Zenon DEF WellFormed
  <1>6. \A j \in DOMAIN d.catalog :
           d.catalog[j].id = d.catalog[i].id => j = i
    BY <1>1, Zenon DEF WellFormed
  <1> QED BY <1>4, <1>5, <1>6, Zenon

\* A strip holds symbols of the catalog, and at least one.
LEMMA StripsAre ==
    ASSUME NEW d \in Games, NEW r \in DOMAIN d.strips
    PROVE  d.strips[r] \in Seq(CatalogIds(d)) /\ Len(d.strips[r]) \in Nat \ {0}
  <1>1. WellFormed(d)
    BY GridAssumption
  <1>2. /\ \E n \in d.rows : n <= Len(d.strips[r])
        /\ \A j \in DOMAIN d.strips[r] :
              \E k \in DOMAIN d.catalog : d.catalog[k].id = d.strips[r][j]
    BY <1>1, Zenon DEF WellFormed
  <1>3. d.strips[r] \in Seq(Symbols)
    BY GameIs
  <1>4. Len(d.strips[r]) \in Nat \ {0}
    <2>1. \A n \in d.rows : n \in Nat /\ n # 0
      BY GameIs
    <2> QED BY <1>2, <1>3, <2>1
  <1>5. \A j \in 1..Len(d.strips[r]) : d.strips[r][j] \in CatalogIds(d)
    BY <1>2, <1>3 DEF CatalogIds
  <1> QED BY <1>3, <1>4, <1>5

\* No reel is taller than the tallest window.
LEMMA RowsAre ==
    ASSUME NEW d \in Games
    PROVE  Max(d.rows) \in Nat /\ \A n \in d.rows : n \in 1..Max(d.rows)
  <1>1. d.rows \in SUBSET Nat /\ d.rows # {} /\ IsFiniteSet(d.rows)
        /\ 0 \notin d.rows
    BY GameIs
  <1>2. PICK b \in Nat : \A n \in d.rows : n <= b
    BY <1>1, FiniteIsBounded
  <1>3. d.rows \in SUBSET (0..b)
    BY <1>1, <1>2
  <1>4. Max(d.rows) \in d.rows /\ \A n \in d.rows : n <= Max(d.rows)
    BY <1>1, <1>2, <1>3, MaxIs
  <1> QED BY <1>1, <1>4

\* A reel of a grid, and how tall it can be.
LEMMA ReelIs ==
    ASSUME NEW d \in Games, NEW g, Reels(d, g), NEW r \in 1..Len(g)
    PROVE  /\ g[r] \in Seq(CatalogIds(d)) /\ Len(g[r]) \in d.rows
           /\ Len(g[r]) \in 1..Max(d.rows) /\ DOMAIN g[r] = 1..Len(g[r])
           /\ DOMAIN g = 1..Len(g) /\ Len(g) \in Nat
           /\ r \in DOMAIN d.strips
  <1> DEFINE R == Seq(CatalogIds(d))
  <1>1. g \in Seq(R) /\ Len(g) <= Len(d.strips) /\ Len(g[r]) \in d.rows
    BY Zenon DEF Reels
  <1>2. Len(d.strips) \in Nat /\ DOMAIN d.strips = 1..Len(d.strips)
    BY GameIs
  <1>3. Len(g[r]) \in 1..Max(d.rows)
    BY <1>1, RowsAre
  <1>4. g[r] \in R /\ DOMAIN g = 1..Len(g) /\ Len(g) \in Nat
    <2> HIDE DEF R
    <2> QED BY <1>1
  <1>5. DOMAIN g[r] = 1..Len(g[r])
    BY <1>4
  <1>6. r \in DOMAIN d.strips
    BY <1>1, <1>2, <1>4
  <1> QED BY <1>1, <1>3, <1>4, <1>5, <1>6, Zenon

------------------------------------------------------------------------------
(* The reels a symbol reaches.                                               *)

\* The cells that match on one reel are finitely many.
LEMMA MatchingIs ==
    ASSUME NEW d \in Games, NEW g, Reels(d, g), NEW r \in 1..Len(g), NEW S
    PROVE  /\ Matching(g, r, S) \subseteq 1..Max(d.rows)
           /\ Matching(g, r, S) \subseteq DOMAIN g[r]
           /\ IsFiniteSet(Matching(g, r, S))
           /\ Cardinality(Matching(g, r, S)) \in Nat
  <1>1. Len(g[r]) \in 1..Max(d.rows) /\ DOMAIN g[r] = 1..Len(g[r])
    BY ReelIs
  <1>2. Max(d.rows) \in Nat
    BY RowsAre
  <1>3. Matching(g, r, S) \subseteq DOMAIN g[r]
    BY DEF Matching
  <1>4. Matching(g, r, S) \in SUBSET (1..Max(d.rows))
    BY <1>1, <1>2, <1>3
  <1>5. IsFiniteSet(1..Max(d.rows))
    BY <1>2, FS_Interval
  <1>6. IsFiniteSet(Matching(g, r, S))
    BY <1>4, <1>5, FS_Subset
  <1>7. Cardinality(Matching(g, r, S)) \in Nat
    BY <1>6, FS_CardinalityType
  <1> QED BY <1>3, <1>4, <1>6, <1>7

\* A symbol reaches the reels up to the first without a match.
LEMMA MatchedIs ==
    ASSUME NEW g, Len(g) \in Nat, NEW S
    PROVE  LET n == MatchedReels(g, S) IN
           /\ n \in 0..Len(g)
           /\ \A r \in 1..n : Matching(g, r, S) # {}
  <1> DEFINE T == {n \in 0..Len(g) : \A r \in 1..n : Matching(g, r, S) # {}}
  <1>1. T \in SUBSET (0..Len(g))
    OBVIOUS
  <1>2. 0 \in T
    OBVIOUS
  <1>3. MatchedReels(g, S) = Max(T)
    BY Zenon DEF MatchedReels
  <1>4. Max(T) \in T
    <2> HIDE DEF T
    <2> QED BY <1>1, <1>2, MaxIs
  <1> QED BY <1>3, <1>4

------------------------------------------------------------------------------
(* Paths and ways.                                                           *)

\* A set in one-to-one correspondence with a finite one has its size.
LEMMA SameSize ==
    ASSUME NEW S, NEW T, IsFiniteSet(S), NEW f \in [S -> T],
           \A x, y \in S : f[x] = f[y] => x = y,
           \A y \in T : \E x \in S : f[x] = y
    PROVE  IsFiniteSet(T) /\ Cardinality(T) = Cardinality(S)
  <1>1. f \in Bijection(S, T)
    BY Fun_IsBij
  <1>2. ExistsBijection(S, T)
    BY <1>1, Zenon DEF ExistsBijection
  <1> QED BY <1>2, FS_Bijection

\* A set in one-to-one correspondence with a part of a finite one is no larger.
LEMMA NoLarger ==
    ASSUME NEW S, NEW T, IsFiniteSet(T), NEW f \in [S -> T],
           \A x, y \in S : f[x] = f[y] => x = y
    PROVE  IsFiniteSet(S) /\ Cardinality(S) <= Cardinality(T)
  <1>1. f \in Injection(S, T)
    BY Fun_IsInj
  <1> QED BY <1>1, FS_Injection

\* No cell is chosen on no reel, in one way.
LEMMA NoPath ==
    ASSUME NEW d \in Games, NEW g, NEW S
    PROVE  /\ IsFiniteSet(Paths(d, g, S, 0))
           /\ Cardinality(Paths(d, g, S, 0)) = 1
  <1> DEFINE e == [i \in 1..0 |-> 1]
  <1>1. 1..0 = {}
    OBVIOUS
  <1>2. \A p \in [1..0 -> 1..Max(d.rows)] : p = e
    BY <1>1
  <1>3. e \in [1..0 -> 1..Max(d.rows)]
    BY <1>1
  <1>4. Paths(d, g, S, 0) = {e}
    BY <1>1, <1>2, <1>3 DEF Paths
  <1> QED BY <1>4, FS_Singleton

\* A path to one more reel is a path and a cell that matches there.
LEMMA PathsStep ==
    ASSUME NEW d \in Games, NEW g, Reels(d, g), NEW S,
           NEW k \in Nat, k + 1 <= Len(g), IsFiniteSet(Paths(d, g, S, k))
    PROVE  /\ IsFiniteSet(Paths(d, g, S, k + 1))
           /\ Cardinality(Paths(d, g, S, k + 1)) =
                 Cardinality(Paths(d, g, S, k)) *
                    Cardinality(Matching(g, k + 1, S))
  <1> DEFINE M == Matching(g, k + 1, S)
             P == Paths(d, g, S, k)
             Q == Paths(d, g, S, k + 1)
             H == 1..Max(d.rows)
             f == [p \in P \X M |->
                     [r \in 1..(k + 1) |-> IF r = k + 1 THEN p[2] ELSE p[1][r]]]
  <1>1. k + 1 \in 1..Len(g)
    <2>1. Len(g) \in Nat
      <3>1. g \in Seq(Seq(CatalogIds(d)))
        BY Zenon DEF Reels
      <3> QED BY <3>1
    <2> QED BY <2>1
  <1>2. M \subseteq H /\ M \subseteq DOMAIN g[k + 1] /\ IsFiniteSet(M)
    BY <1>1, MatchingIs
  <1>3. \A x \in M : g[k + 1][x] \in S
    BY DEF Matching
  <1>4. \A x \in DOMAIN g[k + 1] : g[k + 1][x] \in S => x \in M
    BY DEF Matching
  <1>5. \A p : p \in P <=> /\ p \in [1..k -> H]
                           /\ \A r \in 1..k : p[r] \in DOMAIN g[r] /\ g[r][p[r]] \in S
    BY DEF Paths
  <1>6. \A p : p \in Q <=> /\ p \in [1..(k + 1) -> H]
                           /\ \A r \in 1..(k + 1) :
                                 p[r] \in DOMAIN g[r] /\ g[r][p[r]] \in S
    BY DEF Paths
  <1>7. IsFiniteSet(P \X M) /\ Cardinality(P \X M) = Cardinality(P) * Cardinality(M)
    BY <1>2, FS_Product
  <1> HIDE DEF M, P, Q, H
  <1>8. \A r \in 1..(k + 1) : r = k + 1 \/ r \in 1..k
    OBVIOUS
  <1>9. \A r \in 1..k : r \in 1..(k + 1) /\ r # k + 1
    OBVIOUS
  <1>10. k + 1 \in 1..(k + 1)
    OBVIOUS
  <1>11. ASSUME NEW p \in P, NEW m \in M
         PROVE  /\ f[<<p, m>>][k + 1] = m
                /\ \A r \in 1..k : f[<<p, m>>][r] = p[r]
                /\ f[<<p, m>>] \in [1..(k + 1) -> H]
                /\ f[<<p, m>>] \in Q
    <2>1. f[<<p, m>>] = [r \in 1..(k + 1) |-> IF r = k + 1 THEN m ELSE p[r]]
      OBVIOUS
    <2> DEFINE u == f[<<p, m>>]
    <2> HIDE DEF f
    <2>2. u[k + 1] = m /\ \A r \in 1..k : u[r] = p[r]
      BY <1>9, <1>10, <2>1
    <2>3. \A r \in 1..(k + 1) : u[r] \in H
      BY <1>2, <1>5, <1>8, <2>2
    <2>4. u \in [1..(k + 1) -> H]
      BY <2>1, <2>3
    <2>5. \A r \in 1..(k + 1) : u[r] \in DOMAIN g[r] /\ g[r][u[r]] \in S
      BY <1>2, <1>3, <1>5, <1>8, <2>2
    <2> QED BY <1>6, <2>2, <2>4, <2>5
  <1>12. f \in [P \X M -> Q]
    <2>1. \A x \in P \X M : f[x] \in Q
      <3> TAKE x \in P \X M
      <3>1. x[1] \in P /\ x[2] \in M /\ x = <<x[1], x[2]>>
        OBVIOUS
      <3> HIDE DEF f
      <3> QED BY <1>11, <3>1
    <2>2. f = [x \in P \X M |-> f[x]]
      OBVIOUS
    <2> HIDE DEF f
    <2> QED BY <2>1, <2>2
  <1> HIDE DEF f
  <1>13. \A x, y \in P \X M : f[x] = f[y] => x = y
    <2> SUFFICES ASSUME NEW x \in P \X M, NEW y \in P \X M, f[x] = f[y]
                 PROVE  x = y
      OBVIOUS
    <2>1. PICK p \in P, m \in M : x = <<p, m>>
      OBVIOUS
    <2>2. PICK q \in P, n \in M : y = <<q, n>>
      OBVIOUS
    <2>3. m = n
      BY <1>11, <2>1, <2>2
    <2>4. \A r \in 1..k : p[r] = q[r]
      BY <1>11, <2>1, <2>2
    <2>5. p \in [1..k -> H] /\ q \in [1..k -> H]
      BY <1>5
    <2>6. p = q
      BY <2>4, <2>5
    <2> QED BY <2>1, <2>2, <2>3, <2>6
  <1>14. \A q \in Q : \E x \in P \X M : f[x] = q
    <2> TAKE q \in Q
    <2> DEFINE p == [r \in 1..k |-> q[r]]
    <2>1. /\ q \in [1..(k + 1) -> H]
          /\ \A r \in 1..(k + 1) : q[r] \in DOMAIN g[r] /\ g[r][q[r]] \in S
      BY <1>6
    <2>2. p \in P
      <3>1. \A r \in 1..k : q[r] \in H
        BY <1>9, <2>1
      <3>2. p \in [1..k -> H] /\ \A r \in 1..k : p[r] = q[r]
        BY <3>1
      <3> HIDE DEF p
      <3> QED BY <1>5, <1>9, <2>1, <3>2
    <2>3. q[k + 1] \in M
      BY <1>4, <1>10, <2>1
    <2>4. \A r \in 1..k : p[r] = q[r]
      OBVIOUS
    <2> HIDE DEF p
    <2> DEFINE u == f[<<p, q[k + 1]>>]
    <2>5. /\ u[k + 1] = q[k + 1] /\ \A r \in 1..k : u[r] = p[r]
          /\ u \in [1..(k + 1) -> H]
      BY <1>11, <2>2, <2>3
    <2> HIDE DEF u
    <2>6. \A r \in 1..(k + 1) : u[r] = q[r]
      BY <1>8, <2>4, <2>5
    <2>7. u = q
      BY <2>1, <2>5, <2>6
    <2> QED BY <2>2, <2>3, <2>7 DEF u
  <1>15. IsFiniteSet(Q) /\ Cardinality(Q) = Cardinality(P \X M)
    <2> DEFINE X == P \X M
    <2>1. /\ IsFiniteSet(X) /\ f \in [X -> Q]
          /\ \A x, y \in X : f[x] = f[y] => x = y
          /\ \A q \in Q : \E x \in X : f[x] = q
      BY <1>7, <1>12, <1>13, <1>14
    <2> HIDE DEF X
    <2>2. IsFiniteSet(Q) /\ Cardinality(Q) = Cardinality(X)
      BY <2>1, SameSize, Zenon
    <2> QED BY <2>2 DEF X
  <1> QED BY <1>7, <1>15, Zenon DEF P, Q, M

\* A path crosses the first k reels if and only if each has a match.
LEMMA PathsReach ==
    ASSUME NEW d \in Games, NEW g, Reels(d, g), NEW S, NEW k \in 0..Len(g)
    PROVE  Paths(d, g, S, k) # {} <=> \A r \in 1..k : Matching(g, r, S) # {}
  <1>1. \A r \in 1..k : r \in 1..Len(g)
    <2>1. Len(g) \in Nat
      <3>1. g \in Seq(Seq(CatalogIds(d)))
        BY Zenon DEF Reels
      <3> QED BY <3>1
    <2> QED BY <2>1
  <1>2. \A r \in 1..k : /\ Matching(g, r, S) \subseteq 1..Max(d.rows)
                        /\ Matching(g, r, S) \subseteq DOMAIN g[r]
    BY <1>1, MatchingIs
  <1>3. ASSUME NEW p \in Paths(d, g, S, k), NEW r \in 1..k
        PROVE  Matching(g, r, S) # {}
    <2>1. p[r] \in DOMAIN g[r] /\ g[r][p[r]] \in S
      BY DEF Paths
    <2> QED BY <2>1 DEF Matching
  <1>4. ASSUME \A r \in 1..k : Matching(g, r, S) # {}
        PROVE  Paths(d, g, S, k) # {}
    <2> DEFINE p == [r \in 1..k |-> CHOOSE x \in Matching(g, r, S) : TRUE]
    <2>1. \A r \in 1..k : p[r] \in Matching(g, r, S)
      BY <1>4
    <2>2. p = [r \in 1..k |-> p[r]]
      OBVIOUS
    <2> HIDE DEF p
    <2>3. p \in [1..k -> 1..Max(d.rows)]
      BY <1>2, <2>1, <2>2
    <2>4. \A r \in 1..k : p[r] \in DOMAIN g[r] /\ g[r][p[r]] \in S
      BY <2>1 DEF Matching
    <2>5. p \in Paths(d, g, S, k)
      BY <2>3, <2>4 DEF Paths
    <2> QED BY <2>5
  <1> QED BY <1>3, <1>4

\* A checked product that did not fail is the product.
LEMMA TimesIs ==
    ASSUME NEW m \in Checked, NEW n \in Nat
    PROVE  /\ Times(m, n) \in Checked
           /\ Times(m, n) # Failed => m # Failed /\ Times(m, n) = m * n
  <1>1. CASE m = Failed
    BY <1>1 DEF Times, Checked
  <1>2. CASE m # Failed
    <2>1. m \in Multiplier
      BY <1>2 DEF Checked
    <2>2. /\ MulInt(m, n) \in Checked
          /\ MulInt(m, n) # Failed => MulInt(m, n) = m * n
      BY <2>1, MulIntIsExact
    <2>3. Times(m, n) = MulInt(m, n)
      BY <1>2 DEF Times
    <2> QED BY <1>2, <2>2, <2>3, Zenon
  <1> QED BY <1>1, <1>2

\* w holds the ways over the first 0, 1, ... n reels.
WaysIn(w, g, S, n) ==
    w = [k \in 0..n |-> IF k = 0 THEN 1
                        ELSE Times(w[k - 1], Cardinality(Matching(g, k, S)))]

\* The loop over the reels computes something.
LEMMA WaysExist ==
    ASSUME NEW g, NEW S, NEW n \in Nat,
           \A k \in 1..n : Cardinality(Matching(g, k, S)) \in Nat
    PROVE  \E w : WaysIn(w, g, S, n)
  <1> DEFINE D == Checked
             c(k) == Cardinality(Matching(g, k, S))
             step == [p \in (1..n) \X D |-> Times(p[2], c(p[1]))]
  <1> HIDE DEF c
  <1>1. \A k \in 1..n : c(k) \in Nat
    BY DEF c
  <1>2. 1 \in D
    BY MoneyAssumption DEF Checked, Multiplier
  <1> HIDE DEF D
  <1>3. step \in [(1..n) \X D -> D]
    <2>1. ASSUME NEW p \in (1..n) \X D PROVE Times(p[2], c(p[1])) \in D
      <3>1. p[1] \in 1..n /\ p[2] \in D
        OBVIOUS
      <3>2. c(p[1]) \in Nat
        BY <1>1, <3>1
      <3>3. \A k : k \in Nat => Times(p[2], k) \in D
        BY <3>1, TimesIs DEF D
      <3> QED BY <3>2, <3>3
    <2> QED BY <2>1
  <1>4. \A k \in 1..n : \A x \in D : step[<<k, x>>] = Times(x, c(k))
    OBVIOUS
  <1> HIDE DEF step
  <1>5. PICK t : Trace(t, n, D, 1, step)
    BY <1>2, <1>3, LoopRuns
  <1>6. /\ t \in [0..n -> D] /\ t[0] = 1
        /\ \A k \in 1..n : t[k] = step[<<k, t[k - 1]>>]
    BY <1>5, Zenon DEF Trace
  <1> DEFINE u == [k \in 0..n |-> IF k = 0 THEN 1 ELSE Times(t[k - 1], c(k))]
  <1>7. ASSUME NEW k \in 0..n PROVE t[k] = u[k]
    <2>1. CASE k = 0
      BY <1>6, <2>1
    <2>2. CASE k # 0
      <3>1. k \in 1..n /\ k - 1 \in 0..n
        BY <2>2
      <3>2. t[k - 1] \in D
        BY <1>6, <3>1
      <3> QED BY <1>4, <1>6, <2>2, <3>1, <3>2
    <2> QED BY <2>1, <2>2
  <1>8. t = u
    BY <1>6, <1>7
  <1>9. WaysIn(t, g, S, n)
    BY <1>8, Zenon DEF WaysIn, c
  <1> QED BY <1>9, Zenon

\* The ways over n reels are as many as the paths across them, or too many.
LEMMA WaysAre ==
    ASSUME NEW d \in Games, NEW g, Reels(d, g), NEW S, NEW n \in 0..Len(g)
    PROVE  /\ IsFiniteSet(Paths(d, g, S, n))
           /\ Cardinality(Paths(d, g, S, n)) \in Nat
           /\ WaysOf(g, S, n) \in Checked
           /\ WaysOf(g, S, n) # Failed =>
                 WaysOf(g, S, n) = Cardinality(Paths(d, g, S, n))
  <1> DEFINE w == CHOOSE t : WaysIn(t, g, S, n)
             c(k) == Cardinality(Matching(g, k, S))
             P(k) == Paths(d, g, S, k)
             H(k) == /\ IsFiniteSet(P(k)) /\ w[k] \in Checked
                     /\ w[k] # Failed => w[k] = Cardinality(P(k))
             T == {k \in Nat : k <= n => H(k)}
  <1>1. Len(g) \in Nat
    <2>1. g \in Seq(Seq(CatalogIds(d)))
      BY Zenon DEF Reels
    <2> QED BY <2>1
  <1>2. n \in Nat /\ \A k \in 1..n : k \in 1..Len(g)
    BY <1>1
  <1>3. \A k \in 1..n : c(k) \in Nat
    BY <1>2, MatchingIs
  <1>4. WaysIn(w, g, S, n)
    <2>1. \E t : WaysIn(t, g, S, n)
      BY <1>2, <1>3, WaysExist
    <2> QED BY <2>1, Zenon
  <1>5. WaysOf(g, S, n) = w[n]
    BY Zenon DEF WaysOf, WaysIn
  <1>6. w[0] = 1 /\ \A k \in 1..n : w[k] = Times(w[k - 1], c(k))
    <2> HIDE DEF w
    <2>1. w = [k \in 0..n |-> IF k = 0 THEN 1 ELSE Times(w[k - 1], c(k))]
      BY <1>4, Zenon DEF WaysIn
    <2>2. 0 \in 0..n /\ \A k \in 1..n : k \in 0..n /\ k # 0
      BY <1>2
    <2> HIDE DEF c
    <2> QED BY <2>1, <2>2, Zenon
  <1>7. 1 \in Checked
    BY MoneyAssumption DEF Checked, Multiplier
  <1>8. IsFiniteSet(P(0)) /\ Cardinality(P(0)) = 1
    BY NoPath
  <1>9. \A k \in Nat : k + 1 <= n /\ IsFiniteSet(P(k)) =>
           /\ IsFiniteSet(P(k + 1))
           /\ Cardinality(P(k + 1)) = Cardinality(P(k)) * c(k + 1)
    <2> SUFFICES ASSUME NEW k \in Nat, k + 1 <= n, IsFiniteSet(P(k))
                 PROVE  /\ IsFiniteSet(P(k + 1))
                        /\ Cardinality(P(k + 1)) = Cardinality(P(k)) * c(k + 1)
      OBVIOUS
    <2>1. k + 1 <= Len(g)
      BY <1>1
    <2> QED BY <2>1, PathsStep
  <1> HIDE DEF w, c, P
  <1>10. 0 \in T
    BY <1>6, <1>7, <1>8
  <1>11. ASSUME NEW k \in T PROVE k + 1 \in T
    <2> SUFFICES ASSUME k + 1 <= n PROVE H(k + 1)
      OBVIOUS
    <2>1. k \in Nat /\ H(k) /\ k + 1 \in 1..n /\ (k + 1) - 1 = k
      BY <1>2
    <2>2. w[k + 1] = Times(w[k], c(k + 1)) /\ c(k + 1) \in Nat
      BY <1>3, <1>6, <2>1
    <2>3. /\ w[k + 1] \in Checked
          /\ w[k + 1] # Failed => w[k] # Failed /\ w[k + 1] = w[k] * c(k + 1)
      BY <2>1, <2>2, TimesIs, Zenon
    <2>4. /\ IsFiniteSet(P(k + 1))
          /\ Cardinality(P(k + 1)) = Cardinality(P(k)) * c(k + 1)
      BY <1>9, <2>1
    <2> QED BY <2>1, <2>3, <2>4, Zenon
  <1>12. T = Nat
    <2> HIDE DEF H
    <2> QED BY <1>10, <1>11, Induction
  <1>13. H(n)
    BY <1>2, <1>12
  <1>14. Cardinality(P(n)) \in Nat
    BY <1>13, FS_CardinalityType
  <1> QED BY <1>5, <1>13, <1>14 DEF P

------------------------------------------------------------------------------
(* Totals.                                                                   *)

\* s holds the sums of the first 0, 1, ... members.
SumIn(s, f) == s = [i \in 0..Len(f) |-> IF i = 0 THEN 0 ELSE s[i - 1] + f[i]]

\* The sum of naturals is a natural.
LEMMA TotalIsNat ==
    ASSUME NEW f \in Seq(Nat)
    PROVE  Total(f) \in Nat
  <1> DEFINE n == Len(f)
             step == [p \in (1..n) \X Nat |-> p[2] + f[p[1]]]
  <1>1. n \in Nat /\ \A i \in 1..n : f[i] \in Nat
    OBVIOUS
  <1> HIDE DEF n
  <1>2. step \in [(1..n) \X Nat -> Nat]
    <2>1. ASSUME NEW p \in (1..n) \X Nat PROVE p[2] + f[p[1]] \in Nat
      <3>1. p[1] \in 1..n /\ p[2] \in Nat
        OBVIOUS
      <3>2. f[p[1]] \in Nat
        BY <1>1, <3>1
      <3> QED BY <3>1, <3>2
    <2> QED BY <2>1
  <1>3. \A i \in 1..n : \A x \in Nat : step[<<i, x>>] = x + f[i]
    OBVIOUS
  <1> HIDE DEF step
  <1>4. PICK t : Trace(t, n, Nat, 0, step)
    BY <1>1, <1>2, LoopRuns
  <1>5. /\ t \in [0..n -> Nat] /\ t[0] = 0
        /\ \A i \in 1..n : t[i] = step[<<i, t[i - 1]>>]
    BY <1>4, Zenon DEF Trace
  <1> DEFINE u == [i \in 0..n |-> IF i = 0 THEN 0 ELSE t[i - 1] + f[i]]
  <1>6. ASSUME NEW i \in 0..n PROVE t[i] = u[i]
    <2>1. CASE i = 0
      BY <1>5, <2>1
    <2>2. CASE i # 0
      <3>1. i \in 1..n /\ i - 1 \in 0..n
        BY <1>1, <2>2
      <3>2. t[i - 1] \in Nat
        BY <1>5, <3>1
      <3> QED BY <1>3, <1>5, <2>2, <3>1, <3>2
    <2> QED BY <2>1, <2>2
  <1>7. t = u
    BY <1>5, <1>6
  <1>8. SumIn(t, f)
    BY <1>7, Zenon DEF SumIn, n
  <1> DEFINE s == CHOOSE v : SumIn(v, f)
             T == {i \in Nat : i <= n => s[i] \in Nat}
  <1>9. SumIn(s, f)
    BY <1>8, Zenon
  <1>10. Total(f) = s[n]
    BY Zenon DEF Total, SumIn, n
  <1> HIDE DEF s
  <1>11. s[0] = 0 /\ \A i \in 1..n : s[i] = s[i - 1] + f[i]
    <2>1. s = [i \in 0..n |-> IF i = 0 THEN 0 ELSE s[i - 1] + f[i]]
      BY <1>9, Zenon DEF SumIn, n
    <2>2. 0 \in 0..n /\ \A i \in 1..n : i \in 0..n /\ i # 0
      BY <1>1
    <2> QED BY <2>1, <2>2, Zenon
  <1>12. 0 \in T
    BY <1>11
  <1>13. ASSUME NEW i \in T PROVE i + 1 \in T
    <2> SUFFICES ASSUME i + 1 <= n PROVE s[i + 1] \in Nat
      OBVIOUS
    <2>1. i + 1 \in 1..n /\ (i + 1) - 1 = i /\ s[i] \in Nat
      BY <1>1
    <2> QED BY <1>1, <1>11, <2>1
  <1>14. T = Nat
    BY <1>12, <1>13, Induction
  <1> QED BY <1>1, <1>10, <1>14

------------------------------------------------------------------------------
(* Evaluations.                                                              *)

\* The best threshold is one that the count reaches, or none.
LEMMA BestIs ==
    ASSUME NEW d \in Games, NEW n \in Nat
    PROVE  BestThreshold(d, n).payout \in Multiplier
  <1> DEFINE N == [count : Nat \ {0}, payout : Multiplier, award : Int]
             t == d.thresholds
             R == {i \in DOMAIN t : t[i].count <= n}
             Best(i) == \A j \in R : \/ t[i].count > t[j].count
                                     \/ t[i].count = t[j].count /\ i <= j
             best == CHOOSE i \in R : Best(i)
  <1>1. t \in Seq(N)
    BY GameIs, Zenon
  <1>2. DOMAIN t \subseteq Nat /\ \A i \in DOMAIN t : t[i] \in N
    <2> HIDE DEF N, t
    <2> QED BY <1>1
  <1>3. \A i \in DOMAIN t : t[i].count \in Nat /\ t[i].payout \in Multiplier
    <2> TAKE i \in DOMAIN t
    <2>1. t[i] \in N
      BY <1>2
    <2> HIDE DEF t
    <2> QED BY <2>1
  <1>4. BestThreshold(d, n) = IF R = {} THEN [count |-> 0, payout |-> 0, award |-> 0]
                                        ELSE t[best]
    BY Zenon DEF BestThreshold
  <1> HIDE DEF t, N
  <1>5. CASE R = {}
    <2>1. BestThreshold(d, n).payout = 0
      BY <1>4, <1>5
    <2> QED BY <2>1, MoneyAssumption DEF Multiplier
  <1>6. CASE R # {}
    <2> DEFINE C == {t[i].count : i \in R}
    <2>1. C \in SUBSET (0..n) /\ C # {}
      <3>1. \A i \in R : t[i].count \in 0..n
        BY <1>3
      <3> QED BY <1>6, <3>1
    <2>2. Max(C) \in C /\ \A x \in C : x <= Max(C)
      <3> HIDE DEF C
      <3> QED BY <2>1, MaxIs
    <2> DEFINE m == Max(C)
               U == {i \in R : t[i].count = m}
    <2>3. m \in Nat /\ \A i \in R : t[i].count <= m
      BY <2>1, <2>2
    <2>4. U # {}
      BY <2>2
    <2> HIDE DEF m
    <2>5. U \in SUBSET Nat
      BY <1>2
    <2>6. PICK i \in U : \A j \in U : i <= j
      <3> HIDE DEF U
      <3> QED BY <2>4, <2>5, Least
    <2>7. ASSUME NEW j \in R
          PROVE  \/ t[i].count > t[j].count
                 \/ t[i].count = t[j].count /\ i <= j
      <3>1. CASE j \in U
        BY <2>6, <3>1
      <3>2. CASE j \notin U
        <4>1. t[j].count # m /\ t[j].count <= m /\ t[j].count \in Nat
          BY <1>3, <2>3, <3>2
        <4>2. t[i].count = m
          OBVIOUS
        <4>3. m > t[j].count
          BY <2>3, <4>1
        <4> QED BY <4>2, <4>3
      <3> QED BY <3>1, <3>2
    <2>8. i \in R /\ Best(i)
      BY <2>7
    <2>9. best \in R
      <3> HIDE DEF R, Best
      <3> QED BY <2>8, Zenon
    <2> HIDE DEF best
    <2>10. BestThreshold(d, n) = t[best] /\ best \in DOMAIN t
      BY <1>4, <1>6, <2>9
    <2> QED BY <1>3, <2>10
  <1> QED BY <1>5, <1>6

\* The scatters of a grid are finitely many.
LEMMA ScattersAre ==
    ASSUME NEW d \in Games, NEW g, Reels(d, g)
    PROVE  /\ IsFiniteSet(Scatters(d, g))
           /\ Cardinality(Scatters(d, g)) \in Nat
           /\ \A r, row : <<r, row>> \in Scatters(d, g) <=>
                 r \in 1..Len(g) /\ row \in DOMAIN g[r] /\ g[r][row] \in d.scatters
           /\ \A x \in Scatters(d, g) : x = <<x[1], x[2]>>
  <1> DEFINE T == Scatters(d, g)
             B == (1..Len(g)) \X (1..Max(d.rows))
  <1>1. Len(g) \in Nat /\ DOMAIN g = 1..Len(g)
    <2>1. g \in Seq(Seq(CatalogIds(d)))
      BY Zenon DEF Reels
    <2> QED BY <2>1
  <1>2. Max(d.rows) \in Nat
    BY RowsAre
  <1>3. ASSUME NEW x \in T
        PROVE  /\ x = <<x[1], x[2]>> /\ x[1] \in 1..Len(g)
               /\ x[2] \in Matching(g, x[1], d.scatters)
    <2>1. PICK r \in DOMAIN g : x \in {r} \X Matching(g, r, d.scatters)
      BY DEF Scatters
    <2> QED BY <1>1, <2>1
  <1>4. T \in SUBSET B
    <2> SUFFICES ASSUME NEW x \in T PROVE x \in B
      OBVIOUS
    <2>1. x[1] \in 1..Len(g) /\ x[2] \in Matching(g, x[1], d.scatters)
          /\ x = <<x[1], x[2]>>
      BY <1>3
    <2>2. x[2] \in 1..Max(d.rows)
      BY <2>1, MatchingIs
    <2> QED BY <2>1, <2>2
  <1>5. IsFiniteSet(B)
    <2>1. IsFiniteSet(1..Len(g)) /\ IsFiniteSet(1..Max(d.rows))
      BY <1>1, <1>2, FS_Interval
    <2> QED BY <2>1, FS_Product
  <1>6. IsFiniteSet(T)
    <2> HIDE DEF T, B
    <2> QED BY <1>4, <1>5, FS_Subset
  <1>7. Cardinality(T) \in Nat
    BY <1>6, FS_CardinalityType
  <1>8. ASSUME NEW r, NEW row
        PROVE  <<r, row>> \in T <=>
                  r \in 1..Len(g) /\ row \in DOMAIN g[r] /\ g[r][row] \in d.scatters
    <2>1. ASSUME <<r, row>> \in T
          PROVE r \in 1..Len(g) /\ row \in DOMAIN g[r] /\ g[r][row] \in d.scatters
      <3>1. r \in 1..Len(g) /\ row \in Matching(g, r, d.scatters)
        BY <1>3, <2>1
      <3> QED BY <3>1 DEF Matching
    <2>2. ASSUME r \in 1..Len(g), row \in DOMAIN g[r], g[r][row] \in d.scatters
          PROVE  <<r, row>> \in T
      <3>1. row \in Matching(g, r, d.scatters)
        BY <2>2 DEF Matching
      <3>2. <<r, row>> \in {r} \X Matching(g, r, d.scatters)
        BY <3>1
      <3> QED BY <1>1, <2>2, <3>2 DEF Scatters
    <2> QED BY <2>1, <2>2
  <1> QED BY <1>3, <1>6, <1>7, <1>8, Zenon

\* An entry of the catalog pays one payout for each of its paths across the
\* reels it reaches, or fails.
LEMMA WinIs ==
    ASSUME NEW d \in Games, NEW g, Reels(d, g), NEW i \in DOMAIN d.catalog
    PROVE  LET e == d.catalog[i] IN
           /\ HasWin(d, g, e) =>
                 /\ Win(d, g, e).total \in Checked
                 /\ Win(d, g, e).total # Failed =>
                       Win(d, g, e).total = PathsPay(d, g, e)
           /\ e \in PayingEntries(d) /\ ~HasWin(d, g, e) => PathsPay(d, g, e) = 0
  <1> DEFINE e == d.catalog[i]
             S == Accepted(d, e)
             n == Reached(d, g, e)
             c == Cardinality(Paths(d, g, S, n))
             w == WaysOf(g, S, n)
  <1>1. Len(g) \in Nat /\ Len(g) <= Len(d.strips)
    <2>1. g \in Seq(Seq(CatalogIds(d))) /\ Len(g) <= Len(d.strips)
      BY Zenon DEF Reels
    <2> QED BY <2>1
  <1>2. n = MatchedReels(g, S) /\ n \in 0..Len(g)
    BY <1>1, MatchedIs, Zenon DEF Reached
  <1>3. /\ w \in Checked /\ c \in Nat
        /\ w # Failed => w = c
    BY <1>2, WaysAre, Zenon
  <1>4. n = Max({k \in 0..Len(g) : Paths(d, g, S, k) # {}})
    <2>1. \A k \in 0..Len(g) : Paths(d, g, S, k) # {} <=>
             \A r \in 1..k : Matching(g, r, S) # {}
      BY PathsReach
    <2>2. {k \in 0..Len(g) : Paths(d, g, S, k) # {}} =
             {k \in 0..Len(g) : \A r \in 1..k : Matching(g, r, S) # {}}
      BY <2>1, Zenon
    <2> QED BY <1>2, <2>2, Zenon DEF MatchedReels
  <1>5. PathsPay(d, g, e) = IF n < d.minMatch THEN 0 ELSE e.pays[n] * c
    BY <1>4, Zenon DEF PathsPay
  <1>6. /\ e.pays \in Seq(Multiplier) /\ Len(e.pays) \in {0, Len(d.strips)}
        /\ d.minMatch \in Nat /\ d.minMatch >= 1 /\ Len(d.strips) \in Nat
    BY EntriesAre, GameIs, Zenon
  <1>7. HasWin(d, g, e) <=> /\ e \in PayingEntries(d) /\ n >= d.minMatch
                            /\ e.pays[n] > 0
    BY Zenon DEF HasWin
  <1>8. Win(d, g, e).total = IF w = Failed THEN Failed ELSE MulInt(e.pays[n], w)
    BY DEF Win
  <1>9. e \in PayingEntries(d) => e.pays # <<>>
    BY DEF PayingEntries
  <1> HIDE DEF e, n, c, w, S
  <1>10. e \in PayingEntries(d) /\ n >= d.minMatch =>
            n \in 1..Len(e.pays) /\ e.pays[n] \in Multiplier
    <2> SUFFICES ASSUME e \in PayingEntries(d), n >= d.minMatch
                 PROVE  n \in 1..Len(e.pays) /\ e.pays[n] \in Multiplier
      OBVIOUS
    <2>1. e.pays # <<>>
      BY <1>9
    <2>2. Len(e.pays) = Len(d.strips)
      BY <1>6, <2>1
    <2>3. n \in 1..Len(e.pays)
      BY <1>1, <1>2, <1>6, <2>2
    <2> QED BY <1>6, <2>3
  <1>11. ASSUME HasWin(d, g, e)
         PROVE  /\ Win(d, g, e).total \in Checked
                /\ Win(d, g, e).total # Failed =>
                      Win(d, g, e).total = PathsPay(d, g, e)
    <2>1. e.pays[n] \in Multiplier /\ n >= d.minMatch
      BY <1>7, <1>10, <1>11
    <2>2. PathsPay(d, g, e) = e.pays[n] * c
      BY <1>1, <1>2, <1>5, <1>6, <2>1
    <2>3. CASE w = Failed
      BY <1>8, <2>3 DEF Checked
    <2>4. CASE w # Failed
      <3>1. w = c
        BY <1>3, <2>4
      <3>2. /\ MulInt(e.pays[n], c) \in Checked
            /\ MulInt(e.pays[n], c) # Failed =>
                  MulInt(e.pays[n], c) = e.pays[n] * c
        BY <1>3, <2>1, MulIntIsExact
      <3> QED BY <1>8, <2>2, <2>4, <3>1, <3>2, Zenon
    <2> QED BY <2>3, <2>4
  <1>12. ASSUME e \in PayingEntries(d), ~HasWin(d, g, e)
         PROVE  PathsPay(d, g, e) = 0
    <2>1. CASE n < d.minMatch
      BY <1>5, <2>1
    <2>2. CASE n >= d.minMatch
      <3>1. e.pays[n] \in Multiplier /\ ~(e.pays[n] > 0)
        BY <1>7, <1>10, <1>12, <2>2
      <3>2. e.pays[n] = 0
        BY <3>1, MoneyAssumption DEF Multiplier
      <3>3. PathsPay(d, g, e) = 0 * c
        BY <1>1, <1>2, <1>5, <1>6, <2>2, <3>2
      <3> QED BY <1>3, <3>3
    <2> QED BY <1>1, <1>2, <1>6, <2>1, <2>2
  <1> QED BY <1>11, <1>12 DEF e

\* The cells of a win lie on the grid, none of them holds a scatter, and there
\* is one on the first reel.
LEMMA CellsAre ==
    ASSUME NEW d \in Games, NEW g, Reels(d, g), NEW x \in Wins(d, g)
    PROVE  /\ \A r, row : <<r, row>> \in x.cells =>
                 /\ r \in 1..Len(g) /\ row \in DOMAIN g[r]
                 /\ g[r][row] \notin d.scatters
           /\ \E row : <<1, row>> \in x.cells
  <1>1. PICK i \in DOMAIN d.catalog : /\ HasWin(d, g, d.catalog[i])
                                      /\ x = Win(d, g, d.catalog[i])
    BY DEF Wins, ToSet
  <1> DEFINE e == d.catalog[i]
             S == Accepted(d, e)
             n == Reached(d, g, e)
  <1>2. Len(g) \in Nat
    <2>1. g \in Seq(Seq(CatalogIds(d)))
      BY Zenon DEF Reels
    <2> QED BY <2>1
  <1>3. n \in 0..Len(g) /\ \A r \in 1..n : Matching(g, r, S) # {}
    BY <1>2, MatchedIs, Zenon DEF Reached
  <1>4. x.cells = UNION {{r} \X Matching(g, r, S) : r \in 1..n}
    BY <1>1 DEF Win
  <1>5. e.kind \in {"regular", "wild"} /\ n >= d.minMatch
    BY <1>1 DEF HasWin, PayingEntries
  <1>6. d.minMatch \in Nat /\ d.minMatch >= 1
    BY GameIs
  <1>7. /\ e.id \in d.scatters => e.kind = "scatter"
        /\ e.id \in Symbols
        /\ \A j \in DOMAIN d.catalog : d.catalog[j].id = e.id => j = i
        /\ S = {e.id} \cup d.substitutes[e.id]
    BY EntriesAre, Zenon DEF Accepted
  <1>8. ASSUME NEW s \in CatalogIds(d), s \in S PROVE s \notin d.scatters
    <2>1. PICK j \in DOMAIN d.catalog : d.catalog[j].id = s
      BY DEF CatalogIds
    <2>2. /\ s \in d.scatters => d.catalog[j].kind = "scatter"
          /\ s \in d.substitutes[e.id] => d.catalog[j].kind = "wild"
      BY <1>7, <2>1, EntriesAre, Zenon
    <2> HIDE DEF e, S
    <2>3. s = e.id \/ s \in d.substitutes[e.id]
      BY <1>7, <1>8
    <2>4. CASE s = e.id
      BY <1>5, <1>7, <2>4
    <2>5. CASE s \in d.substitutes[e.id]
      BY <2>2, <2>5
    <2> QED BY <2>3, <2>4, <2>5
  <1> HIDE DEF e, S, n
  <1>9. ASSUME NEW r, NEW row, <<r, row>> \in x.cells
        PROVE  /\ r \in 1..Len(g) /\ row \in DOMAIN g[r]
               /\ g[r][row] \notin d.scatters
    <2>1. r \in 1..n /\ row \in Matching(g, r, S)
      BY <1>4, <1>9
    <2>2. r \in 1..Len(g)
      BY <1>2, <1>3, <2>1
    <2>3. row \in DOMAIN g[r] /\ g[r][row] \in S
      BY <2>1 DEF Matching
    <2>4. g[r][row] \in CatalogIds(d)
      <3>1. g[r] \in Seq(CatalogIds(d))
        BY <2>2, ReelIs
      <3> QED BY <2>3, <3>1
    <2> QED BY <1>8, <2>2, <2>3, <2>4
  <1>10. \E row : <<1, row>> \in x.cells
    <2>1. 1 \in 1..n
      BY <1>2, <1>3, <1>5, <1>6
    <2>2. PICK row : row \in Matching(g, 1, S)
      BY <1>3, <2>1
    <2>3. <<1, row>> \in {1} \X Matching(g, 1, S)
      BY <2>2
    <2> QED BY <1>4, <2>1, <2>3
  <1> QED BY <1>9, <1>10

\* An evaluation that did not fail: its total is the scatter payout and what
\* every path pays, and no larger than a machine integer.
LEMMA EvaluationIs ==
    ASSUME NEW d \in Games, NEW g, Reels(d, g), Evaluation(d, g).total # Failed
    PROVE  LET e == Evaluation(d, g) IN
           /\ {e.total, e.scatter} \subseteq Multiplier
           /\ e.scatter <= e.total
           /\ e.total - e.scatter = Total(PathTotals(d, g))
  <1> DEFINE e == Evaluation(d, g)
             W == WinTotals(d, g)
             P == PathTotals(d, g)
             m == Cardinality(Scatters(d, g))
             t == Total(W)
             b == BestThreshold(d, m).payout
             fails == (\E x \in Wins(d, g) : x.total = Failed) \/ t + b > MaxInt
  <1>1. e.total = (IF fails THEN Failed ELSE t + b) /\ e.scatter = b
    BY DEF Evaluation
  <1>2. ~fails
    BY <1>1
  <1>3. \A x \in Wins(d, g) : x.total # Failed
    BY <1>2
  <1>4. b \in Multiplier
    BY ScattersAre, BestIs
  <1> DEFINE w(i) == IF HasWin(d, g, d.catalog[i])
                     THEN Win(d, g, d.catalog[i]).total ELSE 0
             p(i) == IF /\ d.catalog[i].kind \in {"regular", "wild"}
                        /\ d.catalog[i].pays # <<>>
                     THEN PathsPay(d, g, d.catalog[i]) ELSE 0
  <1>5. W = [i \in DOMAIN d.catalog |-> w(i)]
    BY Zenon DEF WinTotals
  <1>6. P = [i \in DOMAIN d.catalog |-> p(i)]
    BY Zenon DEF PathTotals
  <1>7. ASSUME NEW i \in DOMAIN d.catalog
        PROVE  w(i) \in Nat /\ w(i) = p(i)
    <2> DEFINE c == d.catalog[i]
    <2>1. c \in ToSet(d.catalog)
      BY DEF ToSet
    <2>2. c \in PayingEntries(d) <=> c.kind \in {"regular", "wild"} /\ c.pays # <<>>
      BY <2>1 DEF PayingEntries
    <2>3. /\ HasWin(d, g, c) =>
                /\ Win(d, g, c).total \in Checked
                /\ Win(d, g, c).total # Failed =>
                      Win(d, g, c).total = PathsPay(d, g, c)
          /\ c \in PayingEntries(d) /\ ~HasWin(d, g, c) => PathsPay(d, g, c) = 0
      BY WinIs, Zenon
    <2>4. CASE HasWin(d, g, c)
      <3>1. Win(d, g, c) \in Wins(d, g)
        BY <2>1, <2>4 DEF Wins
      <3>2. Win(d, g, c).total # Failed
        BY <1>3, <3>1, Zenon
      <3>3. c \in PayingEntries(d)
        BY <2>4, Zenon DEF HasWin
      <3>4. w(i) = Win(d, g, c).total /\ p(i) = PathsPay(d, g, c)
        BY <2>2, <2>4, <3>3, Zenon
      <3>5. Win(d, g, c).total \in Nat
        BY <2>3, <2>4, <3>2, MoneyAssumption DEF Checked, Multiplier
      <3> QED BY <2>3, <2>4, <3>2, <3>4, <3>5, Zenon
    <2>5. CASE ~HasWin(d, g, c)
      <3>1. w(i) = 0
        BY <2>5, Zenon
      <3>2. p(i) = 0
        BY <2>2, <2>3, <2>5, Zenon
      <3> QED BY <3>1, <3>2
    <2> QED BY <2>4, <2>5
  <1> HIDE DEF w, p, W, P
  <1>8. W = P
    BY <1>5, <1>6, <1>7
  <1>9. W \in Seq(Nat)
    <2> DEFINE E == [id : Symbols, kind : Kinds, pays : Seq(Multiplier)]
    <2>1. d.catalog \in Seq(E)
      BY GameIs, Zenon
    <2> HIDE DEF E
    <2>2. DOMAIN d.catalog = 1..Len(d.catalog) /\ Len(d.catalog) \in Nat
      BY <2>1
    <2> QED BY <1>5, <1>7, <2>2
  <1>10. t \in Nat
    BY <1>9, TotalIsNat
  <1> HIDE DEF e, t, b
  <1>11. e.total = t + b /\ e.scatter = b /\ t + b <= MaxInt
    <2>1. ~(t + b > MaxInt)
      BY <1>2
    <2>2. t + b <= MaxInt
      BY <1>4, <1>10, <2>1, MoneyAssumption DEF Multiplier
    <2> HIDE DEF fails
    <2> QED BY <1>1, <1>2, <2>2, Zenon
  <1>12. t + b \in Multiplier /\ b <= t + b /\ (t + b) - b = t
    BY <1>4, <1>10, <1>11, MoneyAssumption DEF Multiplier
  <1>13. t = Total(P)
    BY <1>8, Zenon DEF t
  <1> QED BY <1>4, <1>11, <1>12, <1>13, Zenon DEF e, P

------------------------------------------------------------------------------
(* What each step makes of a grid.                                           *)

\* A grid whose holes are not all refilled.
Half(d, g) ==
    /\ g \in Seq(Seq(CatalogIds(d) \cup {Hole})) /\ Len(g) = Len(d.strips)
    /\ \A r \in 1..Len(g) : Len(g[r]) \in d.rows

\* Grid g shows what an evaluation e left of grid b where it landed.
Fallen(e, b, g) ==
    /\ Len(g) = Len(b)
    /\ \A r \in 1..Len(b) :
          /\ Len(g[r]) = Len(b[r])
          /\ \A row \in DOMAIN b[r] : row \notin RemovedRows(e, r) =>
                /\ Landing(b[r], RemovedRows(e, r), row) \in DOMAIN b[r]
                /\ g[r][Landing(b[r], RemovedRows(e, r), row)] = b[r][row]

\* One cell is refilled before another.
Precedes(p, q) == p[1] < q[1] \/ (p[1] = q[1] /\ p[2] > q[2])

\* A window is a reel of the grid, wherever the strip stops.
LEMMA WindowIs ==
    ASSUME NEW d \in Games, NEW r \in DOMAIN d.strips,
           NEW stop \in DOMAIN d.strips[r], NEW n \in d.rows
    PROVE  /\ Window(d.strips[r], stop, n) \in Seq(CatalogIds(d))
           /\ Len(Window(d.strips[r], stop, n)) = n
  <1> DEFINE s == d.strips[r]
             L == Len(s)
             I == CatalogIds(d)
  <1>1. s \in Seq(I) /\ L \in Nat \ {0}
    BY StripsAre
  <1>2. n \in Nat
    BY GameIs
  <1>3. DOMAIN s = 1..L /\ \A k \in 1..L : s[k] \in I
    <2> HIDE DEF s, I
    <2> QED BY <1>1
  <1>4. stop \in 1..L
    BY <1>3
  <1>5. Window(s, stop, n) = [i \in 1..n |-> s[((stop + i - 2) % L) + 1]]
    BY Zenon DEF Window
  <1> HIDE DEF s, L, I
  <1>6. ASSUME NEW i \in 1..n PROVE s[((stop + i - 2) % L) + 1] \in I
    <2>1. stop + i - 2 \in Nat
      BY <1>1, <1>2, <1>4
    <2>2. (stop + i - 2) % L \in 0..(L - 1)
      BY <1>1, <2>1
    <2>3. ((stop + i - 2) % L) + 1 \in 1..L
      BY <1>1, <2>2
    <2> QED BY <1>3, <2>3
  <1>7. Window(s, stop, n) \in Seq(I) /\ Len(Window(s, stop, n)) = n
    BY <1>2, <1>5, <1>6
  <1> QED BY <1>7 DEF s, I

\* A generated grid grows reel by reel.
LEMMA ReelsGrow ==
    ASSUME NEW d \in Games, NEW g, Reels(d, g), Len(g) < Len(d.strips),
           NEW w \in Seq(CatalogIds(d)), Len(w) \in d.rows
    PROVE  Reels(d, Append(g, w)) /\ Len(Append(g, w)) = Len(g) + 1
  <1> DEFINE R == Seq(CatalogIds(d))
             h == Append(g, w)
  <1>1. g \in Seq(R) /\ \A r \in 1..Len(g) : Len(g[r]) \in d.rows
    BY Zenon DEF Reels
  <1>2. w \in R /\ Len(d.strips) \in Nat
    BY GameIs
  <1> HIDE DEF R
  <1>3. /\ h \in Seq(R) /\ Len(h) = Len(g) + 1 /\ h[Len(g) + 1] = w
        /\ \A r \in 1..Len(g) : h[r] = g[r]
    BY <1>1, <1>2, AppendProperties
  <1>4. Len(g) \in Nat
    BY <1>1
  <1> HIDE DEF h
  <1>5. ASSUME NEW r \in 1..Len(h) PROVE Len(h[r]) \in d.rows
    <2>1. CASE r = Len(g) + 1
      BY <1>3, <2>1
    <2>2. CASE r # Len(g) + 1
      <3>1. r \in 1..Len(g)
        BY <1>3, <1>4, <2>2
      <3> QED BY <1>1, <1>3, <3>1
    <2> QED BY <2>1, <2>2
  <1>6. Len(h) <= Len(d.strips)
    BY <1>2, <1>3, <1>4
  <1> QED BY <1>3, <1>5, <1>6, Zenon DEF Reels, R, h

\* What a collapse leaves, and that it opens a hole.
LEMMA CollapseIs ==
    ASSUME NEW d \in Games, NEW g, Whole(d, g), NEW e,
           e = Evaluation(d, g), e.wins # {},
           NEW c, c = [r \in DOMAIN g |-> CollapsedReel(g[r], RemovedRows(e, r))]
    PROVE  Half(d, c) /\ Fallen(e, g, c) /\ OpenReels(c) # {}
  <1> DEFINE I == CatalogIds(d)
             N == Seq(I \cup {Hole})
             G(r) == Gone(RemovedRows(e, r), Len(g[r]))
  <1>1. Reels(d, g) /\ Len(g) = Len(d.strips)
    BY Zenon DEF Whole
  <1>2. Len(g) \in Nat /\ DOMAIN g = 1..Len(g) /\ Len(g) >= 1
    <2>1. g \in Seq(Seq(I))
      BY <1>1, Zenon DEF Reels
    <2>2. Len(g) >= 1
      BY <1>1, GameIs
    <2> QED BY <2>1, <2>2
  <1>3. ASSUME NEW r \in 1..Len(g)
        PROVE  /\ c[r] \in N /\ Len(c[r]) = Len(g[r])
               /\ G(r) \in 0..Len(g[r])
               /\ \A i \in 1..G(r) : c[r][i] = Hole
               /\ \A row \in DOMAIN g[r] : row \notin RemovedRows(e, r) =>
                     /\ Landing(g[r], RemovedRows(e, r), row) \in DOMAIN g[r]
                     /\ c[r][Landing(g[r], RemovedRows(e, r), row)] = g[r][row]
    <2> DEFINE rows == RemovedRows(e, r)
    <2>1. g[r] \in Seq(I) /\ DOMAIN g[r] = 1..Len(g[r]) /\ Len(g[r]) \in Nat
      <3>1. g[r] \in Seq(I)
        BY <1>1, ReelIs
      <3> QED BY <3>1
    <2>2. c[r] = CollapsedReel(g[r], rows)
      BY <1>2
    <2>3. /\ c[r] \in Seq(I \cup {Hole}) /\ Len(c[r]) = Len(g[r])
          /\ G(r) \in 0..Len(g[r])
          /\ \A i \in 1..G(r) : c[r][i] = Hole
          /\ \A row \in DOMAIN g[r] : row \notin rows =>
                /\ Landing(g[r], rows, row) \in (G(r) + 1)..Len(g[r])
                /\ c[r][Landing(g[r], rows, row)] = g[r][row]
      <3>1. Collapses(c[r], I, g[r], rows)
        BY <2>1, <2>2, CollapsedReelIs
      <3> QED BY <3>1, Zenon DEF Collapses
    <2> HIDE DEF G, I, rows
    <2>4. \A k \in (G(r) + 1)..Len(g[r]) : k \in DOMAIN g[r]
      BY <2>1, <2>3
    <2> QED BY <2>3, <2>4, Zenon DEF rows
  <1>4. DOMAIN c = 1..Len(g)
    BY <1>2
  <1>5. c \in Seq(N) /\ Len(c) = Len(g)
    <2> HIDE DEF N
    <2>1. c = [r \in 1..Len(g) |-> c[r]]
      BY <1>2
    <2> QED BY <1>2, <1>3, <2>1
  <1>6. Half(d, c)
    <2>1. \A r \in 1..Len(c) : Len(c[r]) \in d.rows
      BY <1>1, <1>3, <1>5, ReelIs
    <2> QED BY <1>1, <1>5, <2>1, Zenon DEF Half
  <1>7. Fallen(e, g, c)
    <2> HIDE DEF G, N
    <2> QED BY <1>3, <1>5, Zenon DEF Fallen
  <1>8. OpenReels(c) # {}
    <2>1. e.wins = Wins(d, g)
      BY DEF Evaluation
    <2>2. PICK x \in Wins(d, g) : x \in e.wins
      BY <2>1
    <2>3. PICK row : <<1, row>> \in x.cells
      BY <1>1, CellsAre
    <2>4. row \in DOMAIN g[1] /\ 1 \in 1..Len(g)
      BY <1>1, <1>2, <2>3, CellsAre
    <2>5. DOMAIN g[1] = 1..Len(g[1]) /\ Len(g[1]) \in Nat
      <3>1. g[1] \in Seq(I)
        BY <1>1, <2>4, ReelIs
      <3> QED BY <3>1
    <2>6. row \in RemovedRows(e, 1)
      BY <2>2, <2>3, <2>4, <2>5 DEF RemovedRows, Removed
    <2>7. G(1) # 0 /\ G(1) \in Nat
      <3>1. row \in Upper(RemovedRows(e, 1), Len(g[1]))
        BY <2>4, <2>5, <2>6 DEF Upper
      <3>2. /\ IsFiniteSet(Upper(RemovedRows(e, 1), Len(g[1])))
            /\ G(1) \in Nat
        BY <2>5, GoneStep
      <3> QED BY <3>1, <3>2, FS_EmptySet DEF Gone
    <2> HIDE DEF G, N
    <2>8. 1 \in 1..G(1) /\ 1 \in 1..Len(g[1])
      BY <1>3, <2>4, <2>5, <2>7
    <2>9. c[1][1] = Hole /\ Len(c[1]) = Len(g[1]) /\ c[1] \in N
      BY <1>3, <2>4, <2>8
    <2>10. 1 \in DOMAIN c[1]
      BY <2>8, <2>9 DEF N
    <2>11. 1 \in Holes(c[1])
      BY <2>9, <2>10 DEF Holes
    <2> QED BY <1>4, <2>4, <2>11 DEF OpenReels
  <1> QED BY <1>6, <1>7, <1>8

\* A function from 1 to n is a sequence of what its values are.
LEMMA SequenceIs ==
    ASSUME NEW R, NEW n \in Nat, NEW h, h = [i \in 1..n |-> h[i]],
           \A i \in 1..n : h[i] \in R
    PROVE  h \in Seq(R) /\ Len(h) = n
  OBVIOUS

\* The cell a refill goes for: on no reel further left is there a hole, and on
\* its own reel none lies lower.
LEMMA NextHoleIs ==
    ASSUME NEW d \in Games, NEW g, Half(d, g), OpenReels(g) # {}
    PROVE  LET r == NextHole(g)[1]  row == NextHole(g)[2] IN
           /\ r \in OpenReels(g) /\ r \in 1..Len(g) /\ r \in DOMAIN d.strips
           /\ row \in Holes(g[r]) /\ row \in DOMAIN g[r]
           /\ \A q \in OpenReels(g) : r <= q
           /\ \A k \in Holes(g[r]) : k <= row
  <1> DEFINE N == Seq(CatalogIds(d) \cup {Hole})
             r == Min(OpenReels(g))
             row == Max(Holes(g[r]))
  <1>1. g \in Seq(N) /\ Len(g) = Len(d.strips)
    BY Zenon DEF Half
  <1>2. DOMAIN g = 1..Len(g) /\ Len(g) \in Nat /\ \A q \in DOMAIN g : g[q] \in N
    <2> HIDE DEF N
    <2> QED BY <1>1
  <1>3. OpenReels(g) \in SUBSET Nat /\ OpenReels(g) \subseteq DOMAIN g
    BY <1>2 DEF OpenReels
  <1>4. r \in OpenReels(g) /\ \A q \in OpenReels(g) : r <= q
    BY <1>3, MinIs
  <1> HIDE DEF r
  <1>5. r \in DOMAIN g /\ Holes(g[r]) # {}
    BY <1>4, Zenon DEF OpenReels
  <1>6. DOMAIN g[r] = 1..Len(g[r]) /\ Len(g[r]) \in Nat
    <2>1. g[r] \in N
      BY <1>2, <1>5
    <2> QED BY <2>1
  <1>7. Holes(g[r]) \in SUBSET (0..Len(g[r])) /\ Holes(g[r]) \subseteq DOMAIN g[r]
    BY <1>6 DEF Holes
  <1>8. row \in Holes(g[r]) /\ \A k \in Holes(g[r]) : k <= row
    BY <1>5, <1>6, <1>7, MaxIs
  <1> HIDE DEF row
  <1>9. NextHole(g) = <<r, row>>
    BY Zenon DEF NextHole, r, row
  <1>10. r \in DOMAIN d.strips
    BY <1>1, <1>2, <1>5, GameIs
  <1> QED BY <1>2, <1>4, <1>5, <1>7, <1>8, <1>9, <1>10

\* Grid h is grid g with its hole in r, row refilled: no other hole appears or
\* goes, the grid is whole once none is left, and what fell lies where it did.
Refilled(d, g, r, row, h) ==
    /\ Half(d, h)
    /\ \A q \in OpenReels(h) : \A k \in Holes(h[q]) :
          q \in OpenReels(g) /\ k \in Holes(g[q]) /\ <<q, k>> # <<r, row>>
    /\ OpenReels(g) = {r} /\ Holes(g[r]) = {row} => Whole(d, h)
    /\ ~(OpenReels(g) = {r} /\ Holes(g[r]) = {row}) => OpenReels(h) # {}
    /\ \A e, b : Whole(d, b) /\ Fallen(e, b, g) => Fallen(e, b, h)

\* Writing a symbol of the catalog into a hole refills it.
LEMMA RefillIs ==
    ASSUME NEW d \in Games, NEW g, Half(d, g),
           NEW r \in 1..Len(g), NEW row \in Holes(g[r]),
           NEW v \in CatalogIds(d), NEW h, h = [g EXCEPT ![r][row] = v]
    PROVE  Refilled(d, g, r, row, h)
  <1> DEFINE I == CatalogIds(d)
             J == I \cup {Hole}
             N == Seq(J)
  <1>1. g \in Seq(N) /\ Len(g) = Len(d.strips) /\ \A q \in 1..Len(g) : Len(g[q]) \in d.rows
    BY Zenon DEF Half
  <1>2. DOMAIN g = 1..Len(g) /\ Len(g) \in Nat /\ \A q \in DOMAIN g : g[q] \in N
    <2> HIDE DEF N
    <2> QED BY <1>1
  <1>3. \A q \in DOMAIN g : /\ DOMAIN g[q] = 1..Len(g[q]) /\ Len(g[q]) \in Nat
                            /\ \A k \in DOMAIN g[q] : g[q][k] \in J
    <2> TAKE q \in DOMAIN g
    <2>1. g[q] \in N
      BY <1>2
    <2> HIDE DEF J
    <2> QED BY <2>1
  <1>4. row \in DOMAIN g[r] /\ g[r][row] = Hole
    BY DEF Holes
  <1>5. v \in I /\ v \in J /\ v # Hole
    BY GameIs
  <1> HIDE DEF I, J, N
  <1>6. /\ DOMAIN h = DOMAIN g
        /\ \A q \in DOMAIN g : DOMAIN h[q] = DOMAIN g[q]
        /\ \A q \in DOMAIN g : \A k \in DOMAIN g[q] :
              h[q][k] = IF q = r /\ k = row THEN v ELSE g[q][k]
    BY <1>2, <1>4
  <1>7. ASSUME NEW q \in DOMAIN g PROVE h[q] \in N /\ Len(h[q]) = Len(g[q])
    <2>1. \A k \in 1..Len(g[q]) : h[q][k] \in J
      BY <1>3, <1>5, <1>6
    <2>2. CASE q = r
      <3>1. h[q] = [g[q] EXCEPT ![row] = v]
        BY <1>2, <2>2
      <3> QED BY <1>2, <1>3, <1>4, <1>5, <2>2, <3>1 DEF N
    <2>3. CASE q # r
      <3>1. h[q] = g[q]
        BY <1>2, <2>3
      <3> QED BY <1>2, <3>1
    <2> QED BY <2>2, <2>3
  <1>8. h \in Seq(N) /\ Len(h) = Len(g)
    <2>1. h = [q \in 1..Len(g) |-> h[q]]
      BY <1>2
    <2>2. \A q \in 1..Len(g) : h[q] \in N
      BY <1>2, <1>7
    <2> QED BY ONLY <1>2, <2>1, <2>2, SequenceIs
  <1>9. Half(d, h)
    BY <1>1, <1>2, <1>7, <1>8, Zenon DEF Half, N, J, I
  <1>10. ASSUME NEW q \in OpenReels(h), NEW k \in Holes(h[q])
         PROVE  /\ q \in OpenReels(g) /\ k \in Holes(g[q])
                /\ <<q, k>> # <<r, row>>
    <2>1. q \in DOMAIN g /\ k \in DOMAIN g[q] /\ h[q][k] = Hole
      BY <1>6 DEF OpenReels, Holes
    <2>2. ~(q = r /\ k = row) /\ g[q][k] = Hole
      BY <1>5, <1>6, <2>1
    <2>3. k \in Holes(g[q])
      BY <2>1, <2>2 DEF Holes
    <2>4. q \in OpenReels(g)
      BY <2>1, <2>3 DEF OpenReels
    <2> QED BY <2>2, <2>3, <2>4
  <1>11. ASSUME OpenReels(g) = {r}, Holes(g[r]) = {row} PROVE Whole(d, h)
    <2>1. \A q \in DOMAIN h : \A k \in DOMAIN h[q] : h[q][k] # Hole
      <3> SUFFICES ASSUME NEW q \in DOMAIN h, NEW k \in DOMAIN h[q], h[q][k] = Hole
                   PROVE  FALSE
        OBVIOUS
      <3>1. k \in Holes(h[q]) /\ q \in OpenReels(h)
        BY DEF Holes, OpenReels
      <3>2. q \in {r} /\ k \in Holes(g[q]) /\ <<q, k>> # <<r, row>>
        BY <1>10, <1>11, <3>1
      <3> QED BY <1>11, <3>2
    <2>2. \A q \in DOMAIN g : h[q] \in Seq(I)
      <3> TAKE q \in DOMAIN g
      <3>1. h[q] \in N /\ DOMAIN h[q] = 1..Len(g[q]) /\ Len(h[q]) = Len(g[q])
            /\ Len(g[q]) \in Nat
        BY <1>3, <1>6, <1>7
      <3>2. \A k \in 1..Len(g[q]) : h[q][k] \in I
        <4> TAKE k \in 1..Len(g[q])
        <4>1. h[q][k] # Hole /\ h[q][k] \in J
          BY <1>3, <1>5, <1>6, <2>1, <3>1
        <4> QED BY <4>1 DEF J
      <3>3. h[q] = [k \in 1..Len(g[q]) |-> h[q][k]]
        <4>1. h[q] \in [1..Len(h[q]) -> J]
          BY <3>1, LenProperties DEF N
        <4> QED BY <3>1, <4>1
      <3> QED BY <3>1, <3>2, <3>3, SequenceIs, Zenon
    <2>3. h \in Seq(Seq(I))
      <3>1. h = [q \in 1..Len(g) |-> h[q]]
        BY <1>2
      <3> DEFINE R == Seq(I)
      <3>2. \A q \in 1..Len(g) : h[q] \in R
        BY <1>2, <2>2
      <3> HIDE DEF R
      <3>3. h \in Seq(R)
        BY ONLY <1>2, <3>1, <3>2, SequenceIs
      <3> QED BY <3>3 DEF R
    <2>4. /\ Len(h) = Len(d.strips) /\ Len(h) <= Len(d.strips)
          /\ \A q \in 1..Len(h) : Len(h[q]) \in d.rows
      <3>1. Len(h) <= Len(d.strips)
        BY <1>1, <1>2, <1>8
      <3> QED BY <1>1, <1>9, <1>8, <3>1, Zenon DEF Half
    <2> QED BY <2>3, <2>4, Zenon DEF Whole, Reels, I
  <1>12. ASSUME ~(OpenReels(g) = {r} /\ Holes(g[r]) = {row})
         PROVE  OpenReels(h) # {}
    <2>1. r \in OpenReels(g)
      BY <1>2 DEF OpenReels
    <2>2. PICK q \in OpenReels(g) : \E k \in Holes(g[q]) : <<q, k>> # <<r, row>>
      <3>1. CASE OpenReels(g) # {r}
        <4>1. PICK q \in OpenReels(g) : q # r
          BY <2>1, <3>1
        <4>2. PICK k : k \in Holes(g[q])
          BY DEF OpenReels
        <4> QED BY <4>1, <4>2
      <3>2. CASE Holes(g[r]) # {row}
        <4>1. PICK k \in Holes(g[r]) : k # row
          BY <3>2
        <4> QED BY <2>1, <4>1
      <3> QED BY <1>12, <3>1, <3>2
    <2>3. PICK k \in Holes(g[q]) : <<q, k>> # <<r, row>>
      BY <2>2
    <2>4. q \in DOMAIN g /\ k \in DOMAIN g[q] /\ g[q][k] = Hole
      BY DEF OpenReels, Holes
    <2>5. h[q][k] = Hole
      BY <1>6, <2>3, <2>4
    <2>6. k \in Holes(h[q]) /\ q \in DOMAIN h
      BY <1>6, <2>4, <2>5 DEF Holes
    <2> QED BY <2>6 DEF OpenReels
  <1>13. ASSUME NEW e, NEW b, Whole(d, b), Fallen(e, b, g) PROVE Fallen(e, b, h)
    <2>1. Len(h) = Len(b) /\ Len(g) = Len(b)
      BY <1>8, <1>13, Zenon DEF Fallen
    <2>2. ASSUME NEW q \in 1..Len(b)
          PROVE  /\ Len(h[q]) = Len(b[q])
                 /\ \A k \in DOMAIN b[q] : k \notin RemovedRows(e, q) =>
                       /\ Landing(b[q], RemovedRows(e, q), k) \in DOMAIN b[q]
                       /\ h[q][Landing(b[q], RemovedRows(e, q), k)] = b[q][k]
      <3>1. /\ Len(g[q]) = Len(b[q])
            /\ \A k \in DOMAIN b[q] : k \notin RemovedRows(e, q) =>
                  /\ Landing(b[q], RemovedRows(e, q), k) \in DOMAIN b[q]
                  /\ g[q][Landing(b[q], RemovedRows(e, q), k)] = b[q][k]
        BY <1>13, Zenon DEF Fallen
      <3>2. q \in DOMAIN g /\ Reels(d, b)
        BY <1>2, <1>13, <2>1 DEF Whole
      <3>3. b[q] \in Seq(I) /\ DOMAIN b[q] = 1..Len(b[q])
        BY <3>2, ReelIs, Zenon DEF I
      <3>4. Len(h[q]) = Len(b[q])
        BY <1>7, <3>1, <3>2
      <3>5. ASSUME NEW k \in DOMAIN b[q], k \notin RemovedRows(e, q)
            PROVE  h[q][Landing(b[q], RemovedRows(e, q), k)] = b[q][k]
        <4> DEFINE m == Landing(b[q], RemovedRows(e, q), k)
        <4>1. m \in DOMAIN b[q] /\ g[q][m] = b[q][k]
          BY <3>1, <3>5, Zenon
        <4> HIDE DEF m
        <4>2. b[q][k] \in I
          BY <3>3
        <4>3. b[q][k] # Hole
          BY <4>2, GameIs DEF I
        <4>4. m \in DOMAIN g[q] /\ ~(q = r /\ m = row)
          BY <1>3, <1>4, <3>1, <3>2, <3>3, <4>1, <4>3
        <4>5. h[q][m] = b[q][k]
          BY <1>6, <3>2, <4>1, <4>4
        <4> QED BY <4>5 DEF m
      <3> QED BY <3>1, <3>4, <3>5, Zenon
    <2> QED BY <2>1, <2>2, Zenon DEF Fallen
  <1> QED BY <1>9, <1>10, <1>11, <1>12, <1>13, Zenon DEF Refilled

\* A scatter is never removed: it is found where it fell.
LEMMA ScattersFall ==
    ASSUME NEW d \in Games, NEW b, Reels(d, b), NEW g, Reels(d, g),
           NEW e, e = Evaluation(d, b), Fallen(e, b, g)
    PROVE  Cardinality(Scatters(d, b)) <= Cardinality(Scatters(d, g))
  <1> DEFINE X == Scatters(d, b)
             Y == Scatters(d, g)
             land(r, row) == Landing(b[r], RemovedRows(e, r), row)
             f == [x \in X |-> <<x[1], land(x[1], x[2])>>]
  <1>1. /\ IsFiniteSet(Y)
        /\ \A r, row : <<r, row>> \in Y <=>
              r \in 1..Len(g) /\ row \in DOMAIN g[r] /\ g[r][row] \in d.scatters
    BY ScattersAre, Zenon
  <1>2. /\ \A r, row : <<r, row>> \in X <=>
              r \in 1..Len(b) /\ row \in DOMAIN b[r] /\ b[r][row] \in d.scatters
        /\ \A x \in X : x = <<x[1], x[2]>>
    BY ScattersAre, Zenon
  <1>3. e.wins = Wins(d, b)
    BY DEF Evaluation
  <1>4. ASSUME NEW r \in 1..Len(b), NEW row \in DOMAIN b[r],
               b[r][row] \in d.scatters
        PROVE  row \notin RemovedRows(e, r)
    <2> SUFFICES ASSUME row \in RemovedRows(e, r) PROVE FALSE
      OBVIOUS
    <2>1. PICK x \in Wins(d, b) : <<r, row>> \in x.cells
      BY <1>3 DEF RemovedRows, Removed
    <2>2. b[r][row] \notin d.scatters
      BY <2>1, CellsAre
    <2> QED BY <1>4, <2>2
  <1>5. /\ Len(g) = Len(b)
        /\ \A r \in 1..Len(b) :
              /\ Len(g[r]) = Len(b[r])
              /\ \A row \in DOMAIN b[r] : row \notin RemovedRows(e, r) =>
                    land(r, row) \in DOMAIN b[r] /\ g[r][land(r, row)] = b[r][row]
    BY Zenon DEF Fallen
  <1>6. \A r \in 1..Len(b) : DOMAIN b[r] = 1..Len(b[r])
                             /\ b[r] \in Seq(CatalogIds(d))
    BY ReelIs
  <1>7. \A r \in 1..Len(b) : DOMAIN g[r] = DOMAIN b[r]
    <2> TAKE r \in 1..Len(b)
    <2>1. DOMAIN g[r] = 1..Len(g[r]) /\ Len(g[r]) = Len(b[r])
      BY <1>5, ReelIs
    <2> QED BY <1>6, <2>1
  <1>8. ASSUME NEW r \in 1..Len(b), NEW m \in DOMAIN b[r], NEW n \in DOMAIN b[r],
               m # n, m \notin RemovedRows(e, r), n \notin RemovedRows(e, r)
        PROVE  land(r, m) # land(r, n)
    <2>1. b[r] \in Seq(CatalogIds(d)) /\ m \in Int /\ n \in Int
      <3>1. Len(b[r]) \in Nat /\ m \in 1..Len(b[r]) /\ n \in 1..Len(b[r])
        BY <1>6
      <3> QED BY <1>6, <3>1
    <2>2. CASE m < n
      BY <1>8, <2>1, <2>2, LandingsDiffer
    <2>3. CASE n < m
      BY <1>8, <2>1, <2>3, LandingsDiffer
    <2> QED BY <1>8, <2>1, <2>2, <2>3
  <1> HIDE DEF X, Y, land
  <1>9. ASSUME NEW x \in X
        PROVE  /\ x[1] \in 1..Len(b) /\ x[2] \in DOMAIN b[x[1]]
               /\ x[2] \notin RemovedRows(e, x[1])
               /\ x = <<x[1], x[2]>>
               /\ <<x[1], land(x[1], x[2])>> \in Y
    <2> DEFINE r == x[1]
               row == x[2]
    <2>1. x = <<r, row>>
      BY <1>2
    <2> HIDE DEF r, row
    <2>2. r \in 1..Len(b) /\ row \in DOMAIN b[r] /\ b[r][row] \in d.scatters
      BY <1>2, <2>1
    <2>3. row \notin RemovedRows(e, r)
      BY <1>4, <2>2
    <2>4. land(r, row) \in DOMAIN b[r] /\ g[r][land(r, row)] = b[r][row]
      BY <1>5, <2>2, <2>3
    <2>5. <<r, land(r, row)>> \in Y
      <3>1. r \in 1..Len(g) /\ land(r, row) \in DOMAIN g[r]
        BY <1>5, <1>7, <2>2, <2>4
      <3>2. g[r][land(r, row)] \in d.scatters
        BY <2>2, <2>4
      <3> QED BY <1>1, <3>1, <3>2, Zenon
    <2> QED BY <2>1, <2>2, <2>3, <2>5 DEF r, row
  <1>10. f \in [X -> Y]
    BY <1>9
  <1>11. ASSUME NEW x \in X, NEW y \in X, f[x] = f[y] PROVE x = y
    <2>1. f[x] = <<x[1], land(x[1], x[2])>> /\ f[y] = <<y[1], land(y[1], y[2])>>
      OBVIOUS
    <2> HIDE DEF f
    <2>2. x[1] = y[1] /\ land(x[1], x[2]) = land(x[1], y[2])
      <3>1. <<x[1], land(x[1], x[2])>> = <<y[1], land(y[1], y[2])>>
        BY <1>11, <2>1, Zenon
      <3>2. x[1] = y[1] /\ land(x[1], x[2]) = land(y[1], y[2])
        BY <3>1
      <3> QED BY <3>2, Zenon
    <2>3. x[2] = y[2]
      BY <1>8, <1>9, <2>2
    <2> QED BY <1>9, <2>2, <2>3
  <1> HIDE DEF f
  <1>12. \A x, y \in X : f[x] = f[y] => x = y
    BY <1>11
  <1>13. Cardinality(X) <= Cardinality(Y)
    BY <1>1, <1>10, <1>12, NoLarger
  <1> QED BY <1>13 DEF X, Y

------------------------------------------------------------------------------
(* The inductive invariant.                                                  *)

\* What the next grid is made from has been evaluated, and it won.
Cascading(d, e, b) ==
    /\ Whole(d, b) /\ e = Evaluation(d, b) /\ e.total # Failed /\ e.wins # {}

EvalInv ==
    /\ {eval.total, eval.scatter} \subseteq Multiplier
    /\ eval.scatter <= eval.total

PhaseInv ==
    /\ game \in Games
    /\ pc \in {"generate", "evaluate", "collapse", "refill", "done", "failed"}
    /\ cascades \in 0..game.maxCascades
    /\ pc = "generate" => cascades = 0
    /\ pc = "collapse" => cascades < game.maxCascades
    /\ pc = "refill" => cascades > 0

ShapeInv ==
    /\ pc = "generate" => Reels(game, grid) /\ Len(grid) < Len(game.strips)
    /\ pc \in {"evaluate", "collapse", "done"} => Whole(game, grid)
    /\ pc = "refill" => Half(game, grid) /\ OpenReels(grid) # {}
    /\ Reels(game, grid) \/ Half(game, grid)
    /\ before = <<>> \/ Whole(game, before)

WinInv ==
    /\ pc \in {"collapse", "done"} =>
          eval = Evaluation(game, grid) /\ eval.total # Failed
    /\ pc = "collapse" => eval.wins # {}
    /\ pc = "refill" \/ (pc = "evaluate" /\ cascades > 0) =>
          Cascading(game, eval, before) /\ Fallen(eval, before, grid)

OrderInv ==
    /\ added \in Seq(Nat \X Nat)
    /\ \A i, j \in DOMAIN added : i < j => Precedes(added[i], added[j])
    /\ pc = "generate" => added = <<>>
    /\ pc = "refill" =>
          \A i \in DOMAIN added : \A q \in OpenReels(grid) :
             \A k \in Holes(grid[q]) : Precedes(added[i], <<q, k>>)

GridInv == PhaseInv /\ EvalInv /\ ShapeInv /\ WinInv /\ OrderInv

\* A spin starts with no grid.
LEMMA InitHolds == Init => GridInv
  <1> SUFFICES ASSUME Init PROVE GridInv
    OBVIOUS
  <1>1. /\ game \in Games /\ pc = "generate" /\ grid = <<>> /\ eval = NoEval
        /\ before = <<>> /\ added = <<>> /\ cascades = 0
    BY Zenon DEF Init
  <1>2. game.maxCascades \in Nat /\ Len(game.strips) \in Nat /\ Len(game.strips) >= 1
    BY <1>1, GameIs
  <1>3. PhaseInv
    BY <1>1, <1>2 DEF PhaseInv
  <1>4. EvalInv
    BY <1>1, MoneyAssumption DEF EvalInv, NoEval, Multiplier
  <1>5. Reels(game, grid) /\ Len(grid) = 0
    BY <1>1, <1>2 DEF Reels
  <1>6. ShapeInv
    BY <1>1, <1>2, <1>5 DEF ShapeInv
  <1>7. WinInv
    BY <1>1 DEF WinInv
  <1>8. OrderInv
    BY <1>1 DEF OrderInv
  <1> QED BY <1>3, <1>4, <1>6, <1>7, <1>8 DEF GridInv

\* A reel is sampled.
LEMMA SampleReelHolds == GridInv /\ SampleReel => GridInv'
  <1> SUFFICES ASSUME GridInv, SampleReel PROVE GridInv'
    OBVIOUS
  <1> DEFINE r == Len(grid) + 1
  <1>1. /\ pc = "generate" /\ game' = game /\ eval' = eval /\ before' = before
        /\ added' = added /\ cascades' = cascades
        /\ pc' = IF r = Len(game.strips) THEN "evaluate" ELSE "generate"
    BY DEF SampleReel
  <1>2. /\ game \in Games /\ cascades = 0 /\ Reels(game, grid)
        /\ Len(grid) < Len(game.strips) /\ added = <<>>
        /\ cascades \in 0..game.maxCascades /\ EvalInv
        /\ (before = <<>> \/ Whole(game, before))
    BY <1>1, Zenon DEF GridInv, PhaseInv, ShapeInv, OrderInv
  <1>3. Len(grid) \in Nat /\ Len(game.strips) \in Nat
    <2>1. grid \in Seq(Seq(CatalogIds(game)))
      BY <1>2, Zenon DEF Reels
    <2> QED BY <1>2, <2>1, GameIs
  <1>4. PICK n \in game.rows, stop \in DOMAIN game.strips[r] :
           grid' = Append(grid, Window(game.strips[r], stop, n))
    BY DEF SampleReel
  <1>5. r \in DOMAIN game.strips
    BY <1>2, <1>3, GameIs
  <1>6. /\ Window(game.strips[r], stop, n) \in Seq(CatalogIds(game))
        /\ Len(Window(game.strips[r], stop, n)) = n
    BY <1>2, <1>5, WindowIs
  <1>7. Reels(game, grid') /\ Len(grid') = r
    BY <1>2, <1>4, <1>6, ReelsGrow
  <1>8. r # Len(game.strips) => r < Len(game.strips)
    BY <1>2, <1>3
  <1> HIDE DEF r
  <1>9. PhaseInv'
    BY <1>1, <1>2 DEF PhaseInv
  <1>10. EvalInv'
    BY <1>1, <1>2 DEF EvalInv
  <1>11. ShapeInv'
    BY <1>1, <1>2, <1>7, <1>8 DEF ShapeInv, Whole
  <1>12. WinInv'
    <2>1. ~(cascades > 0)
      BY <1>2
    <2> QED BY <1>1, <2>1 DEF WinInv
  <1>13. OrderInv'
    BY <1>1, <1>2 DEF OrderInv
  <1> QED BY <1>9, <1>10, <1>11, <1>12, <1>13, Zenon DEF GridInv

\* A grid is evaluated.
LEMMA EvaluateHolds == GridInv /\ Evaluate => GridInv'
  <1> SUFFICES ASSUME GridInv, Evaluate PROVE GridInv'
    OBVIOUS
  <1> DEFINE e == Evaluation(game, grid)
  <1>1. /\ pc = "evaluate" /\ game' = game /\ grid' = grid
        /\ before' = before /\ added' = added /\ cascades' = cascades
        /\ IF e.total = Failed
           THEN pc' = "failed" /\ eval' = eval
           ELSE /\ eval' = e
                /\ pc' = IF e.wins # {} /\ cascades < game.maxCascades
                         THEN "collapse" ELSE "done"
    BY Zenon DEF Evaluate
  <1>2. /\ game \in Games /\ Whole(game, grid) /\ Reels(game, grid)
        /\ cascades \in 0..game.maxCascades /\ EvalInv
        /\ (before = <<>> \/ Whole(game, before))
        /\ added \in Seq(Nat \X Nat)
        /\ \A i, j \in DOMAIN added : i < j => Precedes(added[i], added[j])
    BY <1>1, Zenon DEF GridInv, PhaseInv, ShapeInv, OrderInv, Whole
  <1>3. e.total # Failed => /\ {e.total, e.scatter} \subseteq Multiplier
                            /\ e.scatter <= e.total
    BY <1>2, EvaluationIs
  <1> HIDE DEF e
  <1>4. pc' \in {"failed", "collapse", "done"}
    BY <1>1, Zenon
  <1>5. PhaseInv'
    <2>1. pc' = "collapse" => cascades < game.maxCascades
      BY <1>1
    <2> QED BY <1>1, <1>2, <1>4, <2>1 DEF PhaseInv
  <1>6. EvalInv'
    <2>1. CASE e.total = Failed
      BY <1>1, <1>2, <2>1 DEF EvalInv
    <2>2. CASE e.total # Failed
      BY <1>1, <1>3, <2>2, Zenon DEF EvalInv
    <2> QED BY <2>1, <2>2
  <1>7. ShapeInv'
    BY <1>1, <1>2, <1>4 DEF ShapeInv
  <1>8. WinInv'
    <2>1. pc' \in {"collapse", "done"} => eval' = e /\ e.total # Failed
      BY <1>1
    <2>2. pc' = "collapse" => e.wins # {}
      BY <1>1
    <2> QED BY <1>1, <1>4, <2>1, <2>2 DEF WinInv, e
  <1>9. OrderInv'
    BY <1>1, <1>2, <1>4 DEF OrderInv
  <1> QED BY <1>5, <1>6, <1>7, <1>8, <1>9, Zenon DEF GridInv

\* A cascade collapses the grid.
LEMMA CollapseHolds == GridInv /\ Collapse => GridInv'
  <1> SUFFICES ASSUME GridInv, Collapse PROVE GridInv'
    OBVIOUS
  <1>1. /\ pc = "collapse" /\ before' = grid /\ added' = <<>>
        /\ cascades' = cascades + 1 /\ pc' = "refill" /\ game' = game
        /\ eval' = eval
        /\ grid' = [r \in DOMAIN grid |->
                       CollapsedReel(grid[r], RemovedRows(eval, r))]
    BY DEF Collapse
  <1>2. /\ game \in Games /\ Whole(game, grid)
        /\ cascades \in 0..game.maxCascades /\ cascades < game.maxCascades
        /\ eval = Evaluation(game, grid) /\ eval.total # Failed
        /\ eval.wins # {} /\ EvalInv
    BY <1>1, Zenon DEF GridInv, PhaseInv, ShapeInv, WinInv
  <1>3. /\ Half(game, grid') /\ Fallen(eval, grid, grid')
        /\ OpenReels(grid') # {}
    BY <1>1, <1>2, CollapseIs
  <1>4. PhaseInv'
    <2>1. game.maxCascades \in Nat
      BY <1>2, GameIs
    <2>2. cascades' \in 0..game.maxCascades /\ cascades' > 0
      BY <1>1, <1>2, <2>1
    <2> QED BY <1>1, <1>2, <2>2 DEF PhaseInv
  <1>5. EvalInv'
    BY <1>1, <1>2 DEF EvalInv
  <1>6. ShapeInv'
    BY <1>1, <1>2, <1>3 DEF ShapeInv
  <1>7. WinInv'
    <2>1. Cascading(game', eval', before') /\ Fallen(eval', before', grid')
      BY <1>1, <1>2, <1>3, Zenon DEF Cascading
    <2> QED BY <1>1, <2>1 DEF WinInv
  <1>8. OrderInv'
    BY <1>1 DEF OrderInv
  <1> QED BY <1>4, <1>5, <1>6, <1>7, <1>8, Zenon DEF GridInv

\* A cell is refilled.
LEMMA RefillCellHolds == GridInv /\ RefillCell => GridInv'
  <1> SUFFICES ASSUME GridInv, RefillCell PROVE GridInv'
    OBVIOUS
  <1> DEFINE r == NextHole(grid)[1]
             row == NextHole(grid)[2]
             last == OpenReels(grid) = {r} /\ Holes(grid[r]) = {row}
  <1>1. /\ pc = "refill" /\ game' = game /\ eval' = eval /\ before' = before
        /\ cascades' = cascades /\ added' = Append(added, <<r, row>>)
        /\ pc' = IF last THEN "evaluate" ELSE "refill"
    BY DEF RefillCell
  <1>2. /\ game \in Games /\ Half(game, grid) /\ OpenReels(grid) # {}
        /\ cascades \in 0..game.maxCascades /\ cascades > 0 /\ EvalInv
        /\ (before = <<>> \/ Whole(game, before))
        /\ Cascading(game, eval, before) /\ Fallen(eval, before, grid)
        /\ added \in Seq(Nat \X Nat)
        /\ \A i, j \in DOMAIN added : i < j => Precedes(added[i], added[j])
        /\ \A i \in DOMAIN added : \A q \in OpenReels(grid) :
              \A k \in Holes(grid[q]) : Precedes(added[i], <<q, k>>)
    BY <1>1, Zenon DEF GridInv, PhaseInv, ShapeInv, WinInv, OrderInv
  <1>3. /\ r \in OpenReels(grid) /\ r \in 1..Len(grid) /\ r \in DOMAIN game.strips
        /\ row \in Holes(grid[r]) /\ row \in DOMAIN grid[r]
        /\ \A q \in OpenReels(grid) : r <= q
        /\ \A k \in Holes(grid[r]) : k <= row
    BY <1>2, NextHoleIs, Zenon
  <1>4. PICK i \in DOMAIN game.strips[r] :
           grid' = [grid EXCEPT ![r][row] = game.strips[r][i]]
    BY DEF RefillCell, StripOf
  <1>5. game.strips[r][i] \in CatalogIds(game)
    <2>1. game.strips[r] \in Seq(CatalogIds(game))
      BY <1>2, <1>3, StripsAre
    <2> QED BY <2>1
  <1> HIDE DEF r, row
  <1>6. /\ Half(game, grid')
        /\ \A q \in OpenReels(grid') : \A k \in Holes(grid'[q]) :
              /\ q \in OpenReels(grid) /\ k \in Holes(grid[q])
              /\ <<q, k>> # <<r, row>>
        /\ last => Whole(game, grid')
        /\ ~last => OpenReels(grid') # {}
        /\ \A e, b : Whole(game, b) /\ Fallen(e, b, grid) => Fallen(e, b, grid')
    <2> DEFINE v == game.strips[r][i]
    <2>1. v \in CatalogIds(game) /\ grid' = [grid EXCEPT ![r][row] = v]
      BY <1>4, <1>5
    <2> HIDE DEF v
    <2>2. Refilled(game, grid, r, row, grid')
      BY <1>2, <1>3, <2>1, RefillIs
    <2> QED BY <2>2, Zenon DEF Refilled
  <1>7. r \in Nat /\ row \in Nat /\ \A q \in OpenReels(grid) :
           q \in Nat /\ \A k \in Holes(grid[q]) : k \in Nat
    <2> DEFINE N == Seq(CatalogIds(game) \cup {Hole})
    <2>1. grid \in Seq(N)
      BY <1>2, Zenon DEF Half
    <2>2. \A q \in OpenReels(grid) : q \in Nat /\ grid[q] \in N
      <3> HIDE DEF N
      <3> QED BY <2>1 DEF OpenReels
    <2>3. \A q \in OpenReels(grid) : \A k \in Holes(grid[q]) : k \in Nat
      BY <2>2 DEF Holes
    <2> QED BY <1>3, <2>2, <2>3
  <1>8. PhaseInv'
    <2>1. pc' \in {"evaluate", "refill"}
      BY <1>1
    <2> QED BY <1>1, <1>2, <2>1 DEF PhaseInv
  <1>9. EvalInv'
    BY <1>1, <1>2 DEF EvalInv
  <1> HIDE DEF last
  <1>10. ShapeInv'
    <2>1. CASE last
      BY <1>1, <1>2, <1>6, <2>1 DEF ShapeInv
    <2>2. CASE ~last
      BY <1>1, <1>2, <1>6, <2>2 DEF ShapeInv
    <2> QED BY <2>1, <2>2
  <1>11. WinInv'
    <2>1. Whole(game, before)
      BY <1>2, Zenon DEF Cascading
    <2>2. Fallen(eval, before, grid')
      BY <1>2, <1>6, <2>1, Zenon
    <2>3. pc' \in {"evaluate", "refill"}
      BY <1>1
    <2> QED BY <1>1, <1>2, <2>2, <2>3 DEF WinInv
  <1>12. OrderInv'
    <2> DEFINE n == Len(added) + 1
    <2>1. <<r, row>> \in Nat \X Nat
      BY <1>7
    <2>2. /\ added' \in Seq(Nat \X Nat) /\ DOMAIN added' = 1..n /\ n \in Nat
          /\ DOMAIN added = 1..Len(added) /\ Len(added) \in Nat
          /\ added'[n] = <<r, row>>
          /\ \A k \in DOMAIN added : added'[k] = added[k]
      <3> DEFINE C == Nat \X Nat
      <3>1. added \in Seq(C) /\ <<r, row>> \in C
        BY <1>2, <2>1
      <3> HIDE DEF C
      <3>2. added' \in Seq(C) /\ Len(added') = n /\ added'[n] = <<r, row>>
            /\ \A k \in 1..Len(added) : added'[k] = added[k]
        BY <1>1, <3>1, AppendProperties
      <3>3. DOMAIN added = 1..Len(added) /\ Len(added) \in Nat
        BY <3>1, LenProperties
      <3>4. DOMAIN added' = 1..n /\ n \in Nat
        BY <3>2, <3>3, LenProperties
      <3> QED BY <3>2, <3>3, <3>4 DEF C
    <2>3. ASSUME NEW k \in DOMAIN added PROVE Precedes(added[k], <<r, row>>)
      BY <1>2, <1>3, Zenon
    <2>4. ASSUME NEW k \in DOMAIN added', NEW m \in DOMAIN added', k < m
          PROVE  Precedes(added'[k], added'[m])
      <3>1. k \in DOMAIN added
        BY <2>2, <2>4
      <3>2. CASE m = n
        BY <2>2, <2>3, <3>1, <3>2
      <3>3. CASE m # n
        <4>1. m \in DOMAIN added
          BY <2>2, <3>3
        <4> QED BY <1>2, <2>2, <2>4, <3>1, <4>1
      <3> QED BY <3>2, <3>3
    <2>5. ASSUME NEW k \in DOMAIN added', NEW q \in OpenReels(grid'),
                 NEW h \in Holes(grid'[q])
          PROVE  Precedes(added'[k], <<q, h>>)
      <3>1. q \in OpenReels(grid) /\ h \in Holes(grid[q]) /\ <<q, h>> # <<r, row>>
        BY <1>6
      <3>2. CASE k = n
        <4>1. r <= q /\ q \in Nat /\ h \in Nat
          BY <1>3, <1>7, <3>1
        <4>2. q = r => h <= row /\ h # row
          BY <1>3, <3>1
        <4>3. r < q \/ (r = q /\ row > h)
          BY <1>7, <4>1, <4>2
        <4>4. Precedes(<<r, row>>, <<q, h>>)
          BY <4>3 DEF Precedes
        <4> QED BY <2>2, <3>2, <4>4
      <3>3. CASE k # n
        <4>1. k \in DOMAIN added
          BY <2>2, <3>3
        <4> QED BY <1>2, <2>2, <3>1, <4>1
      <3> QED BY <3>2, <3>3
    <2>6. pc' # "generate"
      BY <1>1
    <2> QED BY <2>2, <2>4, <2>5, <2>6, Zenon DEF OrderInv
  <1> QED BY <1>8, <1>9, <1>10, <1>11, <1>12, Zenon DEF GridInv

\* Every step keeps the invariant.
LEMMA NextHolds == GridInv /\ [Next]_vars => GridInv'
  <1> SUFFICES ASSUME GridInv, [Next]_vars PROVE GridInv'
    OBVIOUS
  <1>1. CASE SampleReel
    BY <1>1, SampleReelHolds
  <1>2. CASE Evaluate
    BY <1>2, EvaluateHolds
  <1>3. CASE Collapse
    BY <1>3, CollapseHolds
  <1>4. CASE RefillCell
    BY <1>4, RefillCellHolds
  <1>5. CASE SourceFails
    <2>1. /\ pc' = "failed" /\ game' = game /\ grid' = grid /\ eval' = eval
          /\ before' = before /\ added' = added /\ cascades' = cascades
      BY <1>5 DEF SourceFails
    <2>2. PhaseInv'
      BY <2>1 DEF GridInv, PhaseInv
    <2>3. EvalInv'
      BY <2>1 DEF GridInv, EvalInv
    <2>4. ShapeInv'
      BY <2>1 DEF GridInv, ShapeInv
    <2>5. WinInv'
      BY <2>1 DEF WinInv
    <2>6. OrderInv'
      BY <2>1 DEF GridInv, OrderInv
    <2> QED BY <2>2, <2>3, <2>4, <2>5, <2>6, Zenon DEF GridInv
  <1>6. CASE UNCHANGED vars
    <2>1. /\ pc' = pc /\ game' = game /\ grid' = grid /\ eval' = eval
          /\ before' = before /\ added' = added /\ cascades' = cascades
      BY <1>6 DEF vars
    <2>2. PhaseInv'
      BY <2>1 DEF GridInv, PhaseInv
    <2>3. EvalInv'
      BY <2>1 DEF GridInv, EvalInv
    <2>4. ShapeInv'
      BY <2>1 DEF GridInv, ShapeInv
    <2>5. WinInv'
      BY <2>1 DEF GridInv, WinInv
    <2>6. OrderInv'
      BY <2>1 DEF GridInv, OrderInv
    <2> QED BY <2>2, <2>3, <2>4, <2>5, <2>6, Zenon DEF GridInv
  <1>7. CASE Idle
    BY <1>6, <1>7 DEF Idle
  <1> QED BY <1>1, <1>2, <1>3, <1>4, <1>5, <1>6, <1>7, Zenon DEF Next

\* The invariant holds throughout.
THEOREM GridInvHolds == Spec => []GridInv
  BY InitHolds, NextHolds, PTL DEF Spec

------------------------------------------------------------------------------
(* What it implies.                                                          *)

\* A grid without holes, as TypeOK sees one.
LEMMA ReelsAreCells ==
    ASSUME NEW d \in Games, NEW g, Reels(d, g)
    PROVE  /\ g \in Seq(Seq(Cell)) /\ g \in Seq(Seq(Symbols))
           /\ \A r \in DOMAIN g : /\ Len(g[r]) \in d.rows
                                  /\ Hole \notin ToSet(g[r])
  <1> DEFINE I == CatalogIds(d)
             R == Seq(I)
  <1>1. g \in Seq(R)
    BY Zenon DEF Reels
  <1>2. I \subseteq Symbols /\ I \subseteq Cell /\ Hole \notin I
    BY GameIs DEF Cell
  <1> HIDE DEF I
  <1>3. R \subseteq Seq(Symbols) /\ R \subseteq Seq(Cell)
    BY <1>2
  <1> HIDE DEF R
  <1>4. g \in Seq(Seq(Cell)) /\ g \in Seq(Seq(Symbols))
    <2> DEFINE A == Seq(Cell)
               B == Seq(Symbols)
    <2> HIDE DEF A, B
    <2>1. R \subseteq A /\ R \subseteq B
      BY <1>3 DEF A, B
    <2>2. g \in Seq(A) /\ g \in Seq(B)
      BY <1>1, <2>1
    <2> QED BY <2>2 DEF A, B
  <1>5. ASSUME NEW r \in DOMAIN g
        PROVE  Len(g[r]) \in d.rows /\ Hole \notin ToSet(g[r])
    <2>1. r \in 1..Len(g)
      BY <1>1
    <2>2. Len(g[r]) \in d.rows
      BY <2>1, ReelIs
    <2>3. g[r] \in R
      BY <1>1
    <2>4. \A k \in DOMAIN g[r] : g[r][k] \in I
      BY <2>3 DEF R
    <2>5. Hole \notin ToSet(g[r])
      BY <1>2, <2>4 DEF ToSet
    <2> QED BY <2>2, <2>5
  <1> QED BY <1>4, <1>5

\* And one with holes.
LEMMA HalfIsCells ==
    ASSUME NEW d \in Games, NEW g, Half(d, g)
    PROVE  g \in Seq(Seq(Cell)) /\ \A r \in DOMAIN g : Len(g[r]) \in d.rows
  <1> DEFINE I == CatalogIds(d) \cup {Hole}
             R == Seq(I)
             A == Seq(Cell)
  <1>1. g \in Seq(R) /\ \A r \in 1..Len(g) : Len(g[r]) \in d.rows
    BY Zenon DEF Half
  <1>2. I \subseteq Cell
    BY GameIs DEF Cell
  <1> HIDE DEF I
  <1>3. R \subseteq A
    BY <1>2
  <1> HIDE DEF R, A
  <1>4. g \in Seq(A) /\ DOMAIN g = 1..Len(g)
    BY <1>1, <1>3
  <1> QED BY <1>1, <1>4 DEF A

(* Well-formed throughout: the window of every reel has a legal height, and   *)
(* only the two half-built grids of a spin show holes.                        *)
THEOREM GridIsTyped == Spec => []TypeOK
  <1>1. GridInv => TypeOK
    <2> SUFFICES ASSUME GridInv PROVE TypeOK
      OBVIOUS
    <2>1. PhaseInv /\ EvalInv /\ ShapeInv
      BY DEF GridInv
    <2>2. game \in Games
      BY <2>1 DEF PhaseInv
    <2>3. before \in Seq(Seq(Symbols))
      <3>1. CASE before = <<>>
        BY <3>1
      <3>2. CASE Whole(game, before)
        BY <2>2, <3>2, ReelsAreCells DEF Whole
      <3> QED BY <2>1, <3>1, <3>2 DEF ShapeInv
    <2>4. grid \in Seq(Seq(Cell)) /\ \A r \in DOMAIN grid : Len(grid[r]) \in game.rows
      <3>1. CASE Reels(game, grid)
        BY <2>2, <3>1, ReelsAreCells
      <3>2. CASE Half(game, grid)
        BY <2>2, <3>2, HalfIsCells
      <3> QED BY <2>1, <3>1, <3>2 DEF ShapeInv
    <2>5. pc \notin {"refill", "failed"} =>
             \A r \in DOMAIN grid : Hole \notin ToSet(grid[r])
      <3> SUFFICES ASSUME pc \notin {"refill", "failed"}
                   PROVE  \A r \in DOMAIN grid : Hole \notin ToSet(grid[r])
        OBVIOUS
      <3>1. Reels(game, grid)
        BY <2>1 DEF PhaseInv, ShapeInv, Whole
      <3> QED BY <2>2, <3>1, ReelsAreCells
    <2> QED BY <2>1, <2>3, <2>4, <2>5 DEF TypeOK, PhaseInv, EvalInv
  <1> QED BY <1>1, GridInvHolds, PTL

(* Every evaluation a spin goes on from pays each path of the grid it is of:  *)
(* the product of the matching cells, computed with overflow checks, counts   *)
(* the paths, whatever the number of reels and rows.                          *)
THEOREM PathsArePaid == Spec => []PaysEveryPath
  <1>1. GridInv => PaysEveryPath
    <2> SUFFICES ASSUME GridInv, pc \in {"collapse", "done"}
                 PROVE  eval.total - eval.scatter = Total(PathTotals(game, grid))
      BY DEF PaysEveryPath
    <2>1. /\ game \in Games /\ Reels(game, grid)
          /\ eval = Evaluation(game, grid) /\ eval.total # Failed
      BY DEF GridInv, PhaseInv, ShapeInv, WinInv, Whole
    <2> QED BY <2>1, EvaluationIs
  <1> QED BY <1>1, GridInvHolds, PTL

(* What was on no winning path lies, after the refill, lower by the winning   *)
(* cells that were under it, however many cells were drawn in between.        *)
THEOREM SurvivorsLand == Spec => []SurvivorsFall
  <1>1. GridInv => SurvivorsFall
    <2> SUFFICES ASSUME GridInv, pc = "evaluate" /\ cascades > 0,
                        NEW r \in DOMAIN before, NEW row \in DOMAIN before[r],
                        <<r, row>> \notin Removed(eval)
                 PROVE  grid[r][row + Cardinality({q \in DOMAIN before[r] :
                            q > row /\ <<r, q>> \in Removed(eval)})] =
                        before[r][row]
      BY DEF SurvivorsFall
    <2>1. game \in Games /\ Reels(game, before) /\ Fallen(eval, before, grid)
      BY DEF GridInv, PhaseInv, WinInv, Cascading, Whole
    <2>2. r \in 1..Len(before) /\ DOMAIN before[r] = 1..Len(before[r])
      <3>1. DOMAIN before = 1..Len(before)
        <4>1. before \in Seq(Seq(CatalogIds(game)))
          BY <2>1, Zenon DEF Reels
        <4> QED BY <4>1
      <3> QED BY <2>1, <3>1, ReelIs
    <2>3. Len(before[r]) \in Nat
      <3>1. before[r] \in Seq(CatalogIds(game))
        BY <2>1, <2>2, ReelIs
      <3> QED BY <3>1
    <2> DEFINE rows == RemovedRows(eval, r)
    <2>4. \A q \in DOMAIN before[r] : q \in rows <=> <<r, q>> \in Removed(eval)
      <3>1. \A q \in DOMAIN before[r] : q \in Nat
        BY <2>2, <2>3
      <3> QED BY <3>1 DEF RemovedRows
    <2> HIDE DEF rows
    <2>5. Under(before[r], rows, row) =
             {q \in DOMAIN before[r] : q > row /\ <<r, q>> \in Removed(eval)}
      BY <2>4 DEF Under
    <2>6. grid[r][Landing(before[r], rows, row)] = before[r][row]
      BY <2>1, <2>2, <2>4, Zenon DEF Fallen, rows
    <2> QED BY <2>5, <2>6, Zenon DEF Landing
  <1> QED BY <1>1, GridInvHolds, PTL

(* The source's answers fill the holes reel by reel from the left and from    *)
(* the bottom up, the order a replay depends on.                              *)
THEOREM RefillsInOrder == Spec => []RefillOrder
  <1>1. GridInv => RefillOrder
    BY DEF GridInv, OrderInv, Precedes, RefillOrder
  <1> QED BY <1>1, GridInvHolds, PTL

(* A cascade never removes a scatter: the count that decides the free spins   *)
(* only grows from one evaluation to the next.                                *)
THEOREM NoScatterIsRemoved == Spec => ScattersStay
  <1>1. GridInv /\ [Next]_vars =>
           [pc = "evaluate" /\ cascades > 0 => eval'.scatters >= eval.scatters]_vars
    <2> SUFFICES ASSUME GridInv, Next, pc = "evaluate", cascades > 0
                 PROVE  eval'.scatters >= eval.scatters
      OBVIOUS
    <2>1. Evaluate
      BY DEF Next, SampleReel, Collapse, RefillCell, SourceFails, Idle
    <2>2. /\ game \in Games /\ Reels(game, grid) /\ Reels(game, before)
          /\ eval = Evaluation(game, before) /\ Fallen(eval, before, grid)
      BY DEF GridInv, PhaseInv, ShapeInv, WinInv, Cascading, Whole
    <2>3. eval.scatters = Cardinality(Scatters(game, before))
      BY <2>2 DEF Evaluation
    <2>4. /\ Cardinality(Scatters(game, before)) \in Nat
          /\ Cardinality(Scatters(game, grid)) \in Nat
          /\ Cardinality(Scatters(game, before)) <= Cardinality(Scatters(game, grid))
      BY <2>2, ScattersAre, ScattersFall
    <2>5. CASE eval' = eval
      BY <2>3, <2>4, <2>5
    <2>6. CASE eval' = Evaluation(game, grid)
      <3>1. eval'.scatters = Cardinality(Scatters(game, grid))
        BY <2>6 DEF Evaluation
      <3> QED BY <2>3, <2>4, <3>1
    <2> QED BY <2>1, <2>5, <2>6, Zenon DEF Evaluate
  <1> QED BY <1>1, GridInvHolds, PTL DEF Spec, ScattersStay
==============================================================================
