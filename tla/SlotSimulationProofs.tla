------------------------ MODULE SlotSimulationProofs ------------------------
(****************************************************************************)
(* The slot simulator for any outcomes, any number of spins and any bet:    *)
(* what the accumulator holds is within the integers and adds up, the bands *)
(* miss no round and count it where it belongs as long as its payout has a  *)
(* float of its own, and the loop is the generic runner's.                  *)
(****************************************************************************)
EXTENDS SlotSimulation, FloatingProofs, FiniteSetTheorems

------------------------------------------------------------------------------
(* What a settlement is.                                                     *)

\* What the checked arithmetic returns.
Checked == Multiplier \cup {Failed}

(* The quotient guard used by Mul, MulInt and Settle is exact: it passes     *)
(* products that fit, and only those.                                        *)
LEMMA QuotientGuard ==
    ASSUME NEW a \in Nat, NEW b \in Nat \ {0}, NEW n \in Nat
    PROVE  /\ a <= n \div b <=> a * b <= n
           /\ n \div b \in Nat
  OBVIOUS

\* A quotient of naturals is a natural, and no larger.
LEMMA DivBound ==
    ASSUME NEW a \in Nat, NEW b \in Nat \ {0}
    PROVE  a \div b \in 0..a
  OBVIOUS

(* Settle pays the floor of the exact product and never a minor unit more.   *)
LEMMA SettleIsFloor ==
    ASSUME NEW bet \in 1..MaxInt, NEW m \in Multiplier
    PROVE  /\ Settle(bet, m) \in Checked
           /\ Settle(bet, m) # Failed =>
                 /\ Settle(bet, m) * Scale <= bet * m
                 /\ bet * m < (Settle(bet, m) + 1) * Scale
  <1> DEFINE p == bet * m
  <1>1. p \in Nat
    BY DEF Multiplier
  <1>2. /\ (p \div Scale) * Scale <= p
        /\ p < ((p \div Scale) + 1) * Scale
        /\ p \div Scale \in 0..p
    <2> HIDE DEF p
    <2> QED BY <1>1, MoneyAssumption, DivBound
  <1>3. CASE m = 0
    <2>1. p = 0
      BY <1>3
    <2> QED BY <1>3, <2>1, MoneyAssumption
            DEF Settle, Checked, Multiplier, Failed
  <1>4. CASE m > 0
    <2>1. bet > MaxInt \div m \/ p <= MaxInt
      BY <1>4, QuotientGuard, MoneyAssumption DEF Multiplier
    <2>2. Settle(bet, m) = IF bet > MaxInt \div m THEN Failed ELSE p \div Scale
      BY <1>4 DEF Settle, Multiplier
    <2> HIDE DEF p
    <2>3. Settle(bet, m) \in Checked
      BY <1>1, <1>2, <2>1, <2>2, MoneyAssumption
         DEF Checked, Multiplier, Failed
    <2> QED BY <1>2, <2>2, <2>3 DEF p
  <1> QED BY <1>3, <1>4 DEF Multiplier

------------------------------------------------------------------------------
(* One round.                                                                *)

\* What a runner returns is within the integers, and settled.
LEMMA RoundIs ==
    ASSUME NEW o \in Options, NEW r \in RoundsOf(o.bet)
    PROVE  /\ o.bet \in 1..MaxInt /\ o.spins \in Nat \ {0}
           /\ r.base \in Multiplier /\ r.feature \in Multiplier
           /\ r.total \in Multiplier /\ r.triggered \in BOOLEAN
           /\ r.payout = Settle(o.bet, r.total) /\ r.payout \in Multiplier
           /\ r.total <= r.base + r.feature
  <1>1. o.bet \in 1..MaxInt /\ o.spins \in Nat \ {0}
    BY SimulationAssumption
  <1>2. PICK x \in Outcomes :
           /\ Settle(o.bet, x.total) # Failed
           /\ r = [base |-> x.base, feature |-> x.feature, total |-> x.total,
                   triggered |-> x.triggered, payout |-> Settle(o.bet, x.total)]
    BY DEF RoundsOf
  <1>3. /\ x.base \in Multiplier /\ x.feature \in Multiplier
        /\ x.total \in Multiplier /\ x.triggered \in BOOLEAN
        /\ x.total <= x.base + x.feature
    BY SimulationAssumption
  <1>4. Settle(o.bet, x.total) \in Multiplier
    BY <1>1, <1>2, <1>3, SettleIsFloor DEF Checked
  <1>5. /\ r.base = x.base /\ r.feature = x.feature /\ r.total = x.total
        /\ r.triggered = x.triggered /\ r.payout = Settle(o.bet, x.total)
    BY <1>2
  <1> QED BY <1>1, <1>3, <1>4, <1>5

\* Three floors of parts and whole: the parts miss at most one, and have none
\* too many if they make up the whole.
LEMMA FloorsOfParts ==
    ASSUME NEW s \in Nat \ {0}, NEW b \in Nat,
           NEW x \in Nat, NEW y \in Nat, NEW z \in Nat, z <= x + y,
           NEW p \in Nat, NEW q \in Nat, NEW t \in Nat,
           p * s <= b * x, b * x < (p + 1) * s,
           q * s <= b * y, b * y < (q + 1) * s,
           t * s <= b * z, b * z < (t + 1) * s
    PROVE  t - (p + q) <= 1 /\ (z = x + y => p + q <= t)
  <1>1. /\ b * x \in Nat /\ b * y \in Nat /\ b * z \in Nat
        /\ b * (x + y) = b * x + b * y
        /\ p * s \in Nat /\ q * s \in Nat /\ t * s \in Nat
        /\ (p + 1) * s = p * s + s /\ (q + 1) * s = q * s + s
        /\ (t + 1) * s = t * s + s
    BY Z3
  <1>2. b * z <= b * x + b * y
    <2>1. PICK d \in Nat : x + y = z + d
      <3>1. x + y = z + (x + y - z) /\ x + y - z \in Nat
        OBVIOUS
      <3> QED BY <3>1
    <2>2. b * (z + d) = b * z + b * d /\ b * d \in Nat
      BY Z3
    <2> QED BY <1>1, <2>1, <2>2
  <1>3. t * s < (p + q + 2) * s
    <2>1. (p + q + 2) * s = p * s + q * s + s + s
      BY Z3
    <2> QED BY <1>1, <1>2, <2>1
  <1>4. ASSUME NEW m \in Nat, NEW n \in Nat, m * s < n * s PROVE m < n
    <2>1. SUFFICES ASSUME n <= m PROVE FALSE
      OBVIOUS
    <2>2. PICK d \in Nat : m = n + d
      <3>1. m = n + (m - n) /\ m - n \in Nat
        BY <2>1
      <3> QED BY <3>1
    <2>3. (n + d) * s = n * s + d * s /\ d * s \in Nat /\ n * s \in Nat
      BY Z3
    <2> QED BY <1>4, <2>2, <2>3
  <1>5. t < p + q + 2
    BY <1>3, <1>4
  <1>6. ASSUME z = x + y PROVE p + q <= t
    <2>1. (p + q) * s = p * s + q * s /\ (p + q) * s \in Nat
      BY Z3
    <2>2. (p + q) * s < (t + 1) * s
      BY <1>1, <1>6, <2>1
    <2>3. p + q < t + 1
      BY <1>4, <2>2
    <2> QED BY <2>3
  <1> QED BY <1>5, <1>6

\* The two shares of a round that was added, against its payout.
LEMMA SharesOfRound ==
    ASSUME NEW o \in Options, NEW r \in RoundsOf(o.bet),
           NEW b, b = Settle(o.bet, r.base), b # Failed,
           NEW f, f = Settle(o.bet, r.feature), f # Failed
    PROVE  /\ b \in Multiplier /\ f \in Multiplier
           /\ r.payout - (b + f) <= 1
           /\ r.total = r.base + r.feature => b + f <= r.payout
  <1>1. /\ o.bet \in 1..MaxInt
        /\ r.base \in Multiplier /\ r.feature \in Multiplier
        /\ r.total \in Multiplier /\ r.total <= r.base + r.feature
        /\ r.payout = Settle(o.bet, r.total) /\ r.payout \in Multiplier
    BY RoundIs
  <1>2. r.payout # Failed
    BY <1>1 DEF Failed, Multiplier
  <1> DEFINE bet == o.bet
             x == r.base
             y == r.feature
             z == r.total
             p == r.payout
  <1>3. /\ b \in Checked /\ b * Scale <= bet * x /\ bet * x < (b + 1) * Scale
        /\ f \in Checked /\ f * Scale <= bet * y /\ bet * y < (f + 1) * Scale
        /\ p * Scale <= bet * z /\ bet * z < (p + 1) * Scale
    BY <1>1, <1>2, SettleIsFloor
  <1>4. b \in Multiplier /\ f \in Multiplier
    BY <1>3 DEF Checked
  <1>5. /\ bet \in Nat /\ x \in Nat /\ y \in Nat /\ z \in Nat /\ p \in Nat
        /\ b \in Nat /\ f \in Nat /\ Scale \in Nat \ {0} /\ z <= x + y
    BY <1>1, <1>4, MoneyAssumption DEF Multiplier
  <1> HIDE DEF bet, x, y, z, p
  <1>6. p - (b + f) <= 1 /\ (z = x + y => b + f <= p)
    BY <1>3, <1>5, FloorsOfParts
  <1> QED BY <1>4, <1>6 DEF x, y, z, p

------------------------------------------------------------------------------
(* The bands.                                                                *)

\* The bands, and which of them has no upper bound.
LEMMA BandsAre ==
    /\ Len(DefaultBuckets) = 11 /\ DOMAIN DefaultBuckets = 1..11
    /\ DefaultBuckets[1] = [min |-> 0, max |-> 0]
    /\ DefaultBuckets[2] = [min |-> 0, max |-> 1]
    /\ DefaultBuckets[3] = [min |-> 1, max |-> 2]
    /\ DefaultBuckets[4] = [min |-> 2, max |-> 5]
    /\ DefaultBuckets[5] = [min |-> 5, max |-> 10]
    /\ DefaultBuckets[6] = [min |-> 10, max |-> 20]
    /\ DefaultBuckets[7] = [min |-> 20, max |-> 50]
    /\ DefaultBuckets[8] = [min |-> 50, max |-> 100]
    /\ DefaultBuckets[9] = [min |-> 100, max |-> 500]
    /\ DefaultBuckets[10] = [min |-> 500, max |-> 1000]
    /\ DefaultBuckets[11] = [min |-> 1000, max |-> -1]
  BY SMT DEF DefaultBuckets, Band

\* What a band is for, with u for one bet.
Within(i, x, u) ==
    LET b == DefaultBuckets[i] IN
    IF i = 1 THEN x = 0
    ELSE /\ b.min * u < x
         /\ i < Len(DefaultBuckets) => x <= b.max * u

\* The band a payout falls in, once it is rounded.
Falls(i, payout) == Within(i, WinRatio(payout), Unit)

\* What each of the bands is for, with its bounds worked out.
LEMMA BandsHoldWithin ==
    ASSUME NEW x \in Nat, NEW u \in Nat \ {0}
    PROVE  /\ Within(1, x, u) <=> x = 0
           /\ Within(2, x, u) <=> 0 < x /\ x <= u
           /\ Within(3, x, u) <=> u < x /\ x <= 2 * u
           /\ Within(4, x, u) <=> 2 * u < x /\ x <= 5 * u
           /\ Within(5, x, u) <=> 5 * u < x /\ x <= 10 * u
           /\ Within(6, x, u) <=> 10 * u < x /\ x <= 20 * u
           /\ Within(7, x, u) <=> 20 * u < x /\ x <= 50 * u
           /\ Within(8, x, u) <=> 50 * u < x /\ x <= 100 * u
           /\ Within(9, x, u) <=> 100 * u < x /\ x <= 500 * u
           /\ Within(10, x, u) <=> 500 * u < x /\ x <= 1000 * u
           /\ Within(11, x, u) <=> 1000 * u < x
  BY BandsAre, SMT DEF Within

\* The bounds of the bands leave nothing out and nothing in two of them.
LEMMA OneBand ==
    ASSUME NEW x \in Nat, NEW u \in Nat \ {0}
    PROVE  \E i \in 1..11 : /\ Within(i, x, u)
                            /\ \A j \in 1..11 : Within(j, x, u) => j = i
  <1>1. /\ Within(1, x, u) <=> x = 0
        /\ Within(2, x, u) <=> 0 < x /\ x <= u
        /\ Within(3, x, u) <=> u < x /\ x <= 2 * u
        /\ Within(4, x, u) <=> 2 * u < x /\ x <= 5 * u
        /\ Within(5, x, u) <=> 5 * u < x /\ x <= 10 * u
        /\ Within(6, x, u) <=> 10 * u < x /\ x <= 20 * u
        /\ Within(7, x, u) <=> 20 * u < x /\ x <= 50 * u
        /\ Within(8, x, u) <=> 50 * u < x /\ x <= 100 * u
        /\ Within(9, x, u) <=> 100 * u < x /\ x <= 500 * u
        /\ Within(10, x, u) <=> 500 * u < x /\ x <= 1000 * u
        /\ Within(11, x, u) <=> 1000 * u < x
    BY BandsHoldWithin
  <1>2. \E i \in 1..11 : Within(i, x, u)
    BY <1>1, SMTT(30)
  <1>3. ASSUME NEW i \in 1..11, NEW j \in 1..11, Within(i, x, u), Within(j, x, u)
        PROVE  j = i
    <2>1. ~(i < j)
      BY <1>1, <1>3, SMTT(60)
    <2>2. ~(j < i)
      BY <1>1, <1>3, SMTT(60)
    <2> QED BY <2>1, <2>2
  <1> QED BY <1>2, <1>3

\* A whole number's float: its own below Precision, and never zero nor infinite.
LEMMA AsFloatIs ==
    ASSUME NEW n \in Multiplier
    PROVE  /\ AsFloat(n) \in Nat /\ AsFloat(n) <= Unit /\ AsFloat(n) # Infinity
           /\ n < Precision => AsFloat(n) = n
           /\ AsFloat(n) = 0 <=> n = 0
  <1>1. /\ n \in Nat /\ n <= Unit /\ Unit \in Nat /\ Precision \in Nat \ {0}
        /\ Infinity \in Nat
    BY SimulationAssumption, MoneyAssumption, InfinityIs DEF Multiplier
  <1>2. AsFloat(n) \in Nat /\ (n < Precision => AsFloat(n) = n)
    BY <1>1, WholeRoundsTo DEF AsFloat
  <1>3. 1 \in Floats /\ Unit \in Floats /\ Unit < Infinity
    <2>1. 1 \in 0..Precision
      BY <1>1
    <2> QED BY <2>1, FloatsAre
  <1>4. AsFloat(n) <= Unit
    <2>1. n <= Unit * 1
      BY <1>1
    <2> QED BY <1>1, <1>3, <2>1, RoundedStays DEF AsFloat
  <1>5. n # 0 => AsFloat(n) >= 1
    <2>1. n # 0 => 1 * 1 <= n
      BY <1>1
    <2>2. 1 \in Nat \ {0}
      OBVIOUS
    <2>3. 1 * 1 <= n => 1 <= Rounded(n, 1)
      BY <1>1, <1>3, <2>2, RoundedStays
    <2> QED BY <1>2, <2>1, <2>3 DEF AsFloat
  <1> QED BY <1>1, <1>2, <1>3, <1>4, <1>5

\* A payout's share of the bet is a quotient, and only nothing is no share.
LEMMA WinRatioIs ==
    ASSUME NEW pay \in Multiplier, opts.bet \in 1..MaxInt
    PROVE  /\ WinRatio(pay) \in Nat
           /\ WinRatio(pay) = 0 <=> pay = 0
           /\ pay < Precision /\ opts.bet < Precision =>
                 WinRatio(pay) = Rounded(pay * Unit, opts.bet)
  <1>1. opts.bet \in Multiplier /\ opts.bet # 0
    BY MoneyAssumption DEF Multiplier
  <1>2. PICK x \in Nat, y \in Nat :
           /\ x = AsFloat(pay) /\ y = AsFloat(opts.bet)
           /\ x # Infinity /\ y # Infinity /\ y <= Unit
           /\ (x = 0 <=> pay = 0) /\ y # 0
           /\ pay < Precision => x = pay
           /\ opts.bet < Precision => y = opts.bet
    BY <1>1, AsFloatIs, Zenon
  <1>3. WinRatio(pay) = Rounded(x * Unit, y)
    BY <1>2, Zenon DEF WinRatio, Over
  <1>4. Unit \in Nat \ {0} /\ Precision \in Nat \ {0}
    BY InfinityIs
  <1>5. PICK n \in Nat : n = x * Unit
    BY <1>4
  <1>6. Rounded(n, y) \in Nat
    BY <1>2, <1>5, RoundedIsFloat
  <1>7. CASE x = 0
    <2>1. n = 0
      BY <1>4, <1>5, <1>7
    <2>2. 0 \in Floats
      <3>1. 0 \in 0..Precision
        BY <1>4
      <3> QED BY <3>1, FloatsAre
    <2>3. n <= 0 * y
      BY <1>2, <2>1
    <2>4. Rounded(n, y) <= 0
      BY <1>2, <1>5, <2>2, <2>3, RoundedStays
    <2> QED BY <1>2, <1>3, <1>5, <1>6, <1>7, <2>4
  <1>8. CASE x # 0
    <2>1. Unit <= n
      <3>1. Unit * 1 <= Unit * x
        BY <1>2, <1>4, <1>8, ProductGrows
      <3>2. Unit * 1 = Unit /\ Unit * x = n
        BY <1>2, <1>4, <1>5
      <3> QED BY <3>1, <3>2
    <2>2. 1 \in Floats
      <3>1. 1 \in 0..Precision
        BY <1>4
      <3> QED BY <3>1, FloatsAre
    <2>3. 1 * y <= n
      BY <1>2, <1>4, <1>5, <2>1
    <2>4. 1 <= Rounded(n, y)
      BY <1>2, <1>5, <2>2, <2>3, RoundedStays
    <2> QED BY <1>2, <1>3, <1>5, <1>6, <1>8, <2>4
  <1> QED BY <1>7, <1>8

\* A share of at most m bets is one of a payout of at most m bets, as long as
\* the bet and the payout have floats of their own: what is more than m bets is
\* more by a minor unit, and rounding hides less than that.
LEMMA RatioTells ==
    ASSUME NEW pay \in Nat, NEW bet \in Nat \ {0}, NEW m \in Nat \ {0},
           pay < Precision, bet < Precision, m < Precision
    PROVE  Rounded(pay * Unit, bet) <= m * Unit <=> pay <= m * bet
  <1>1. Unit \in Nat \ {0} /\ Precision \in Nat \ {0} /\ Unit \in Spacings
        /\ 4 * Precision <= Unit
    BY InfinityIs, SpacingsAre
  <1>2. PICK n \in Nat, f \in Nat, c \in Nat :
           n = pay * Unit /\ f = m * Unit /\ c = m * bet
    BY <1>1
  <1>3. f \in Floats /\ f < Infinity
    <2>1. m \in 0..(Precision - 1) /\ m \in Nat
      BY <1>1
    <2>2. \A i \in 0..(Precision - 1), w \in Spacings : i * w \in FiniteFloats
      BY DEF FiniteFloats
    <2>3. f \in FiniteFloats
      BY <1>1, <1>2, <2>1, <2>2, Zenon
    <2> QED BY <2>3, FloatsAre
  <1>4. f * bet = c * Unit
    <2>1. (m * Unit) * bet = (m * bet) * Unit
      BY <1>1, Z3
    <2> QED BY <1>2, <2>1
  <1>5. CASE pay <= c
    <2>1. Unit * pay <= Unit * c
      BY <1>1, <1>2, <1>5, ProductGrows
    <2>2. Unit * pay = n /\ Unit * c = f * bet
      BY <1>1, <1>2, <1>4
    <2>3. n <= f * bet
      BY <2>1, <2>2
    <2>4. Rounded(n, bet) <= f
      BY <1>2, <1>3, <2>3, RoundedStays
    <2> QED BY <1>2, <1>5, <2>4, Zenon
  <1>6. CASE ~(pay <= c)
    <2> SUFFICES ASSUME Rounded(n, bet) <= f PROVE FALSE
      BY <1>2, <1>6, Zenon
    <2> DEFINE q == Rounded(n, bet)
    <2>1. q \in Nat /\ Infinity \in Nat
      BY <1>2, RoundedIsFloat, InfinityIs
    <2>2. q < Infinity
      BY <1>2, <1>3, <2>1
    <2>3. c \in Nat /\ bet <= c /\ c < pay
      <3>1. bet * 1 <= bet * m
        BY ProductGrows
      <3>2. bet * 1 = bet /\ bet * m = c
        BY <1>2
      <3> QED BY <1>2, <1>6, <3>1, <3>2
    <2>4. Precision * bet <= n
      <3>1. Precision * bet <= Precision * pay
        BY <1>1, <2>3, ProductGrows
      <3>2. pay * Precision <= pay * Unit
        BY <1>1, ProductGrows
      <3>3. Precision * pay = pay * Precision
        BY <1>1
      <3>4. Precision * bet \in Nat /\ pay * Precision \in Nat
        BY <1>1
      <3> QED BY <1>2, <3>1, <3>2, <3>3, <3>4
    <2>5. Precision * n <= (Precision + 1) * (bet * q)
      BY <1>2, <2>2, <2>4, NotMuchLess
    <2> HIDE DEF q
    <2>6. PICK P1 \in Nat : P1 = Precision + 1
      BY <1>1
    <2>7. PICK r \in Nat, g \in Nat : r = bet * q /\ g = c * Unit /\ r <= g
      <3>1. bet * q <= bet * f /\ bet * q \in Nat
        BY <1>2, <2>1, ProductGrows DEF q
      <3>2. bet * f = c * Unit /\ c * Unit \in Nat
        BY <1>1, <1>2, <1>4
      <3> QED BY <3>1, <3>2
    <2>8. Precision * n <= P1 * g
      <3>1. P1 * r <= P1 * g /\ P1 * r \in Nat /\ P1 * g \in Nat
        BY <2>6, <2>7, ProductGrows
      <3>2. Precision * n <= P1 * r
        BY <2>5, <2>6, <2>7, Zenon
      <3>3. Precision * n \in Nat
        BY <1>1
      <3> QED BY <3>1, <3>2, <3>3
    <2>9. Unit * (Precision * pay) <= Unit * (P1 * c)
      <3>1. \A u, v, w \in Nat : v * (w * u) = u * (v * w)
        BY Z3
      <3>2. Precision * (pay * Unit) = Unit * (Precision * pay)
        BY <1>1, <3>1
      <3>3. P1 * (c * Unit) = Unit * (P1 * c)
        BY <1>1, <2>3, <2>6, <3>1
      <3> QED BY <1>2, <2>7, <2>8, <3>2, <3>3, Zenon
    <2>10. Precision * pay <= P1 * c
      <3>1. Precision * pay \in Nat /\ P1 * c \in Nat
        BY <1>1, <2>3, <2>6
      <3> QED BY <1>1, <2>9, <3>1, FactorOut
    <2>11. Precision * (c + 1) <= Precision * pay
      BY <1>1, <2>3, ProductGrows
    <2>12. PICK e \in Nat : e = Precision * c
      BY <1>1, <2>3
    <2>13. Precision * (c + 1) = e + Precision /\ P1 * c = e + c
      BY <1>1, <2>3, <2>6, <2>12
    <2>14. Precision * pay \in Nat
      BY <1>1
    <2> QED BY <1>1, <2>3, <2>10, <2>11, <2>12, <2>13, <2>14
  <1> QED BY <1>5, <1>6

\* With floats of their own, the bet and a payout leave the payout in the band
\* that is for it.
LEMMA FallsWhereItShould ==
    ASSUME NEW pay \in Multiplier, opts.bet \in 1..MaxInt,
           pay < Precision, opts.bet < Precision, NEW i \in 1..11
    PROVE  Falls(i, pay) <=> Holds(i, pay)
  <1> DEFINE x == WinRatio(pay)
             bet == opts.bet
  <1>1. /\ x \in Nat /\ (x = 0 <=> pay = 0) /\ x = Rounded(pay * Unit, bet)
        /\ pay \in Nat /\ bet \in Nat \ {0} /\ Unit \in Nat \ {0}
    BY WinRatioIs, InfinityIs, MoneyAssumption DEF Multiplier
  <1>2. ASSUME NEW m \in Nat \ {0}, m < Precision
        PROVE  x <= m * Unit <=> pay <= m * bet
    <2>1. Rounded(pay * Unit, bet) <= m * Unit <=> pay <= m * bet
      BY <1>1, <1>2, RatioTells, Zenon
    <2> QED BY <1>1, <2>1, Zenon
  <1>3. Holds(i, pay) <=> Within(i, pay, bet)
    BY Zenon DEF Holds, Within
  <1>4. Falls(i, pay) <=> Within(i, x, Unit)
    BY Zenon DEF Falls
  <1> HIDE DEF x, bet
  <1>5. /\ x <= Unit <=> pay <= bet
        /\ x <= 2 * Unit <=> pay <= 2 * bet
        /\ x <= 5 * Unit <=> pay <= 5 * bet
        /\ x <= 10 * Unit <=> pay <= 10 * bet
        /\ x <= 20 * Unit <=> pay <= 20 * bet
        /\ x <= 50 * Unit <=> pay <= 50 * bet
        /\ x <= 100 * Unit <=> pay <= 100 * bet
        /\ x <= 500 * Unit <=> pay <= 500 * bet
        /\ x <= 1000 * Unit <=> pay <= 1000 * bet
    <2>1. 1000 < Precision /\ Precision \in Nat
      BY SimulationAssumption, InfinityIs
    <2> QED BY <1>1, <1>2, <2>1
  <1>6. Within(i, x, Unit) <=> Within(i, pay, bet)
    BY <1>1, <1>5, BandsHoldWithin
  <1> QED BY <1>3, <1>4, <1>6

\* A payout is counted in its band and in no other.
LEMMA PlacedInItsBand ==
    ASSUME NEW pay \in Multiplier, opts.bet \in 1..MaxInt, NEW b \in [1..11 -> Nat]
    PROVE  \E i \in 1..11 : /\ Falls(i, pay)
                            /\ \A j \in 1..11 : Falls(j, pay) => j = i
                            /\ PlaceInBucket(b, pay) = [b EXCEPT ![i] = @ + 1]
  <1> DEFINE x == WinRatio(pay)
  <1>0. x \in Nat /\ Unit \in Nat \ {0}
    BY WinRatioIs, InfinityIs
  <1>1. PICK i \in 1..11 : /\ Falls(i, pay)
                           /\ \A j \in 1..11 : Falls(j, pay) => j = i
    BY <1>0, OneBand, Zenon DEF Falls
  <1>2. Len(b) = 11
    OBVIOUS
  <1>3. \A j \in 2..11 : InBand(j, pay) <=> Falls(j, pay)
    <2>1. \A j \in 2..10 : ~(DefaultBuckets[j].max < 0)
      BY BandsAre, SMT
    <2>2. DefaultBuckets[11].max < 0 /\ Len(DefaultBuckets) = 11
      BY BandsAre
    <2>3. ASSUME NEW j \in 2..10 PROVE InBand(j, pay) <=> Falls(j, pay)
      <3>1. j # 1 /\ j < Len(DefaultBuckets)
        BY <2>2
      <3> QED BY <2>1, <3>1, Zenon DEF InBand, Falls, Within
    <2>4. InBand(11, pay) <=> Falls(11, pay)
      <3>1. 11 # 1 /\ ~(11 < Len(DefaultBuckets))
        BY <2>2
      <3> QED BY <2>2, <3>1, SMT DEF InBand, Falls, Within
    <2>5. \A j \in 2..11 : j \in 2..10 \/ j = 11
      OBVIOUS
    <2> QED BY <2>3, <2>4, <2>5
  <1>4. Falls(1, pay) <=> x = 0
    BY DEF Falls, Within
  <1> DEFINE fits == {j \in 2..Len(b) : InBand(j, pay)}
  <1>5. CASE i = 1
    <2>1. x = 0
      BY <1>1, <1>4, <1>5
    <2>2. PlaceInBucket(b, pay) = [b EXCEPT ![1] = @ + 1]
      BY <1>0, <2>1 DEF PlaceInBucket
    <2> QED BY <1>1, <1>5, <2>2
  <1>6. CASE i # 1
    <2>1. i \in 2..11 /\ ~(x <= 0)
      BY <1>0, <1>1, <1>4, <1>6
    <2>2. fits = {i}
      BY <1>1, <1>2, <1>3, <2>1
    <2>3. Min({i}) = i
      BY DEF Min
    <2>4. PlaceInBucket(b, pay) = [b EXCEPT ![Min(fits)] = @ + 1]
      BY <2>1, <2>2 DEF PlaceInBucket
    <2> QED BY <1>1, <2>2, <2>3, <2>4
  <1> QED BY <1>5, <1>6

------------------------------------------------------------------------------
(* Sums and counts that grow by a round.                                     *)

\* t holds the sums of the first 0, 1, ... n values of f.
Sums(t, f, n) ==
    t = [i \in 0..n |-> IF i = 0 THEN 0 ELSE t[i - 1] + f[i]]

\* total is the sum of the first n values of f: their sums exist, and whatever
\* they are they end in total.
SumIs(f, n, total) ==
    /\ \E t : Sums(t, f, n)
    /\ \A t : Sums(t, f, n) => t[n] = total

\* Nothing adds up to zero.
LEMMA SumStarts ==
    ASSUME NEW f
    PROVE  SumIs(f, 0, 0)
  <1> DEFINE t == [i \in 0..0 |-> 0]
  <1>1. Sums(t, f, 0)
    BY SMT DEF Sums
  <1>2. ASSUME NEW u, Sums(u, f, 0) PROVE u[0] = 0
    BY <1>2, SMT DEF Sums
  <1> QED BY <1>1, <1>2, Zenon DEF SumIs

\* Sums of whole numbers are whole numbers.
LEMMA SumsAreWhole ==
    ASSUME NEW n \in Nat, NEW f, \A i \in 1..n : f[i] \in Nat,
           NEW t, \A i \in 0..n : t[i] = IF i = 0 THEN 0 ELSE t[i - 1] + f[i]
    PROVE  \A i \in 0..n : t[i] \in Int
  <1> DEFINE S == {i \in Nat : i <= n => t[i] \in Int}
  <1>1. 0 \in S
    OBVIOUS
  <1>2. ASSUME NEW i \in S PROVE i + 1 \in S
    <2> SUFFICES ASSUME i + 1 <= n PROVE t[i + 1] \in Int
      OBVIOUS
    <2>1. i + 1 \in 1..n /\ i + 1 \in 0..n /\ (i + 1) - 1 = i /\ t[i] \in Int
      OBVIOUS
    <2> QED BY <2>1
  <1>3. S = Nat
    <2> HIDE DEF S
    <2>1. S \in SUBSET Nat
      BY DEF S
    <2> QED BY <1>1, <1>2, <2>1, Induction
  <1> QED BY <1>3

\* One more value adds itself to the sum.
LEMMA SumGrows ==
    ASSUME NEW n \in Nat, NEW f, NEW g, NEW total, NEW x \in Int,
           SumIs(f, n, total), \A i \in 1..n : g[i] = f[i], g[n + 1] = x
    PROVE  SumIs(g, n + 1, total + x)
  <1>1. \E u : Sums(u, g, n + 1)
    <2>1. PICK t : Sums(t, f, n)
      BY Zenon DEF SumIs
    <2> DEFINE u == [i \in 0..(n + 1) |-> IF i = n + 1 THEN t[n] + x ELSE t[i]]
               v == [i \in 0..(n + 1) |-> IF i = 0 THEN 0 ELSE u[i - 1] + g[i]]
    <2>2. ASSUME NEW i \in 0..(n + 1) PROVE u[i] = v[i]
      <3>1. u[n + 1] = t[n] + x /\ \A j \in 0..n : u[j] = t[j]
        OBVIOUS
      <3>2. v[i] = IF i = 0 THEN 0 ELSE u[i - 1] + g[i]
        BY Zenon
      <3>3. \A j \in 0..n : t[j] = IF j = 0 THEN 0 ELSE t[j - 1] + f[j]
        BY <2>1 DEF Sums
      <3> HIDE DEF u, v
      <3>4. CASE i = 0
        BY <3>1, <3>2, <3>3, <3>4
      <3>5. CASE i = n + 1
        <4>1. i - 1 = n /\ i # 0 /\ n \in 0..n
          BY <3>5
        <4> QED BY <3>1, <3>2, <3>5, <4>1
      <3>6. CASE i # 0 /\ i # n + 1
        <4>1. i \in 1..n /\ i \in 0..n /\ i - 1 \in 0..n
          BY <3>6
        <4> QED BY <3>1, <3>2, <3>3, <3>6, <4>1
      <3> QED BY <3>4, <3>5, <3>6
    <2>3. u = v
      BY <2>2
    <2>4. Sums(u, g, n + 1)
      BY <2>3, Zenon DEF Sums
    <2> QED BY <2>4, Zenon
  <1>2. ASSUME NEW u, Sums(u, g, n + 1) PROVE u[n + 1] = total + x
    <2>1. \A i \in 0..(n + 1) : u[i] = IF i = 0 THEN 0 ELSE u[i - 1] + g[i]
      BY <1>2 DEF Sums
    <2> DEFINE t == [i \in 0..n |-> u[i]]
               w == [i \in 0..n |-> IF i = 0 THEN 0 ELSE t[i - 1] + f[i]]
    <2>2. ASSUME NEW i \in 0..n PROVE t[i] = w[i]
      <3>1. CASE i = 0
        BY <2>1, <3>1
      <3>2. CASE i # 0
        <4>1. i \in 1..n /\ i \in 0..(n + 1) /\ i - 1 \in 0..n
          BY <3>2
        <4> QED BY <2>1, <3>2, <4>1
      <3> QED BY <3>1, <3>2
    <2>3. t = w
      BY <2>2
    <2>4. Sums(t, f, n)
      BY <2>3, Zenon DEF Sums
    <2>5. t[n] = total
      BY <2>4, Zenon DEF SumIs
    <2>6. n + 1 \in 0..(n + 1) /\ n + 1 # 0 /\ n + 1 - 1 = n /\ t[n] = u[n]
      OBVIOUS
    <2> QED BY <2>1, <2>5, <2>6
  <1> QED BY <1>1, <1>2, Zenon DEF SumIs

\* One more in one of the values is one more in the sum.
LEMMA SumOfMore ==
    ASSUME NEW n \in Nat, NEW f \in [1..n -> Nat], NEW total \in Int, NEW k \in 1..n,
           SumIs(f, n, total)
    PROVE  SumIs([f EXCEPT ![k] = @ + 1], n, total + 1)
  <1> DEFINE g == [f EXCEPT ![k] = @ + 1]
  <1>1. \A i \in 1..n : f[i] \in Nat /\ g[i] = IF i = k THEN f[i] + 1 ELSE f[i]
    OBVIOUS
  <1> HIDE DEF g
  <1>2. \E u : Sums(u, g, n)
    <2>1. PICK t : Sums(t, f, n)
      BY Zenon DEF SumIs
    <2>2. \A i \in 0..n : t[i] = IF i = 0 THEN 0 ELSE t[i - 1] + f[i]
      BY <2>1 DEF Sums
    <2>3. \A i \in 0..n : t[i] \in Int
      BY <1>1, <2>2, SumsAreWhole
    <2> DEFINE u == [i \in 0..n |-> IF i < k THEN t[i] ELSE t[i] + 1]
               v == [i \in 0..n |-> IF i = 0 THEN 0 ELSE u[i - 1] + g[i]]
    <2>4. ASSUME NEW i \in 0..n PROVE u[i] = v[i]
      <3>1. CASE i = 0
        BY <2>2, <3>1
      <3>2. CASE i # 0
        <4>1. i \in 1..n /\ i - 1 \in 0..n
          BY <3>2
        <4>2. /\ t[i] = t[i - 1] + f[i] /\ t[i - 1] \in Int /\ f[i] \in Nat
              /\ g[i] = IF i = k THEN f[i] + 1 ELSE f[i]
          BY <1>1, <2>2, <2>3, <3>2, <4>1
        <4>3. /\ u[i] = IF i < k THEN t[i] ELSE t[i] + 1
              /\ u[i - 1] = IF i - 1 < k THEN t[i - 1] ELSE t[i - 1] + 1
              /\ v[i] = u[i - 1] + g[i]
          BY <3>2, <4>1
        <4> HIDE DEF u, v
        <4>4. CASE i < k
          <5>1. i - 1 < k /\ i # k
            BY <4>4
          <5>2. u[i] = t[i]
            BY <4>3, <4>4
          <5>3. u[i - 1] = t[i - 1]
            BY <4>3, <5>1
          <5>4. g[i] = f[i]
            BY <4>2, <5>1
          <5> QED BY <4>2, <4>3, <5>2, <5>3, <5>4, Zenon
        <4>5. CASE i = k
          <5>1. i - 1 < k /\ ~(i < k)
            BY <4>5
          <5>2. u[i] = t[i] + 1 /\ u[i - 1] = t[i - 1] /\ g[i] = f[i] + 1
            BY <4>2, <4>3, <4>5, <5>1, Zenon
          <5>3. u[i] = (t[i - 1] + f[i]) + 1 /\ v[i] = t[i - 1] + (f[i] + 1)
            BY <4>2, <4>3, <5>2, Zenon
          <5> QED BY <4>2, <5>3
        <4>6. CASE k < i
          <5>1. ~(i - 1 < k) /\ ~(i < k) /\ i # k
            BY <4>6
          <5>2. u[i] = t[i] + 1 /\ u[i - 1] = t[i - 1] + 1 /\ g[i] = f[i]
            BY <4>2, <4>3, <5>1, Zenon
          <5>3. u[i] = (t[i - 1] + f[i]) + 1 /\ v[i] = (t[i - 1] + 1) + f[i]
            BY <4>2, <4>3, <5>2, Zenon
          <5> QED BY <4>2, <5>3
        <4> QED BY <4>1, <4>4, <4>5, <4>6
      <3> QED BY <3>1, <3>2
    <2>5. u = v
      BY <2>4
    <2>6. Sums(u, g, n)
      BY <2>5, Zenon DEF Sums
    <2> QED BY <2>6, Zenon
  <1>3. ASSUME NEW u, Sums(u, g, n) PROVE u[n] = total + 1
    <2>1. \A i \in 0..n : u[i] = IF i = 0 THEN 0 ELSE u[i - 1] + g[i]
      BY <1>3 DEF Sums
    <2>2. \A i \in 0..n : u[i] \in Int
      <3>1. \A i \in 1..n : g[i] \in Nat
        BY <1>1
      <3> QED BY <2>1, <3>1, SumsAreWhole
    <2> DEFINE t == [i \in 0..n |-> IF i < k THEN u[i] ELSE u[i] - 1]
               w == [i \in 0..n |-> IF i = 0 THEN 0 ELSE t[i - 1] + f[i]]
    <2>3. ASSUME NEW i \in 0..n PROVE t[i] = w[i]
      <3>1. CASE i = 0
        BY <2>1, <3>1
      <3>2. CASE i # 0
        <4>1. i \in 1..n /\ i - 1 \in 0..n
          BY <3>2
        <4>2. /\ u[i] = u[i - 1] + g[i] /\ u[i - 1] \in Int /\ f[i] \in Nat
              /\ g[i] = IF i = k THEN f[i] + 1 ELSE f[i]
          BY <1>1, <2>1, <2>2, <3>2, <4>1
        <4>3. /\ t[i] = IF i < k THEN u[i] ELSE u[i] - 1
              /\ t[i - 1] = IF i - 1 < k THEN u[i - 1] ELSE u[i - 1] - 1
              /\ w[i] = t[i - 1] + f[i]
          BY <3>2, <4>1
        <4> HIDE DEF t, w
        <4> QED BY <4>1, <4>2, <4>3
      <3> QED BY <3>1, <3>2
    <2>4. t = w
      BY <2>3
    <2>5. Sums(t, f, n)
      BY <2>4, Zenon DEF Sums
    <2>6. t[n] = total
      BY <2>5, Zenon DEF SumIs
    <2>7. t[n] = u[n] - 1 /\ u[n] \in Int
      BY <2>2
    <2> HIDE DEF t
    <2> QED BY <2>6, <2>7
  <1> QED BY <1>2, <1>3, Zenon DEF SumIs, g

\* Eleven times nothing.
LEMMA SumOfNothing ==
    ASSUME NEW f, \A i \in 1..11 : f[i] = 0
    PROVE  SumIs(f, 11, 0)
  <1> DEFINE t == [i \in 0..11 |-> 0]
             v == [i \in 0..11 |-> IF i = 0 THEN 0 ELSE t[i - 1] + f[i]]
  <1>1. t = v
    OBVIOUS
  <1>2. Sums(t, f, 11)
    BY <1>1, Zenon DEF Sums
  <1>3. ASSUME NEW u, Sums(u, f, 11) PROVE u[11] = 0
    <2>1. \A i \in 0..11 : u[i] = IF i = 0 THEN 0 ELSE u[i - 1] + f[i]
      BY <1>3 DEF Sums
    <2>2. u[0] = 0
      BY <2>1
    <2>3. u[1] = 0 /\ u[2] = 0 /\ u[3] = 0
      BY <2>1, <2>2
    <2>4. u[4] = 0 /\ u[5] = 0 /\ u[6] = 0
      BY <2>1, <2>3
    <2>5. u[7] = 0 /\ u[8] = 0 /\ u[9] = 0
      BY <2>1, <2>4
    <2> QED BY <2>1, <2>5
  <1> QED BY <1>2, <1>3, Zenon DEF SumIs

\* What Total computes.
LEMMA TotalIs ==
    ASSUME NEW f, NEW n, n = Len(f), NEW total, SumIs(f, n, total)
    PROVE  Total(f) = total
  <1> DEFINE s == CHOOSE t : Sums(t, f, n)
  <1>1. Sums(s, f, n)
    BY Zenon DEF SumIs
  <1>2. s[n] = total
    BY <1>1, Zenon DEF SumIs
  <1>3. Total(f) = s[n]
    BY Zenon DEF Total, Sums
  <1> QED BY <1>2, <1>3, Zenon

\* How many of the rounds there are, after one more that is one of them or not.
LEMMA CountGrows ==
    ASSUME NEW n \in Nat, NEW T \in SUBSET (1..n), NEW U \in SUBSET (1..(n + 1)),
           \A j \in 1..n : j \in U <=> j \in T
    PROVE  /\ n + 1 \in U => Cardinality(U) = Cardinality(T) + 1
           /\ n + 1 \notin U => Cardinality(U) = Cardinality(T)
  <1>1. IsFiniteSet(T)
    <2>1. IsFiniteSet(1..n)
      BY FS_Interval
    <2> QED BY <2>1, FS_Subset
  <1>2. n + 1 \notin T /\ n + 1 \notin 1..n
    OBVIOUS
  <1>3. \A j \in U : j \in 1..n \/ j = n + 1
    OBVIOUS
  <1>4. CASE n + 1 \in U
    <2>1. U = T \cup {n + 1}
      BY <1>2, <1>3, <1>4, Zenon
    <2> QED BY <1>1, <1>2, <1>4, <2>1, FS_AddElement, Zenon
  <1>5. CASE n + 1 \notin U
    <2>1. U = T
      BY <1>2, <1>3, <1>5, Zenon
    <2> QED BY <1>5, <2>1, Zenon
  <1> QED BY <1>4, <1>5, Zenon

------------------------------------------------------------------------------
(* The invariant.                                                            *)

Accumulator ==
    [spins : Nat, payout : Multiplier, base : Multiplier, feature : Multiplier,
     hits : Nat, features : Nat, maxMultiplier : Multiplier,
     maxPayout : Multiplier, buckets : [1..11 -> Nat]]

\* The loop: the rounds before this nonce have been played and accumulated.
LoopInv ==
    /\ TypeOK
    /\ acc \in Accumulator
    /\ played \in Seq(RoundsOf(opts.bet))
    /\ Len(played) = nonce - 1 /\ acc.spins = nonce - 1
    /\ pc \in {"spin", "add"} => nonce <= opts.spins
    /\ pc = "add" => res \in RoundsOf(opts.bet)
    /\ pc \in {"check", "spin"} => res = None
    /\ pc # "returned" => error = "nil" /\ report = None
    /\ report # None =>
          /\ pc = "returned" /\ nonce = opts.spins + 1
          /\ report = [acc |-> acc, totalBet |-> opts.bet * acc.spins]

\* The shares and the payout, as long as no round was cut and in general.
SharesInv ==
    /\ acc.payout - (acc.base + acc.feature) <= acc.spins
    /\ (\A i \in 1..Len(played) :
           played[i].total = played[i].base + played[i].feature)
          => acc.base + acc.feature <= acc.payout

\* Each figure tells of the rounds played.
SumsInv ==
    /\ SumIs(Payouts, Len(played), acc.payout)
    /\ SumIs(Bases, Len(played), acc.base)
    /\ SumIs(Features, Len(played), acc.feature)

CountsInv ==
    /\ acc.hits = Cardinality({i \in 1..Len(played) : played[i].payout > 0})
    /\ acc.features = Cardinality({i \in 1..Len(played) : played[i].triggered})

\* Every round is counted in a band, and each band counts those that fall in it.
BandsInv ==
    /\ SumIs(acc.buckets, 11, Len(played))
    /\ \A i \in 1..11 : acc.buckets[i] =
          Cardinality({j \in 1..Len(played) : Falls(i, played[j].payout)})

Greatest(m, values) == IF values = {} THEN m = 0
                      ELSE m \in values /\ \A v \in values : v <= m

MaximaInv ==
    /\ Greatest(acc.maxPayout, {played[i].payout : i \in 1..Len(played)})
    /\ Greatest(acc.maxMultiplier, {played[i].total : i \in 1..Len(played)})

\* A run starts with an empty accumulator.
LEMMA LoopInit == Init => LoopInv
  <1> SUFFICES ASSUME Init PROVE LoopInv
    OBVIOUS
  <1>1. opts \in Options /\ opts.spins \in Nat \ {0} /\ MaxInt \in Nat
    BY SimulationAssumption, MoneyAssumption DEF Init
  <1>2. acc \in Accumulator /\ acc.spins = 0
    <2> DEFINE none == [i \in 1..11 |-> 0]
    <2>1. acc = [spins |-> 0, payout |-> 0, base |-> 0, feature |-> 0,
                 hits |-> 0, features |-> 0, maxMultiplier |-> 0,
                 maxPayout |-> 0, buckets |-> none]
      BY BandsAre, Zenon DEF Init, NewAccumulator
    <2>2. none \in [1..11 -> Nat]
      OBVIOUS
    <2>3. 0 \in Multiplier
      BY <1>1 DEF Multiplier
    <2> HIDE DEF none
    <2> QED BY <2>1, <2>2, <2>3 DEF Accumulator
  <1>3. Len(acc.buckets) = Len(DefaultBuckets)
    <2>1. acc.buckets = [i \in 1..11 |-> 0]
      BY BandsAre DEF Init, NewAccumulator
    <2> QED BY <2>1, BandsAre
  <1>4. /\ nonce = 1 /\ res = None /\ played = <<>> /\ pc = "check"
        /\ error = "nil" /\ report = None /\ cancelled \in BOOLEAN
    BY DEF Init
  <1>5. TypeOK
    <2>1. {acc.payout, acc.base, acc.feature, acc.maxPayout} \subseteq Multiplier
      BY <1>2 DEF Accumulator
    <2>2. nonce \in 1..(opts.spins + 1)
      BY <1>1, <1>4
    <2> QED BY <1>1, <1>3, <1>4, <2>1, <2>2, Zenon DEF TypeOK
  <1>6. played \in Seq(RoundsOf(opts.bet)) /\ Len(played) = 0
    BY <1>4
  <1> QED BY <1>1, <1>2, <1>4, <1>5, <1>6 DEF LoopInv

\* A sum that was not refused.
LEMMA SummedIs ==
    ASSUME NEW a \in Multiplier, NEW b \in Checked, Summed(a, b) # Failed
    PROVE  b # Failed /\ Summed(a, b) = a + b /\ a + b \in Multiplier
  BY MoneyAssumption DEF Summed, Checked, Multiplier, Failed

\* What accumulating a round does.
LEMMA ObserveIs ==
    ASSUME LoopInv, Observe
    PROVE  LET n == Len(played)
               b == Settle(opts.bet, res.base)
               f == Settle(opts.bet, res.feature) IN
           /\ n \in Nat /\ nonce = n + 1 /\ nonce <= opts.spins
           /\ opts \in Options /\ res \in RoundsOf(opts.bet)
           /\ b # Failed /\ f # Failed
           /\ b \in Multiplier /\ f \in Multiplier /\ res.payout \in Multiplier
           /\ acc' = Accumulated(res)
           /\ acc'.spins = acc.spins + 1
           /\ acc'.payout = acc.payout + res.payout
           /\ acc'.base = acc.base + b
           /\ acc'.feature = acc.feature + f
           /\ {acc'.payout, acc'.base, acc'.feature} \subseteq Multiplier
           /\ acc'.buckets = PlaceInBucket(acc.buckets, res.payout)
           /\ acc'.maxPayout = Larger(acc.maxPayout, res.payout)
           /\ acc'.maxMultiplier = Larger(acc.maxMultiplier, res.total)
           /\ acc'.hits = Tick(acc.hits, res.payout > 0)
           /\ acc'.features = Tick(acc.features, res.triggered)
           /\ played' \in Seq(RoundsOf(opts.bet)) /\ Len(played') = n + 1
           /\ \A i \in 1..n : played'[i] = played[i]
           /\ played'[n + 1] = res
           /\ nonce' = nonce + 1 /\ res' = None /\ pc' = "check"
           /\ UNCHANGED <<opts, cancelled, error, report>>
           /\ error = "nil" /\ report = None /\ pc = "add"
  <1> DEFINE n == Len(played)
             b == Settle(opts.bet, res.base)
             f == Settle(opts.bet, res.feature)
  <1>1. /\ pc = "add" /\ ~Overflows(res) /\ acc' = Accumulated(res)
        /\ played' = Append(played, res)
        /\ nonce' = nonce + 1 /\ res' = None /\ pc' = "check"
        /\ UNCHANGED <<opts, cancelled, error, report>>
    BY DEF Observe
  <1>2. /\ opts \in Options /\ res \in RoundsOf(opts.bet)
        /\ nonce <= opts.spins /\ acc \in Accumulator
        /\ played \in Seq(RoundsOf(opts.bet)) /\ n = nonce - 1
        /\ nonce \in 1..(opts.spins + 1)
        /\ error = "nil" /\ report = None
    BY <1>1 DEF LoopInv, TypeOK
  <1>3. /\ opts.bet \in 1..MaxInt /\ opts.spins \in Nat
        /\ res.base \in Multiplier /\ res.feature \in Multiplier
        /\ res.payout \in Multiplier
    BY <1>2, RoundIs
  <1>4. b \in Checked /\ f \in Checked /\ res.payout \in Checked
    BY <1>3, SettleIsFloor DEF Checked
  <1>5. /\ PayoutSum(res) # Failed /\ BaseSum(res) # Failed
        /\ FeatureSum(res) # Failed
    BY <1>1 DEF Overflows
  <1>6. /\ acc.payout \in Multiplier /\ acc.base \in Multiplier
        /\ acc.feature \in Multiplier
    BY <1>2 DEF Accumulator
  <1>7. /\ PayoutSum(res) = acc.payout + res.payout
        /\ BaseSum(res) = acc.base + b
        /\ FeatureSum(res) = acc.feature + f
        /\ b # Failed /\ f # Failed
        /\ {acc.payout + res.payout, acc.base + b, acc.feature + f}
              \subseteq Multiplier
    BY <1>4, <1>5, <1>6, SummedIs
       DEF PayoutSum, BaseSum, FeatureSum, FeatureShare
  <1>8. b \in Multiplier /\ f \in Multiplier
    BY <1>4, <1>7 DEF Checked
  <1>9. /\ acc'.spins = acc.spins + 1
        /\ acc'.payout = PayoutSum(res) /\ acc'.base = BaseSum(res)
        /\ acc'.feature = FeatureSum(res)
        /\ acc'.buckets = PlaceInBucket(acc.buckets, res.payout)
        /\ acc'.maxPayout = Larger(acc.maxPayout, res.payout)
        /\ acc'.maxMultiplier = Larger(acc.maxMultiplier, res.total)
        /\ acc'.hits = Tick(acc.hits, res.payout > 0)
        /\ acc'.features = Tick(acc.features, res.triggered)
    BY <1>1 DEF Accumulated
  <1>10. /\ played' \in Seq(RoundsOf(opts.bet)) /\ Len(played') = n + 1
         /\ \A i \in 1..n : played'[i] = played[i]
         /\ played'[n + 1] = res /\ n \in Nat
    BY <1>1, <1>2
  <1>11. nonce = n + 1
    BY <1>2
  <1> HIDE DEF b, f
  <1> QED BY <1>1, <1>2, <1>3, <1>7, <1>8, <1>9, <1>10, <1>11 DEF b, f

\* Every step of the loop keeps its invariant.
LEMMA LoopNext == LoopInv /\ [Next]_vars => LoopInv'
  <1> SUFFICES ASSUME LoopInv, [Next]_vars PROVE LoopInv'
    OBVIOUS
  <1>0. opts \in Options /\ opts.spins \in Nat /\ opts.bet \in 1..MaxInt
        /\ nonce \in 1..(opts.spins + 1)
    BY SimulationAssumption DEF LoopInv, TypeOK
  <1>1. CASE UNCHANGED vars \/ Cancel
    BY <1>1 DEF vars, Cancel, LoopInv, TypeOK
  <1>2. CASE CheckCancelled \/ Check \/ RunnerError \/ AddError \/ FinishError
    BY <1>2 DEF CheckCancelled, Check, RunnerError, AddError, FinishError,
                Return, LoopInv, TypeOK
  <1>3. CASE Spin
    BY <1>3 DEF Spin, LoopInv, TypeOK
  <1>4. CASE Observe
    <2> DEFINE r == res
    <2>1. /\ res \in RoundsOf(opts.bet) /\ nonce <= opts.spins
          /\ acc'.spins = acc.spins + 1
          /\ {acc'.payout, acc'.base, acc'.feature} \subseteq Multiplier
          /\ acc' = Accumulated(res)
          /\ acc'.maxPayout = Larger(acc.maxPayout, res.payout)
          /\ acc'.maxMultiplier = Larger(acc.maxMultiplier, res.total)
          /\ acc'.buckets = PlaceInBucket(acc.buckets, res.payout)
          /\ acc'.hits = Tick(acc.hits, res.payout > 0)
          /\ acc'.features = Tick(acc.features, res.triggered)
          /\ played' \in Seq(RoundsOf(opts.bet))
          /\ Len(played') = Len(played) + 1
          /\ nonce' = nonce + 1 /\ res' = None /\ pc' = "check"
          /\ UNCHANGED <<opts, cancelled, error, report>>
          /\ error = "nil" /\ report = None
      BY <1>4, ObserveIs
    <2>2. /\ acc \in Accumulator /\ Len(played) = nonce - 1
          /\ acc.spins = nonce - 1 /\ cancelled \in BOOLEAN
      BY DEF LoopInv, TypeOK
    <2>3. res.payout \in Multiplier /\ res.total \in Multiplier
      BY <1>0, <2>1, RoundIs
    <2>4. /\ acc'.maxPayout \in Multiplier /\ acc'.maxMultiplier \in Multiplier
          /\ acc'.hits \in Nat /\ acc'.features \in Nat /\ acc'.spins \in Nat
      <3>1. /\ acc.maxPayout \in Multiplier /\ acc.maxMultiplier \in Multiplier
            /\ acc.hits \in Nat /\ acc.features \in Nat /\ acc.spins \in Nat
        BY <2>2 DEF Accumulator
      <3> QED BY <2>1, <2>3, <3>1 DEF Larger, Tick
    <2>5. acc'.buckets \in [1..11 -> Nat]
      <3>1. acc.buckets \in [1..11 -> Nat] /\ res.payout \in Multiplier
            /\ opts.bet \in 1..MaxInt
        <4>1. acc.buckets \in [1..11 -> Nat]
          BY <2>2, Zenon DEF Accumulator
        <4> QED BY <1>0, <2>3, <4>1
      <3>2. PICK i \in 1..11 : PlaceInBucket(acc.buckets, res.payout)
                                  = [acc.buckets EXCEPT ![i] = @ + 1]
        BY <3>1, PlacedInItsBand
      <3>3. [acc.buckets EXCEPT ![i] = @ + 1] \in [1..11 -> Nat]
        BY <3>1
      <3>4. acc'.buckets = [acc.buckets EXCEPT ![i] = @ + 1]
        BY <2>1, <3>2, Zenon
      <3> QED BY <3>3, <3>4, Zenon
    <2>6. acc' \in Accumulator
      <3>1. acc' = [spins |-> acc'.spins, payout |-> acc'.payout,
                    base |-> acc'.base, feature |-> acc'.feature,
                    hits |-> acc'.hits, features |-> acc'.features,
                    maxMultiplier |-> acc'.maxMultiplier,
                    maxPayout |-> acc'.maxPayout, buckets |-> acc'.buckets]
        BY <2>1 DEF Accumulated
      <3>2. /\ acc'.payout \in Multiplier /\ acc'.base \in Multiplier
            /\ acc'.feature \in Multiplier
        BY <2>1
      <3> DEFINE s == acc'.spins
                 p == acc'.payout
                 b == acc'.base
                 f == acc'.feature
                 h == acc'.hits
                 t == acc'.features
                 m == acc'.maxMultiplier
                 x == acc'.maxPayout
                 k == acc'.buckets
      <3>3. /\ s \in Nat /\ p \in Multiplier /\ b \in Multiplier
            /\ f \in Multiplier /\ h \in Nat /\ t \in Nat
            /\ m \in Multiplier /\ x \in Multiplier /\ k \in [1..11 -> Nat]
        BY <2>4, <2>5, <3>2
      <3>4. acc' = [spins |-> s, payout |-> p, base |-> b, feature |-> f,
                    hits |-> h, features |-> t, maxMultiplier |-> m,
                    maxPayout |-> x, buckets |-> k]
        BY <3>1, Zenon
      <3> HIDE DEF s, p, b, f, h, t, m, x, k
      <3> QED BY <3>3, <3>4, Zenon DEF Accumulator
    <2>7. Len(acc'.buckets) = Len(DefaultBuckets)
      BY <2>5, BandsAre
    <2>8. TypeOK'
      BY <1>0, <2>1, <2>2, <2>4, <2>7 DEF TypeOK
    <2>9. Len(played') = nonce' - 1 /\ acc'.spins = nonce' - 1
      BY <1>0, <2>1, <2>2
    <2> QED BY <2>1, <2>6, <2>8, <2>9 DEF LoopInv
  <1>5. CASE Finish
    <2>1. /\ pc = "check" /\ nonce > opts.spins
          /\ opts.bet <= MaxInt \div acc.spins
          /\ pc' = "returned" /\ error' = "nil"
          /\ report' = [acc |-> acc, totalBet |-> opts.bet * acc.spins]
          /\ UNCHANGED <<opts, cancelled, nonce, res, acc, played, late>>
      BY <1>5 DEF Finish, Return, TotalBetFits
    <2>2. nonce = opts.spins + 1 /\ acc.spins = nonce - 1
      BY <1>0, <2>1 DEF LoopInv
    <2>3. acc.spins \in Nat \ {0} /\ opts.bet \in Nat
      <3>1. opts.spins \in Nat \ {0}
        BY <1>0, SimulationAssumption
      <3> QED BY <1>0, <2>2, <3>1
    <2>4. opts.bet * acc.spins \in Multiplier
      <3> DEFINE s == acc.spins
                 b == opts.bet
      <3>1. s \in Nat \ {0} /\ b \in Nat /\ b <= MaxInt \div s /\ MaxInt \in Nat
        BY <2>1, <2>3, MoneyAssumption
      <3> HIDE DEF s, b
      <3>2. b * s <= MaxInt
        BY <3>1, QuotientGuard, Zenon
      <3>4. b * s \in Nat
        BY <3>1
      <3>3. b * s \in Multiplier
        BY <3>2, <3>4 DEF Multiplier
      <3> QED BY <3>3 DEF s, b
    <2>5. report'.totalBet \in Multiplier
      BY <2>1, <2>4
    <2>6. TypeOK'
      BY <2>1, <2>5 DEF LoopInv, TypeOK
    <2> QED BY <2>1, <2>2, <2>6 DEF LoopInv
  <1> QED BY <1>1, <1>2, <1>3, <1>4, <1>5 DEF Next, Step

\* Nothing but Observe touches what has been accumulated.
LEMMA OthersKeep ==
    ASSUME [Next]_vars, ~Observe
    PROVE  acc' = acc /\ played' = played /\ opts' = opts
  BY DEF Next, Step, vars, Cancel, CheckCancelled, Check, Spin, RunnerError,
         AddError, FinishError, Finish, Return

\* The shares, after one more round.
LEMMA SharesStep == LoopInv /\ SharesInv /\ Observe => SharesInv'
  <1> SUFFICES ASSUME LoopInv, SharesInv, Observe PROVE SharesInv'
    OBVIOUS
  <1> DEFINE n == Len(played)
             b == Settle(opts.bet, res.base)
             f == Settle(opts.bet, res.feature)
             p == acc.payout
             c == acc.base
             d == acc.feature
             k == acc.spins
  <1>1. /\ n \in Nat /\ opts \in Options /\ res \in RoundsOf(opts.bet)
        /\ b # Failed /\ f # Failed
        /\ acc'.spins = k + 1 /\ acc'.payout = p + res.payout
        /\ acc'.base = c + b /\ acc'.feature = d + f
        /\ Len(played') = n + 1 /\ \A i \in 1..n : played'[i] = played[i]
        /\ played'[n + 1] = res
    BY ObserveIs
  <1>2. /\ b \in Multiplier /\ f \in Multiplier
        /\ res.payout - (b + f) <= 1
        /\ res.total = res.base + res.feature => b + f <= res.payout
    BY <1>1, SharesOfRound
  <1>3. /\ p \in Nat /\ c \in Nat /\ d \in Nat /\ k \in Nat
    BY DEF LoopInv, Accumulator, Multiplier
  <1>4. b \in Nat /\ f \in Nat /\ res.payout \in Nat
    BY <1>1, <1>2, RoundIs DEF Multiplier
  <1>5. /\ p - (c + d) <= k
        /\ (\A i \in 1..n : played[i].total = played[i].base + played[i].feature)
              => c + d <= p
    BY DEF SharesInv
  <1> HIDE DEF n, b, f, p, c, d, k
  <1>6. acc'.payout - (acc'.base + acc'.feature) <= acc'.spins
    BY <1>1, <1>2, <1>3, <1>4, <1>5
  <1>7. ASSUME \A i \in 1..Len(played') :
                  played'[i].total = played'[i].base + played'[i].feature
        PROVE  acc'.base + acc'.feature <= acc'.payout
    <2>1. ASSUME NEW i \in 1..n
          PROVE  played[i].total = played[i].base + played[i].feature
      <3>1. i \in 1..Len(played')
        BY <1>1
      <3> QED BY <1>1, <1>7, <3>1
    <2>2. n + 1 \in 1..Len(played')
      BY <1>1
    <2>3. res.total = res.base + res.feature
      BY <1>1, <1>7, <2>2
    <2>4. c + d <= p
      BY <1>5, <2>1
    <2> QED BY <1>1, <1>2, <1>3, <1>4, <2>3, <2>4
  <1> QED BY <1>6, <1>7 DEF SharesInv

\* The sums, after one more round.
LEMMA SumsStep == LoopInv /\ SumsInv /\ Observe => SumsInv'
  <1> SUFFICES ASSUME LoopInv, SumsInv, Observe PROVE SumsInv'
    OBVIOUS
  <1> DEFINE n == Len(played)
             b == Settle(opts.bet, res.base)
             f == Settle(opts.bet, res.feature)
  <1>1. /\ n \in Nat /\ opts \in Options /\ res \in RoundsOf(opts.bet)
        /\ b \in Multiplier /\ f \in Multiplier /\ res.payout \in Multiplier
        /\ acc'.payout = acc.payout + res.payout
        /\ acc'.base = acc.base + b /\ acc'.feature = acc.feature + f
        /\ Len(played') = n + 1 /\ \A i \in 1..n : played'[i] = played[i]
        /\ played'[n + 1] = res /\ opts' = opts
        /\ played' \in Seq(RoundsOf(opts.bet))
    BY ObserveIs
  <1>2. DOMAIN played = 1..n /\ DOMAIN played' = 1..(n + 1)
    BY <1>1 DEF LoopInv
  <1>3. b \in Int /\ f \in Int /\ res.payout \in Int
    BY <1>1 DEF Multiplier
  <1>4. \A i \in 1..n : i \in 1..(n + 1)
    BY <1>1
  <1>5. n + 1 \in 1..(n + 1)
    BY <1>1
  <1>6. /\ \A i \in 1..n : Payouts'[i] = Payouts[i]
        /\ Payouts'[n + 1] = res.payout
    BY <1>1, <1>2, <1>4, <1>5, Zenon DEF Payouts
  <1>7. /\ \A i \in 1..n : Bases'[i] = Bases[i]
        /\ Bases'[n + 1] = b
    BY <1>1, <1>2, <1>4, <1>5, Zenon DEF Bases
  <1>8. /\ \A i \in 1..n : Features'[i] = Features[i]
        /\ Features'[n + 1] = f
    BY <1>1, <1>2, <1>4, <1>5, Zenon DEF Features
  <1>9. /\ SumIs(Payouts, n, acc.payout) /\ SumIs(Bases, n, acc.base)
        /\ SumIs(Features, n, acc.feature)
    BY DEF SumsInv
  <1> HIDE DEF n, b, f
  <1>10. SumIs(Payouts', n + 1, acc.payout + res.payout)
    BY <1>1, <1>3, <1>6, <1>9, SumGrows
  <1>11. SumIs(Bases', n + 1, acc.base + b)
    BY <1>1, <1>3, <1>7, <1>9, SumGrows
  <1>12. SumIs(Features', n + 1, acc.feature + f)
    BY <1>1, <1>3, <1>8, <1>9, SumGrows
  <1> QED BY <1>1, <1>10, <1>11, <1>12, Zenon DEF SumsInv

\* The counts, after one more round.
LEMMA CountsStep == LoopInv /\ CountsInv /\ Observe => CountsInv'
  <1> SUFFICES ASSUME LoopInv, CountsInv, Observe PROVE CountsInv'
    OBVIOUS
  <1> DEFINE n == Len(played)
             T == {i \in 1..n : played[i].payout > 0}
             V == {i \in 1..n : played[i].triggered}
             T2 == {i \in 1..Len(played') : played'[i].payout > 0}
             V2 == {i \in 1..Len(played') : played'[i].triggered}
  <1>1. /\ n \in Nat
        /\ acc'.hits = Tick(acc.hits, res.payout > 0)
        /\ acc'.features = Tick(acc.features, res.triggered)
        /\ Len(played') = n + 1 /\ \A i \in 1..n : played'[i] = played[i]
        /\ played'[n + 1] = res
    BY ObserveIs
  <1>2. acc.hits = Cardinality(T) /\ acc.features = Cardinality(V)
    BY Zenon DEF CountsInv
  <1>3. /\ T \in SUBSET (1..n) /\ T2 \in SUBSET (1..(n + 1))
        /\ V \in SUBSET (1..n) /\ V2 \in SUBSET (1..(n + 1))
    BY <1>1, Zenon
  <1>4. (\A i \in 1..n : i \in 1..Len(played')) /\ n + 1 \in 1..Len(played')
    BY <1>1
  <1>5. /\ \A i \in 1..n : i \in T2 <=> i \in T
        /\ \A i \in 1..n : i \in V2 <=> i \in V
        /\ n + 1 \in T2 <=> res.payout > 0
        /\ n + 1 \in V2 <=> res.triggered
    BY <1>1, <1>4, Zenon
  <1> HIDE DEF n, T, V, T2, V2
  <1>6. acc'.hits = Cardinality(T2)
    <2>1. CASE res.payout > 0
      BY <1>1, <1>2, <1>3, <1>5, <2>1, CountGrows DEF Tick
    <2>2. CASE ~(res.payout > 0)
      BY <1>1, <1>2, <1>3, <1>5, <2>2, CountGrows DEF Tick
    <2> QED BY <2>1, <2>2
  <1>7. acc'.features = Cardinality(V2)
    <2>1. CASE res.triggered
      <3>1. Cardinality(V2) = Cardinality(V) + 1
        BY <1>1, <1>3, <1>5, <2>1, CountGrows, Zenon
      <3>2. Tick(acc.features, res.triggered) = acc.features + 1
        BY <2>1 DEF Tick
      <3> QED BY <1>1, <1>2, <3>1, <3>2, Zenon
    <2>2. CASE ~res.triggered
      <3>1. Cardinality(V2) = Cardinality(V)
        <4>1. n + 1 \notin V2
          BY <1>5, <2>2, Zenon
        <4> QED BY <1>1, <1>3, <1>5, <4>1, CountGrows
      <3>2. Tick(acc.features, res.triggered) = acc.features
        BY <2>2 DEF Tick
      <3> QED BY <1>1, <1>2, <3>1, <3>2, Zenon
    <2> QED BY <2>1, <2>2
  <1> QED BY <1>6, <1>7, Zenon DEF CountsInv, T2, V2

\* The bands, after one more round.
LEMMA BandsStep == LoopInv /\ BandsInv /\ Observe => BandsInv'
  <1> SUFFICES ASSUME LoopInv, BandsInv, Observe PROVE BandsInv'
    OBVIOUS
  <1> DEFINE n == Len(played)
             pay == res.payout
             T(i) == {j \in 1..n : Falls(i, played[j].payout)}
             U(i) == {j \in 1..Len(played') : Falls(i, played'[j].payout)}
  <1>1. /\ n \in Nat /\ opts \in Options /\ res \in RoundsOf(opts.bet)
        /\ acc'.buckets = PlaceInBucket(acc.buckets, pay)
        /\ Len(played') = n + 1 /\ \A j \in 1..n : played'[j] = played[j]
        /\ played'[n + 1] = res /\ opts' = opts
    BY ObserveIs
  <1>2. ASSUME NEW i \in 1..11
        PROVE  {j \in 1..Len(played') : Falls(i, played[j].payout)'} = U(i)
    BY <1>1, Zenon DEF Falls, WinRatio, AsFloat
  <1>3. pay \in Multiplier /\ opts.bet \in 1..MaxInt
    BY <1>1, RoundIs
  <1>4. acc.buckets \in [1..11 -> Nat]
    BY Zenon DEF LoopInv, Accumulator
  <1>5. PICK k \in 1..11 :
           /\ Falls(k, pay) /\ \A j \in 1..11 : Falls(j, pay) => j = k
           /\ PlaceInBucket(acc.buckets, pay) = [acc.buckets EXCEPT ![k] = @ + 1]
    BY <1>3, <1>4, PlacedInItsBand
  <1>6. ASSUME NEW i \in 1..11
        PROVE  acc'.buckets[i] = Cardinality(U(i))
    <2>1. Falls(i, pay) <=> i = k
      BY <1>5
    <2>2. /\ i = k => acc'.buckets[i] = acc.buckets[i] + 1
          /\ i # k => acc'.buckets[i] = acc.buckets[i]
      <3> DEFINE b == acc.buckets
      <3>1. b \in [1..11 -> Nat]
        BY <1>4
      <3> HIDE DEF b
      <3>2. /\ i = k => [b EXCEPT ![k] = @ + 1][i] = b[i] + 1
            /\ i # k => [b EXCEPT ![k] = @ + 1][i] = b[i]
        BY <3>1
      <3> QED BY <1>1, <1>5, <3>2, Zenon DEF b
    <2>3. acc.buckets[i] = Cardinality(T(i))
      BY Zenon DEF BandsInv, T, n
    <2>4. T(i) \in SUBSET (1..n) /\ U(i) \in SUBSET (1..(n + 1))
      BY <1>1, Zenon
    <2>5. (\A j \in 1..n : j \in 1..Len(played')) /\ n + 1 \in 1..Len(played')
      BY <1>1
    <2>6. /\ \A j \in 1..n : j \in U(i) <=> j \in T(i)
          /\ n + 1 \in U(i) <=> i = k
      BY <1>1, <2>1, <2>5, Zenon
    <2> HIDE DEF n, T, U
    <2>7. acc'.buckets[i] = Cardinality(U(i))
      <3>1. CASE i = k
        BY <1>1, <2>2, <2>3, <2>4, <2>6, <3>1, CountGrows, Zenon
      <3>2. CASE i # k
        BY <1>1, <2>2, <2>3, <2>4, <2>6, <3>2, CountGrows, Zenon
      <3> QED BY <3>1, <3>2
    <2> QED BY <2>7
  <1>7. SumIs(acc'.buckets, 11, n + 1)
    <2>1. SumIs(acc.buckets, 11, n)
      BY Zenon DEF BandsInv
    <2>2. 11 \in Nat /\ k \in 1..11 /\ n \in Int
      BY <1>1
    <2>3. SumIs([acc.buckets EXCEPT ![k] = @ + 1], 11, n + 1)
      BY <1>4, <2>1, <2>2, SumOfMore, Zenon
    <2> QED BY <1>1, <1>5, <2>3, Zenon
  <1> QED BY <1>1, <1>2, <1>6, <1>7, Zenon DEF BandsInv

\* The larger of the largest and a new value is the largest.
LEMMA GreatestGrows ==
    ASSUME NEW V \in SUBSET Nat, NEW m \in Nat, NEW x \in Nat, Greatest(m, V)
    PROVE  Greatest(Larger(m, x), V \cup {x})
  BY DEF Greatest, Larger

\* The maxima, after one more round.
LEMMA MaximaStep == LoopInv /\ MaximaInv /\ Observe => MaximaInv'
  <1> SUFFICES ASSUME LoopInv, MaximaInv, Observe PROVE MaximaInv'
    OBVIOUS
  <1> DEFINE n == Len(played)
             P == {played[i].payout : i \in 1..n}
             T == {played[i].total : i \in 1..n}
             P2 == {played'[i].payout : i \in 1..Len(played')}
             T2 == {played'[i].total : i \in 1..Len(played')}
  <1>1. /\ n \in Nat /\ opts \in Options /\ res \in RoundsOf(opts.bet)
        /\ acc'.maxPayout = Larger(acc.maxPayout, res.payout)
        /\ acc'.maxMultiplier = Larger(acc.maxMultiplier, res.total)
        /\ Len(played') = n + 1 /\ \A i \in 1..n : played'[i] = played[i]
        /\ played'[n + 1] = res
    BY ObserveIs
  <1>2. res.payout \in Nat /\ res.total \in Nat
    BY <1>1, RoundIs DEF Multiplier
  <1>3. acc.maxPayout \in Nat /\ acc.maxMultiplier \in Nat
    BY DEF LoopInv, Accumulator, Multiplier
  <1>4. \A i \in 1..n : played[i] \in RoundsOf(opts.bet)
    BY DEF LoopInv
  <1>5. P \in SUBSET Nat /\ T \in SUBSET Nat
    <2>1. ASSUME NEW i \in 1..n
          PROVE  played[i].payout \in Nat /\ played[i].total \in Nat
      BY <1>1, <1>4, RoundIs DEF Multiplier
    <2> QED BY <2>1
  <1>6. \A i \in 1..Len(played') : i \in 1..n \/ i = n + 1
    BY <1>1
  <1>7. (\A i \in 1..n : i \in 1..Len(played')) /\ n + 1 \in 1..Len(played')
    BY <1>1
  <1>8. P2 = P \cup {res.payout} /\ T2 = T \cup {res.total}
    <2>1. P2 \subseteq P \cup {res.payout} /\ T2 \subseteq T \cup {res.total}
      BY <1>1, <1>6, Zenon
    <2>2. P \subseteq P2 /\ T \subseteq T2
      BY <1>1, <1>7, Zenon
    <2>3. res.payout \in P2 /\ res.total \in T2
      BY <1>1, <1>7, Zenon
    <2> QED BY <2>1, <2>2, <2>3, Zenon
  <1>9. Greatest(acc.maxPayout, P) /\ Greatest(acc.maxMultiplier, T)
    BY Zenon DEF MaximaInv
  <1> HIDE DEF n, P, T, P2, T2
  <1>10. Greatest(acc'.maxPayout, P2)
    BY <1>1, <1>2, <1>3, <1>5, <1>8, <1>9, GreatestGrows, Zenon
  <1>11. Greatest(acc'.maxMultiplier, T2)
    BY <1>1, <1>2, <1>3, <1>5, <1>8, <1>9, GreatestGrows, Zenon
  <1> QED BY <1>10, <1>11, Zenon DEF MaximaInv, P2, T2

------------------------------------------------------------------------------
(* The theorems.                                                             *)

\* Everything the theorems use.
SimulationInv ==
    LoopInv /\ SharesInv /\ SumsInv /\ CountsInv /\ BandsInv /\ MaximaInv

\* Nothing played, nothing accumulated.
LEMMA SimulationInit == Init => SimulationInv
  <1> SUFFICES ASSUME Init PROVE SimulationInv
    OBVIOUS
  <1>1. LoopInv
    BY LoopInit
  <1> DEFINE none == [i \in 1..11 |-> 0]
  <1>2. /\ played = <<>> /\ Len(played) = 0
        /\ acc = [spins |-> 0, payout |-> 0, base |-> 0, feature |-> 0,
                  hits |-> 0, features |-> 0, maxMultiplier |-> 0,
                  maxPayout |-> 0, buckets |-> none]
    BY BandsAre DEF Init, NewAccumulator
  <1>3. \A i \in 1..11 : none[i] = 0
    OBVIOUS
  <1> HIDE DEF none
  <1>4. /\ acc.spins = 0 /\ acc.payout = 0 /\ acc.base = 0 /\ acc.feature = 0
        /\ acc.hits = 0 /\ acc.features = 0 /\ acc.maxMultiplier = 0
        /\ acc.maxPayout = 0 /\ acc.buckets = none
    BY <1>2, Zenon
  <1>5. \A i \in 1..Len(played) : FALSE
    BY <1>2
  <1>6. SharesInv
    BY <1>4 DEF SharesInv
  <1>7. SumsInv
    BY <1>2, <1>4, SumStarts, Zenon DEF SumsInv
  <1>8. CountsInv
    <2>1. /\ {i \in 1..Len(played) : played[i].payout > 0} = {}
          /\ {i \in 1..Len(played) : played[i].triggered} = {}
      BY <1>5, Zenon
    <2> QED BY <1>4, <2>1, FS_EmptySet, Zenon DEF CountsInv
  <1>9. BandsInv
    <2>1. \A i \in 1..11 :
             {j \in 1..Len(played) : Falls(i, played[j].payout)} = {}
      BY <1>5, Zenon
    <2>2. SumIs(none, 11, 0)
      BY <1>3, SumOfNothing
    <2> QED BY <1>2, <1>3, <1>4, <2>1, <2>2, FS_EmptySet, Zenon DEF BandsInv
  <1>10. MaximaInv
    <2>1. /\ {played[i].payout : i \in 1..Len(played)} = {}
          /\ {played[i].total : i \in 1..Len(played)} = {}
      BY <1>5, Zenon
    <2> QED BY <1>4, <2>1, Zenon DEF MaximaInv, Greatest
  <1> QED BY <1>1, <1>6, <1>7, <1>8, <1>9, <1>10 DEF SimulationInv

\* Only Observe accumulates, and then one round.
LEMMA SimulationNext == SimulationInv /\ [Next]_vars => SimulationInv'
  <1> SUFFICES ASSUME SimulationInv, [Next]_vars PROVE SimulationInv'
    OBVIOUS
  <1>1. /\ LoopInv /\ SharesInv /\ SumsInv /\ CountsInv /\ BandsInv
        /\ MaximaInv
    BY DEF SimulationInv
  <1>2. LoopInv'
    BY <1>1, LoopNext
  <1>3. CASE Observe
    BY <1>1, <1>2, <1>3, SharesStep, SumsStep, CountsStep, BandsStep,
       MaximaStep DEF SimulationInv
  <1>4. CASE ~Observe
    <2>1. acc' = acc /\ played' = played /\ opts' = opts
      BY <1>4, OthersKeep
    <2>2. SharesInv'
      BY <1>1, <2>1, Zenon DEF SharesInv
    <2>3. SumsInv'
      BY <1>1, <2>1, Zenon DEF SumsInv, Payouts, Bases, Features
    <2>4. CountsInv'
      BY <1>1, <2>1, Zenon DEF CountsInv
    <2>5. BandsInv'
      BY <1>1, <2>1, Zenon DEF BandsInv, Falls, WinRatio, AsFloat
    <2>6. MaximaInv'
      BY <1>1, <2>1, Zenon DEF MaximaInv
    <2> QED BY <1>2, <2>2, <2>3, <2>4, <2>5, <2>6 DEF SimulationInv
  <1> QED BY <1>3, <1>4

\* It holds in every state a simulation reaches.
LEMMA SimulationInvHolds == Spec => []SimulationInv
  <1> QED BY SimulationInit, SimulationNext, PTL DEF Spec

\* TypeOK of SlotSimulation: every sum of the accumulator, and the total bet,
\* are integers the code can hold.
THEOREM SimulationIsTyped == Spec => []TypeOK
  <1>1. SimulationInv => TypeOK
    BY DEF SimulationInv, LoopInv
  <1> QED BY SimulationInvHolds, <1>1, PTL

\* A report tells of exactly the rounds asked for, each counted once in every
\* one of its figures.
THEOREM ReportsAreWhole == Spec => []ReportIsWhole
  <1>1. SimulationInv => ReportIsWhole
    <2> SUFFICES ASSUME SimulationInv, report # None
                 PROVE  ReportIsWhole
      BY DEF ReportIsWhole
    <2>1. /\ LoopInv /\ SumsInv /\ CountsInv /\ MaximaInv
      BY DEF SimulationInv
    <2> DEFINE n == Len(played)
    <2>2. /\ report = [acc |-> acc, totalBet |-> opts.bet * acc.spins]
          /\ n = opts.spins /\ acc.spins = opts.spins /\ opts \in Options
          /\ played \in Seq(RoundsOf(opts.bet))
      <3>1. nonce = opts.spins + 1 /\ opts \in Options
            /\ report = [acc |-> acc, totalBet |-> opts.bet * acc.spins]
            /\ n = nonce - 1 /\ acc.spins = nonce - 1
            /\ played \in Seq(RoundsOf(opts.bet))
        BY <2>1 DEF LoopInv, TypeOK
      <3>2. opts.spins \in Nat
        BY <3>1, SimulationAssumption
      <3> QED BY <3>1, <3>2
    <2>3. opts.spins \in Nat \ {0} /\ opts.bet \in 1..MaxInt
      BY <2>2, SimulationAssumption
    <2>4. report.acc = acc /\ report.totalBet = opts.spins * opts.bet
      <3> DEFINE s == opts.spins
                 b == opts.bet
      <3>1. s \in Nat /\ b \in Nat
        BY <2>3, MoneyAssumption
      <3>2. report.acc = acc /\ report.totalBet = b * s
        BY <2>2
      <3> HIDE DEF s, b
      <3>3. b * s = s * b
        BY <3>1, Z3
      <3> QED BY <3>2, <3>3 DEF s, b
    <2>5. DOMAIN played = 1..n /\ n \in Nat
      BY <2>2
    <2>6. /\ Len(Payouts) = n /\ Len(Bases) = n /\ Len(Features) = n
      BY <2>5 DEF Payouts, Bases, Features
    <2>7. /\ Total(Payouts) = acc.payout /\ Total(Bases) = acc.base
          /\ Total(Features) = acc.feature
      BY <2>1, <2>6, TotalIs, Zenon DEF SumsInv
    <2>8. /\ acc.hits = Cardinality({i \in DOMAIN played : played[i].payout > 0})
          /\ acc.features = Cardinality({i \in DOMAIN played : played[i].triggered})
      BY <2>1, <2>5, Zenon DEF CountsInv
    <2>9. ASSUME NEW V, NEW m, V # {}, Greatest(m, V), V \subseteq Nat
          PROVE  m = Max(V)
      <3>1. m \in V /\ \A v \in V : m >= v
        BY <2>9 DEF Greatest
      <3>2. Max(V) \in V /\ \A v \in V : Max(V) >= v
        BY <3>1, Zenon DEF Max
      <3>3. m >= Max(V) /\ Max(V) >= m
        BY <3>1, <3>2, Zenon
      <3>4. m \in Nat /\ Max(V) \in Nat
        BY <2>9, <3>1, <3>2, Zenon
      <3> QED BY <3>3, <3>4
    <2>10. \A i \in 1..n : played[i].payout \in Nat /\ played[i].total \in Nat
      <3>1. ASSUME NEW i \in 1..n
            PROVE  played[i].payout \in Nat /\ played[i].total \in Nat
        <4>1. played[i] \in RoundsOf(opts.bet)
          BY <2>2, <3>1
        <4> QED BY <2>2, <4>1, RoundIs DEF Multiplier
      <3> QED BY <3>1
    <2>11. ToSet(played) = {played[i] : i \in 1..n}
      BY <2>5, Zenon DEF ToSet
    <2> DEFINE P == {played[i].payout : i \in 1..n}
               T == {played[i].total : i \in 1..n}
    <2>12. /\ {r.payout : r \in ToSet(played)} = P
           /\ {r.total : r \in ToSet(played)} = T
      BY <2>11, Zenon
    <2>13. 1 \in 1..n
      BY <2>2, <2>3
    <2>14. P # {} /\ T # {} /\ P \subseteq Nat /\ T \subseteq Nat
      BY <2>10, <2>13, Zenon
    <2>15. Greatest(acc.maxPayout, P) /\ Greatest(acc.maxMultiplier, T)
      BY <2>1, Zenon DEF MaximaInv
    <2> HIDE DEF P, T
    <2>16. acc.maxPayout = Max(P) /\ acc.maxMultiplier = Max(T)
      BY <2>9, <2>14, <2>15, Zenon
    <2> QED BY <2>2, <2>4, <2>7, <2>8, <2>12, <2>16, Zenon DEF ReportIsWhole
  <1> QED BY SimulationInvHolds, <1>1, PTL

\* Whatever the bet, rounding takes no round out of the payout bands, puts none
\* in two of them and makes no win a loss; with a bet and payouts that have
\* floats of their own each band counts the rounds it is for.
THEOREM BandsHold == Spec => []BandsHoldEveryRound
  <1>1. SimulationInv => BandsHoldEveryRound
    <2> SUFFICES ASSUME SimulationInv PROVE BandsHoldEveryRound
      OBVIOUS
    <2>1. /\ BandsInv /\ opts \in Options /\ played \in Seq(RoundsOf(opts.bet))
          /\ acc.buckets \in [1..11 -> Nat]
      BY Zenon DEF SimulationInv, LoopInv, TypeOK, Accumulator
    <2>2. opts.bet \in 1..MaxInt
      BY <2>1, SimulationAssumption
    <2>3. DOMAIN DefaultBuckets = 1..11
      BY BandsAre
    <2>4. Total(acc.buckets) = Len(played)
      <3>1. Len(acc.buckets) = 11
        BY <2>1
      <3> QED BY <2>1, <3>1, TotalIs, Zenon DEF BandsInv
    <2>5. DOMAIN played = 1..Len(played)
      BY <2>1
    <2>6. ASSUME NEW j \in DOMAIN played PROVE played[j].payout \in Multiplier
      <3>1. played[j] \in RoundsOf(opts.bet)
        BY <2>1, <2>6
      <3> QED BY <2>1, <3>1, RoundIs
    <2>7. acc.buckets[1] = Cardinality({j \in DOMAIN played : played[j].payout = 0})
      <3>1. ASSUME NEW j \in DOMAIN played
            PROVE  Falls(1, played[j].payout) <=> played[j].payout = 0
        BY <2>2, <2>6, WinRatioIs, Zenon DEF Falls, Within
      <3>2. {j \in DOMAIN played : Falls(1, played[j].payout)}
               = {j \in DOMAIN played : played[j].payout = 0}
        BY <3>1, Zenon
      <3>3. 1 \in 1..11
        OBVIOUS
      <3> QED BY <2>1, <2>5, <3>2, <3>3, Zenon DEF BandsInv
    <2>8. ASSUME opts.bet < Precision,
                 \A j \in DOMAIN played : played[j].payout < Precision,
                 NEW i \in DOMAIN DefaultBuckets
          PROVE  acc.buckets[i] =
                    Cardinality({j \in DOMAIN played : Holds(i, played[j].payout)})
      <3>1. ASSUME NEW j \in DOMAIN played
            PROVE  Falls(i, played[j].payout) <=> Holds(i, played[j].payout)
        BY <2>2, <2>3, <2>6, <2>8, FallsWhereItShould
      <3>2. {j \in DOMAIN played : Falls(i, played[j].payout)}
               = {j \in DOMAIN played : Holds(i, played[j].payout)}
        BY <3>1, Zenon
      <3> QED BY <2>1, <2>3, <2>5, <3>2, Zenon DEF BandsInv
    <2> QED BY <2>4, <2>7, <2>8, Zenon DEF BandsHoldEveryRound
  <1> QED BY SimulationInvHolds, <1>1, PTL

\* Rounding the shares of a round by themselves loses at most a minor unit a
\* round, and they exceed the payout only if a round was cut.
THEOREM SharesDoAddUp == Spec => []SharesAddUp
  <1>1. SimulationInv => SharesAddUp
    <2> SUFFICES ASSUME SimulationInv PROVE SharesAddUp
      OBVIOUS
    <2>1. SharesInv /\ played \in Seq(RoundsOf(opts.bet))
      BY DEF SimulationInv, LoopInv
    <2>2. ASSUME \A r \in ToSet(played) : r.total = r.base + r.feature,
                 NEW i \in 1..Len(played)
          PROVE  played[i].total = played[i].base + played[i].feature
      <3>1. played[i] \in ToSet(played)
        BY <2>1 DEF ToSet
      <3> QED BY <2>2, <3>1, Zenon
    <2> QED BY <2>1, <2>2, Zenon DEF SharesInv, SharesAddUp
  <1> QED BY SimulationInvHolds, <1>1, PTL

------------------------------------------------------------------------------
(* The loop is the generic runner's.                                         *)

\* What the runner's observer has seen, of the rounds accumulated.
Seen(s) == [i \in DOMAIN s |-> [round |-> i - 1, result |-> s[i]]]

\* One more round accumulated is one more seen.
LEMMA SeenGrows ==
    ASSUME NEW S, NEW s \in Seq(S), NEW r \in S
    PROVE  Seen(Append(s, r)) = Append(Seen(s), [round |-> Len(s), result |-> r])
  <1> DEFINE n == Len(s)
             t == Append(s, r)
             E(i, x) == [round |-> i, result |-> x]
             a == Append(Seen(s), E(n, r))
             R == [round : Int, result : S]
  <1>1. /\ n \in Nat /\ DOMAIN s = 1..n /\ DOMAIN t = 1..(n + 1)
        /\ \A i \in 1..n : t[i] = s[i] /\ s[i] \in S
        /\ t[n + 1] = r
    OBVIOUS
  <1>2. \A i \in Int, x \in S : E(i, x) \in R
    BY Zenon
  <1> HIDE DEF E, R, t, n
  <1>3. /\ Seen(s) = [i \in 1..n |-> E(i - 1, s[i])]
        /\ Seen(t) = [i \in 1..(n + 1) |-> E(i - 1, t[i])]
    BY <1>1, Zenon DEF Seen, E
  <1>4. Seen(s) \in Seq(R) /\ Len(Seen(s)) = n
    BY <1>1, <1>2, <1>3
  <1>5. /\ DOMAIN a = 1..(n + 1) /\ a[n + 1] = E(n, r)
        /\ \A i \in 1..n : a[i] = E(i - 1, s[i])
    <2>1. E(n, r) \in R
      BY <1>1, <1>2
    <2>2. \A i \in 1..n : Seen(s)[i] = E(i - 1, s[i])
      BY <1>3
    <2> QED BY <1>1, <1>4, <2>1, <2>2
  <1>6. a \in Seq(R)
    BY <1>1, <1>2, <1>4
  <1>7. a = Seen(t)
    <2>1. \A i \in 1..(n + 1) : a[i] = E(i - 1, t[i])
      <3>1. ASSUME NEW i \in 1..(n + 1) PROVE a[i] = E(i - 1, t[i])
        <4>1. CASE i = n + 1
          <5>1. i - 1 = n
            BY <1>1, <4>1
          <5>2. t[i] = r /\ a[i] = E(n, r)
            BY <1>1, <1>5, <4>1, Zenon
          <5> QED BY <5>1, <5>2, Zenon
        <4>2. CASE i # n + 1
          <5>1. i \in 1..n
            BY <1>1, <4>2
          <5> QED BY <1>1, <1>5, <5>1, Zenon
        <4> QED BY <4>1, <4>2
      <3> QED BY <3>1
    <2> HIDE DEF a
    <2>2. a = [i \in 1..(n + 1) |-> a[i]]
      BY <1>5, <1>6
    <2> QED BY <1>3, <2>1, <2>2
  <1> QED BY <1>7, Zenon DEF a, t, E, n

\* The loop's states, as the runner's.
RunnerPc == CASE pc = "spin" -> "play" [] pc = "add" -> "observe"
              [] OTHER -> pc
RunnerReturned == CASE error = "runner" -> "engine"
                  [] error = "accumulator" -> "observer"
                  [] error = "total bet" -> "nil"
                  [] OTHER -> error

\* The mapped variables, one by one.
LEMMA RunnerIs ==
    /\ Runner!vars = <<opts.spins, cancelled, RunnerPc, nonce - 1, res,
                       RunnerReturned, Seen(played), late>>
    /\ pc = "spin" => RunnerPc = "play"
    /\ pc = "add" => RunnerPc = "observe"
    /\ pc \in {"check", "returned"} => RunnerPc = pc
    /\ error = "runner" => RunnerReturned = "engine"
    /\ error = "accumulator" => RunnerReturned = "observer"
    /\ error = "total bet" => RunnerReturned = "nil"
    /\ error \in {"nil", "context"} => RunnerReturned = error
  <1>1. Runner!vars = <<opts.spins, cancelled, RunnerPc, nonce - 1, res,
                        RunnerReturned, Seen(played), late>>
    BY Zenon DEF Runner!vars, RunnerPc, RunnerReturned, Seen
  <1>2. /\ pc = "spin" => RunnerPc = "play"
        /\ pc = "add" => RunnerPc = "observe"
        /\ pc \in {"check", "returned"} => RunnerPc = pc
    BY DEF RunnerPc
  <1>3. /\ error = "runner" => RunnerReturned = "engine"
        /\ error = "accumulator" => RunnerReturned = "observer"
        /\ error = "total bet" => RunnerReturned = "nil"
        /\ error \in {"nil", "context"} => RunnerReturned = error
    BY DEF RunnerReturned
  <1> QED BY <1>1, <1>2, <1>3

\* A step of the loop is a step of the runner, or none.
LEMMA LoopStepIsARunnerStep ==
    LoopInv /\ [Next]_vars => [Runner!Next]_(Runner!vars)
  <1> SUFFICES ASSUME LoopInv, [Next]_vars PROVE [Runner!Next]_(Runner!vars)
    OBVIOUS
  <1> DEFINE Unmoved == UNCHANGED <<opts, cancelled, nonce, res, played, late>>
  <1>1. /\ opts \in Options /\ opts.spins \in Nat \ {0}
        /\ nonce \in 1..(opts.spins + 1)
        /\ pc \in {"check", "spin", "add", "returned"}
        /\ pc # "returned" => error = "nil"
        /\ played \in Seq(RoundsOf(opts.bet)) /\ Len(played) = nonce - 1
        /\ pc = "add" => res \in RoundsOf(opts.bet)
        /\ pc = "add" => nonce <= opts.spins
    BY SimulationAssumption DEF LoopInv, TypeOK
  <1>2. /\ Runner!vars = <<opts.spins, cancelled, RunnerPc, nonce - 1, res,
                           RunnerReturned, Seen(played), late>>
        /\ pc = "spin" => RunnerPc = "play"
        /\ pc = "add" => RunnerPc = "observe"
        /\ pc \in {"check", "returned"} => RunnerPc = pc
        /\ error \in {"nil", "context"} => RunnerReturned = error
    BY RunnerIs
  <1>3. /\ pc' = "spin" => RunnerPc' = "play"
        /\ pc' = "add" => RunnerPc' = "observe"
        /\ pc' \in {"check", "returned"} => RunnerPc' = pc'
        /\ error' = "runner" => RunnerReturned' = "engine"
        /\ error' = "accumulator" => RunnerReturned' = "observer"
        /\ error' = "total bet" => RunnerReturned' = "nil"
        /\ error' \in {"nil", "context"} => RunnerReturned' = error'
    BY DEF RunnerPc, RunnerReturned
  <1>4. CASE UNCHANGED vars
    <2>1. UNCHANGED Runner!vars
      BY <1>4, Zenon DEF vars, Runner!vars
    <2> QED BY <2>1, Zenon
  <1>5. CASE Cancel
    <2>1. Runner!Cancel
      <3>1. /\ ~cancelled /\ cancelled' = TRUE
            /\ UNCHANGED <<opts, pc, nonce, res, error, played, late>>
        BY <1>5, Zenon DEF Cancel
      <3> QED BY <3>1, Zenon DEF Runner!Cancel
    <2> QED BY <2>1, Zenon DEF Runner!Next
  <1>6. CASE CheckCancelled
    <2>1. /\ pc = "check" /\ nonce <= opts.spins /\ cancelled
          /\ pc' = "returned" /\ error' = "context" /\ Unmoved
      BY <1>6, Zenon DEF CheckCancelled, Return
    <2>2. RunnerPc = "check" /\ RunnerPc' = "returned"
          /\ RunnerReturned' = "context" /\ nonce - 1 < opts.spins
      BY <1>1, <1>2, <1>3, <2>1
    <2>3. Runner!ContextError
      BY <2>1, <2>2, Zenon
         DEF Runner!ContextError, Runner!Return, RunnerPc, RunnerReturned
    <2> QED BY <2>3, Zenon DEF Runner!Next, Runner!Step
  <1>7. CASE Check
    <2>1. /\ pc = "check" /\ nonce <= opts.spins /\ ~cancelled
          /\ pc' = "spin" /\ error' = error /\ Unmoved
      BY <1>7, Zenon DEF Check
    <2>2. RunnerPc = "check" /\ RunnerPc' = "play" /\ nonce - 1 < opts.spins
      BY <1>1, <1>2, <1>3, <2>1
    <2>3. Runner!StartRound
      BY <2>1, <2>2, Zenon DEF Runner!StartRound, RunnerPc
    <2> QED BY <2>3, Zenon DEF Runner!Next, Runner!Step
  <1>8. CASE Spin
    <2>1. /\ pc = "spin" /\ res' \in RoundsOf(opts.bet) /\ pc' = "add"
          /\ error' = error
          /\ UNCHANGED <<opts, cancelled, nonce, played, late>>
      BY <1>8, Zenon DEF Spin
    <2>2. RunnerPc = "play" /\ RunnerPc' = "observe"
      BY <1>2, <1>3, <2>1, Zenon
    <2>3. res' \in UNION {RoundsOf(o.bet) : o \in Options}
      BY <1>1, <2>1, Zenon
    <2>4. Runner!Played(res')
      BY <2>1, <2>2, Zenon DEF Runner!Played, RunnerPc
    <2>5. Runner!Play
      BY <2>3, <2>4, Zenon DEF Runner!Play
    <2> QED BY <2>5, Zenon DEF Runner!Next, Runner!Step
  <1>9. CASE RunnerError
    <2>1. /\ pc = "spin" /\ pc' = "returned" /\ error' = "runner" /\ Unmoved
      BY <1>9, Zenon DEF RunnerError, Return
    <2>2. RunnerPc = "play" /\ RunnerPc' = "returned"
          /\ RunnerReturned' = "engine"
      BY <1>2, <1>3, <2>1
    <2>3. Runner!EngineError
      BY <2>1, <2>2, Zenon
         DEF Runner!EngineError, Runner!Return, RunnerPc, RunnerReturned
    <2> QED BY <2>3, Zenon DEF Runner!Next, Runner!Step
  <1>10. CASE AddError
    <2>1. /\ pc = "add" /\ pc' = "returned" /\ error' = "accumulator"
          /\ Unmoved
      BY <1>10, Zenon DEF AddError, Return
    <2>2. RunnerPc = "observe" /\ RunnerPc' = "returned"
          /\ RunnerReturned' = "observer"
      BY <1>2, <1>3, <2>1
    <2>3. Runner!ObserverError
      BY <2>1, <2>2, Zenon
         DEF Runner!ObserverError, Runner!Return, RunnerPc, RunnerReturned
    <2> QED BY <2>3, Zenon DEF Runner!Next, Runner!Step
  <1>11. CASE FinishError \/ Finish
    <2>1. /\ pc = "check" /\ nonce > opts.spins /\ pc' = "returned"
          /\ error' \in {"nil", "total bet"} /\ Unmoved
      BY <1>11, Zenon DEF FinishError, Finish, Return
    <2>2. RunnerPc = "check" /\ RunnerPc' = "returned"
          /\ RunnerReturned' = "nil" /\ nonce - 1 = opts.spins
      <3>1. RunnerPc = "check" /\ RunnerPc' = "returned"
        BY <1>2, <1>3, <2>1
      <3>2. RunnerReturned' = "nil"
        BY <1>3, <2>1
      <3>3. nonce - 1 = opts.spins
        <4> DEFINE s == opts.spins
        <4>1. s \in Nat /\ nonce \in 1..(s + 1) /\ nonce > s
          BY <1>1, <2>1
        <4> HIDE DEF s
        <4>2. nonce - 1 = s
          BY <4>1
        <4> QED BY <4>2 DEF s
      <3> QED BY <3>1, <3>2, <3>3
    <2>3. Runner!Completed
      BY <2>1, <2>2, Zenon
         DEF Runner!Completed, Runner!Return, RunnerPc, RunnerReturned
    <2> QED BY <2>3, Zenon DEF Runner!Next, Runner!Step
  <1>12. CASE Observe
    <2>1. /\ pc = "add" /\ played' = Append(played, res)
          /\ late' = IF cancelled THEN late + 1 ELSE late
          /\ nonce' = nonce + 1 /\ res' = None /\ pc' = "check"
          /\ UNCHANGED <<opts, cancelled, error>>
      BY <1>12, Zenon DEF Observe
    <2>2. RunnerPc = "observe" /\ RunnerPc' = "check"
      BY <1>2, <1>3, <2>1
    <2>3. Seen(played') = Append(Seen(played),
                                 [round |-> nonce - 1, result |-> res])
      BY <1>1, <2>1, SeenGrows, Zenon
    <2>4. nonce' - 1 = (nonce - 1) + 1
      BY <1>1, <2>1
    <2>5. Runner!Observe
      BY <2>1, <2>2, <2>3, <2>4, Zenon DEF Runner!Observe, RunnerPc, Seen
    <2> QED BY <2>5, Zenon DEF Runner!Next, Runner!Step
  <1> QED BY <1>4, <1>5, <1>6, <1>7, <1>8, <1>9, <1>10, <1>11, <1>12
          DEF Next, Step

\* The simulator's own loop, which the generic runner's callers never see,
\* hands the accumulator exactly what that runner would hand an observer, in
\* that order, and stops where it would.
THEOREM LoopIsARun == Spec => Runner!Init /\ [][Runner!Next]_(Runner!vars)
  <1>1. Init => Runner!Init
    <2> SUFFICES ASSUME Init PROVE Runner!Init
      OBVIOUS
    <2>1. /\ opts \in Options /\ cancelled \in BOOLEAN
          /\ pc = "check" /\ nonce = 1 /\ res = None /\ error = "nil"
          /\ played = <<>> /\ late = 0
      BY Zenon DEF Init
    <2>2. RunnerPc = "check" /\ RunnerReturned = "nil"
      BY <2>1 DEF RunnerPc, RunnerReturned
    <2>3. Seen(played) = <<>>
      <3> DEFINE e(i) == [round |-> i - 1, result |-> played[i]]
                 s == [i \in 1..0 |-> e(i)]
      <3>1. DOMAIN played = 1..0
        BY <2>1
      <3>2. Seen(played) = s
        BY <3>1, Zenon DEF Seen
      <3> HIDE DEF e
      <3>3. s \in Seq({}) /\ Len(s) = 0
        OBVIOUS
      <3> HIDE DEF s
      <3>4. s = <<>>
        BY <3>3
      <3> QED BY <3>2, <3>4, Zenon
    <2>4. nonce - 1 = 0
      BY <2>1
    <2>5. opts.spins \in {o.spins : o \in Options}
      BY <2>1, Zenon
    <2> QED BY <2>1, <2>2, <2>3, <2>4, <2>5, Zenon
            DEF Runner!Init, RunnerPc, RunnerReturned, Seen
  <1>2. SimulationInv => LoopInv
    BY DEF SimulationInv
  <1> QED BY <1>1, <1>2, SimulationInvHolds, LoopStepIsARunnerStep, PTL
          DEF Spec
=============================================================================
