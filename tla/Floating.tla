------------------------------ MODULE Floating ------------------------------
(****************************************************************************)
(* Go's float64 arithmetic, as far as the engines use it: numbers that are  *)
(* not negative (a difference may be), each operation rounded to the        *)
(* nearest of them.  A float is the whole number of least positive floats   *)
(* it stands for: a significand times a spacing.                            *)
(*                                                                          *)
(* In the code Precision is 2^53, Unit 2^1074, and the spacings are 1, 2,   *)
(* ... 2^2045.                                                              *)
(****************************************************************************)
EXTENDS Integers

CONSTANTS Precision,   \* above every significand
          Spacings,    \* powers of two
          Unit         \* 1.0

FiniteFloats == {k * w : k \in 0..(Precision - 1), w \in Spacings}

Widest == CHOOSE w \in Spacings : \A v \in Spacings : v <= w

\* +Inf, where the next float would be after the greatest.
Infinity == Precision * Widest

\* math.MaxFloat64.
Largest == (Precision - 1) * Widest

Floats == FiniteFloats \cup {Infinity}

ASSUME FloatsAssumption ==
    /\ Precision \in Nat \ {0} /\ Precision % 2 = 0
    /\ Spacings \subseteq Nat \ {0} /\ {1, 2, Unit} \subseteq Spacings
    /\ \E w \in Spacings : \A v \in Spacings : v <= w
    /\ \A v, w \in Spacings : v <= w => w % v = 0
    /\ \A w \in Spacings : /\ w = 1 \/ \E v \in Spacings : w = 2 * v
                           /\ w = Widest \/ 2 * w \in Spacings
    /\ 4 * Precision <= Unit

\* How far a number's neighbours are apart, below Infinity.
Spacing(x) ==
    CHOOSE w \in Spacings :
       x < Precision * w /\ (w = 1 \/ Precision * w <= 2 * x)

\* n / d, rounded to the nearest float, a tie to the even significand.
Nearest[n \in Nat] ==
    [d \in Nat \ {0} |->
        LET x == n \div d
            w == Spacing(x)
            k == x \div w
            middle == (2 * k + 1) * w * d
        IN  IF x >= Infinity THEN Infinity
            ELSE IF 2 * n < middle \/ (2 * n = middle /\ k % 2 = 0)
                 THEN k * w ELSE (k + 1) * w]

Rounded(n, d) == Nearest[n][d]

Plus(x, y)  == Rounded(x + y, 1)
Minus(x, y) == IF x < y THEN -Rounded(y - x, 1) ELSE Rounded(x - y, 1)
Times(x, y) == IF Infinity \in {x, y} THEN Infinity ELSE Rounded(x * y, Unit)

\* For a positive y.  No engine divides one infinity by another.
Over(x, y) ==
    IF y = Infinity THEN 0
    ELSE IF x = Infinity THEN Infinity ELSE Rounded(x * Unit, y)

\* math.Floor.
Whole(x) == IF x = Infinity THEN x ELSE x - (x % Unit)
==============================================================================
