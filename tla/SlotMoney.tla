------------------------------ MODULE SlotMoney ------------------------------
(****************************************************************************)
(* The checked fixed-point arithmetic of core/slot/money.go.                *)
(*                                                                          *)
(* A slot.Multiplier is an int64 that counts 1/Scale units (Scale is        *)
(* 1,000,000 in the code), a slot.Amount is an int64 of minor units.  Every *)
(* operation either returns its exact (or floored) value or an error; the   *)
(* error, whose wording no caller looks at, is the value Failed.  MaxInt    *)
(* stands for math.MaxInt64, so a small MaxInt reaches the overflow guards. *)
(****************************************************************************)
EXTENDS Integers

CONSTANTS Scale,   \* micro-units per 1x (MultiplierScale)
          MaxInt   \* the largest machine integer (math.MaxInt64)

ASSUME MoneyAssumption ==
    /\ Scale \in Nat \ {0}
    /\ MaxInt \in Nat
    /\ Scale <= MaxInt

MinInt == -MaxInt - 1

Failed == -1

\* Values the callers hold: ParseMultiplier and every operation below refuse
\* a negative multiplier.
Multiplier == 0..MaxInt

------------------------------------------------------------------------------
(* Multiplier.Add: overflow in either direction, then the sign.              *)
Add(m, other) ==
    IF \/ other > 0 /\ m > MaxInt - other
       \/ other < 0 /\ m < MinInt - other
       \/ m + other < 0
    THEN Failed
    ELSE m + other

(* Multiplier.Sub                                                            *)
Sub(m, other) == IF other < 0 \/ m < other THEN Failed ELSE m - other

(* Multiplier.Mul: the guard is on the unscaled product, so a product may be *)
(* refused although its scaled value would fit.                              *)
Mul(m, other) ==
    IF m < 0 \/ other < 0 THEN Failed
    ELSE IF m = 0 \/ other = 0 THEN 0
    ELSE IF m > MaxInt \div other THEN Failed
    ELSE (m * other) \div Scale

(* Multiplier.MulInt                                                         *)
MulInt(m, n) ==
    IF n < 0 THEN Failed
    ELSE IF n = 0 \/ m = 0 THEN 0
    ELSE IF m > MaxInt \div n THEN Failed
    ELSE m * n

(* Settle: the floor payout of a bet.                                        *)
Settle(bet, mult) ==
    IF bet < 0 \/ mult < 0 THEN Failed
    ELSE IF bet = 0 \/ mult = 0 THEN 0
    ELSE IF bet > MaxInt \div mult THEN Failed
    ELSE (bet * mult) \div Scale
==============================================================================
