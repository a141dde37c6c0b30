----------------------------- MODULE InstantMath -----------------------------
(****************************************************************************)
(* What the instant games of engine/ share: a payout's arithmetic and one   *)
(* step of a shuffle.                                                       *)
(*                                                                          *)
(* The code computes in float64.  Limbo, crash and the duck race are        *)
(* modelled with its rounding, in the floats of Floating.  The multipliers  *)
(* of mines and plinko, products and powers of many factors, are exact      *)
(* fractions: what rounding adds to them is not modelled.                   *)
(*                                                                          *)
(* A draw a of Float64 is the float a / Grains[g], Grains those of its game *)
(* (2^53 in the code).                                                      *)
(****************************************************************************)
EXTENDS Floating, Sequences, FiniteSets

CONSTANT Grains          \* the values Float64 can have, for each game

ASSUME InstantAssumption ==
    \A g \in DOMAIN Grains : Grains[g] \in Nat \ {0}

Ratio(n, d) == [num |-> n, den |-> d]

Zero == Ratio(0, 1)
One  == Ratio(1, 1)

\* A draw request: Intn of a bound, or Float64.
Float == 0

\* The products, powers and sums over a range the formulas of the games need.
Product(f, n) ==
    LET upTo[i \in 0..n] == IF i = 0 THEN 1 ELSE upTo[i - 1] * f[i] IN upTo[n]

Power(x, n) == Product([i \in 1..n |-> x], n)

Total(f, n) ==
    LET upTo[i \in 0..n] == IF i = 0 THEN 0 ELSE upTo[i - 1] + f[i] IN upTo[n]

------------------------------------------------------------------------------
(* The Fisher-Yates shuffle of mines.go and duckrace.go.                     *)

\* Places and tiles are numbered from zero.
InOrder(n) == [i \in 0..(n - 1) |-> i]

\* Mutation: the tile that makes way is lost.
SwapOverwrites(tiles, i, j) == [tiles EXCEPT ![i] = tiles[j]]

\* Mutation: nothing makes way for the tile.
SwapForgotten(tiles, i, j) == tiles

Swap(tiles, i, j) == [tiles EXCEPT ![i] = tiles[j], ![j] = tiles[i]]
==============================================================================
