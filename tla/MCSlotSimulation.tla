-------------------------- MODULE MCSlotSimulation --------------------------
(****************************************************************************)
(* SlotSimulation for up to three spins.  Two units make 1x, so halves of a *)
(* minor unit are lost; with bets of one and of seven, payouts meet the     *)
(* bounds of several bands, with one of 1025 five times the bet is rounded  *)
(* to more, and sums of payouts and bets leave the integers.                *)
(****************************************************************************)
EXTENDS SlotSimulation

Outcome(base, feature, total, triggered) ==
    [base |-> base, feature |-> feature, total |-> total,
     triggered |-> triggered]

\* Nothing; halves that make a whole; 2x, 2.5x and 5x; a round cut at its cap of
\* 1000x; 1000.5x; 2250x.
MCOutcomes ==
    { Outcome(0, 0, 0, TRUE), Outcome(1, 1, 2, TRUE), Outcome(4, 0, 4, FALSE),
      Outcome(5, 0, 5, FALSE), Outcome(10, 0, 10, FALSE),
      Outcome(1500, 1500, 2000, TRUE), Outcome(2001, 0, 2001, FALSE),
      Outcome(0, 4500, 4500, TRUE) }

MCOptions == [spins : 1..3, bet : {1, 7, 1025}] \cup {[spins |-> 2, bet |-> 7000]}

MCSpacings == {2 ^ i : i \in 0..16}
==============================================================================
