------------------------------ MODULE SlotRound ------------------------------
(****************************************************************************)
(* What a spin promises its player, whatever the reels, the evaluator and   *)
(* the features do: a bet buys a base game and the free spins it awards; a  *)
(* multiplier builds up that never shrinks and never passes the cap; once   *)
(* the cap is reached under a terminating policy no further free spin is    *)
(* played; and the spin settles on exactly that multiplier or on nothing.   *)
(* SlotSpin implements it.                                                  *)
(****************************************************************************)
EXTENDS Integers

CONSTANT Unit   \* fixed-point units per 1x

VARIABLES terms,    \* [bet, cap, stop]: fixed for the spin; cap 0 is no cap
          phase,    \* "base", "free", "settled", "failed"
          win,      \* the multiplier due so far
          left,     \* free spins still to be played
          played,   \* free spins played
          payout    \* what was paid, -1 before

vars == <<terms, phase, win, left, played, payout>>

Init ==
    /\ terms \in [bet : Nat \ {0}, cap : Nat, stop : BOOLEAN]
    /\ phase = "base" /\ win = 0 /\ left = 0 /\ played = 0 /\ payout = -1

MaxedOut == terms.cap > 0 /\ win = terms.cap

\* A grid is paid; in a free spin it may also win further spins.
Progress ==
    /\ phase \in {"base", "free"}
    /\ win' \in Nat /\ win' >= win
    /\ terms.cap > 0 => win' <= terms.cap
    /\ left' \in Nat /\ left' >= left
    /\ phase = "base" => left' = left
    /\ UNCHANGED <<terms, phase, played, payout>>

AwardFreeSpins ==
    /\ phase = "base"
    /\ ~(MaxedOut /\ terms.stop)
    /\ phase' = "free" /\ left' \in Nat \ {0}
    /\ UNCHANGED <<terms, win, played, payout>>

PlayFreeSpin ==
    /\ phase = "free" /\ left > 0
    /\ ~(MaxedOut /\ terms.stop)
    /\ left' = left - 1 /\ played' = played + 1
    /\ UNCHANGED <<terms, phase, win, payout>>

SettleSpin ==
    /\ phase \in {"base", "free"}
    /\ phase' = "settled" /\ payout' = (terms.bet * win) \div Unit
    /\ UNCHANGED <<terms, win, left, played>>

FailSpin ==
    /\ phase \in {"base", "free"}
    /\ phase' = "failed"
    /\ UNCHANGED <<terms, win, left, played, payout>>

Next ==
    Progress \/ AwardFreeSpins \/ PlayFreeSpin \/ SettleSpin \/ FailSpin

Spec == Init /\ [][Next]_vars
==============================================================================
