-------------------------------- MODULE Limbo --------------------------------
(****************************************************************************)
(* engine/limbo/limbo.go: a multiplier drawn from an inverse distribution,  *)
(* settled against the player's target.  A configuration is [game, rtp,     *)
(* min, max, step, target], all floats.                                     *)
(****************************************************************************)
EXTENDS InstantMath

CONSTANTS DefaultRTP, DefaultMin, DefaultMax, DefaultStep, DefaultTarget

Resolve(c) ==
    LET Or(v, default) == IF v = 0 THEN default ELSE v IN
    [c EXCEPT !.rtp  = Or(@, DefaultRTP), !.min    = Or(@, DefaultMin),
              !.max  = Or(@, DefaultMax), !.target = Or(@, DefaultTarget),
              !.step = Or(@, DefaultStep)]

\* resolveConfig, on a resolved configuration: all but NaN and infinities are
\* floats.
Valid(c) ==
    /\ {c.rtp, c.min, c.max, c.step, c.target} \subseteq FiniteFloats \ {0}
    /\ c.rtp <= Unit
    /\ c.min >= Unit
    /\ c.max >= c.min
    /\ c.step <= c.min
    /\ c.min <= c.target /\ c.target <= c.max

\* RTP / u, for a draw u other than 0.
Raw(c, u) == Rounded(c.rtp * Grains["limbo"], u)

\* Mutation: the quotient is rounded up to the next step.
SteppedUp(c, u) == Times(Whole(Over(Raw(c, u), c.step)) + Unit, c.step)

\* Floored to a whole number of steps, as far as the quotient and the product,
\* rounded each, let it.  A quotient too large for a float is infinite, and so
\* is what becomes of it.
Stepped(c, u) == Times(Whole(Over(Raw(c, u), c.step)), c.step)

\* The clamps come after the rounding, the lower one last.
Multiplier(c, u) ==
    LET capped == IF Stepped(c, u) > c.max THEN c.max ELSE Stepped(c, u) IN
    IF u = 0 THEN c.max ELSE IF capped < c.min THEN c.min ELSE capped

Requests(c) == <<Float>>

Won(c, u) == Multiplier(c, u) >= c.target

Outcome(c, u) ==
    [game |-> "limbo", multiplier |-> Multiplier(c, u), target |-> c.target,
     won |-> Won(c, u), payout |-> IF Won(c, u) THEN c.target ELSE 0]
==============================================================================
