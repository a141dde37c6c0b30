-------------------------------- MODULE Crash --------------------------------
(****************************************************************************)
(* engine/crash/crash.go: the multiplier at which a round crashes.  A       *)
(* configuration is [game, edge, instant, max]: the house edge, in per cent,*)
(* and the multiplier's cap are floats, the chance of an instant crash is   *)
(* counted in grains.                                                       *)
(****************************************************************************)
EXTENDS InstantMath

CONSTANT Hundred         \* so many per cent are the whole: 100

\* New.  Nothing is filled in: a cap of 0 means none.
Valid(c) ==
    /\ {c.edge, c.max} \subseteq FiniteFloats
    /\ c.edge < Hundred * Unit
    /\ c.instant \in 0..Grains["crash"]
    /\ c.max = 0 \/ c.max >= Unit

Requests(c) == <<Float>>

\* (100 - HouseEdge) / (100 (1 - u)); 1 - u is exact.
Raw(c, u) ==
    Over(Minus(Hundred * Unit, c.edge),
         Rounded(Hundred * Unit * (Grains["crash"] - u), Grains["crash"]))

Multiplier(c, u) ==
    LET floored == IF Raw(c, u) < Unit THEN Unit ELSE Raw(c, u) IN
    IF u < c.instant THEN Unit
    ELSE IF c.max > 0 /\ floored > c.max THEN c.max
    ELSE floored

Outcome(c, u) ==
    [game |-> "crash", multiplier |-> Multiplier(c, u),
     instantCrash |-> u < c.instant]
==============================================================================
