------------------------------ MODULE DuckRace ------------------------------
(****************************************************************************)
(* engine/duckrace/duckrace.go: a finish order, and frames that lead to it. *)
(* A configuration is [game, ducks, duration, tick, base, finish, gap], the *)
(* last three of them floats.                                               *)
(****************************************************************************)
EXTENDS InstantMath

CONSTANTS DefaultBase, DefaultFinish, DefaultGap

MinDucks == 2       MaxDucks == 16
MinDuration == 1000 MaxDuration == 60000
MinTick == 50       MaxTick == 1000

Resolve(c) ==
    [c EXCEPT !.base   = IF @ = 0 THEN DefaultBase ELSE @,
              !.finish = IF @ = 0 THEN DefaultFinish ELSE @,
              !.gap    = IF @ = 0 THEN DefaultGap ELSE @]

Segments(c) == c.duration \div c.tick

\* What the duck that finishes after rank others is behind the winner.
Lag(c, rank) == Rounded(c.gap * rank, 1)

\* resolveConfig, on a resolved configuration: all but NaN and infinities are
\* floats.  The last duck must finish ahead of the start; nothing asks for the
\* gap to be one that the subtraction can tell from none.
Valid(c) ==
    /\ c.ducks \in MinDucks..MaxDucks
    /\ c.duration \in MinDuration..MaxDuration
    /\ c.tick \in MinTick..MaxTick
    /\ c.duration % c.tick = 0
    /\ {c.base, c.finish, c.gap} \subseteq FiniteFloats \ {0}
    /\ c.base <= Rounded(Largest, Segments(c))
    /\ c.finish <= Unit
    /\ Minus(c.finish, Lag(c, c.ducks - 1)) > 0

\* The shuffle, then a weight for each segment of each duck in turn.
Requests(c) ==
    [i \in 1..(c.ducks - 1) |-> c.ducks - (i - 1)]
        \o [i \in 1..(c.ducks * Segments(c)) |-> Float]

FinishOrder(c, tiles) == [i \in 1..c.ducks |-> tiles[i - 1]]

\* Mutation: the targets are laid out by rank, not by duck.
TargetByRank(c, tiles, d) == Minus(c.finish, Lag(c, d))

\* The final position of duck d: behind the finish by what the ducks that
\* finish before it leave.  Product and difference are rounded each, as they
\* are where the compiler does not fuse them.
Target(c, tiles, d) ==
    LET before == {rank \in 0..(c.ducks - 1) :
                      \A r \in 0..rank : tiles[r] # d}
    IN  Minus(c.finish, Lag(c, Cardinality(before)))

\* The weight of segment s of duck d: the base and a draw.
Weight(c, draws, d, s) ==
    LET u == draws[c.ducks - 1 + d * Segments(c) + s] IN
    Rounded(c.base * Grains["duckrace"] + u * Unit, Grains["duckrace"])

\* The weights of the first 0, 1, ... segments of duck d, added one by one.
Weights(c, draws, d) ==
    LET weight == [s \in 1..Segments(c) |-> Weight(c, draws, d, s)]
        upTo[s \in 0..Segments(c)] ==
            IF s = 0 THEN 0 ELSE Plus(upTo[s - 1], weight[s])
    IN  upTo

\* Where duck d is after f segments: the weights so far, normalised; after the
\* last one exactly its target.  The sum of all weights may overflow.
Position(c, tiles, draws, d, f) ==
    LET target == Target(c, tiles, d)
        weight == Weights(c, draws, d)
    IN  IF f = 0 THEN 0
        ELSE IF f = Segments(c) THEN target
        ELSE Times(target, Over(weight[f], weight[Segments(c)]))

Outcome(c, tiles, draws) ==
    [game   |-> "duckrace",
     frames |-> [f \in 0..Segments(c) |->
                   [elapsed   |-> f * c.tick,
                    positions |-> [d \in 0..(c.ducks - 1) |->
                                     Position(c, tiles, draws, d, f)]]],
     order  |-> FinishOrder(c, tiles)]
==============================================================================
