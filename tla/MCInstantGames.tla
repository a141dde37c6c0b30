--------------------------- MODULE MCInstantGames ---------------------------
(****************************************************************************)
(* Small engines for InstantGames, runs of none to two rounds.              *)
(****************************************************************************)
EXTENDS InstantGames

UpToTwo == 0..2

\* With Precision 16: floats of four bits.
MCSpacings == {1, 2, 4, 8, 16, 32, 64, 128, 256, 512, 1024, 2048, 4096}

MCGrains == [limbo |-> 16, crash |-> 16, duckrace |-> 2]

MCRiskAlphas == [low |-> 1, medium |-> 2, high |-> 3]

Mine(size, mines, rtp) ==
    [game |-> "mines", size |-> size, mines |-> mines, rtp |-> rtp]

\* A base, a finish or a gap of 0 is filled in.
Race(ducks, duration, gap) ==
    [game |-> "duckrace", ducks |-> ducks, duration |-> duration, tick |-> 1000,
     base |-> 0, finish |-> 0, gap |-> gap]

Board(rows, risk, rtp, alpha, table) ==
    [game |-> "plinko", rows |-> rows, risk |-> risk, rtp |-> rtp,
     alpha |-> alpha, table |-> table]

Target(min, max, step, target) ==
    [game |-> "limbo", rtp |-> 0, min |-> min, max |-> max, step |-> step,
     target |-> target]

Edge(edge, instant, max) ==
    [game |-> "crash", edge |-> edge, instant |-> instant, max |-> max]

\* Two ducks with a base so large that the sum of three weights overflows, or
\* one that is too large.
Heavy(base) == [Race(2, 3000, 20) EXCEPT !.base = base]

\* Gaps that the subtraction from 1 loses, or makes twice what they are.
NarrowRaces == {Race(2, 1000, 1), Race(3, 1000, 2), Race(3, 1000, 3)}

Configs ==
    {Mine(0, 1, 0), Mine(3, 2, 64), Mine(4, 4, 60), Mine(4, 2, 65), Mine(1, 1, 60),
     Race(2, 3000, 12), Race(3, 1000, 24), Race(3, 1000, 32), Race(2, 1500, 12),
     [Race(2, 2000, 0) EXCEPT !.finish = 22],
     Heavy(20480), Heavy(22528),
     Board(3, "low", 0, 0, None), Board(4, "medium", 64, 0, None),
     Board(3, "high", 60, 2, None), Board(4, "high", 0, 0, None),
     Board(3, "low", 0, 0, <<60, 0, 20, 130>>), Board(3, "low", 0, 0, <<6, 6>>),
     Board(3, "low", 0, 0, <<>>), Board(2, "low", 0, 0, None),
     Target(0, 0, 0, 0), Target(0, 0, 0, 96), Target(128, 384, 44, 224),
     Target(128, 384, 44, 176), Target(0, 192, 64, 192), Target(0, 192, 64, 128),
     Target(0, 0, 20, 120), Target(0, 0, 1, 1280), Target(0, 0, 1, 1024),
     Target(0, 192, 0, 288), Target(32, 0, 0, 0), Target(128, 0, 160, 256),
     Edge(0, 0, 0), Edge(64, 3, 0), Edge(88, 5, 192), Edge(1280, 0, 0),
     Edge(60, 17, 32)}
    \cup NarrowRaces

MCInputs ==
    {[config |-> c, seeded |-> FALSE, seeds |-> {}] : c \in Configs}
    \cup {[config |-> Mine(2, 1, 0), seeded |-> TRUE, seeds |-> s] :
             s \in SUBSET {"server", "client"}}

\* Lists of up to three picks, with repetitions and one tile off the board.
MCPickLists == UNION {[1..n -> 0..4] : n \in 0..3}

MCStoredBoards ==
    {[game |-> "mines", size |-> 5, rtp |-> 60, mines |-> <<1, 3>>],
     [game |-> "mines", size |-> 4, rtp |-> 60, mines |-> <<2, 2>>],
     [game |-> "mines", size |-> 0, rtp |-> 0, mines |-> <<3>>]}

\* A limbo engine whose target is its least multiplier.
LeastTarget ==
    {[config |-> Target(0, 0, 0, 128), seeded |-> FALSE, seeds |-> {}],
     [config |-> Target(128, 384, 4, 128), seeded |-> FALSE, seeds |-> {}]}
==============================================================================
