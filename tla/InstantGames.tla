---------------------------- MODULE InstantGames ----------------------------
(****************************************************************************)
(* The five instant games of engine/ as the engines that Run of             *)
(* core/simulation/runner.go plays: SimulationRun with Play taken apart     *)
(* into the draws an engine asks its entropy source for.  A draw that fails *)
(* fails the round, and nothing of the round is left.                       *)
(****************************************************************************)
EXTENDS SimulationRun, InstantMath, SequencesExt

CONSTANTS
    Inputs,      \* what the engines may be constructed from
    PickLists,   \* the tiles a player may name on a board, in order
    StoredBoards \* boards a player may have kept, or made up

CONSTANTS DefaultBoardSize, MaxBoardSize, MinRows, MaxRows, RiskAlphas,
          DefaultRTP, DefaultBase, DefaultGap, Hundred

M == INSTANCE Mines WITH DefaultTargetRTP <- DefaultRTP
D == INSTANCE DuckRace WITH DefaultFinish <- Unit
P == INSTANCE Plinko
L == INSTANCE Limbo WITH DefaultMin <- Unit, DefaultMax <- 20 * Unit,
                         DefaultStep <- Unit \div 16, DefaultTarget <- 2 * Unit
C == INSTANCE Crash

Games == {"mines", "duckrace", "plinko", "limbo", "crash"}

Resolve(c) ==
    CASE c.game = "mines"    -> M!Resolve(c) [] c.game = "duckrace" -> D!Resolve(c)
      [] c.game = "plinko"   -> P!Resolve(c) [] c.game = "limbo"    -> L!Resolve(c)
      [] c.game = "crash"    -> c

Valid(c) ==
    CASE c.game = "mines"    -> M!Valid(c) [] c.game = "duckrace" -> D!Valid(c)
      [] c.game = "plinko"   -> P!Valid(c) [] c.game = "limbo"    -> L!Valid(c)
      [] c.game = "crash"    -> C!Valid(c)

\* New refuses a bad configuration; the seeded entry points an empty seed too.
Accepted(input) ==
    /\ input.seeded => input.seeds = {"server", "client"}
    /\ Valid(Resolve(input.config))

Engines == {Resolve(input.config) : input \in {i \in Inputs : Accepted(i)}}

ASSUME GamesAssumption ==
    /\ {MaxBoardSize, MinRows, MaxRows} \subseteq Nat
    /\ {"limbo", "crash", "duckrace"} \subseteq DOMAIN Grains
    /\ Hundred \in Nat /\ Hundred * Unit \in FiniteFloats
    /\ Precision * Grains["crash"] <= Hundred * Unit
    /\ \A c \in Engines : /\ c.game \in Games
                          /\ c.game = "plinko" => c.alpha \in Int
    /\ PickLists \subseteq Seq(Int)
    /\ StoredBoards \subseteq
          [game : {"mines"}, size : Int, rtp : Int, mines : Seq(Int)]

\* The draws of a round, in order.
Requests(c) ==
    CASE c.game = "mines"    -> M!Requests(c) [] c.game = "duckrace" -> D!Requests(c)
      [] c.game = "plinko"   -> P!Requests(c) [] c.game = "limbo"    -> L!Requests(c)
      [] c.game = "crash"    -> C!Requests(c)

Answers(c, request) ==
    IF request = Float THEN 0..(Grains[c.game] - 1) ELSE 0..(request - 1)

\* The tiles a round shuffles, and the draws that shuffle them.
Tiles(c) ==
    CASE c.game = "mines" -> c.size [] c.game = "duckrace" -> c.ducks [] OTHER -> 0

Shuffles(c) ==
    CASE c.game = "mines"    -> c.mines
      [] c.game = "duckrace" -> c.ducks - 1
      [] OTHER               -> 0

Outcome(c, t, a) ==
    CASE c.game = "mines"    -> M!Outcome(c, t)
      [] c.game = "duckrace" -> D!Outcome(c, t, a)
      [] c.game = "plinko"   -> P!Outcome(c, a)
      [] c.game = "limbo"    -> L!Outcome(c, a[1])
      [] c.game = "crash"    -> C!Outcome(c, a[1])

------------------------------------------------------------------------------

VARIABLES config,     \* of the engine, resolved
          tiles,      \* the tiles or ducks being shuffled
          draws,      \* what the source has answered this round
          evaluation  \* of picks on the board the observer holds

gameVars == <<tiles, draws, evaluation>>

allVars == <<vars, config, gameVars>>

GamesInit ==
    /\ Init
    /\ config \in Engines
    /\ tiles = InOrder(Tiles(config)) /\ draws = <<>> /\ evaluation = None

\* Play starts over with the tiles in order.
PlayStarts ==
    /\ StartRound
    /\ tiles' = InOrder(Tiles(config)) /\ draws' = <<>>
    /\ UNCHANGED <<config, evaluation>>

Drawn == Len(draws)

Draw ==
    /\ pc = "play" /\ Drawn < Len(Requests(config))
    /\ \E a \in Answers(config, Requests(config)[Drawn + 1]) :
          /\ draws' = Append(draws, a)
          /\ tiles' = IF Drawn < Shuffles(config)
                      THEN Swap(tiles, Drawn, Drawn + a) ELSE tiles
    /\ UNCHANGED <<vars, config, evaluation>>

\* The source fails, or limbo or the duck race finds its Float64 out of [0, 1).
DrawFails ==
    /\ EngineError /\ Drawn < Len(Requests(config))
    /\ UNCHANGED <<config, gameVars>>

PlayReturns ==
    /\ Drawn = Len(Requests(config))
    /\ Played(Outcome(config, tiles, draws))
    /\ UNCHANGED <<config, gameVars>>

\* A player's picks on the board of the round, or on one kept from elsewhere.
\* The board is a value, left as it was.
EvaluateBoard ==
    /\ pc = "observe" /\ config.game = "mines" /\ evaluation = None
    /\ \E b \in {result} \cup StoredBoards, picks \in PickLists :
          evaluation' = [board |-> b, picks |-> picks,
                         outcome |-> M!Evaluate(b, picks)]
    /\ UNCHANGED <<vars, config, tiles, draws>>

RoundEnds ==
    /\ Observe \/ ObserverError
    /\ evaluation' = None
    /\ UNCHANGED <<config, tiles, draws>>

RunEnds ==
    /\ Completed \/ ContextError
    /\ UNCHANGED <<config, gameVars>>

RunCancelled == Cancel /\ UNCHANGED <<config, gameVars>>

GamesStep ==
    \/ PlayStarts \/ Draw \/ DrawFails \/ PlayReturns
    \/ EvaluateBoard \/ RoundEnds \/ RunEnds

GamesNext == GamesStep \/ RunCancelled

\* As in SimulationRun; the source answers or fails, and the observer, done
\* with its picks, returns.
GamesSpec ==
    /\ GamesInit /\ [][GamesNext]_allVars
    /\ WF_allVars(PlayStarts \/ Draw \/ DrawFails \/ PlayReturns)
    /\ WF_allVars(RoundEnds \/ RunEnds)

------------------------------------------------------------------------------
(* Properties.                                                               *)

IsPermutation(f, n) ==
    /\ DOMAIN f = 0..(n - 1)
    /\ \A i \in DOMAIN f : f[i] \in 0..(n - 1)
    /\ \A i, j \in DOMAIN f : f[i] = f[j] => i = j

\* A round never asks for more draws than its game says, and the tiles it
\* shuffles are all there, each once, whichever draw fails: no mine is laid
\* twice and no duck finishes twice.
GamesTypeOK ==
    /\ config \in Engines
    /\ draws \in Seq(Nat) /\ Drawn <= Len(Requests(config))
    /\ IsPermutation(tiles, Tiles(config))

OneMore(lists, answers) == {Append(d, a) : d \in lists, a \in answers}

\* Every answer a round's source may give, as sequences of draws.
DrawSequences(c, n) ==
    LET upTo[i \in 0..n] ==
            IF i = 0 THEN {<<>>}
            ELSE OneMore(upTo[i - 1], Answers(c, Requests(c)[i]))
    IN  upTo[n]

Shuffled(c, d) ==
    LET after[i \in 0..Shuffles(c)] ==
            IF i = 0 THEN InOrder(Tiles(c)) ELSE Swap(after[i - 1], i - 1, i - 1 + d[i])
    IN  after[Shuffles(c)]

Outcomes(c) ==
    {Outcome(c, Shuffled(c, d), d) : d \in DrawSequences(c, Len(Requests(c)))}

\* What the runner may be handed.
AllOutcomes == UNION {Outcomes(c) : c \in Engines}

\* About an engine nothing has been asked of yet.
Fresh == pc = "check" /\ round = 0 /\ ~cancelled

\* The set of mines, or the finish order.
Dealt(c, t) ==
    IF c.game = "mines" THEN {t[i] : i \in 0..(c.mines - 1)} ELSE t

\* A shuffle can deal every set of mines and every finish order, each from as
\* many sequences of draws as any other.
ShufflesAreUniform ==
    Fresh /\ Shuffles(config) > 0 =>
        LET sequences == DrawSequences(config, Shuffles(config))
            dealt     == {Dealt(config, Shuffled(config, d)) : d \in sequences}
            From(x)   == {d \in sequences : Dealt(config, Shuffled(config, d)) = x}
            all       == 0..(Tiles(config) - 1)
        IN  /\ \A x, y \in dealt : Cardinality(From(x)) = Cardinality(From(y))
            /\ dealt = IF config.game = "mines" THEN kSubset(config.mines, all)
                       ELSE {f \in [all -> all] : IsPermutation(f, Tiles(config))}

\* Whatever tiles a player picks, and in whichever order, over all the ways to
\* lay as many mines an accepted list of picks pays back the RTP: what the lost rounds
\* cost is in the multiplier of the others.  A tile named twice, or a mine laid
\* twice, would upset the balance: such a list or board must not be accepted.
PicksPayTheRTP ==
    evaluation # None /\ evaluation.outcome.ok /\ evaluation.picks # <<>> =>
        LET c        == M!ConfigOf(evaluation.board)
            Board(s) == [evaluation.board EXCEPT !.mines = s]
            boards   == {s \in [1..c.mines -> 0..(c.size - 1)] : M!Distinct(s)}
            won      == {s \in boards : ~M!Evaluate(Board(s), evaluation.picks).lost}
        IN  \A s \in won :
              LET multiplier == M!Evaluate(Board(s), evaluation.picks).multiplier IN
              multiplier.num * Cardinality(won) * Unit =
                  c.rtp * Cardinality(boards) * multiplier.den

\* "Positions never decrease" and stay "normalized to [0,1]" (README.md): no duck
\* moves back or past the finish, all are ahead of the start at the end of the
\* race, and on the last frame none is ahead of one that finished before it.  That
\* frame "strictly represents `FinishOrder`" (README.md:438) only if the gap of two
\* ranks is one that subtractions near 1 can tell from none: any positive one is
\* accepted.
RacesEndInOrder ==
    pc = "observe" /\ config.game = "duckrace" =>
        LET last        == Max(DOMAIN result.frames)
            At(f, d)    == result.frames[f].positions[d]
        IN  /\ result.frames[last].elapsed = config.duration
            /\ \A d \in 0..(config.ducks - 1) :
                  /\ At(0, d) = 0 /\ At(last, d) > 0 /\ At(last, d) <= Unit
                  /\ \A f \in 1..last : At(f - 1, d) <= At(f, d)
            /\ \A i \in 1..(config.ducks - 1) :
                  LET ahead  == At(last, result.order[i])
                      behind == At(last, result.order[i + 1])
                  IN  /\ behind <= ahead
                      /\ config.gap * Precision > 4 * Unit => behind < ahead

\* Over all the paths a ball can take, the buckets of a computed table pay back
\* the RTP, each as often as paths lead to it, and none pays less than one nearer
\* the middle.
PlinkoPaysTheRTP ==
    Fresh /\ config.game = "plinko" /\ config.table = None =>
        LET paths == DrawSequences(config, config.rows)
            To(k) == {d \in paths : P!Outcome(config, d).bucket = k}
            back  == Total([i \in 1..(config.rows + 1) |->
                               Cardinality(To(i - 1)) * P!Multiplier(config, i - 1).num],
                           config.rows + 1)
        IN  /\ \A d \in paths :
                  LET outcome == P!Outcome(config, d) IN
                  /\ outcome.multiplier = P!Multiplier(config, outcome.bucket)
                  /\ back * Unit =
                        config.rtp * Cardinality(paths) * outcome.multiplier.den
            /\ \A k \in 1..(config.rows \div 2) :
                  P!Multiplier(config, k).num <= P!Multiplier(config, k - 1).num

\* The draws of limbo that win against the target.
Wins == {u \in 0..(Grains["limbo"] - 1) : L!Won(config, u)}

\* The draws of crash that let a player out at a multiplier.
Reached(m) == {u \in 0..(Grains["crash"] - 1) : m <= C!Multiplier(config, u)}

\* How far off three operations may be, rounded each.
Cube(x) == x * x * x

\* No target above the least multiplier pays back more than the RTP of limbo or
\* than the house edge of crash leaves, by more than one draw and three
\* roundings; a limbo target that is so many steps, as the code multiplies them,
\* pays no less.  Steps so small that there are infinitely many to the target
\* are left out: every draw whose quotient overflows would win.
NoTargetBeatsTheHouse ==
    /\ Fresh /\ config.game = "limbo" /\ config.target > config.min =>
          LET back == config.target * Cardinality(Wins)
              fair == config.rtp * Grains["limbo"]
          IN  /\ Over(config.target, config.step) < Infinity =>
                    back * Cube(Precision) <= fair * Cube(Precision + 1)
                                                + config.target * Cube(Precision)
              /\ (\E f \in FiniteFloats : /\ f = Whole(f)
                                          /\ Times(f, config.step) = config.target) =>
                    back * Cube(Precision + 1) > fair * Cube(Precision)
    /\ Fresh /\ config.game = "crash" =>
          \A m \in {f \in FiniteFloats : Unit < f /\ f <= 5 * Unit} :
              m * Cardinality(Reached(m)) * Hundred * Cube(Precision)
                  <= (Hundred * Unit - config.edge) * Grains["crash"]
                        * Cube(Precision + 1)

\* limbo.go:56 calls RTP "the theoretical return-to-player ratio": no target
\* pays back more, by more than one draw.  One equal to MinMultiplier does.
LimboPaysTheRTP ==
    Fresh /\ config.game = "limbo" =>
        config.target * Cardinality(Wins)
            <= config.rtp * Grains["limbo"] + config.target
==============================================================================
