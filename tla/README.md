# Verification of qxprob in TLA+

`qxprob` is a Go library for provably fair games of chance.  Most of its logic
is the slot lifecycle: one function, `Game.Spin`
(`src/engine/slot/engine.go:182-929`), drives a state machine, an entropy source,
an evaluator and a chain of feature plugins from a bet to a settlement.  Around
it are what a spin stands on (entropy, money, reels, the ways evaluator, a
validated definition), what runs spins by the million (the simulators), and five
instant games that turn a handful of draws into a payout.

These modules model the slot lifecycle, everything under it, the simulators and
the instant games; TLC checks them on small instances, and TLAPS proves what
matters most for every instance.

## 1. The system

| Component | State | Operations | Interacts with |
|---|---|---|---|
| Slot spin engine, `engine/slot/engine.go` | locals of `Spin`: state machine, `FeatureContext`, `FreeSpinState`, three sums, `capReached`, counters, events, triggers | `Compile`, `Game.Spin`, `PlaySeeded`, legacy `New`/`Engine.Spin` | calls the hooks of the features in order, the reels, the evaluator, money; returns a `SpinResult` |
| Spin lifecycle, `core/slot/state.go` | the current state | `Transition` | driven by the engine |
| Features, `core/slot/feature.go`, `engine/slotfeature` | decisions recorded in the context shared by all features and rounds | six hooks of `Cascade` and `ScatterFreeSpins`, or of a caller's own feature | read the evaluation, ask for cascades, spins, reels, termination |
| Reels, `core/slot/reels.go` | none | `GenerateGrid`, `CollapseAndRefill`, `ChooseWeighted` | draw from the source in a fixed order (protocol v1) |
| Ways evaluator, `core/slot/evaluator.go` | none | `Evaluate` | grid to wins, scatters, triggers, total |
| Money, `core/slot/money.go` | none | checked `Add`, `Sub`, `Mul`, `MulInt`, `Settle`; parsing and formatting | everywhere |
| Definition, `core/slot/config.go` | the compiled game's own copy | `ValidateDefinition`, accessors | compiled once, shared by goroutines and features |
| Entropy, `core/entropy` | nonce, counter, block, offset, exhausted | `Uint64`, `Bits`, `Intn`, `Float64`, `ResetNonce` | all games; the simulator resets it between rounds |
| Generic runner, `core/simulation` | round index | `Run` | an engine, an observer, a context |
| Slot simulator, `slotsim` | nonce, accumulator | `Run`, `RunWithRunner`, `add`, `finish` | a spinner, a context; returns a `Report` |
| Mines, duck race, plinko, limbo, crash, `engine/` | configuration; locals of `Play` | `New`, `Play`, seeded helpers, `Board.Evaluate` | draw from a source; engines of the generic runner |
| Export, command line, reference game | none | formatting, flags, data | the simulator |

What is hard about it:

* **Control flow.**  `Spin` has two copies of the cascade loop (base game and
  free spin), six `break`s that leave them in different lifecycle states, and
  tests the win cap in seven places on three different sums.
* **Shared context.**  A decision a feature records stays in the context until
  the engine consumes or resets it, and each is consumed somewhere else; some
  (termination, reel set) are never reset.
* **Sharing by reference.**  The definition is called immutable; its accessors
  copy some of its slices and lend others.
* **Validation.**  Twelve sections are checked one after the other, some only
  when a feature is on; everything later relies on what they let through.
* **Termination.**  The engine bounds neither cascades nor free spins; a spin
  ends because the features stop asking.  `Intn` loops until it accepts a word.
* **Order.**  Replays depend on the order of draws; resets must leave nothing of
  the previous nonce's stream behind.
* **Boundaries.**  All arithmetic of the slots is checked `int64`, and each check
  may fail a spin or a simulation half-way.  A shuffle, a cash-out multiplier, a
  bucket table or a payout that is off by one still looks right on any round.
* **Concurrency.**  Only cancellation is concurrent: another goroutine may cancel
  a simulation's context at any time.  A compiled game is shared by goroutines,
  but all that `Spin` writes is local to the call.

## 2. The modules

### Slots

| Module | Models | State and actions |
|---|---|---|
| `SlotMoney` | money.go | operators; `Scale` is 1,000,000 and `MaxInt` is 2^63-1 in the code; an error is the value `Failed` |
| `SlotState` | state.go | the transition table |
| `SlotFeatures` | feature.go, slotfeature/features.go | contexts as records; every context method and built-in hook is a function from context to context |
| `SlotSpin` | `Game.Spin` | `pc` is the point where `Spin` goes on, `hook`/`pending` the features still to be called; one action per stretch of code between two calls out (to a hook, the source, the evaluator): a base cascade that pays its grid (`BaseCascade`) has noticed the cap before the grid is refilled (`Refill`) |
| `SlotRound` | abstract: what a spin promises | a win that never shrinks nor passes the cap, free spins, one settlement |
| `SlotGame` | what the grid knows of a definition | operators |
| `SlotGrid` | reels.go, evaluator.go | one action per draw from the source, one per evaluation and collapse |
| `SlotDefinition` | `ValidateDefinition` | one operator per section checked and per default filled in; `SpinView` and `GridView` are what `SlotSpin` and `SlotGrid` see of the result |
| `SlotCompile` | `Compile`, `New`, `PlaySeeded`, the accessors | one action per module registered and declaration ordered; then callers ask for the definition or its parts and write to the lists they were handed |
| `SlotSimulation` | slotsim/simulator.go, statistics.go | its loop, with the accumulator as the observer |

### Entropy, the runner and the instant games

| Module | Models | State and actions |
|---|---|---|
| `ProvablyFair` | `ProvablyFairSource` | one action per turn of `read`'s loop, `refill`, `ResetNonce` |
| `EntropyStream` | abstract: what a seeded source promises | a finite stream per nonce, read front to back |
| `BoundedSampling` | `Bits`, `Uint64`, `Float64`, `Intn`, `ChooseWeighted` of all three sources | one action per draw: accepted, rejected, failed |
| `Floating` | the machine's `float64` | non-negative floats of any precision, each operation rounded to the nearest, a tie to even |
| `SimulationRun` | core/simulation/runner.go | the round loop and a concurrent `Cancel` |
| `InstantMath` | what the games share | exact fractions; one step of a shuffle |
| `Mines`, `DuckRace`, `Plinko`, `Limbo`, `Crash` | engine/*/*.go | operators: defaults, validation, the draws a round asks for, the outcome they give; `Mines!Evaluate` is `Board.Evaluate` |
| `InstantGames` | the games as engines of the runner | `Play` taken apart into its draws (`PlayStarts`, `Draw`, `DrawFails`, `PlayReturns`); a player's picks on a board (`EvaluateBoard`) |

`SlotSpin` extends `SlotFeatures` (which extends `SlotMoney`) and `SlotState`;
`SlotDefinition` extends `SlotFeatures` and `SlotGame`; `InstantGames` extends
`SimulationRun` and `InstantMath` (which extends `Floating`, as does
`SlotSimulation`) and instantiates the five games.

Three refinements tie modules together:

* `SlotSpin` implements `SlotRound` (`KeepsPromise`): the win due is
  `Clamp(base + feature + round)`, the phase comes from `pc`;
* `ProvablyFair` implements `EntropyStream` (`ImplementsStream`): while a read
  is under way the stream position is the one it started from;
* `SlotSimulation` implements `SimulationRun` (`ImplementsRun`), fairness
  included, so that it returns as the generic runner does: nonce `n` is round
  `n - 1`, the accumulator is the observer, and the error of `finish` comes after
  the generic run is over.

And two interfaces are checked from both sides.  Between `SlotSpin` and
`SlotGrid` it is the evaluation: `SlotSpin` takes any that
`EvaluationAssumption` admits, and `SlotGrid`'s `TypeOK` says that the evaluator
yields only such ones.  Between `SlotDefinition` and both of them it is the game:
`CompiledGamesAreSound` says that whatever `ValidateDefinition` lets through is a
`Definition` of `SlotFeatures` and a `WellFormed` `Game`.

Abstractions: symbols and features are names; an evaluation is its total, its
scatter payout and the spins it awards; events are their kinds, since no
property is about their payloads; the keyed hash is a function known by its
input.  What the code computes in `float64` is rounded operation by operation in
limbo, crash, the duck race and the band of a simulated payout: `Precision` and
`Spacings` are the floats there are, and a float is the whole number of least
floats it stands for, `Unit` of them 1.0.  In mines and plinko it is an exact
fraction, and a ratio given by a caller a whole number of `Unit`s.  A `Float64`
that is drawn is a whole number below `Grains[game]`.  Variables called history in a comment are
read by properties only.  Definitions introduced by "Mutation:" are plausible
slips in the definition below them; none is used by a specification.  They show
that a property notices: with the slip in place TLC finds the property violated.

## 3. What TLC checks

| Run | Checks | Bounds |
|---|---|---|
| `slot_spin` | `TypeOK`, `NoIllegalTransition`, `SpinAccounting`, `AwardsArePlayed`, `CapIsExact`, `GridsOnTheirReels`, `TriggersReported`, `NothingPlayedAfterCap`, `WinsArePaidOnce`, `Terminates`, `KeepsPromise` | nine games, two with a feature of their own |
| `slot_compile` | `CompiledGamesAreSound`, `HooksRunOnce`, `WritesReachLentListsOnly` | some 380 definitions of two reels |
| `slot_grid` | `TypeOK`, `PaysEveryPath`, `SurvivorsFall`, `RefillOrder`, `ScattersStay` | three games |
| `slot_simulation` | `TypeOK`, `ReportIsWhole`, `BandsHoldEveryRound`, `SharesAddUp`, `ImplementsRun` | one to three spins |
| `provably_fair` | `TypeOK`, `ReadReturns`, `ImplementsStream` | blocks of four bytes |
| `bounded_sampling` | `TypeOK`, `Uniform`, `FewRejections`, `FairCallsReturn` | four-bit words |
| `instant_games` | `GamesTypeOK`, `ObservedInOrder`, `CancelStopsTheRun`, `Returns`, `ShufflesAreUniform`, `PicksPayTheRTP`, `RacesEndInOrder`, `PlinkoPaysTheRTP`, `NoTargetBeatsTheHouse` | up to two rounds |
| five findings, below | one property each, violated | |

**`slot_spin`.**  Games with the features in both orders, all three cap
policies, all three cascade multiplier modes, persistent and reset multipliers,
with and without retriggers and a reel set for free spins.  Two or three free
spins and one or two cascades are enough for an award, a retrigger, a retrigger
cut at the limit, a cascade refused at the limit, and a cap met in the base
game, in a cascade, in a free spin and between them.  `Scale = 2` has halves, so
that products are floored; `MaxInt = 60` is overflowed by a lucky spin.
Evaluations: nothing, a symbol win, a scatter award alone, both.  In two more
games a feature of the game's own may ask for cascades, spins, reels,
termination or fail, before or after the built-ins.  The source, the evaluator
and the marshalling of a trigger's payload may fail wherever they are called.  `PluginCascadeBound` and
`PluginSpinBound` bound what it asks for: the engine has no limit of its own, so
only features that stop asking let a spin end.

**`slot_compile`.**  One small game, and of each section of its definition what
its author may get right or wrong; lists of modules with a nil, a repetition, in
another order; seeded requests.  A caller then writes to any list it holds, the
author's own and the lent substitution lists included.

**`slot_grid`.**  Fixed rows with a wild that pays and substitutes; one to three
rows on strips of two and three symbols, so that a window wraps around its strip;
payouts whose product or sum overflows.  Two cascades are enough for survivors of
a first to fall in a second.  `PaysEveryPath` is a reference evaluator that
counts the paths across the reels one by one.

**`slot_simulation`.**  The real eleven payout bands; outcomes that pay nothing,
two halves, payouts on and beside a band's bound, a round cut at its cap, and a
settlement that overflows; a bet at which the sums and the total bet overflow.
Floats of ten bits stand for those of 53: bets of 1 and 7 are exact, as are all
the band bounds, and with a bet of 1025, which rounds to 1024, a payout of five
times the bet is above 5, as one of 5 * (2^53 + 1) is in the code.

**`provably_fair`.**  Reads that stay within a block, end at its end, cross into
the next, meet the last one and run out, and resets in every such state.

**`bounded_sampling`.**  Every bound below 16 and every bit count, and weights
with zeros, with sums on both sides of the largest word, or none; on a stream
that ends in the middle of a word and on two that never end.

**`instant_games`.**  Over forty configurations, nearly half of them refused:
boards of up to five tiles, races of two and three ducks over one to three
segments, three and four rows of pins at each risk, limbo and crash on 16 draws
with targets on, beside and off a step.  The floats have four bits (`Precision`
16, 1.0 is 64), so that rounding happens where 53 bits would hide it: gaps of a
race that the subtraction from 1.0 loses or doubles, weights whose sum overflows,
steps whose multiples are not what their quotients floor to, an infinite
multiplier.  The theorems are for every precision.  Every sequence of draws is played, any
draw may fail, and a player picks up to three tiles, repeated or off the board
too, on the round's board or on one kept from elsewhere.  `ShufflesAreUniform`,
`PlinkoPaysTheRTP` and `NoTargetBeatsTheHouse` count over all draws of a
configuration, `PicksPayTheRTP` over all boards of a kind.

**Deadlock** is checked except for the simulators and the instant games, which
stop when they have returned; a spin, a grid and a compiled game stutter
explicitly once they are over.

### Fairness

* `SlotSpin`: weak fairness of the next step.  `Spin` runs on its caller's
  goroutine, blocks on nothing, and its callees return.
* `ProvablyFair`, `BoundedSampling`: weak fairness of a started call's loop, not
  of the caller's next call.  `FairCallsReturn` is stated only for the stream
  that ends: on an endless source `Intn` returns with probability one, which is
  not a temporal property of the code.
* `SimulationRun`, `SlotSimulation`: weak fairness of the loop; nothing makes
  anybody cancel.
* `InstantGames`: the same, of the draws and of the observer's return; nothing
  makes a player pick.
* `SlotGrid` and `SlotCompile` have only safety properties and no fairness.

### What the runs found

Five places where a comment says something else than the code does.  Each has a
run whose only property states the text, and which TLC violates.

| Run | The text | The code |
|---|---|---|
| `cap_unannounced` | `EventMaxWinReached` is emitted when the payout reaches the cap (`types.go:256`) | the cap met outside the cascade loop is clamped without an event |
| `plays_after_cap` | `MaxWinTerminateSession` terminates all further cascades and spins immediately (`config.go:158`) | the base game notices and announces the cap, passes an empty `if` for the terminating policies, and still refills the grid and counts the cascade; a free spin at its cap also evaluates, and may be awarded more spins |
| `last_win_unpaid` | ways wins are paid (`types.go:107`) | the win on the grid that the last allowed cascade refilled is announced and not paid |
| `limbo_return` | RTP is the theoretical return ratio (`limbo.go:56`) | multipliers are raised to `MinMultiplier`, so a target equal to it wins every round and pays back everything |
| `definition_writable` | a compiled definition is an immutable deep copy (`config.go:188`) | `Symbol` lends the substitution lists; writing to one changes what `Definition` answers, or makes it panic |

What does hold in the same places is checked and proved:

* `NothingPlayedAfterCap`: under a terminating policy no free spin starts once
  what is due reached the cap, noticed or not; once it was noticed no cascade
  begins and no grid is evaluated, so that the refill is all that follows;
* `WinsArePaidOnce`: a win goes unpaid only at the cap or the cascade limit, and
  what is due changes nowhere but where a grid is credited;
* `NoTargetBeatsTheHouse`: a limbo target above the minimum pays back at most the
  RTP, but for one draw and three roundings, and no less if it is so many steps
  as the code multiplies them.  One that only looks like it, 1.8 for steps of 0.3
  (6 * 0.3 is below 1.8), loses the draws of a whole step;
* `RacesEndInOrder`: no duck moves back or past the finish, and none ends ahead of
  a better rank; each is strictly behind the one before it if the gap is above
  2^-51 (four parts in `Precision`);
* `WritesReachLentListsOnly`: whatever callers write to, a game keeps its author's
  definition but for the lent substitution lists, and until somebody writes to
  one of those `Definition` answers what was compiled.

Four more were met while modelling and have no run of their own:

* a free reel set is selected when the spins are awarded (`features.go:164`), not
  when one executes, so that later cascades of the base game already refill from
  it;
* a feature that ends the current feature in the base game also ends the free
  spins announced later: the flag is never cleared;
* the check that a custom multiplier policy has a module counts nil modules
  (`engine.go:92`);
* the last frame of a race is said to represent `FinishOrder` strictly
  (`README.md:438`), and any positive `RankGap` is accepted: one that is lost when
  it is subtracted from `FinishProgress` (`duckrace.go:201`), 1e-17 from 1.0 say,
  puts ducks on one position.  The run plays such races (`NarrowRaces`), and
  `RacesEndInOrder` says how far the order holds.

## 4. What is proved

The theorems hold for every value of the constants: any set of games,
definitions, evaluations and plugin behaviours, any scale, any word size, grids,
boards and races of any size, simulations of any length.  They rest on the
assumptions the modules name and nothing else; TLC evaluates each of them in a
run.  `MoneyAssumption`: the scale fits the word.  `DefinitionAssumption`,
`CompileAssumption`, `SpinAssumption`, `FloatsAssumption`,
`SimulationAssumption`, `FairAssumption`, `SamplingAssumption`, `RunAssumption`,
`InstantAssumption`, `GamesAssumption`: what the constants are made of.  Of the floats that is: their spacings are the
powers of two up to some greatest, 1.0 is one of them and at least four times the
precision, as 2^1074 is of 2^53; a simulation's integers are below it
(2^63 - 1), and so is a crash draw's number of values times the precision, but for
the factor `Hundred`.  Two say more, and the other side of the
interface is proved to keep them: `EvaluationAssumption` (an evaluation's scatter
payout is part of its total; `GridIsTyped`) and `GridAssumption` (the games of a
grid are `WellFormed`; `CompiledIsSound`).

| Theorem | Says |
|---|---|
| **`SlotSpinProofs`** | |
| `SpinTypeCorrect` | `[]TypeOK` |
| `LifecycleIsLegal` | `[]NoIllegalTransition`, whatever the features do |
| `SpinsAccountedFor`, `AwardsWithinLimit` | `[]SpinAccounting`; the scatter feature never passes `MaxTotalSpins` |
| `CapPaidExactly`, `NothingAfterCap` | `[]CapIsExact`; `NothingPlayedAfterCap`, an action property |
| `PromiseKept` | `KeepsPromise`: a spin implements `SlotRound` |
| `AwardsPlayed`, `FreeReelsOnly`, `TriggersAreReported`, `LostForCause` | `[]AwardsArePlayed`, `[]GridsOnTheirReels`, `[]TriggersReported`, with the built-in features in any order; `WinsArePaidOnce`, its first part with any |
| `SettleIsFloor` | `Settle` is the exact floor of the scaled payout, or an overflow |
| **`SlotCompileProofs`** | |
| `CompileInvHolds` | the invariant of a compilation |
| `CompiledIsSound`, `FeaturesRunOnce` | `[]CompiledGamesAreSound`, `[]HooksRunOnce` |
| `DefinitionStays` | `[]WritesReachLentListsOnly` |
| **`SlotGridProofs`** | |
| `GridIsTyped`, `PathsArePaid` | `[]TypeOK`; `[]PaysEveryPath`: the evaluator's product of matching cells counts every path across the reels |
| `SurvivorsLand`, `RefillsInOrder`, `NoScatterIsRemoved` | `[]SurvivorsFall`, `[]RefillOrder`; `ScattersStay`, an action property |
| **`ProvablyFairProofs`** | |
| `SourceIsTyped`, `SourceIsAStream` | `[]TypeOK`; `ImplementsStream`: the source implements `EntropyStream` |
| **`BoundedSamplingProofs`** | |
| `SamplingIsTyped` | `[]TypeOK`: every answer is one of those asked for |
| `EveryAnswerIsEquallyLikely` | `[]Uniform`: no modulo bias, for every word, bound and list of weights |
| `RejectsLessThanHalf` | `[]FewRejections` |
| **`SlotSimulationProofs`** | |
| `SimulationIsTyped`, `ReportsAreWhole`, `BandsHold`, `SharesDoAddUp` | `[]TypeOK`, `[]ReportIsWhole`, `[]BandsHoldEveryRound`, `[]SharesAddUp` |
| `LoopIsARun` | the loop's steps are those of `SimulationRun`, the part of `ImplementsRun` without fairness |
| **`FloatingProofs`** | lemmas only: a rounded number is the nearest float, rounding keeps the order and what is a float, and is off by at most one part in `Precision` |
| **`InstantGamesProofs`** | |
| `RoundsObservedInOrder`, `CancelledRunStops` | `[]ObservedInOrder`, `[]CancelStopsTheRun` of the generic runner |
| `GamesObservedInOrder`, `CancelledGamesStop` | the same of runs of the games (`GamesSpec`) |
| `NothingLostInTheShuffle` | `[]GamesTypeOK`: no mine is laid twice, no duck finishes twice, whichever draw fails |
| `TheHouseKeepsItsEdge` | `[]NoTargetBeatsTheHouse` of limbo and crash, for every target, number of draws and precision of the floats |
| `RacesDoEndInOrder` | `[]RacesEndInOrder`, for any number of ducks and segments, any weights and any precision |
| `ShufflesAreFair` | `[]ShufflesAreUniform`: every set of mines and every finish order, each from as many sequences of draws |
| `ThePicksPayTheRTP` | `[]PicksPayTheRTP`, for every board and every list of picks |
| `TheBucketsPayTheRTP` | `[]PlinkoPaysTheRTP`, for any number of rows and any whole risk exponent |

How the proofs go:

* **Spin.**  `TypeOK` is not inductive, since a value checked by one action is
  used two steps later: `TypeInv` adds a context whose evaluation is sound.
  `LifecycleInv` says which states the machine may be in at each point of `Spin`
  (`Expected`); the table allows what is asked for there from each of them.
  `AccountInv` bounds the spins: the limit holds after a hook only because no
  feature is called twice in one (`OncePending`) and a retrigger waits only
  between its hook and the step that adds it.
* **Cap.**  `WinInv` says which of the three sums is still zero at which point
  (`SumsInv`), that `capReached` is never set below the cap, and that once the
  base game is closed it is set as soon as the rounds that ended reach it
  (`NoticedInv`): a round under way may have passed it unnoticed, which is why
  the exact statement is about what `Spin` returns.  Each step then maps to one
  of `SlotRound`'s or to a stutter.
* **Built-in features.**  `BuiltinInv` follows an award from the hook that makes
  it to the last spin: no built-in terminates a feature, the trigger is recorded
  before the award can be played, the reels are selected when it is made, and a
  win is left unpaid by the cascade feature's decision only.
* **Compilation.**  `RegisterInv` and `OrderInv` say what the loops over modules
  and declarations have done so far; `FilledIsValid` and a chain of lemmas, one
  for each section, lead from `Valid` to what `SlotSpin` and `SlotGrid` assume.
* **Grid.**  `GridInv` is `PhaseInv`, `EvalInv`, `ShapeInv`, `WinInv` and
  `OrderInv`.  Between a collapse and the last draw of the refill the evaluation
  belongs to the grid before (`Cascading`), and what fell is where `Landing` says:
  as many rows lower as rows under it are gone.  The paths of a win are counted
  by a bijection, reel by reel: those of one reel more are pairs of a path and a
  matching cell.
* **Entropy.**  `FairInv` ties the counter and offset to a position in the
  stream; a read in progress has the bytes from where it began to the cursor.
* **Sampling.**  The accepted draws are whole cycles of the span (`WholeCycles`);
  a cycle and a remainder determine a draw, which gives a bijection between the
  draws of one answer and cycles times its weight.
* **Simulation.**  Every sum of the accumulator is the sum over the rounds added
  so far (`SumIs`), each band counts the rounds in it, and no floor of a sum is
  more than one away from the sum of floors (`FloorsOfParts`).  Rounding keeps the
  order and a band's bound is a float, so a quotient is on the same side of a bound
  as the fraction it rounds, or on the bound: below 2^53 no payout is so near one
  without being on it.
* **Instant games.**  `Seen` and `Winding` are kept by `AnyStep`, a step of a run
  whose engine may return anything; every step of a game is one or is invisible
  to the runner.  A swap keeps a permutation, and the bound of the draw for place
  `k` keeps both places on the table (`DrawsStayOnTheTable`), which needs what
  each game's validation lets through.  A draw of limbo that wins is one whose
  product with the target is within the return, each of three roundings off by
  one part in `Precision`, and those are the multiples up to a bound; crash is the
  same from the other end.  A race's sums of weights grow whatever is lost in
  adding them (`SumsGrow`), so the quotients and their products with a target do
  not fall, and targets are apart by a gap that is more than two roundings.  Draws
  and what they put in the first places determine each other (`DealIsInjective`,
  `DealIsSurjective`); so a finish order comes from one sequence of draws, and
  renaming the tiles of one set of mines into those of another gives as many for
  both (`MinesAreNoMoreLikely`).
  Boards are counted a pick at a time: a board and a tile safe on it can be
  counted either way round (`SafeOnBoards`, `BoardsWithSafe`), which says what one
  more safe tile costs (`OneTileFewer`), and the factors of the cash-out are those
  costs (`SafeBoards`).  The paths of a ball with k turns to the right are the
  subsets of k rows (`PathsAre`), and exchanging a member for one outside counts
  those (`SubsetsCounted`), which makes every division of `Binomial` exact
  (`BinomialIs`), the middle the likeliest (`WaysGrow`) and so the lightest
  (`WeightsAre`); the RTP is then a common factor of the sum (`BucketsPay`).

Recursive definitions are functions, so that a theorem about one needs an
induction over its argument: it is done by the least counterexample, from the
first-order facts of the library (`Least`, `Induction`), with `LoopRuns` and its
likes for the existence of the function.

Only model-checked:

* liveness, which is out of the prover's reach: `Terminates`, `ReadReturns`,
  `FairCallsReturn`, `Returns`, and the fairness of `ImplementsRun`;
* the five findings, which are counterexamples.

## 5. What is not modelled

* Rounding in mines and plinko, where payouts are exact fractions; a plinko risk
  exponent that is not a whole number.
* Fused operations: on some machines Go may compute a duck's target with one
  rounding where the model has two.
* The running mean and variance and the ratios of the report, which decide nothing.
* Text: parsing and formatting of decimals, export, command line, event payloads,
  error texts.  They work character by character and no state depends on them.
* `nil` arguments, refused first everywhere, except in lists of modules, where a
  nil is passed over.
* `SetAppliedMultiplier`, which writes a field the engine never reads;
  `Grid.Equal` and `Grid.Validate`, which it never calls.
* The reference game: one definition, that is, data.
* Runs of 2^64 - 1 spins, at which the simulator's nonce would wrap around.
* The HMAC, `crypto/rand` and `math/rand/v2` themselves.

## 6. Plan

The lifecycle came first, since everything else serves it; then what it stands
on, what runs it, what it is compiled from, and the instant games.  All modules
of section 2 are done, and every invariant and action property that a passing run
checks is proved.  What is left, in order of value:

1. `SlotGrid` drawing from `EntropyStream`, so that the same nonce gives the same
   grids after any reset.
2. Decimals as digit sequences, parsing the inverse of formatting.
