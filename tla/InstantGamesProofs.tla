------------------------- MODULE InstantGamesProofs --------------------------
(****************************************************************************)
(* Whatever the configuration, whichever draw fails and whenever the run is *)
(* cancelled: a run observes its rounds in order and stops once cancelled, a*)
(* shuffle keeps its tiles and deals every hand as often as any other, and  *)
(* runs of the instant games are runs of the generic runner.  No target of  *)
(* limbo or crash beats the house by more than its roundings, picks on a    *)
(* board of mines and the buckets of plinko pay back the RTP, and no race   *)
(* ends against the order that was drawn.                                   *)
(****************************************************************************)
EXTENDS InstantGames, FloatingProofs, FiniteSetTheorems, FunctionTheorems

------------------------------------------------------------------------------
(* The generic runner is right for any number of rounds and any results:    *)
(* what the observer has seen, and what a cancellation leaves to be seen.   *)

\* A step of a run whose engine may return anything: what holds of these holds
\* of every engine, however its rounds come about.
AnyStep ==
    \/ Completed \/ ContextError \/ StartRound \/ (\E r : Played(r))
    \/ EngineError \/ Observe \/ ObserverError \/ Cancel

\* Every step of a run is a step of a run with any engine.
LEMMA NextIsAnyStep == [Next]_vars => [AnyStep]_vars
  BY DEF Next, Step, AnyStep, Play

\* The observer has seen the rounds before this one; a round that is under way
\* is one of those asked for.
Seen ==
    /\ \E S : observed \in Seq(S)
    /\ rounds \in Nat /\ round = Len(observed) /\ round <= rounds
    /\ \A i \in DOMAIN observed : observed[i].round = i - 1
    /\ pc \in {"play", "observe"} => round < rounds
    /\ pc = "returned" => (error = "nil" <=> round = rounds)
    /\ pc # "returned" => error = "nil"

\* Nothing observed yet.
LEMMA SeenInit == Init => Seen
<1>. SUFFICES ASSUME Init PROVE Seen  OBVIOUS
<1>1. rounds \in Nat  BY RunAssumption DEF Init
<1>. QED  BY <1>1 DEF Init, Seen

\* Every step of a run keeps the observed rounds in order.
LEMMA SeenNext == Seen /\ [AnyStep]_vars => Seen'
<1>. SUFFICES ASSUME Seen, [AnyStep]_vars PROVE Seen'  OBVIOUS
<1>. USE DEF Seen
<1>1. CASE Completed  BY <1>1 DEF Completed, Return
<1>2. CASE ContextError  BY <1>2 DEF ContextError, Return
<1>3. CASE StartRound  BY <1>3 DEF StartRound
<1>4. CASE \E r : Played(r)  BY <1>4 DEF Played
<1>5. CASE EngineError  BY <1>5 DEF EngineError, Return
<1>6. CASE Observe
  <2>. DEFINE entry == [round |-> round, result |-> result]
  <2>1. /\ observed' = Append(observed, entry) /\ entry.round = round
        /\ round' = round + 1 /\ rounds' = rounds /\ pc' = "check"
        /\ error' = error /\ round < rounds /\ error = "nil"
    BY <1>6 DEF Observe
  <2>. HIDE DEF entry
  <2>2. PICK S : observed \in Seq(S)  OBVIOUS
  <2>3. /\ observed' \in Seq(S \cup {entry})
        /\ Len(observed') = Len(observed) + 1
        /\ \A i \in DOMAIN observed : observed'[i] = observed[i]
        /\ observed'[Len(observed) + 1] = entry
    <3>1. observed \in Seq(S \cup {entry})  BY <2>2
    <3>. QED  BY <2>1, <3>1
  <2>4. \A i \in DOMAIN observed' : observed'[i].round = i - 1
    <3>1. SUFFICES ASSUME NEW i \in 1..(Len(observed) + 1)
                   PROVE  observed'[i].round = i - 1
      BY <2>3
    <3>2. CASE i = Len(observed) + 1  BY <2>1, <2>3, <3>2
    <3>3. CASE i \in DOMAIN observed  BY <2>3, <3>3
    <3>. QED  BY <2>2, <3>1, <3>2, <3>3
  <2>. QED  BY <2>1, <2>2, <2>3, <2>4
<1>7. CASE ObserverError  BY <1>7 DEF ObserverError, Return
<1>8. CASE Cancel  BY <1>8 DEF Cancel
<1>9. CASE UNCHANGED vars  BY <1>9 DEF vars
<1>. QED
  BY <1>1, <1>2, <1>3, <1>4, <1>5, <1>6, <1>7, <1>8, <1>9 DEF AnyStep

\* The observer sees rounds 0, 1, 2, ... of any run, and Run returns no error
\* exactly when it has seen them all.
THEOREM RoundsObservedInOrder == Spec => []ObservedInOrder
<1>1. Seen => ObservedInOrder  BY DEF Seen, ObservedInOrder
<1>. QED  BY <1>1, SeenInit, SeenNext, NextIsAnyStep, PTL DEF Spec

------------------------------------------------------------------------------

\* A round accepted after the cancellation was under way when it came: none is
\* under way any more, and none will be.
Winding ==
    /\ late \in {0, 1}
    /\ late = 1 => cancelled /\ pc \in {"check", "returned"}

\* Every step keeps what is late within the round under way.
LEMMA WindingNext == Winding /\ [AnyStep]_vars => Winding'
<1>. SUFFICES ASSUME Winding, [AnyStep]_vars PROVE Winding'  OBVIOUS
<1>. USE DEF Winding
<1>1. CASE Completed  BY <1>1 DEF Completed, Return
<1>2. CASE ContextError  BY <1>2 DEF ContextError, Return
<1>3. CASE StartRound  BY <1>3 DEF StartRound
<1>4. CASE \E r : Played(r)  BY <1>4 DEF Played
<1>5. CASE EngineError  BY <1>5 DEF EngineError, Return
<1>6. CASE Observe  BY <1>6 DEF Observe
<1>7. CASE ObserverError  BY <1>7 DEF ObserverError, Return
<1>8. CASE Cancel  BY <1>8 DEF Cancel
<1>9. CASE UNCHANGED vars  BY <1>9 DEF vars
<1>. QED
  BY <1>1, <1>2, <1>3, <1>4, <1>5, <1>6, <1>7, <1>8, <1>9 DEF AnyStep

\* A cancelled run of any length finishes the round it is in and no other.
THEOREM CancelledRunStops == Spec => []CancelStopsTheRun
<1>1. Init => Winding  BY DEF Init, Winding
<1>2. Winding => CancelStopsTheRun  BY DEF Winding, CancelStopsTheRun
<1>. QED  BY <1>1, <1>2, WindingNext, NextIsAnyStep, PTL DEF Spec

------------------------------------------------------------------------------
(* Whatever the configuration, whichever draw fails and whenever the run is *)
(* cancelled: a shuffle keeps its tiles, and runs of the instant games are  *)
(* runs of the generic runner.                                              *)

(* The shuffle.                                                              *)

\* The tiles in their first order are a permutation.
LEMMA InOrderIsPermutation ==
    ASSUME NEW n \in Nat PROVE IsPermutation(InOrder(n), n)
  BY DEF IsPermutation, InOrder

\* Exchanging two tiles of a permutation leaves a permutation.
LEMMA SwapKeepsPermutation ==
    ASSUME NEW n \in Nat, NEW f, IsPermutation(f, n),
           NEW i \in 0..(n - 1), NEW j \in 0..(n - 1)
    PROVE  IsPermutation(Swap(f, i, j), n)
<1>. DEFINE g == Swap(f, i, j)
<1>1. /\ DOMAIN f = 0..(n - 1) /\ \A k \in 0..(n - 1) : f[k] \in 0..(n - 1)
      /\ \A k, l \in 0..(n - 1) : f[k] = f[l] => k = l
  BY DEF IsPermutation
<1>2. /\ DOMAIN g = 0..(n - 1)
      /\ \A k \in 0..(n - 1) :
            g[k] = IF k = j THEN f[i] ELSE IF k = i THEN f[j] ELSE f[k]
  BY <1>1 DEF Swap
<1>. HIDE DEF g
<1>3. \A k \in 0..(n - 1) : g[k] \in 0..(n - 1)  BY <1>1, <1>2
<1>4. \A k, l \in 0..(n - 1) : g[k] = g[l] => k = l  BY <1>1, <1>2
<1>5. IsPermutation(g, n)  BY <1>2, <1>3, <1>4 DEF IsPermutation
<1>. QED  BY <1>5 DEF g

------------------------------------------------------------------------------
(* What the configurations let through.                                      *)

\* A runner only holds engines that passed their validation.
LEMMA EnginesAreValid ==
    ASSUME NEW c \in Engines
    PROVE  /\ c.game \in Games
           /\ c.game = "mines" => M!Valid(c)
           /\ c.game = "duckrace" => D!Valid(c)
           /\ c.game = "plinko" => P!Valid(c)
           /\ c.game = "limbo" => L!Valid(c)
           /\ c.game = "crash" => C!Valid(c)
<1>1. Valid(c)  BY DEF Engines, Accepted
<1>2. c.game \in Games  BY GamesAssumption
<1>. QED  BY <1>1, <1>2 DEF Valid, Games

\* A round of mines draws once for each mine, among the tiles left.
LEMMA MinesRequests ==
    ASSUME NEW c \in Engines, c.game = "mines"
    PROVE  /\ c.size \in Nat /\ c.mines \in 1..(c.size - 1)
           /\ Requests(c) \in Seq(Nat) /\ Len(Requests(c)) = c.mines
           /\ \A i \in 1..c.mines : Requests(c)[i] = c.size - (i - 1)
<1>1. c.size \in Nat /\ c.mines \in 1..(c.size - 1)
  BY EnginesAreValid, GamesAssumption DEF M!Valid
<1>2. Requests(c) = [i \in 1..c.mines |-> c.size - (i - 1)]
  BY DEF Requests, M!Requests
<1>3. \A i \in 1..c.mines : c.size - (i - 1) \in Nat  BY <1>1
<1>. QED  BY <1>1, <1>2, <1>3

\* The shape of what the duck race asks for: its places, then weights.
LEMMA FirstOfBoth ==
    ASSUME NEW p \in Seq(Nat), NEW w \in Seq(Nat)
    PROVE  /\ p \o w \in Seq(Nat) /\ Len(p \o w) >= Len(p)
           /\ \A i \in 1..Len(p) : (p \o w)[i] = p[i]
  OBVIOUS

\* A race draws its places first and its gaps after them.
LEMMA PlacesThenWeights ==
    ASSUME NEW m \in Nat, NEW d \in Nat \ {0}
    PROVE  \A s : s = [i \in 1..(d - 1) |-> d - (i - 1)] \o [i \in 1..m |-> Float]
              => /\ s \in Seq(Nat) /\ Len(s) >= d - 1
                 /\ \A i \in 1..(d - 1) : s[i] = d - (i - 1)
<1>. DEFINE places  == [i \in 1..(d - 1) |-> d - (i - 1)]
            weights == [i \in 1..m |-> Float]
<1>1. \A i \in 1..(d - 1) : d - (i - 1) \in Nat  OBVIOUS
<1>2. places \in Seq(Nat) /\ Len(places) = d - 1  BY <1>1
<1>3. weights \in Seq(Nat)  BY DEF Float
<1>4. \A i \in 1..(d - 1) : places[i] = d - (i - 1)  OBVIOUS
<1>. HIDE DEF places, weights
<1>5. /\ places \o weights \in Seq(Nat) /\ Len(places \o weights) >= d - 1
      /\ \A i \in 1..(d - 1) : (places \o weights)[i] = d - (i - 1)
  BY <1>2, <1>3, <1>4, FirstOfBoth, Zenon
<1>. QED  BY <1>5, Zenon DEF places, weights

\* The bounds a race asks for, draw by draw.
LEMMA RaceRequests ==
    ASSUME NEW c \in Engines, c.game = "duckrace"
    PROVE  /\ c.ducks \in Nat \ {0, 1}
           /\ Requests(c) \in Seq(Nat) /\ Len(Requests(c)) >= c.ducks - 1
           /\ \A i \in 1..(c.ducks - 1) : Requests(c)[i] = c.ducks - (i - 1)
<1>1. D!Valid(c)  BY EnginesAreValid
<1>2. /\ c.ducks \in D!MinDucks..D!MaxDucks
      /\ c.duration \in D!MinDuration..D!MaxDuration
      /\ c.tick \in D!MinTick..D!MaxTick
  BY <1>1, Zenon DEF D!Valid
<1>3. c.ducks \in Nat \ {0, 1} /\ c.ducks \in Nat \ {0}
  <2>1. \A d \in D!MinDucks..D!MaxDucks : d \in Nat \ {0, 1} /\ d \in Nat \ {0}
    BY DEF D!MinDucks, D!MaxDucks
  <2>. QED  BY <1>2, <2>1, Zenon
<1>4. D!Segments(c) \in Nat
  <2>1. /\ \A a \in D!MinDuration..D!MaxDuration : a \in Nat
        /\ \A b \in D!MinTick..D!MaxTick : b \in Nat \ {0}
    BY DEF D!MinDuration, D!MaxDuration, D!MinTick, D!MaxTick
  <2>2. \A a \in Nat, b \in Nat \ {0} : a \div b \in Nat  OBVIOUS
  <2>. QED  BY <1>2, <2>1, <2>2, Zenon DEF D!Segments
<1>5. c.ducks * D!Segments(c) \in Nat
  <2>1. \A a \in Nat \ {0}, b \in Nat : a * b \in Nat  OBVIOUS
  <2>. QED  BY <1>3, <1>4, <2>1, Zenon
<1>6. Requests(c) = [i \in 1..(c.ducks - 1) |-> c.ducks - (i - 1)]
                       \o [i \in 1..(c.ducks * D!Segments(c)) |-> Float]
  <2>1. Requests(c) = D!Requests(c)  BY DEF Requests
  <2>. QED  BY <2>1, Zenon DEF D!Requests, D!Float, Float
<1>. QED  BY <1>3, <1>5, <1>6, PlacesThenWeights, Zenon

\* The bounds a game asks for are natural numbers.
LEMMA RequestsTyped ==
    ASSUME NEW c \in Engines
    PROVE  Requests(c) \in Seq(Nat)
<1>1. CASE c.game = "mines"  BY <1>1, MinesRequests
<1>2. CASE c.game = "duckrace"  BY <1>2, RaceRequests
<1>3. CASE c.game = "plinko"
  <2>1. c.rows \in Nat  BY <1>3, EnginesAreValid, GamesAssumption DEF P!Valid
  <2>2. Requests(c) = [i \in 1..c.rows |-> 2]
    BY <1>3 DEF Requests, P!Requests
  <2>. QED  BY <2>1, <2>2
<1>4. CASE c.game = "limbo"
  BY <1>4 DEF Requests, L!Requests, L!Float, Float
<1>5. CASE c.game = "crash"
  BY <1>5 DEF Requests, C!Requests, C!Float, Float
<1>. QED  BY <1>1, <1>2, <1>3, <1>4, <1>5, EnginesAreValid DEF Games

\* A shuffling draw names a place of the table, at or behind the one it fills.
LEMMA DrawsStayOnTheTable ==
    ASSUME NEW c \in Engines, NEW k \in Nat, k < Shuffles(c),
           NEW a \in Answers(c, Requests(c)[k + 1])
    PROVE  k \in 0..(Tiles(c) - 1) /\ k + a \in 0..(Tiles(c) - 1)
<1>1. CASE c.game = "mines"
  <2>1. Tiles(c) = c.size /\ Shuffles(c) = c.mines
    BY <1>1 DEF Tiles, Shuffles
  <2>2. Requests(c)[k + 1] = c.size - k /\ c.size - k # Float
    <3>1. c.mines \in Nat /\ c.mines < c.size /\ c.size \in Nat
      BY <1>1, MinesRequests
    <3>2. k < c.mines  BY <2>1, Zenon
    <3>3. \A i \in 1..c.mines : Requests(c)[i] = c.size - (i - 1)
      BY <1>1, MinesRequests, Zenon
    <3>4. k + 1 \in 1..c.mines  BY <3>1, <3>2
    <3>5. Requests(c)[k + 1] = c.size - ((k + 1) - 1)  BY <3>3, <3>4, Zenon
    <3>6. c.size - ((k + 1) - 1) = c.size - k /\ c.size - k # 0  BY <3>1, <3>2
    <3>. QED  BY <3>5, <3>6 DEF Float
  <2>3. a \in 0..(c.size - k - 1)  BY <2>2 DEF Answers
  <2>. QED  BY <1>1, <2>1, <2>3, MinesRequests
<1>2. CASE c.game = "duckrace"
  <2>1. Tiles(c) = c.ducks /\ Shuffles(c) = c.ducks - 1
    BY <1>2 DEF Tiles, Shuffles
  <2>2. Requests(c)[k + 1] = c.ducks - k /\ c.ducks - k # Float
    <3>1. c.ducks - 1 \in Nat /\ c.ducks - 1 < c.ducks /\ c.ducks \in Nat
      BY <1>2, RaceRequests
    <3>2. k < c.ducks - 1  BY <2>1, Zenon
    <3>3. \A i \in 1..(c.ducks - 1) : Requests(c)[i] = c.ducks - (i - 1)
      BY <1>2, RaceRequests, Zenon
    <3>4. k + 1 \in 1..(c.ducks - 1)  BY <3>1, <3>2
    <3>5. Requests(c)[k + 1] = c.ducks - ((k + 1) - 1)  BY <3>3, <3>4, Zenon
    <3>6. c.ducks - ((k + 1) - 1) = c.ducks - k /\ c.ducks - k # 0  BY <3>1, <3>2
    <3>. QED  BY <3>5, <3>6 DEF Float
  <2>3. a \in 0..(c.ducks - k - 1)  BY <2>2 DEF Answers
  <2>. QED  BY <1>2, <2>1, <2>3, RaceRequests
<1>3. CASE c.game \notin {"mines", "duckrace"}
  BY <1>3 DEF Shuffles
<1>. QED  BY <1>1, <1>2, <1>3

\* Every game has so many tiles, and shuffles so many of them.
LEMMA TilesCounted ==
    ASSUME NEW c \in Engines PROVE Tiles(c) \in Nat /\ Shuffles(c) \in Nat
<1>1. CASE c.game = "mines"  BY <1>1, MinesRequests DEF Tiles, Shuffles
<1>2. CASE c.game = "duckrace"  BY <1>2, RaceRequests DEF Tiles, Shuffles
<1>3. CASE c.game \notin {"mines", "duckrace"}  BY <1>3 DEF Tiles, Shuffles
<1>. QED  BY <1>1, <1>2, <1>3

\* The source answers with natural numbers.
LEMMA AnswersTyped ==
    ASSUME NEW c \in Engines, NEW k \in Nat, k < Len(Requests(c)),
           NEW a \in Answers(c, Requests(c)[k + 1])
    PROVE  a \in Nat
<1>. DEFINE r == Requests(c)[k + 1]
<1>1. k + 1 \in 1..Len(Requests(c)) /\ r \in Nat  BY RequestsTyped
<1>2. r = Float => c.game \in {"limbo", "crash", "duckrace"}
  <2>1. CASE c.game = "mines"
    <3>1. r = c.size - k /\ c.size - k # Float
      BY <1>1, <2>1, MinesRequests DEF Float
    <3>. QED  BY <3>1
  <2>2. CASE c.game = "plinko"
    <3>1. Requests(c) = [i \in 1..c.rows |-> 2]
      BY <2>2 DEF Requests, P!Requests
    <3>2. c.rows \in Nat  BY <2>2, EnginesAreValid, GamesAssumption DEF P!Valid
    <3>3. r = 2  BY <1>1, <3>1, <3>2
    <3>. QED  BY <3>3 DEF Float
  <2>. QED  BY <2>1, <2>2, EnginesAreValid DEF Games
<1>. HIDE DEF r
<1>3. CASE r = Float
  <2>1. Grains[c.game] \in Nat
    BY <1>2, <1>3, GamesAssumption, InstantAssumption
  <2>. QED  BY <1>3, <2>1 DEF Answers, r
<1>4. CASE r # Float  BY <1>1, <1>4 DEF Answers, r
<1>. QED  BY <1>3, <1>4

------------------------------------------------------------------------------
(* The games as engines of the runner.                                       *)

\* Whatever the game, its rounds are steps of the generic runner, or draws the
\* runner does not see.
LEMMA GamesStepsAreRunnerSteps == [GamesNext]_allVars => [AnyStep]_vars
<1>. SUFFICES ASSUME [GamesNext]_allVars PROVE [AnyStep]_vars  OBVIOUS
<1>1. CASE PlayStarts  BY <1>1 DEF PlayStarts, AnyStep
<1>2. CASE Draw  BY <1>2 DEF Draw
<1>3. CASE DrawFails  BY <1>3 DEF DrawFails, AnyStep
<1>4. CASE PlayReturns  BY <1>4 DEF PlayReturns, AnyStep
<1>5. CASE EvaluateBoard  BY <1>5 DEF EvaluateBoard
<1>6. CASE RoundEnds  BY <1>6 DEF RoundEnds, AnyStep
<1>7. CASE RunEnds  BY <1>7 DEF RunEnds, AnyStep
<1>8. CASE RunCancelled  BY <1>8 DEF RunCancelled, AnyStep
<1>9. CASE UNCHANGED allVars  BY <1>9 DEF allVars
<1>. QED
  BY <1>1, <1>2, <1>3, <1>4, <1>5, <1>6, <1>7, <1>8, <1>9
  DEF GamesNext, GamesStep

\* Rounds of any game, with any of its draws failing, are observed in order.
THEOREM GamesObservedInOrder == GamesSpec => []ObservedInOrder
<1>1. GamesInit => Init  BY DEF GamesInit
<1>2. Seen => ObservedInOrder  BY DEF Seen, ObservedInOrder
<1>. QED
  BY <1>1, <1>2, SeenInit, SeenNext, GamesStepsAreRunnerSteps, PTL DEF GamesSpec

\* A cancellation in the middle of a round's draws still lets only that round
\* through.
THEOREM CancelledGamesStop == GamesSpec => []CancelStopsTheRun
<1>1. GamesInit => Winding  BY DEF GamesInit, Init, Winding
<1>2. Winding => CancelStopsTheRun  BY DEF Winding, CancelStopsTheRun
<1>. QED
  BY <1>1, <1>2, WindingNext, GamesStepsAreRunnerSteps, PTL DEF GamesSpec

------------------------------------------------------------------------------
(* Nothing is lost in a shuffle.                                             *)

\* Before the first round the tiles are in their first order.
LEMMA TablesInit == GamesInit => GamesTypeOK
<1>. SUFFICES ASSUME GamesInit PROVE GamesTypeOK  OBVIOUS
<1>1. /\ config \in Engines /\ tiles = InOrder(Tiles(config)) /\ draws = <<>>
  BY DEF GamesInit
<1>2. Requests(config) \in Seq(Nat) /\ Tiles(config) \in Nat
  BY <1>1, RequestsTyped, TilesCounted
<1>3. IsPermutation(tiles, Tiles(config))  BY <1>1, <1>2, InOrderIsPermutation
<1>4. draws \in Seq(Nat) /\ Drawn <= Len(Requests(config))
  BY <1>1, <1>2 DEF Drawn
<1>. QED  BY <1>1, <1>3, <1>4 DEF GamesTypeOK

\* Every step keeps the tiles a permutation, and no more draws than asked for.
LEMMA TablesNext == GamesTypeOK /\ [GamesNext]_allVars => GamesTypeOK'
<1>. SUFFICES ASSUME GamesTypeOK, [GamesNext]_allVars PROVE GamesTypeOK'
  OBVIOUS
<1>1. /\ config \in Engines /\ draws \in Seq(Nat)
      /\ Drawn <= Len(Requests(config)) /\ IsPermutation(tiles, Tiles(config))
  BY DEF GamesTypeOK
<1>2. Requests(config) \in Seq(Nat) /\ Tiles(config) \in Nat
  BY <1>1, RequestsTyped, TilesCounted
<1>3. CASE PlayStarts
  <2>1. config' = config /\ tiles' = InOrder(Tiles(config)) /\ draws' = <<>>
    BY <1>3 DEF PlayStarts
  <2>2. IsPermutation(tiles', Tiles(config))
    BY <1>2, <2>1, InOrderIsPermutation
  <2>3. draws' \in Seq(Nat) /\ Len(draws') <= Len(Requests(config))
    BY <1>2, <2>1
  <2>. QED  BY <1>1, <2>1, <2>2, <2>3 DEF GamesTypeOK, Drawn
<1>4. CASE Draw
  <2>1. PICK a \in Answers(config, Requests(config)[Drawn + 1]) :
            /\ draws' = Append(draws, a)
            /\ tiles' = IF Drawn < Shuffles(config)
                        THEN Swap(tiles, Drawn, Drawn + a) ELSE tiles
    BY <1>4 DEF Draw
  <2>2. config' = config /\ Drawn < Len(Requests(config)) /\ Drawn \in Nat
    BY <1>1, <1>4 DEF Draw, Drawn
  <2>3. a \in Nat  BY <1>1, <2>2, AnswersTyped
  <2>4. draws' \in Seq(Nat) /\ Len(draws') = Drawn + 1
    BY <1>1, <2>1, <2>3 DEF Drawn
  <2>5. IsPermutation(tiles', Tiles(config))
    <3>1. CASE Drawn < Shuffles(config)
      <4>1. /\ Drawn \in 0..(Tiles(config) - 1)
            /\ Drawn + a \in 0..(Tiles(config) - 1)
        BY <1>1, <2>2, <3>1, DrawsStayOnTheTable
      <4>. QED  BY <1>1, <1>2, <2>1, <3>1, <4>1, SwapKeepsPermutation
    <3>2. CASE ~(Drawn < Shuffles(config))  BY <1>1, <2>1, <3>2
    <3>. QED  BY <3>1, <3>2
  <2>6. Len(draws') <= Len(Requests(config))  BY <1>2, <2>2, <2>4
  <2>. QED  BY <1>1, <2>2, <2>4, <2>5, <2>6 DEF GamesTypeOK, Drawn
<1>5. CASE UNCHANGED <<config, tiles, draws>>
  BY <1>1, <1>5 DEF GamesTypeOK, Drawn
<1>. QED
  BY <1>3, <1>4, <1>5
  DEF GamesNext, GamesStep, DrawFails, PlayReturns, EvaluateBoard, RoundEnds,
      RunEnds, RunCancelled, gameVars, allVars

\* Of any board and any race, every tile and every duck is dealt once, also in
\* a round that fails half-way.
THEOREM NothingLostInTheShuffle == GamesSpec => []GamesTypeOK
  BY TablesInit, TablesNext, PTL DEF GamesSpec

------------------------------------------------------------------------------
(* How roundings add up.                                                    *)

\* One bound after another, p times what is bounded each.
LEMMA BoundAfterBound ==
    ASSUME NEW p \in Nat, NEW x \in Nat, NEW k \in Nat, NEW y \in Nat,
           NEW l \in Nat, NEW z \in Nat, p * x <= k * y, p * y <= l * z
    PROVE  p * (p * x) <= k * (l * z)
<1>1. \A i, j, m \in Nat : i * j \in Nat /\ i * (j * m) = j * (i * m)  BY Z3
<1>2. PICK a \in Nat, b \in Nat, c \in Nat, d \in Nat :
         a = p * x /\ b = k * y /\ c = p * y /\ d = l * z
  BY <1>1
<1>3. p * a <= p * b  BY <1>2, ProductGrows
<1>4. k * c <= k * d  BY <1>2, ProductGrows
<1>5. p * (k * y) = k * (p * y)  BY <1>1
<1>6. p * b = k * c  BY <1>2, <1>5, Zenon
<1>7. p * a \in Nat /\ k * c \in Nat /\ k * d \in Nat  BY <1>1, <1>2
<1>8. p * a <= k * d  BY <1>3, <1>4, <1>6, <1>7
<1>. QED  BY <1>2, <1>8, Zenon

\* A step's quotient and its product with the step, rounded each, are hardly
\* more than what was to be divided.
LEMMA SteppedIsNotMuchMore ==
    ASSUME NEW p \in Nat \ {0}, NEW U \in Nat \ {0}, NEW s \in Nat \ {0},
           NEW t \in Nat, NEW z \in Nat, NEW v \in Nat, NEW q \in Nat, NEW r \in Nat,
           t <= z, p * (U * z) <= (p + 1) * (v * s), v <= q,
           p * (s * q) <= (p + 1) * (r * U)
    PROVE  p * (p * t) <= (p + 1) * ((p + 1) * r)
<1>1. \A i, j, m \in Nat : i * j \in Nat /\ i * (j * m) = j * (i * m) /\ i * j = j * i
  BY Z3
<1>2. PICK k \in Nat : k = p + 1  OBVIOUS
<1>3. p * (U * t) <= k * (s * q)
  <2>1. U * t <= U * z /\ U * t \in Nat /\ U * z \in Nat  BY ProductGrows
  <2>2. p * (U * t) <= p * (U * z) /\ p * (U * t) \in Nat /\ p * (U * z) \in Nat
    BY <2>1, ProductGrows
  <2>3. s * v <= s * q /\ s * v \in Nat /\ s * q \in Nat  BY ProductGrows
  <2>4. k * (s * v) <= k * (s * q) /\ k * (s * v) \in Nat /\ k * (s * q) \in Nat
    BY <1>2, <2>3, ProductGrows
  <2>5. v * s = s * v  BY <1>1
  <2>6. p * (U * z) <= k * (s * v)  BY <1>2, <2>5, Zenon
  <2>7. PICK a \in Nat, b \in Nat, c \in Nat, d \in Nat :
           a = p * (U * t) /\ b = p * (U * z) /\ c = k * (s * v) /\ d = k * (s * q)
    BY <2>2, <2>4
  <2>8. a <= d  BY <2>2, <2>4, <2>6, <2>7
  <2>. QED  BY <2>7, <2>8, Zenon
<1>4. PICK x \in Nat, y \in Nat, w \in Nat : x = U * t /\ y = s * q /\ w = r * U
  BY <1>1
<1>5. p * (p * x) <= k * (k * w)
  <2>1. p * x <= k * y /\ p * y <= k * w  BY <1>2, <1>3, <1>4, Zenon
  <2>. QED  BY <1>2, <2>1, BoundAfterBound
<1>6. p * (p * x) = U * (p * (p * t)) /\ k * (k * w) = U * (k * (k * r))
  <2>1. p * (p * (U * t)) = U * (p * (p * t))  BY <1>1
  <2>2. k * (k * (r * U)) = U * (k * (k * r))
    <3>1. r * U = U * r  BY <1>1
    <3>2. k * (k * (U * r)) = U * (k * (k * r))  BY <1>1, <1>2
    <3>. QED  BY <3>1, <3>2, Zenon
  <2>. QED  BY <1>4, <2>1, <2>2, Zenon
<1>7. p * (p * t) <= k * (k * r)
  <2>1. PICK a \in Nat, b \in Nat : a = p * (p * t) /\ b = k * (k * r)
    BY <1>1, <1>2
  <2>2. U * a <= U * b  BY <1>5, <1>6, <2>1, Zenon
  <2>3. a <= b  BY <2>1, <2>2, FactorOut
  <2>. QED  BY <2>1, <2>3, Zenon
<1>. QED  BY <1>2, <1>7, Zenon

\* So it is large for a target above 1.
LEMMA QuotientIsLarge ==
    ASSUME NEW p \in Nat, p >= 2, NEW t \in Nat, t > 4 * p, NEW r \in Nat,
           p * (p * t) <= (p + 1) * ((p + 1) * r)
    PROVE  p < r
<1>. SUFFICES ASSUME r <= p PROVE FALSE  OBVIOUS
<1>1. \A i, j \in Nat : i * j \in Nat  BY Z3
<1>2. PICK k \in Nat, m \in Nat : k = p + 1 /\ m = 2 * p /\ k <= m  OBVIOUS
<1>3. k * r <= k * p /\ k * r \in Nat /\ k * p \in Nat  BY <1>2, ProductGrows
<1>4. k * p <= m * p /\ m * p \in Nat
  <2>1. p * k <= p * m  BY <1>2, ProductGrows
  <2>2. p * k = k * p /\ p * m = m * p  BY <1>2, Z3
  <2>. QED  BY <1>1, <1>2, <2>1, <2>2
<1>5. PICK x \in Nat, y \in Nat : x = k * r /\ y = m * p /\ x <= y
  <2>1. k * r <= m * p  BY <1>3, <1>4
  <2>. QED  BY <1>3, <1>4, <2>1
<1>6. k * x <= k * y /\ k * x \in Nat /\ k * y \in Nat  BY <1>2, <1>5, ProductGrows
<1>7. k * y <= m * y /\ m * y \in Nat
  <2>1. y * k <= y * m  BY <1>2, <1>5, ProductGrows
  <2>2. y * k = k * y /\ y * m = m * y  BY <1>2, <1>5, Z3
  <2>. QED  BY <1>1, <1>2, <1>5, <2>1, <2>2
<1>8. m * y = p * (p * (4 * p))
  <2>1. (2 * p) * ((2 * p) * p) = p * (p * (4 * p))  BY Z3
  <2>. QED  BY <1>2, <1>5, <2>1, Zenon
<1>9. p * (4 * p) < p * t /\ p * (4 * p) \in Nat /\ p * t \in Nat
  <2>1. p \in Nat \ {0} /\ 4 * p \in Nat  OBVIOUS
  <2>. QED  BY <2>1, ProductGrowsStrictly
<1>10. p * (p * (4 * p)) < p * (p * t)
  <2>1. p \in Nat \ {0}  OBVIOUS
  <2>. QED  BY <1>9, <2>1, ProductGrowsStrictly
<1>11. p * (p * t) <= k * x  BY <1>2, <1>5, Zenon
<1>12. PICK a \in Nat, b \in Nat, c \in Nat :
          a = p * (p * t) /\ b = k * x /\ c = m * y
  BY <1>1, <1>6, <1>7
<1>13. a <= b /\ b <= c /\ c < a
  <2>1. a <= b  BY <1>11, <1>12, Zenon
  <2>2. b <= c  BY <1>6, <1>7, <1>12
  <2>3. c < a  BY <1>8, <1>10, <1>12, Zenon
  <2>. QED  BY <2>1, <2>2, <2>3
<1>. QED  BY <1>12, <1>13

\* And with the quotient by the draw a target was paid for.
LEMMA ThreeRoundings ==
    ASSUME NEW p \in Nat, NEW t \in Nat, NEW r \in Nat, NEW u \in Nat, NEW a \in Nat,
           p * (p * t) <= (p + 1) * ((p + 1) * r), p * (u * r) <= (p + 1) * a
    PROVE  (t * Cube(p)) * u <= a * Cube(p + 1)
<1>1. \A i, j, m \in Nat : i * j \in Nat /\ i * (j * m) = j * (i * m) /\ i * j = j * i
  BY Z3
<1>2. PICK k \in Nat : k = p + 1  OBVIOUS
<1>3. (p * u) * (p * (p * t)) <= (p * u) * (k * (k * r))
  <2>1. p * (p * t) \in Nat /\ k * (k * r) \in Nat /\ p * u \in Nat  BY <1>1, <1>2
  <2>2. p * (p * t) <= k * (k * r)  BY <1>2, Zenon
  <2>. QED  BY <2>1, <2>2, ProductGrows
<1>4. (k * k) * (p * (u * r)) <= (k * k) * (k * a)
  <2>1. p * (u * r) \in Nat /\ k * a \in Nat /\ k * k \in Nat  BY <1>1, <1>2
  <2>2. p * (u * r) <= k * a  BY <1>2, Zenon
  <2>. QED  BY <2>1, <2>2, ProductGrows
<1>5. (p * u) * (k * (k * r)) = (k * k) * (p * (u * r))
  BY <1>2, Z3
<1>6. (p * u) * (p * (p * t)) = (t * Cube(p)) * u
  BY Z3 DEF Cube
<1>7. (k * k) * (k * a) = a * Cube(k)
  BY <1>2, Z3 DEF Cube
<1>8. PICK x \in Nat, y \in Nat, z \in Nat :
         x = (p * u) * (p * (p * t)) /\ y = (k * k) * (p * (u * r))
         /\ z = (k * k) * (k * a)
  <2>1. /\ (p * u) * (p * (p * t)) \in Nat /\ (k * k) * (p * (u * r)) \in Nat
        /\ (k * k) * (k * a) \in Nat
    BY <1>1, <1>2
  <2>. QED  BY <2>1
<1>9. x <= y /\ y <= z  BY <1>3, <1>4, <1>5, <1>8, Zenon
<1>10. x <= z  BY <1>8, <1>9
<1>. QED  BY <1>2, <1>6, <1>7, <1>8, <1>10, Zenon

\* A quotient that has paid for a target, two roundings aside, holds the steps
\* the target is.
LEMMA StepsArePaid ==
    ASSUME NEW p \in Nat \ {0}, NEW U \in Nat, NEW t \in Nat, NEW r \in Nat,
           NEW u \in Nat \ {0}, NEW a \in Nat, NEW n \in Nat,
           (t * Cube(p + 1)) * u <= a * Cube(p), p * a <= (p + 1) * (u * r),
           p * n <= (p + 1) * (U * t)
    PROVE  n <= r * U
<1>1. \A i, j, m \in Nat : i * j \in Nat /\ i * (j * m) = j * (i * m) /\ i * j = j * i
  BY Z3
<1>2. PICK k \in Nat \ {0} : k = p + 1 /\ p <= k  OBVIOUS
<1>3. k * (k * t) <= p * (p * r)
  <2>1. (p * p) * (p * a) <= (p * p) * (k * (u * r))
    <3>1. p * p \in Nat /\ p * a \in Nat /\ k * (u * r) \in Nat  BY <1>1, <1>2
    <3>2. p * a <= k * (u * r)  BY <1>2, Zenon
    <3>. QED  BY <3>1, <3>2, ProductGrows
  <2>2. (p * p) * (p * a) = a * Cube(p)  BY Z3 DEF Cube
  <2>3. (p * p) * (k * (u * r)) = (k * u) * (p * (p * r))  BY <1>2, Z3
  <2>4. (t * Cube(k)) * u = (k * u) * (k * (k * t))  BY <1>2, Z3 DEF Cube
  <2>5. (t * Cube(k)) * u <= a * Cube(p)  BY <1>2, Zenon
  <2>6. PICK x \in Nat, y \in Nat, c \in Nat \ {0}, d \in Nat :
           x = k * (k * t) /\ y = p * (p * r) /\ c = k * u /\ d = a * Cube(p)
    <3>1. k * (k * t) \in Nat /\ p * (p * r) \in Nat  BY <1>1, <1>2
    <3>2. k * u \in Nat \ {0}  BY <1>2, Z3
    <3>3. a * Cube(p) \in Nat  BY <1>1 DEF Cube
    <3>. QED  BY <3>1, <3>2, <3>3
  <2>7. c * x <= d /\ d <= c * y
    BY <2>1, <2>2, <2>3, <2>4, <2>5, <2>6, Zenon
  <2>8. c * x <= c * y
    <3>1. c * x \in Nat /\ c * y \in Nat  BY <1>1, <2>6
    <3>. QED  BY <2>6, <2>7, <3>1
  <2>9. x <= y  BY <2>6, <2>8, FactorOut
  <2>. QED  BY <2>6, <2>9, Zenon
<1>4. k * (p * n) <= k * (k * (U * t))
  <2>1. p * n \in Nat /\ k * (U * t) \in Nat  BY <1>1, <1>2
  <2>2. p * n <= k * (U * t)  BY <1>2, Zenon
  <2>. QED  BY <1>2, <2>1, <2>2, ProductGrows
<1>5. U * (k * (k * t)) <= U * (p * (p * r))
  <2>1. k * (k * t) \in Nat /\ p * (p * r) \in Nat  BY <1>1, <1>2
  <2>. QED  BY <1>3, <2>1, ProductGrows
<1>6. k * (k * (U * t)) = U * (k * (k * t))  BY <1>1, <1>2
<1>7. k * (p * n) = p * (k * n) /\ U * (p * (p * r)) = p * (p * (r * U))
  <2>1. k * (p * n) = p * (k * n)  BY <1>1, <1>2
  <2>2. U * (p * (p * r)) = p * (p * (r * U))  BY Z3
  <2>. QED  BY <2>1, <2>2
<1>8. PICK x \in Nat, y \in Nat, z \in Nat :
         x = k * n /\ y = p * (r * U) /\ z = U * (k * (k * t))
  <2>1. k * n \in Nat /\ p * (r * U) \in Nat /\ U * (k * (k * t)) \in Nat
    BY <1>1, <1>2
  <2>. QED  BY <2>1
<1>9. p * x <= z /\ z <= p * y  BY <1>4, <1>5, <1>6, <1>7, <1>8, Zenon
<1>10. x <= y
  <2>1. p * x \in Nat /\ p * y \in Nat  BY <1>1, <1>8
  <2>2. p * x <= p * y  BY <1>8, <1>9, <2>1
  <2>. QED  BY <1>8, <2>2, FactorOut
<1>11. PICK m \in Nat : m = r * U  BY <1>1
<1>12. p * m <= k * m
  <2>1. m * p <= m * k  BY <1>2, <1>11, ProductGrows
  <2>2. m * p = p * m /\ m * k = k * m  BY <1>1, <1>2, <1>11
  <2>. QED  BY <2>1, <2>2, Zenon
<1>13. k * n <= k * m
  <2>1. k * n \in Nat /\ p * m \in Nat /\ k * m \in Nat  BY <1>1, <1>2, <1>11
  <2>2. k * n <= p * m  BY <1>8, <1>10, <1>11, Zenon
  <2>. QED  BY <1>12, <2>1, <2>2
<1>14. n <= m  BY <1>2, <1>11, <1>13, FactorOut
<1>. QED  BY <1>11, <1>14, Zenon

\* The multiples of n that are not above a are n times 1, 2, ... a \div n.
LEMMA MultiplesAre ==
    ASSUME NEW a \in Nat, NEW n \in Nat \ {0}, NEW v \in Nat \ {0}
    PROVE  n * v <= a <=> v <= a \div n
<1>1. /\ a \div n \in Nat
      /\ n * (a \div n) <= a /\ a < n * (a \div n + 1)
  BY DivisionIs
<1>2. PICK q \in Nat : q = a \div n  BY <1>1
<1>3. ASSUME v <= q PROVE n * v <= a
  <2>1. n * v \in Nat /\ n * q \in Nat /\ n * v <= n * q  BY <1>3, ProductGrows
  <2>. QED  BY <1>1, <1>2, <2>1
<1>4. ASSUME ~(v <= q) PROVE ~(n * v <= a)
  <2>1. q + 1 <= v  BY <1>4
  <2>2. n * (q + 1) \in Nat /\ n * v \in Nat /\ n * (q + 1) <= n * v
    BY <2>1, ProductGrows
  <2>. QED  BY <1>1, <1>2, <2>2
<1>. QED  BY <1>2, <1>3, <1>4

\* As many as that there are.
LEMMA MultiplesAreFew ==
    ASSUME NEW a \in Nat, NEW n \in Nat \ {0}, NEW T \in SUBSET (Nat \ {0}),
           \A v \in T : n * v <= a
    PROVE  /\ IsFiniteSet(T) /\ Cardinality(T) \in Nat
           /\ n * Cardinality(T) <= a
<1>1. PICK q \in Nat : q = a \div n /\ n * q <= a  BY DivisionIs
<1>2. T \in SUBSET (1..q)
  <2>1. ASSUME NEW v \in T PROVE v \in 1..q
    <3>1. v \in Nat \ {0} /\ n * v <= a  OBVIOUS
    <3>2. v <= q  BY <1>1, <3>1, MultiplesAre
    <3>. QED  BY <3>1, <3>2
  <2>. QED  BY <2>1
<1>3. IsFiniteSet(1..q) /\ Cardinality(1..q) = q  BY FS_Interval
<1>4. IsFiniteSet(T) /\ Cardinality(T) <= q  BY <1>2, <1>3, FS_Subset
<1>5. Cardinality(T) \in Nat  BY <1>4, FS_CardinalityType
<1>6. n * Cardinality(T) <= n * q /\ n * q \in Nat /\ n * Cardinality(T) \in Nat
  BY <1>4, <1>5, ProductGrows
<1>. QED  BY <1>1, <1>4, <1>5, <1>6

------------------------------------------------------------------------------
(* What a target pays back.                                                  *)

\* The cubes of a significand bound and of the next number.
LEMMA CubesAre ==
    /\ Cube(Precision) \in Nat \ {0} /\ Cube(Precision + 1) \in Nat \ {0}
    /\ Cube(Precision) <= Cube(Precision + 1)
<1>1. PICK p \in Nat \ {0} : p = Precision  BY InfinityIs
<1>2. \A i, j \in Nat \ {0} : i * j \in Nat \ {0}  BY Z3
<1>3. PICK q \in Nat \ {0} : q = p * p  BY <1>2
<1>4. PICK k \in Nat \ {0} : k = p + 1  OBVIOUS
<1>5. PICK l \in Nat \ {0} : l = k * k  BY <1>2
<1>6. q <= l
  <2>1. l = p * p + 2 * p + 1  BY <1>4, <1>5, Z3
  <2>. QED  BY <1>3, <2>1
<1>7. q * p \in Nat \ {0} /\ l * k \in Nat \ {0} /\ q * p <= l * k
  <2>1. p * q <= p * l /\ p * q \in Nat /\ p * l \in Nat  BY <1>6, ProductGrows
  <2>2. l * p <= l * k /\ l * p \in Nat /\ l * k \in Nat  BY <1>4, ProductGrows
  <2>3. \A i, j \in Nat : i * j = j * i  BY Z3
  <2>4. p * q = q * p /\ p * l = l * p  BY <2>3
  <2>5. q * p \in Nat \ {0} /\ l * k \in Nat \ {0}  BY <1>2
  <2>6. q * p <= l * p  BY <2>1, <2>4, Zenon
  <2>. QED  BY <2>2, <2>5, <2>6
<1>8. Cube(Precision) = q * p /\ Cube(Precision + 1) = l * k
  BY <1>1, <1>3, <1>4, <1>5, Zenon DEF Cube
<1>. QED  BY <1>7, <1>8, Zenon

\* Limbo's floats are these.
LEMMA LimboRounds ==
    /\ L!Infinity = Infinity
    /\ \A n, d : L!Rounded(n, d) = Rounded(n, d)
    /\ \A x, y : L!Times(x, y) = Times(x, y)
    /\ \A x, y : L!Over(x, y) = Over(x, y)
    /\ \A x : L!Whole(x) = Whole(x)
<1>1. L!Widest = Widest  BY Zenon DEF L!Widest, Widest
<1>2. L!Infinity = Infinity  BY <1>1, Zenon DEF L!Infinity, Infinity
<1>3. ASSUME NEW x PROVE L!Spacing(x) = Spacing(x)
  BY Zenon DEF L!Spacing, Spacing
<1>4. L!Nearest = Nearest
  BY <1>2, <1>3, Zenon DEF L!Nearest, Nearest
<1>5. \A n, d : L!Rounded(n, d) = Rounded(n, d)
  BY <1>4, Zenon DEF L!Rounded, Rounded
<1>6. \A x, y : L!Times(x, y) = Times(x, y)
  BY <1>2, <1>5, Zenon DEF L!Times, Times
<1>7. \A x, y : L!Over(x, y) = Over(x, y)
  BY <1>2, <1>5, Zenon DEF L!Over, Over
<1>8. \A x : L!Whole(x) = Whole(x)
  BY <1>2, Zenon DEF L!Whole, Whole
<1>. QED  BY <1>2, <1>5, <1>6, <1>7, <1>8

\* The numbers of an accepted limbo engine.
LEMMA LimboNumbers ==
    ASSUME NEW c \in Engines, c.game = "limbo"
    PROVE  /\ {c.rtp, c.min, c.max, c.step, c.target} \subseteq FiniteFloats
           /\ c.rtp \in 1..Unit /\ c.min \in Nat \ {0} /\ c.min >= Unit
           /\ c.max \in Nat /\ c.step \in Nat \ {0} /\ c.target \in Nat \ {0}
           /\ c.step < Infinity /\ c.target < Infinity
           /\ c.min <= c.target /\ c.target <= c.max
           /\ Grains["limbo"] \in Nat \ {0} /\ Unit \in Nat \ {0}
<1>1. L!Valid(c)  BY EnginesAreValid
<1>2. Unit \in Nat \ {0} /\ Infinity \in Nat /\ Grains["limbo"] \in Nat \ {0}
  BY InfinityIs, InstantAssumption, GamesAssumption
<1>3. L!FiniteFloats = FiniteFloats  BY DEF L!FiniteFloats, FiniteFloats
<1>4. /\ {c.rtp, c.min, c.max, c.step, c.target} \subseteq FiniteFloats \ {0}
      /\ c.rtp <= Unit /\ c.min >= Unit
      /\ c.min <= c.target /\ c.target <= c.max
  BY <1>1, <1>3, Zenon DEF L!Valid
<1>5. \A f \in FiniteFloats \ {0} : f \in Nat \ {0} /\ f < Infinity
  BY FloatsAre
<1>6. /\ c.rtp \in Nat \ {0} /\ c.min \in Nat \ {0} /\ c.max \in Nat \ {0}
      /\ c.step \in Nat \ {0} /\ c.target \in Nat \ {0}
      /\ c.step < Infinity /\ c.target < Infinity
  BY <1>4, <1>5
<1>7. {c.rtp, c.min, c.max, c.step, c.target} \subseteq FiniteFloats
  BY <1>4, Zenon
<1>8. c.rtp \in 1..Unit  BY <1>2, <1>4, <1>6
<1>. QED  BY <1>2, <1>4, <1>6, <1>7, <1>8, Zenon

\* A number's whole part is the largest whole number in it.
LEMMA WholeIs ==
    ASSUME NEW x \in Nat, x < Infinity
    PROVE  /\ Whole(x) \in Nat /\ Whole(x) <= x
           /\ Whole(x) # 0 => Unit <= Whole(x)
           /\ \A f \in Nat : f < Infinity /\ f = Whole(f) /\ f <= x => f <= Whole(x)
<1>1. Unit \in Nat \ {0} /\ Infinity \in Nat  BY InfinityIs
<1>2. ASSUME NEW y \in Nat, y < Infinity
      PROVE  \E q \in Nat : /\ y \div Unit = q /\ Whole(y) = Unit * q
                            /\ Unit * q \in Nat /\ Unit * q <= y
                            /\ y < Unit * q + Unit
  <2>1. PICK q \in Nat, r \in 0..(Unit - 1) :
            y = Unit * q + r /\ q = y \div Unit /\ r = y % Unit
    BY <1>1, DivMod
  <2>2. PICK m \in Nat : m = Unit * q  BY <1>1, Z3
  <2>3. Whole(y) = y - r  BY <1>1, <1>2, <2>1 DEF Whole
  <2>4. y = m + r  BY <2>1, <2>2, Zenon
  <2>5. Whole(y) = m /\ m <= y /\ y < m + Unit  BY <1>1, <2>3, <2>4
  <2>. QED  BY <2>1, <2>2, <2>5, Zenon
<1>3. PICK q \in Nat : /\ Whole(x) = Unit * q /\ Unit * q \in Nat
                       /\ Unit * q <= x /\ x < Unit * q + Unit
  BY <1>2
<1>4. ASSUME Whole(x) # 0 PROVE Unit <= Whole(x)
  <2>1. Unit * 0 = 0 /\ Unit * 1 = Unit
    <3>1. \A i \in Nat : i * 0 = 0 /\ i * 1 = i  OBVIOUS
    <3>. QED  BY <1>1, <3>1
  <2>2. q # 0  BY <1>3, <1>4, <2>1, Zenon
  <2>3. 1 \in Nat /\ 1 <= q  BY <2>2
  <2>4. Unit * 1 <= Unit * q  BY <1>1, <2>3, ProductGrows
  <2>. QED  BY <1>3, <2>1, <2>4, Zenon
<1>5. ASSUME NEW f \in Nat, f < Infinity, f = Whole(f), f <= x PROVE f <= Whole(x)
  <2>1. PICK k \in Nat : f = Unit * k  BY <1>2, <1>5
  <2>2. k <= q
    <3>1. SUFFICES ASSUME q + 1 <= k PROVE FALSE  OBVIOUS
    <3>2. Unit * (q + 1) <= Unit * k  BY <1>1, <3>1, ProductGrows
    <3>3. Unit * (q + 1) = Unit * q + Unit  BY <1>1, Z3
    <3>4. Unit * q + Unit <= f  BY <2>1, <3>2, <3>3, Zenon
    <3>. QED  BY <1>1, <1>3, <1>5, <3>4
  <2>3. Unit * k <= Unit * q  BY <1>1, <2>2, ProductGrows
  <2>. QED  BY <1>3, <2>1, <2>3, Zenon
<1>. QED  BY <1>3, <1>4, <1>5

\* A draw wins when what is left of it after the steps reaches the target.
LEMMA WonIs ==
    ASSUME NEW c \in Engines, c.game = "limbo", c.target > c.min,
           NEW u \in Nat \ {0}, NEW s \in Nat, s = L!Stepped(c, u)
    PROVE  L!Won(c, u) <=> s >= c.target
<1>1. c.min \in Nat /\ c.max \in Nat /\ c.target \in Nat /\ c.target <= c.max
  BY LimboNumbers
<1>2. L!Won(c, u) <=>
         (IF (IF s > c.max THEN c.max ELSE s) < c.min THEN c.min
          ELSE IF s > c.max THEN c.max ELSE s) >= c.target
  BY DEF L!Won, L!Multiplier
<1>. QED  BY <1>1, <1>2

\* A quotient r in steps of s: rounded, floored, and multiplied out again.
SteppedBy(r, s) == Times(Whole(Over(r, s)), s)

\* What comes of it is a float; nothing if the quotient in steps is below 1.
LEMMA SteppedIs ==
    ASSUME NEW r \in Nat, NEW s \in Nat \ {0}, s < Infinity,
           NEW q \in Nat, q = Rounded(r * Unit, s)
    PROVE  /\ r = Infinity => SteppedBy(r, s) = Infinity
           /\ r # Infinity /\ q = Infinity => SteppedBy(r, s) = Infinity
           /\ r # Infinity /\ q < Infinity
                 => SteppedBy(r, s) = Rounded(Whole(q) * s, Unit)
<1>1. Infinity \in Nat /\ s # Infinity  BY InfinityIs
<1>2. Over(r, s) = IF r = Infinity THEN Infinity ELSE q
  BY <1>1, Zenon DEF Over
<1>3. Whole(Infinity) = Infinity  BY Zenon DEF Whole
<1>4. Times(Infinity, s) = Infinity  BY Zenon DEF Times
<1>5. ASSUME q < Infinity PROVE Times(Whole(q), s) = Rounded(Whole(q) * s, Unit)
  <2>1. Whole(q) \in Nat /\ Whole(q) <= q  BY <1>5, WholeIs
  <2>2. Whole(q) # Infinity  BY <1>1, <1>5, <2>1
  <2>. QED  BY <1>1, <2>2, Zenon DEF Times
<1>. QED  BY <1>2, <1>3, <1>4, <1>5, Zenon DEF SteppedBy

\* A quotient whose steps reach a target above 1, as the steps to it can be
\* counted, is not much less than it.
LEMMA StepsArePaidFor ==
    ASSUME NEW r \in Floats, NEW s \in Nat \ {0}, s < Infinity,
           NEW t \in Nat, t > Unit, t < Infinity, Over(t, s) < Infinity,
           t <= SteppedBy(r, s)
    PROVE  /\ r \in Nat
           /\ Precision * (Precision * t) <= (Precision + 1) * ((Precision + 1) * r)
<1>1. /\ r \in Nat /\ Unit \in Nat \ {0} /\ Infinity \in Nat
      /\ Precision \in Nat \ {0} /\ 4 * Precision <= Unit
  BY FloatsAre, InfinityIs, SpacingsAre
<1>2. CASE t <= r
  <2>1. PICK p \in Nat, k \in Nat : p = Precision /\ k = Precision + 1 /\ p <= k
    BY <1>1
  <2>2. p * t <= p * r /\ p * t \in Nat /\ p * r \in Nat  BY <1>2, <1>1, <2>1, ProductGrows
  <2>3. r * p <= r * k /\ r * p \in Nat /\ r * k \in Nat  BY <1>1, <2>1, ProductGrows
  <2>4. PICK a \in Nat, b \in Nat : a = p * t /\ b = k * r /\ a <= b
    <3>1. \A i, j \in Nat : i * j = j * i  BY Z3
    <3>2. r * p = p * r /\ r * k = k * r  BY <1>1, <2>1, <3>1
    <3>. QED  BY <2>2, <2>3, <3>2
  <2>5. p * a <= p * b /\ p * a \in Nat /\ p * b \in Nat  BY <2>1, <2>4, ProductGrows
  <2>6. b * p <= b * k /\ b * p \in Nat /\ b * k \in Nat  BY <2>1, <2>4, ProductGrows
  <2>7. p * a <= k * b
    <3>1. \A i, j \in Nat : i * j = j * i  BY Z3
    <3>2. b * p = p * b /\ b * k = k * b  BY <2>1, <2>4, <3>1
    <3>. QED  BY <2>5, <2>6, <3>2
  <2>. QED  BY <1>1, <2>1, <2>4, <2>7, Zenon
<1>3. CASE ~(t <= r)
  <2>1. r < t /\ r <= t /\ r # Infinity /\ t # Infinity /\ s # Infinity
    BY <1>1, <1>3
  <2>2. PICK x \in Nat, y \in Nat : x = r * Unit /\ y = t * Unit /\ x <= y
    <3>1. /\ Unit * r \in Nat /\ Unit * t \in Nat /\ Unit * r <= Unit * t
      BY <1>1, <2>1, ProductGrows
    <3>2. \A i, j \in Nat : i * j = j * i  BY Z3
    <3>3. r * Unit = Unit * r /\ t * Unit = Unit * t  BY <1>1, <3>2
    <3>. QED  BY <3>1, <3>3
  <2>3. PICK q \in Nat : q = Rounded(x, s) /\ q < Infinity
    <3>1. Rounded(x, s) <= Rounded(y, s)  BY <2>2, RoundedGrows
    <3>2. Rounded(x, s) \in Nat /\ Rounded(y, s) \in Nat  BY <2>2, RoundedIsFloat
    <3>3. Over(t, s) = Rounded(y, s)  BY <2>1, <2>2, Zenon DEF Over
    <3>. QED  BY <1>1, <3>1, <3>2, <3>3
  <2>4. PICK v \in Nat : v = Whole(q) /\ v <= q /\ (v # 0 => Unit <= v)
    BY <2>3, WholeIs
  <2>5. PICK n \in Nat : n = v * s
    <3>1. \A i, j \in Nat : i * j \in Nat  BY Z3
    <3>. QED  BY <2>4, <3>1
  <2>6. PICK z \in Nat : z = Rounded(n, Unit) /\ t <= z
    <3>1. Rounded(n, Unit) \in Nat  BY <1>1, <2>5, RoundedIsFloat
    <3>2. SteppedBy(r, s) = Rounded(Whole(q) * s, Unit)
      BY <1>1, <2>1, <2>2, <2>3, SteppedIs
    <3>3. SteppedBy(r, s) = Rounded(n, Unit)  BY <2>4, <2>5, <3>2, Zenon
    <3>. QED  BY <3>1, <3>3
  <2>7. Precision * Unit <= n
    <3>1. Precision < Rounded(n, Unit)  BY <1>1, <2>6
    <3>. QED  BY <1>1, <3>1, LargeFromLarge
  <2>8. Precision * (Unit * z) <= (Precision + 1) * n
    BY <1>1, <2>6, <2>7, NotMuchMore
  <2>9. v # 0
    <3>1. SUFFICES ASSUME v = 0 PROVE FALSE  OBVIOUS
    <3>2. n = 0  BY <2>5, <3>1
    <3>3. \A i, j \in Nat \ {0} : i * j \in Nat \ {0}  BY Z3
    <3>4. Precision * Unit \in Nat \ {0}  BY <1>1, <3>3
    <3>. QED  BY <2>7, <3>2, <3>4
  <2>10. Precision < q  BY <1>1, <2>4, <2>9
  <2>11. Precision * s <= x
    <3>1. Precision < Rounded(x, s)  BY <2>3, <2>10
    <3>. QED  BY <2>2, <3>1, LargeFromLarge
  <2>12. Precision * (s * q) <= (Precision + 1) * (r * Unit)
    <3>1. Precision * (s * q) <= (Precision + 1) * x  BY <2>2, <2>3, <2>11, NotMuchMore
    <3>. QED  BY <2>2, <3>1, Zenon
  <2>13. Precision * (Unit * z) <= (Precision + 1) * (v * s)
    BY <2>5, <2>8, Zenon
  <2>. QED  BY <1>1, <2>4, <2>6, <2>12, <2>13, SteppedIsNotMuchMore
<1>. QED  BY <1>2, <1>3

\* A draw other than 0 that wins has paid for its target, to within the three
\* roundings.
LEMMA WinnersPay ==
    ASSUME NEW c \in Engines, c.game = "limbo", c.target > c.min,
           Over(c.target, c.step) < Infinity, NEW u \in Nat \ {0}, L!Won(c, u)
    PROVE  (c.target * Cube(Precision)) * u
              <= (c.rtp * Grains["limbo"]) * Cube(Precision + 1)
<1>1. /\ c.rtp \in Nat \ {0} /\ c.min \in Nat \ {0} /\ c.min >= Unit
      /\ c.step \in Nat \ {0} /\ c.target \in Nat \ {0} /\ c.step < Infinity
      /\ c.target < Infinity /\ c.min < c.target /\ Grains["limbo"] \in Nat \ {0}
      /\ Unit \in Nat \ {0} /\ Precision \in Nat \ {0} /\ 4 * Precision <= Unit
  BY LimboNumbers, InfinityIs, SpacingsAre
<1>2. c.target > Unit /\ c.target > 4 * Precision /\ Precision >= 2
  <2>1. PICK h \in Nat \ {0} : Precision = 2 * h  BY SpacingsAre
  <2>. QED  BY <1>1, <2>1
<1>3. PICK a \in Nat : a = c.rtp * Grains["limbo"]
  <2>1. \A x, y \in Nat \ {0} : x * y \in Nat  BY Z3
  <2>. QED  BY <1>1, <2>1
<1>4. PICK r : r = Rounded(a, u) /\ r \in Floats /\ r \in Nat  BY <1>3, RoundedIsFloat
<1>5. L!Stepped(c, u) = SteppedBy(r, c.step)
  <2>1. L!Raw(c, u) = r  BY <1>3, <1>4, LimboRounds, Zenon DEF L!Raw
  <2>. QED  BY <2>1, LimboRounds, Zenon DEF L!Stepped, SteppedBy
<1>6. SteppedBy(r, c.step) \in Nat
  <2>1. PICK x \in Nat : x = r * Unit
    <3>1. \A i, j \in Nat : i * j \in Nat  BY Z3
    <3>. QED  BY <1>1, <1>4, <3>1
  <2>2. PICK q \in Nat : q = Rounded(x, c.step) /\ q <= Infinity
    BY <1>1, <2>1, RoundedIsFloat
  <2>3. CASE r # Infinity /\ q < Infinity
    <3>1. SteppedBy(r, c.step) = Rounded(Whole(q) * c.step, Unit)
      BY <1>1, <1>4, <2>1, <2>2, <2>3, SteppedIs
    <3>2. Whole(q) \in Nat  BY <2>2, <2>3, WholeIs
    <3>3. Whole(q) * c.step \in Nat
      <4>1. \A i, j \in Nat : i * j \in Nat  BY Z3
      <4>. QED  BY <1>1, <3>2, <4>1
    <3>. QED  BY <1>1, <3>1, <3>3, RoundedIsFloat
  <2>4. CASE r = Infinity \/ ~(q < Infinity)
    <3>1. Infinity \in Nat  BY InfinityIs
    <3>2. r = Infinity \/ q = Infinity  BY <2>2, <2>4, <3>1
    <3>3. SteppedBy(r, c.step) = Infinity
      BY <1>1, <1>4, <2>1, <2>2, <3>2, SteppedIs
    <3>. QED  BY <3>1, <3>3
  <2>. QED  BY <2>3, <2>4
<1>7. c.target <= SteppedBy(r, c.step)  BY <1>1, <1>5, <1>6, WonIs
<1>8. Precision * (Precision * c.target) <= (Precision + 1) * ((Precision + 1) * r)
  BY <1>1, <1>2, <1>4, <1>7, StepsArePaidFor
<1>9. Precision < r  BY <1>1, <1>2, <1>4, <1>8, QuotientIsLarge
<1>10. Precision * (u * r) <= (Precision + 1) * a
  <2>1. Precision * u <= a  BY <1>3, <1>4, <1>9, LargeFromLarge
  <2>. QED  BY <1>3, <1>4, <2>1, NotMuchMore
<1>11. (c.target * Cube(Precision)) * u <= a * Cube(Precision + 1)
  <2>1. Precision \in Nat /\ c.target \in Nat /\ u \in Nat  BY <1>1
  <2>. QED  BY <1>3, <1>4, <1>8, <1>10, <2>1, ThreeRoundings
<1>. QED  BY <1>3, <1>11, Zenon

\* A draw other than 0 that has paid for a target of so many steps, with
\* something left for the roundings, wins.
LEMMA PayersWin ==
    ASSUME NEW c \in Engines, c.game = "limbo", c.target > c.min,
           NEW f \in FiniteFloats, f = Whole(f), Times(f, c.step) = c.target,
           NEW u \in Nat \ {0},
           (c.target * Cube(Precision + 1)) * u
              <= (c.rtp * Grains["limbo"]) * Cube(Precision)
    PROVE  L!Won(c, u)
<1>1. /\ c.rtp \in Nat \ {0} /\ c.min \in Nat \ {0} /\ c.min >= Unit
      /\ c.step \in Nat \ {0} /\ c.target \in Nat \ {0} /\ c.step < Infinity
      /\ c.target < Infinity /\ c.min < c.target /\ Grains["limbo"] \in Nat \ {0}
      /\ Unit \in Nat \ {0} /\ Precision \in Nat \ {0} /\ 4 * Precision <= Unit
      /\ Infinity \in Nat
  BY LimboNumbers, InfinityIs, SpacingsAre
<1>2. c.target > Unit /\ Precision < c.target  BY <1>1
<1>3. PICK a \in Nat : a = c.rtp * Grains["limbo"]
  <2>1. \A x, y \in Nat \ {0} : x * y \in Nat  BY Z3
  <2>. QED  BY <1>1, <2>1
<1>4. PICK r \in Nat : r = Rounded(a, u) /\ r <= Infinity
  BY <1>3, RoundedIsFloat
<1>5. L!Stepped(c, u) = SteppedBy(r, c.step)
  <2>1. L!Raw(c, u) = r  BY <1>3, <1>4, LimboRounds, Zenon DEF L!Raw
  <2>. QED  BY <2>1, LimboRounds, Zenon DEF L!Stepped, SteppedBy
<1>6. f \in Nat /\ f < Infinity /\ f \in Floats  BY FloatsAre
<1>7. PICK x \in Nat, n \in Nat : x = r * Unit /\ n = f * c.step
  <2>1. \A i, j \in Nat : i * j \in Nat  BY Z3
  <2>. QED  BY <1>1, <1>4, <1>6, <2>1
<1>8. PICK q \in Nat : q = Rounded(x, c.step) /\ q <= Infinity
  BY <1>1, <1>7, RoundedIsFloat
<1>9. CASE r = Infinity \/ q = Infinity
  <2>1. SteppedBy(r, c.step) = Infinity  BY <1>1, <1>4, <1>7, <1>8, <1>9, SteppedIs
  <2>. QED  BY <1>1, <1>5, <2>1, WonIs
<1>10. CASE r < Infinity /\ q < Infinity
  <2>1. c.target = Rounded(n, Unit)
    <3>1. f # Infinity /\ c.step # Infinity  BY <1>1, <1>6
    <3>. QED  BY <1>7, <3>1, Zenon DEF Times
  <2>2. Precision * n <= (Precision + 1) * (Unit * c.target)
    <3>1. Precision * Unit <= n  BY <1>1, <1>2, <1>7, <2>1, LargeFromLarge
    <3>2. Rounded(n, Unit) < Infinity  BY <1>1, <2>1
    <3>3. Precision * n <= (Precision + 1) * (Unit * Rounded(n, Unit))
      BY <1>1, <1>7, <3>1, <3>2, NotMuchLess
    <3>. QED  BY <2>1, <3>3, Zenon
  <2>3. PICK y \in Nat \ {0}, z \in Nat \ {0} :
           y = Cube(Precision) /\ z = Cube(Precision + 1) /\ y <= z
    BY CubesAre
  <2>4. (c.target * z) * u <= a * y  BY <1>3, <2>3, Zenon
  <2>5. Precision * u <= a
    <3>1. PICK w \in Nat : w = c.target * u /\ Precision * u <= w
      <4>1. Precision \in Nat /\ Precision <= c.target  BY <1>1, <1>2
      <4>2. /\ u * Precision \in Nat /\ u * c.target \in Nat
            /\ u * Precision <= u * c.target
        BY <1>1, <4>1, ProductGrows
      <4>3. \A i, j \in Nat : i * j = j * i  BY Z3
      <4>4. u * Precision = Precision * u /\ u * c.target = c.target * u
        BY <1>1, <4>1, <4>3
      <4>. QED  BY <4>2, <4>4
    <3>2. (c.target * z) * u = w * z
      <4>1. \A i, j, k \in Nat : (i * j) * k = (i * k) * j  BY Z3
      <4>. QED  BY <1>1, <2>3, <3>1, <4>1
    <3>3. w * z <= a * y  BY <2>4, <3>2, Zenon
    <3>4. w * y <= w * z /\ w * y \in Nat /\ w * z \in Nat  BY <2>3, <3>1, ProductGrows
    <3>5. a * y \in Nat
      <4>1. \A i, j \in Nat : i * j \in Nat  BY Z3
      <4>. QED  BY <1>3, <2>3, <4>1
    <3>6. y * w <= y * a
      <4>1. \A i, j \in Nat : i * j = j * i  BY Z3
      <4>2. y * w = w * y /\ y * a = a * y  BY <1>3, <2>3, <3>1, <4>1
      <4>. QED  BY <3>3, <3>4, <3>5, <4>2
    <3>7. w <= a  BY <1>3, <2>3, <3>1, <3>6, FactorOut
    <3>8. Precision * u \in Nat
      <4>1. \A i, j \in Nat : i * j \in Nat  BY Z3
      <4>. QED  BY <1>1, <4>1
    <3>. QED  BY <1>3, <3>1, <3>7, <3>8
  <2>6. Precision * a <= (Precision + 1) * (u * r)
    <3>1. Rounded(a, u) < Infinity  BY <1>4, <1>10
    <3>2. Precision * a <= (Precision + 1) * (u * Rounded(a, u))
      BY <1>3, <2>5, <3>1, NotMuchLess
    <3>. QED  BY <1>4, <3>2, Zenon
  <2>7. n <= r * Unit
    <3>1. (c.target * Cube(Precision + 1)) * u <= a * Cube(Precision)
      BY <2>3, <2>4, Zenon
    <3>2. Precision \in Nat \ {0} /\ Unit \in Nat /\ c.target \in Nat  BY <1>1
    <3>. QED  BY <1>3, <1>4, <1>7, <2>2, <2>6, <3>1, <3>2, StepsArePaid
  <2>8. f <= q
    <3>1. f * c.step <= x  BY <1>7, <2>7
    <3>2. f <= Rounded(x, c.step)  BY <1>1, <1>6, <1>7, <3>1, RoundedStays
    <3>. QED  BY <1>8, <3>2
  <2>9. PICK v \in Nat : v = Whole(q) /\ f <= v
    BY <1>6, <1>8, <1>10, <2>8, WholeIs
  <2>10. PICK m \in Nat : m = v * c.step /\ n <= m
    <3>1. c.step * f <= c.step * v /\ c.step * v \in Nat /\ c.step * f \in Nat
      BY <1>1, <1>6, <2>9, ProductGrows
    <3>2. \A i, j \in Nat : i * j = j * i  BY Z3
    <3>3. c.step * f = f * c.step /\ c.step * v = v * c.step
      BY <1>1, <1>6, <2>9, <3>2
    <3>. QED  BY <1>7, <3>1, <3>3
  <2>11. Rounded(n, Unit) <= Rounded(m, Unit) /\ Rounded(m, Unit) \in Nat
    BY <1>1, <1>7, <2>10, RoundedGrows, RoundedIsFloat
  <2>12. SteppedBy(r, c.step) = Rounded(m, Unit)
    <3>1. SteppedBy(r, c.step) = Rounded(Whole(q) * c.step, Unit)
      BY <1>1, <1>4, <1>7, <1>8, <1>10, SteppedIs
    <3>. QED  BY <2>9, <2>10, <3>1, Zenon
  <2>13. SteppedBy(r, c.step) >= c.target /\ SteppedBy(r, c.step) \in Nat
    BY <1>1, <2>1, <2>11, <2>12
  <2>. QED  BY <1>1, <1>5, <2>13, WonIs
<1>. QED  BY <1>1, <1>4, <1>8, <1>9, <1>10

\* A target above 1 has not been paid for by all draws together.
LEMMA NotEveryDrawPays ==
    ASSUME NEW r \in Nat, NEW t \in Nat, r < t, NEW g \in Nat \ {0},
           NEW x \in Nat \ {0}, NEW y \in Nat \ {0}, x <= y,
           NEW q \in Nat, (t * y) * q <= (r * g) * x
    PROVE  q < g
<1>. SUFFICES ASSUME g <= q PROVE FALSE  OBVIOUS
<1>1. \A i, j \in Nat : i * j \in Nat /\ i * j = j * i  BY Z3
<1>2. PICK k \in Nat \ {0} : k = g * x
  <2>1. \A i, j \in Nat \ {0} : i * j \in Nat \ {0}  BY Z3
  <2>. QED  BY <2>1
<1>3. k * r < k * t /\ k * r \in Nat /\ k * t \in Nat  BY <1>2, ProductGrowsStrictly
<1>4. PICK m \in Nat, n \in Nat : m = t * x /\ n = t * y /\ m <= n
  <2>1. t * x <= t * y  BY ProductGrows
  <2>. QED  BY <1>1, <2>1
<1>5. g * m <= g * n /\ g * m \in Nat /\ g * n \in Nat  BY <1>4, ProductGrows
<1>6. n * g <= n * q /\ n * g \in Nat /\ n * q \in Nat  BY <1>4, ProductGrows
<1>7. g * m = k * t
  <2>1. \A i, j, l \in Nat : i * (j * l) = (i * l) * j  BY Z3
  <2>. QED  BY <1>2, <1>4, <2>1
<1>8. (r * g) * x = k * r
  <2>1. \A i, j, l \in Nat : (i * j) * l = (j * l) * i  BY Z3
  <2>. QED  BY <1>2, <2>1
<1>9. n * q <= k * r  BY <1>4, <1>8, Zenon
<1>10. g * n = n * g  BY <1>1, <1>4
<1>. QED  BY <1>3, <1>5, <1>6, <1>7, <1>9, <1>10

\* Over all draws a target above the least multiplier pays back the RTP, to
\* within one draw and three roundings; one of so many steps does not pay less.
LEMMA TargetsPayTheRTP ==
    ASSUME config \in Engines, config.game = "limbo", config.target > config.min
    PROVE  LET back == config.target * Cardinality(Wins)
               fair == config.rtp * Grains["limbo"]
           IN  /\ Over(config.target, config.step) < Infinity =>
                     back * Cube(Precision) <= fair * Cube(Precision + 1)
                                                 + config.target * Cube(Precision)
               /\ (\E f \in FiniteFloats : /\ f = Whole(f)
                                           /\ Times(f, config.step) = config.target) =>
                     back * Cube(Precision + 1) > fair * Cube(Precision)
<1>. DEFINE t == config.target
            g == Grains["limbo"]
            T == Wins \ {0}
<1>1. /\ config.rtp \in Nat \ {0} /\ config.rtp < t
      /\ t \in Nat \ {0} /\ g \in Nat \ {0} /\ t <= config.max
      /\ config.max \in Nat
  <2>1. /\ config.rtp \in 1..Unit /\ Unit \in Nat \ {0} /\ config.min >= Unit
        /\ t \in Nat \ {0} /\ g \in Nat \ {0}
        /\ config.min \in Nat /\ t <= config.max /\ config.max \in Nat
    BY LimboNumbers
  <2>. HIDE DEF t, g
  <2>2. config.min < t  BY <2>1 DEF t
  <2>. QED  BY <2>1, <2>2
<1>2. PICK a \in Nat : a = config.rtp * g
  <2>1. \A x, y \in Nat \ {0} : x * y \in Nat  BY Z3
  <2>. QED  BY <1>1, <2>1
<1>3. L!Won(config, 0)
  <2>1. L!Multiplier(config, 0) = config.max  BY DEF L!Multiplier
  <2>. QED  BY <1>1, <2>1 DEF L!Won
<1>4. Wins = {u \in 0..(g - 1) : L!Won(config, u)}  BY DEF Wins
<1>5. PICK x \in Nat \ {0}, y \in Nat \ {0} :
         x = Cube(Precision) /\ y = Cube(Precision + 1) /\ x <= y
  BY CubesAre
<1>6. /\ \A i, j \in Nat : i * j \in Nat
      /\ \A i, j \in Nat \ {0} : i * j \in Nat \ {0}
  BY Z3
<1>. HIDE DEF g, t
<1>7. T \in SUBSET (Nat \ {0}) /\ 0 \in Wins  BY <1>1, <1>3, <1>4
<1>8. T \in SUBSET (1..(g - 1))  BY <1>1, <1>4, <1>7
<1>9. IsFiniteSet(T) /\ Cardinality(T) \in Nat
  <2>1. IsFiniteSet(1..(g - 1))  BY <1>1, FS_Interval
  <2>2. IsFiniteSet(T)  BY <1>8, <2>1, FS_Subset
  <2>. QED  BY <2>2, FS_CardinalityType
<1>10. Cardinality(Wins) = Cardinality(T) + 1
  <2>1. Wins = T \cup {0} /\ 0 \notin T  BY <1>7 DEF T
  <2>. QED  BY <1>9, <2>1, FS_AddElement
<1>. HIDE DEF T
<1>11. PICK k \in Nat : k = Cardinality(T) /\ Cardinality(Wins) = k + 1
  BY <1>9, <1>10
<1>12. ASSUME Over(t, config.step) < Infinity
       PROVE  (t * (k + 1)) * x <= a * y + t * x
  <2>1. t * x \in Nat \ {0} /\ a * y \in Nat  BY <1>1, <1>2, <1>5, <1>6
  <2>2. \A v \in T : (t * x) * v <= a * y
    <3>1. ASSUME NEW v \in T PROVE (t * x) * v <= a * y
      <4>1. v \in Nat \ {0} /\ L!Won(config, v)  BY <1>4, <1>7 DEF T
      <4>2. (config.target * Cube(Precision)) * v
               <= (config.rtp * Grains["limbo"]) * Cube(Precision + 1)
        BY <1>12, <4>1, WinnersPay, Zenon DEF t
      <4>. QED  BY <1>2, <1>5, <4>2, Zenon DEF t, g
    <3>. QED  BY <3>1
  <2>3. (t * x) * k <= a * y  BY <1>7, <1>11, <2>1, <2>2, MultiplesAreFew
  <2>4. (t * (k + 1)) * x = (t * x) * k + t * x /\ (t * x) * k \in Nat
    <3>1. \A i, j, l \in Nat : (i * (j + 1)) * l = (i * l) * j + i * l
      BY Z3
    <3>2. \A i, j, l \in Nat : (i * l) * j \in Nat  BY Z3
    <3>3. t \in Nat /\ k \in Nat /\ x \in Nat  BY <1>1, <1>5, <1>11
    <3>4. (t * (k + 1)) * x = (t * x) * k + t * x  BY <3>1, <3>3, Zenon
    <3>5. (t * x) * k \in Nat  BY <3>2, <3>3, Zenon
    <3>. QED  BY <3>4, <3>5, Zenon
  <2>5. PICK b \in Nat, e \in Nat, h \in Nat :
           b = (t * x) * k /\ e = a * y /\ h = t * x /\ b <= e
    BY <2>1, <2>3, <2>4
  <2>6. b + h <= e + h  BY <2>5
  <2>. QED  BY <2>4, <2>5, <2>6, Zenon
<1>13. ASSUME NEW f \in FiniteFloats, f = Whole(f), Times(f, config.step) = t
       PROVE  (t * (k + 1)) * y > a * x
  <2>1. PICK n \in Nat \ {0}, b \in Nat : n = t * y /\ b = a * x
    BY <1>1, <1>2, <1>5, <1>6
  <2>2. PICK q \in Nat : q = b \div n /\ n * q <= b /\ b < n * (q + 1)
    BY <2>1, DivisionIs
  <2>3. q < g
    <3>1. (t * y) * q <= (config.rtp * g) * x  BY <1>2, <2>1, <2>2, Zenon
    <3>2. config.rtp \in Nat /\ t \in Nat  BY <1>1
    <3>. QED  BY <1>1, <1>5, <2>2, <3>1, <3>2, NotEveryDrawPays
  <2>4. 1..q \subseteq T
    <3>1. ASSUME NEW v \in 1..q PROVE v \in T
      <4>1. v \in Nat \ {0} /\ v <= b \div n /\ v \in 0..(g - 1)
        BY <1>1, <2>2, <2>3
      <4>2. n * v <= b  BY <2>1, <4>1, MultiplesAre
      <4>3. (config.target * Cube(Precision + 1)) * v
               <= (config.rtp * Grains["limbo"]) * Cube(Precision)
        BY <1>2, <1>5, <2>1, <4>2, Zenon DEF t, g
      <4>4. L!Won(config, v)  BY <1>13, <4>1, <4>3, PayersWin DEF t
      <4>. QED  BY <1>4, <4>1, <4>4 DEF T
    <3>. QED  BY <3>1
  <2>5. q <= k
    <3>1. q \in Nat  BY <2>2
    <3>2. Cardinality(1..q) = q  BY <3>1, FS_Interval
    <3>. QED  BY <1>9, <1>11, <2>4, <3>2, FS_Subset
  <2>6. n * (q + 1) \in Nat /\ n * (k + 1) \in Nat /\ n * (q + 1) <= n * (k + 1)
    <3>1. q + 1 \in Nat /\ k + 1 \in Nat /\ q + 1 <= k + 1  BY <2>2, <1>11, <2>5
    <3>. QED  BY <2>1, <3>1, ProductGrows
  <2>7. n * (k + 1) > b  BY <2>1, <2>2, <2>6
  <2>8. (t * y) * (k + 1) = (t * (k + 1)) * y
    <3>1. \A i, j, l \in Nat : (i * j) * (l + 1) = (i * (l + 1)) * j  BY Z3
    <3>. QED  BY <1>1, <1>5, <1>11, <3>1
  <2>. QED  BY <2>1, <2>7, <2>8, Zenon
<1>14. \A f \in FiniteFloats : f = Whole(f) /\ Times(f, config.step) = t
          => (t * (k + 1)) * y > a * x
  BY <1>13, Zenon
<1>. QED  BY <1>2, <1>5, <1>11, <1>12, <1>14, Zenon DEF t, g

\* Three bounds one after the other, without a factor both sides have.
LEMMA ThreeBounds ==
    ASSUME NEW p \in Nat, NEW k \in Nat, NEW U \in Nat \ {0},
           NEW x \in Nat, NEW y \in Nat, NEW z \in Nat, NEW w \in Nat,
           p * (U * x) <= k * y, p * y <= k * z, p * z <= k * (U * w)
    PROVE  x * ((p * p) * p) <= w * ((k * k) * k)
<1>1. \A i, j \in Nat : i * j \in Nat  BY Z3
<1>2. PICK a \in Nat, b \in Nat : a = U * x /\ b = U * w  BY <1>1
<1>3. p * a <= k * y /\ p * z <= k * b  BY <1>2, Zenon
<1>4. p * (p * a) <= k * (k * z)  BY <1>2, <1>3, BoundAfterBound
<1>5. PICK c \in Nat, d \in Nat : c = p * a /\ d = k * z /\ p * c <= k * d
  <2>1. p * a \in Nat /\ k * z \in Nat  BY <1>1, <1>2
  <2>. QED  BY <1>4, <2>1
<1>6. p * d <= k * (k * b)
  <2>1. k * (p * z) <= k * (k * b)
    <3>1. p * z \in Nat /\ k * b \in Nat  BY <1>1, <1>2
    <3>. QED  BY <1>3, <3>1, ProductGrows
  <2>2. p * (k * z) = k * (p * z)
    <3>1. \A i, j, l \in Nat : i * (j * l) = j * (i * l)  BY Z3
    <3>. QED  BY <3>1
  <2>. QED  BY <1>5, <2>1, <2>2, Zenon
<1>7. p * (p * c) <= k * (k * (k * b))
  <2>1. k * b \in Nat  BY <1>1, <1>2
  <2>. QED  BY <1>5, <1>6, <2>1, BoundAfterBound
<1>8. /\ p * (p * c) = U * (x * ((p * p) * p))
      /\ k * (k * (k * b)) = U * (w * ((k * k) * k))
  <2>1. \A i, j, l \in Nat : i * (i * (i * (j * l))) = j * (l * ((i * i) * i))
    BY Z3
  <2>2. p * (p * (p * (U * x))) = U * (x * ((p * p) * p))  BY <2>1
  <2>3. k * (k * (k * (U * w))) = U * (w * ((k * k) * k))  BY <2>1
  <2>. QED  BY <1>2, <1>5, <2>2, <2>3, Zenon
<1>9. U * (x * ((p * p) * p)) <= U * (w * ((k * k) * k))  BY <1>7, <1>8, Zenon
<1>10. x * ((p * p) * p) \in Nat /\ w * ((k * k) * k) \in Nat  BY <1>1
<1>. QED  BY <1>9, <1>10, FactorOut

\* Crash's floats are these.
LEMMA CrashRounds ==
    /\ \A n, d : C!Rounded(n, d) = Rounded(n, d)
    /\ \A x, y : C!Minus(x, y) = Minus(x, y)
    /\ \A x, y : C!Over(x, y) = Over(x, y)
<1>1. C!Widest = Widest  BY Zenon DEF C!Widest, Widest
<1>2. C!Infinity = Infinity  BY <1>1, Zenon DEF C!Infinity, Infinity
<1>3. ASSUME NEW x PROVE C!Spacing(x) = Spacing(x)
  BY Zenon DEF C!Spacing, Spacing
<1>4. C!Nearest = Nearest
  BY <1>2, <1>3, Zenon DEF C!Nearest, Nearest
<1>5. \A n, d : C!Rounded(n, d) = Rounded(n, d)
  BY <1>4, Zenon DEF C!Rounded, Rounded
<1>6. \A x, y : C!Minus(x, y) = Minus(x, y)
  BY <1>5, Zenon DEF C!Minus, Minus
<1>7. \A x, y : C!Over(x, y) = Over(x, y)
  BY <1>2, <1>5, Zenon DEF C!Over, Over
<1>. QED  BY <1>5, <1>6, <1>7

\* The numbers of an accepted crash engine.
LEMMA CrashNumbers ==
    ASSUME NEW c \in Engines, c.game = "crash"
    PROVE  /\ c.edge \in Nat /\ c.edge < Hundred * Unit /\ c.max \in Nat
           /\ Hundred \in Nat /\ Hundred * Unit \in Nat
           /\ Hundred * Unit \in Floats /\ Hundred * Unit < Infinity
           /\ Grains["crash"] \in Nat \ {0} /\ Unit \in Nat \ {0}
           /\ Infinity \in Nat /\ Precision \in Nat \ {0}
           /\ Precision * Grains["crash"] <= Hundred * Unit
<1>1. C!Valid(c)  BY EnginesAreValid
<1>2. C!FiniteFloats = FiniteFloats  BY DEF C!FiniteFloats, FiniteFloats
<1>3. c.edge \in FiniteFloats /\ c.max \in FiniteFloats /\ c.edge < Hundred * Unit
  BY <1>1, <1>2, Zenon DEF C!Valid
<1>4. /\ Grains["crash"] \in Nat \ {0} /\ Hundred \in Nat
      /\ Hundred * Unit \in FiniteFloats
      /\ Precision * Grains["crash"] <= Hundred * Unit
  BY GamesAssumption, InstantAssumption
<1>. QED  BY <1>3, <1>4, FloatsAre, InfinityIs

\* A multiplier of crash that gets to m was one before it was clamped.
LEMMA ReachedUnclamped ==
    ASSUME NEW c \in Engines, c.game = "crash", NEW m \in Nat, m > Unit,
           NEW u \in 0..(Grains["crash"] - 1), C!Raw(c, u) \in Nat,
           m <= C!Multiplier(c, u)
    PROVE  m <= C!Raw(c, u)
<1>. DEFINE raw == C!Raw(c, u)
            floored == IF raw < Unit THEN Unit ELSE raw
<1>1. c.max \in Nat /\ Unit \in Nat  BY CrashNumbers
<1>2. C!Multiplier(c, u) =
         IF u < c.instant THEN Unit
         ELSE IF c.max > 0 /\ floored > c.max THEN c.max ELSE floored
  BY Zenon DEF C!Multiplier
<1>. HIDE DEF raw
<1>3. raw \in Nat  BY DEF raw
<1>4. CASE u < c.instant  BY <1>1, <1>2, <1>4
<1>5. CASE ~(u < c.instant)
  <2>1. C!Multiplier(c, u) = IF c.max > 0 /\ floored > c.max THEN c.max ELSE floored
    BY <1>2, <1>5, Zenon
  <2>. QED  BY <1>1, <1>3, <2>1 DEF raw
<1>. QED  BY <1>4, <1>5

\* A multiplier of crash that gets to m has been paid for, to within the three
\* roundings.
LEMMA CrashesPay ==
    ASSUME NEW c \in Engines, c.game = "crash", NEW m \in Nat, m > Unit,
           NEW u \in 0..(Grains["crash"] - 1), m <= C!Multiplier(c, u),
           NEW v \in Nat, v = Grains["crash"] - u, NEW l \in Nat,
           l = Hundred * Unit - c.edge
    PROVE  (m * v * Hundred) * Cube(Precision)
              <= (l * Grains["crash"]) * Cube(Precision + 1)
<1>. DEFINE g == Grains["crash"]
            H == Hundred * Unit
<1>1. /\ c.edge \in Nat /\ c.edge < H /\ H \in Nat /\ H \in Floats /\ H < Infinity
      /\ g \in Nat \ {0} /\ Unit \in Nat \ {0} /\ Infinity \in Nat
      /\ Precision \in Nat \ {0} /\ Hundred \in Nat /\ Precision * g <= H
  BY CrashNumbers
<1>2. 4 * Precision <= Unit  BY SpacingsAre
<1>3. \A i, j \in Nat : i * j \in Nat  BY Z3
<1>4. v \in Nat \ {0} /\ v <= g  BY <1>1
<1>. HIDE DEF g
<1>5. PICK n \in Nat : n = H * v /\ H <= n /\ n <= H * g
  <2>1. H * 1 <= H * v /\ H * v \in Nat  BY <1>1, <1>4, ProductGrows
  <2>2. H * v <= H * g  BY <1>1, <1>4, ProductGrows
  <2>3. H * 1 = H
    <3>1. \A i \in Nat : i * 1 = i  OBVIOUS
    <3>. QED  BY <1>1, <3>1
  <2>. HIDE DEF H
  <2>. QED  BY <2>1, <2>2, <2>3
<1>6. PICK e \in Nat : e = Rounded(l, 1) /\ e <= H /\ Precision * e <= (Precision + 1) * l
  <2>1. H >= l /\ H * 1 = H  BY <1>1
  <2>2. Rounded(l, 1) <= H  BY <1>1, <2>1, RoundedStays
  <2>3. Rounded(l, 1) \in Nat /\ Precision * Rounded(l, 1) <= (Precision + 1) * l
    BY WholeRoundsTo
  <2>. QED  BY <2>2, <2>3
<1>7. PICK b \in Nat : b = Rounded(n, g) /\ b <= H /\ Precision <= b
  <2>1. Rounded(n, g) \in Nat  BY <1>1, <1>5, RoundedIsFloat
  <2>2. Rounded(n, g) <= H  BY <1>1, <1>5, RoundedStays
  <2>3. Precision \in Floats
    <3>1. Precision \in 0..Precision  BY <1>1
    <3>. QED  BY <3>1, FloatsAre
  <2>4. Precision * g <= n
    <3>1. Precision * g \in Nat  BY <1>1, <1>3
    <3>. QED  BY <1>1, <1>5, <3>1
  <2>5. Precision <= Rounded(n, g)  BY <1>1, <1>5, <2>3, <2>4, RoundedStays
  <2>. QED  BY <2>1, <2>2, <2>5
<1>8. Precision * n <= (Precision + 1) * (g * b)
  <2>1. Precision * g <= n
    <3>1. Precision * g \in Nat  BY <1>1, <1>3
    <3>. QED  BY <1>1, <1>5, <3>1
  <2>2. Rounded(n, g) < Infinity  BY <1>1, <1>7
  <2>3. Precision * n <= (Precision + 1) * (g * Rounded(n, g))
    BY <1>1, <1>5, <2>1, <2>2, NotMuchLess
  <2>. QED  BY <1>7, <2>3, Zenon
<1>9. C!Raw(c, u) = Over(e, b)
  <2>1. Minus(H, c.edge) = e
    <3>1. ~(H < c.edge) /\ H - c.edge = l  BY <1>1
    <3>. QED  BY <1>6, <3>1, Zenon DEF Minus
  <2>2. n = Hundred * Unit * (Grains["crash"] - u)  BY <1>5, Zenon
  <2>3. C!Raw(c, u) = Over(Minus(Hundred * Unit, c.edge),
                           Rounded(Hundred * Unit * (Grains["crash"] - u),
                                   Grains["crash"]))
    BY CrashRounds, Zenon DEF C!Raw
  <2>. QED  BY <1>7, <2>1, <2>2, <2>3, Zenon DEF g
<1>10. PICK x \in Nat : x = e * Unit  BY <1>1, <1>3
<1>11. b \in Nat \ {0}  BY <1>1, <1>7
<1>12. Over(e, b) = Rounded(x, b)
  <2>1. b # Infinity /\ e # Infinity  BY <1>1, <1>6, <1>7
  <2>. QED  BY <1>10, <2>1, Zenon DEF Over
<1>13. PICK r \in Nat : r = Rounded(x, b) /\ m <= r
  <2>1. Rounded(x, b) \in Nat  BY <1>10, <1>11, RoundedIsFloat
  <2>2. C!Raw(c, u) \in Nat  BY <1>9, <1>12, <2>1
  <2>3. m <= C!Raw(c, u)  BY <2>2, ReachedUnclamped
  <2>. QED  BY <1>9, <1>12, <2>1, <2>3
<1>14. Precision * (b * m) <= (Precision + 1) * x
  <2>1. Precision < Rounded(x, b)  BY <1>1, <1>2, <1>13
  <2>2. Precision * b <= x  BY <1>10, <1>11, <2>1, LargeFromLarge
  <2>3. Precision * (b * Rounded(x, b)) <= (Precision + 1) * x
    BY <1>10, <1>11, <2>2, NotMuchMore
  <2>4. b * m <= b * r /\ b * m \in Nat /\ b * r \in Nat
    BY <1>11, <1>13, ProductGrows
  <2>5. PICK i \in Nat, j \in Nat : i = b * m /\ j = b * r /\ i <= j  BY <2>4
  <2>6. /\ Precision * i <= Precision * j
        /\ Precision * i \in Nat /\ Precision * j \in Nat
    BY <1>1, <2>5, ProductGrows
  <2>7. Precision * j <= (Precision + 1) * x  BY <1>13, <2>3, <2>5, Zenon
  <2>8. (Precision + 1) * x \in Nat
    <3>1. Precision + 1 \in Nat  BY <1>1
    <3>. QED  BY <1>3, <1>10, <3>1
  <2>9. Precision * i <= (Precision + 1) * x  BY <2>6, <2>7, <2>8
  <2>. QED  BY <2>5, <2>9, Zenon
<1>15. PICK p \in Nat, k \in Nat : p = Precision /\ k = Precision + 1  BY <1>1
<1>16. p * (Unit * (m * v * Hundred)) <= k * (g * (b * m))
  <2>1. PICK i \in Nat, j \in Nat : i = p * n /\ j = k * (g * b)
    <3>1. g * b \in Nat  BY <1>1, <1>3, <1>7
    <3>. QED  BY <1>3, <1>5, <1>15, <3>1
  <2>2. i <= j  BY <1>8, <1>15, <2>1, Zenon
  <2>3. m * i <= m * j  BY <2>1, <2>2, ProductGrows
  <2>4. m * i = p * (Unit * (m * v * Hundred))
    <3>1. \A f, q, s, t, w \in Nat : f * (q * ((s * t) * w)) = q * (t * (f * w * s))
      BY Z3
    <3>2. m * (p * ((Hundred * Unit) * v)) = p * (Unit * (m * v * Hundred))
      BY <1>1, <1>15, <3>1
    <3>. QED  BY <1>5, <2>1, <3>2, Zenon
  <2>5. m * j = k * (g * (b * m))
    <3>1. \A f, q, s, t \in Nat : f * (q * (s * t)) = q * (s * (t * f))  BY Z3
    <3>2. m * (k * (g * b)) = k * (g * (b * m))  BY <1>1, <1>15, <3>1
    <3>. QED  BY <2>1, <3>2, Zenon
  <2>. QED  BY <2>3, <2>4, <2>5, Zenon
<1>17. p * (g * (b * m)) <= k * (g * x)
  <2>1. PICK i \in Nat, j \in Nat : i = p * (b * m) /\ j = k * x
    <3>1. b * m \in Nat  BY <1>3
    <3>. QED  BY <1>3, <1>10, <1>15, <3>1
  <2>2. i <= j  BY <1>14, <1>15, <2>1, Zenon
  <2>3. g * i <= g * j  BY <1>1, <2>1, <2>2, ProductGrows
  <2>4. g * i = p * (g * (b * m)) /\ g * j = k * (g * x)
    <3>1. \A f, q, s \in Nat : f * (q * s) = q * (f * s)  BY Z3
    <3>2. b * m \in Nat  BY <1>3
    <3>3. g * (p * (b * m)) = p * (g * (b * m))  BY <1>1, <1>15, <3>1, <3>2
    <3>4. g * (k * x) = k * (g * x)  BY <1>1, <1>15, <3>1
    <3>. QED  BY <2>1, <3>3, <3>4, Zenon
  <2>. QED  BY <2>3, <2>4, Zenon
<1>18. p * (g * x) <= k * (Unit * (l * g))
  <2>1. PICK i \in Nat, j \in Nat, w \in Nat : i = p * e /\ j = k * l /\ w = g * Unit
    BY <1>1, <1>3, <1>6, <1>15
  <2>2. i <= j  BY <1>6, <1>15, <2>1, Zenon
  <2>3. w * i <= w * j  BY <2>1, <2>2, ProductGrows
  <2>4. \A f, q, s, t \in Nat : /\ (f * q) * (s * t) = s * (f * (t * q))
                                /\ (f * q) * (s * t) = s * (q * (t * f))
    BY Z3
  <2>5. (g * Unit) * (p * e) = p * (g * (e * Unit))  BY <1>1, <1>6, <1>15, <2>4
  <2>6. (g * Unit) * (k * l) = k * (Unit * (l * g))  BY <1>1, <1>15, <2>4
  <2>. QED  BY <1>10, <2>1, <2>3, <2>5, <2>6, Zenon
<1>19. /\ m * v * Hundred \in Nat /\ g * (b * m) \in Nat
       /\ g * x \in Nat /\ l * g \in Nat
  <2>1. b * m \in Nat /\ m * v \in Nat /\ g \in Nat /\ Hundred \in Nat
    BY <1>1, <1>3
  <2>. QED  BY <1>3, <2>1
<1>20. (m * v * Hundred) * ((p * p) * p) <= (l * g) * ((k * k) * k)
  BY <1>1, <1>15, <1>16, <1>17, <1>18, <1>19, ThreeBounds
<1>. QED  BY <1>15, <1>20, Zenon DEF Cube, g

\* A player of crash who waits for m gets back at most what the edge leaves, to
\* within the roundings.
LEMMA CrashTargetsPay ==
    ASSUME config \in Engines, config.game = "crash", NEW m \in Nat, m > Unit
    PROVE  m * Cardinality(Reached(m)) * Hundred * Cube(Precision)
              <= (Hundred * Unit - config.edge) * Grains["crash"]
                    * Cube(Precision + 1)
<1>. DEFINE g == Grains["crash"]
            R == Reached(m)
            T == {g - u : u \in R}
<1>1. /\ config.edge \in Nat /\ config.edge < Hundred * Unit
      /\ Hundred * Unit \in Nat /\ Hundred \in Nat
      /\ g \in Nat \ {0} /\ Unit \in Nat \ {0}
  BY CrashNumbers
<1>2. PICK l \in Nat : l = Hundred * Unit - config.edge  BY <1>1
<1>3. PICK x \in Nat \ {0}, y \in Nat \ {0} :
         x = Cube(Precision) /\ y = Cube(Precision + 1)
  BY CubesAre
<1>4. /\ \A i, j \in Nat : i * j \in Nat
      /\ \A i, j \in Nat \ {0} : i * j \in Nat \ {0}
  BY Z3
<1>5. PICK h \in Nat \ {0} : h = Hundred
  <2>1. Hundred # 0
    <3>1. SUFFICES ASSUME Hundred = 0 PROVE FALSE  OBVIOUS
    <3>2. \A i \in Nat : 0 * i = 0  OBVIOUS
    <3>3. Hundred * Unit = 0  BY <1>1, <3>1, <3>2
    <3>. QED  BY <1>1, <3>3
  <2>. QED  BY <1>1, <2>1
<1>6. PICK n \in Nat \ {0} : n = (m * h) * x
  <2>1. m \in Nat \ {0}  BY <1>1
  <2>. QED  BY <1>3, <1>4, <1>5, <2>1
<1>7. PICK a \in Nat : a = (l * g) * y
  <2>1. l * g \in Nat  BY <1>1, <1>2, <1>4
  <2>. QED  BY <1>3, <1>4, <2>1
<1>8. \A u \in R : u \in 0..(g - 1) /\ n * (g - u) <= a
  <2>1. ASSUME NEW u \in R PROVE u \in 0..(g - 1) /\ n * (g - u) <= a
    <3>1. u \in 0..(g - 1) /\ m <= C!Multiplier(config, u)  BY DEF Reached
    <3>2. PICK v \in Nat : v = g - u  BY <1>1, <3>1
    <3>3. (m * v * Hundred) * Cube(Precision) <= (l * g) * Cube(Precision + 1)
      BY <1>2, <3>1, <3>2, CrashesPay
    <3>4. (m * v * h) * x = n * v
      <4>1. \A i, j, s, t \in Nat : ((i * t) * j) * s = ((i * j) * s) * t  BY Z3
      <4>2. ((m * v) * h) * x = ((m * h) * x) * v  BY <1>3, <1>5, <3>2, <4>1
      <4>. QED  BY <1>6, <4>2, Zenon
    <3>5. n * v <= a  BY <1>3, <1>5, <1>7, <3>3, <3>4, Zenon
    <3>. QED  BY <3>1, <3>2, <3>5
  <2>. QED  BY <2>1
<1>. HIDE DEF g, R
<1>9. T \in SUBSET (Nat \ {0}) /\ \A v \in T : n * v <= a
  <2>1. ASSUME NEW v \in T PROVE v \in Nat \ {0} /\ n * v <= a
    <3>1. PICK u \in R : v = g - u  OBVIOUS
    <3>2. g - u \in Nat \ {0} /\ n * (g - u) <= a  BY <1>1, <1>8
    <3>. QED  BY <3>1, <3>2
  <2>. QED  BY <2>1
<1>10. ExistsBijection(T, R)
  <2>. DEFINE f == [v \in T |-> g - v]
  <2>1. \A v \in T : g - v \in R
    <3>1. ASSUME NEW v \in T PROVE g - v \in R
      <4>1. PICK u \in R : v = g - u  OBVIOUS
      <4>2. g - v = u  BY <1>1, <1>8, <4>1
      <4>. QED  BY <4>2
    <3>. QED  BY <3>1
  <2>2. f \in [T -> R]  BY <2>1
  <2>3. \A v, w \in T : f[v] = f[w] => v = w
    <3>1. \A v \in T : v \in Nat /\ f[v] = g - v  BY <1>9
    <3>. HIDE DEF T, f
    <3>. QED  BY <1>1, <3>1
  <2>4. \A u \in R : \E v \in T : f[v] = u
    <3>1. ASSUME NEW u \in R PROVE \E v \in T : f[v] = u
      <4>1. g - u \in T /\ f[g - u] = g - (g - u)  OBVIOUS
      <4>2. g - (g - u) = u  BY <1>1, <1>8
      <4>. QED  BY <4>1, <4>2
    <3>. QED  BY <3>1
  <2>. HIDE DEF f, T
  <2>. QED
    BY <2>2, <2>3, <2>4, Zenon
    DEF ExistsBijection, Bijection, Injection, Surjection, IsInjective
<1>. HIDE DEF T
<1>11. /\ IsFiniteSet(T) /\ Cardinality(T) \in Nat /\ n * Cardinality(T) <= a
  BY <1>6, <1>7, <1>9, MultiplesAreFew
<1>12. Cardinality(R) = Cardinality(T)  BY <1>10, <1>11, FS_Bijection
<1>13. PICK k \in Nat : k = Cardinality(R) /\ n * k <= a  BY <1>11, <1>12
<1>14. m * k * h * x = n * k
  <2>1. \A i, j, s, t \in Nat : ((i * t) * j) * s = ((i * j) * s) * t  BY Z3
  <2>2. ((m * k) * h) * x = ((m * h) * x) * k  BY <1>3, <1>5, <1>13, <2>1
  <2>. QED  BY <1>6, <2>2, Zenon
<1>15. m * k * h * x <= a  BY <1>13, <1>14, Zenon
<1>. QED  BY <1>2, <1>3, <1>5, <1>7, <1>13, <1>15, Zenon DEF R, g

\* Whatever limbo or crash engine a caller constructs, with any number of
\* draws: no target above the least multiplier beats the configured return by
\* more than a draw and the roundings, and a limbo target of so many steps pays
\* it back.
THEOREM TheHouseKeepsItsEdge == GamesSpec => []NoTargetBeatsTheHouse
<1>1. GamesTypeOK => NoTargetBeatsTheHouse
  <2>. SUFFICES ASSUME GamesTypeOK PROVE NoTargetBeatsTheHouse  OBVIOUS
  <2>1. config \in Engines  BY DEF GamesTypeOK
  <2>2. ASSUME config.game = "limbo", config.target > config.min
        PROVE  LET back == config.target * Cardinality(Wins)
                   fair == config.rtp * Grains["limbo"]
               IN  /\ Over(config.target, config.step) < Infinity =>
                         back * Cube(Precision) <= fair * Cube(Precision + 1)
                                                     + config.target * Cube(Precision)
                   /\ (\E f \in FiniteFloats : /\ f = Whole(f)
                                               /\ Times(f, config.step) = config.target) =>
                         back * Cube(Precision + 1) > fair * Cube(Precision)
    BY <2>1, <2>2, TargetsPayTheRTP, Zenon
  <2>3. ASSUME config.game = "crash",
               NEW m \in {f \in FiniteFloats : Unit < f /\ f <= 5 * Unit}
        PROVE  m * Cardinality(Reached(m)) * Hundred * Cube(Precision)
                  <= (Hundred * Unit - config.edge) * Grains["crash"]
                        * Cube(Precision + 1)
    <3>1. m \in Nat /\ m > Unit  BY FloatsAre, InfinityIs
    <3>. QED  BY <2>1, <2>3, <3>1, CrashTargetsPay, Zenon
  <2>. QED  BY <2>2, <2>3, Zenon DEF NoTargetBeatsTheHouse
<1>. QED  BY <1>1, NothingLostInTheShuffle, PTL

------------------------------------------------------------------------------
(* How a race ends.                                                          *)

\* t holds the sums of the first 0, 1, ... n values of f, rounded one by one.
RoundedSums(t, f, n) ==
    t = [i \in 0..n |-> IF i = 0 THEN 0 ELSE Plus(t[i - 1], f[i])]

\* Any values can be summed up.
LEMMA RoundedSumsExist ==
    ASSUME NEW f, NEW n \in Nat
    PROVE  \E t : RoundedSums(t, f, n)
<1>. DEFINE S == {m \in Nat : \E t : RoundedSums(t, f, m)}
<1>1. 0 \in S
  <2>. DEFINE t == [i \in 0..0 |-> 0]
  <2>1. RoundedSums(t, f, 0)  BY SMT DEF RoundedSums
  <2>. QED  BY <2>1
<1>2. ASSUME NEW m \in S PROVE m + 1 \in S
  <2>1. m \in Nat /\ \E t : RoundedSums(t, f, m)  OBVIOUS
  <2>2. PICK t : RoundedSums(t, f, m)  BY <2>1
  <2>. DEFINE u == [i \in 0..(m + 1) |-> IF i = m + 1 THEN Plus(t[m], f[m + 1]) ELSE t[i]]
              v == [i \in 0..(m + 1) |-> IF i = 0 THEN 0 ELSE Plus(u[i - 1], f[i])]
  <2>3. ASSUME NEW i \in 0..(m + 1) PROVE u[i] = v[i]
    <3>1. u[m + 1] = Plus(t[m], f[m + 1]) /\ \A j \in 0..m : u[j] = t[j]
      BY <2>1
    <3>2. v[i] = IF i = 0 THEN 0 ELSE Plus(u[i - 1], f[i])  BY Zenon
    <3>3. \A j \in 0..m : t[j] = IF j = 0 THEN 0 ELSE Plus(t[j - 1], f[j])
      BY <2>2 DEF RoundedSums
    <3>. HIDE DEF u, v
    <3>4. CASE i = 0  BY <2>1, <3>1, <3>2, <3>3, <3>4
    <3>5. CASE i = m + 1
      <4>1. i - 1 = m /\ i # 0 /\ m \in 0..m  BY <2>1, <3>5
      <4>. QED  BY <3>1, <3>2, <3>5, <4>1
    <3>6. CASE i # 0 /\ i # m + 1
      <4>1. i \in 0..m /\ i - 1 \in 0..m  BY <2>1, <3>6
      <4>. QED  BY <3>1, <3>2, <3>3, <3>6, <4>1
    <3>. QED  BY <3>4, <3>5, <3>6
  <2>4. u = v  BY <2>3
  <2>5. RoundedSums(u, f, m + 1)  BY <2>4, Zenon DEF RoundedSums
  <2>. QED  BY <2>1, <2>5
<1>3. S = Nat
  <2>. HIDE DEF S
  <2>1. S \in SUBSET Nat  BY DEF S
  <2>. QED  BY <1>1, <1>2, <2>1, Induction
<1>. QED  BY <1>3

\* A sum of floats is no less than either.
LEMMA PlusGrows ==
    ASSUME NEW x \in Floats, NEW y \in Floats
    PROVE  /\ Plus(x, y) \in Floats /\ Plus(x, y) \in Nat
           /\ x \in Nat /\ y \in Nat /\ x <= Plus(x, y) /\ y <= Plus(x, y)
<1>1. x \in Nat /\ y \in Nat  BY FloatsAre
<1>2. PICK n \in Nat : n = x + y  BY <1>1
<1>3. Plus(x, y) = Rounded(n, 1)  BY <1>2, Zenon DEF Plus
<1>4. x * 1 <= n /\ y * 1 <= n  BY <1>1, <1>2
<1>5. x <= Rounded(n, 1) /\ y <= Rounded(n, 1)  BY <1>4, RoundedStays
<1>6. Rounded(n, 1) \in Floats /\ Rounded(n, 1) \in Nat  BY RoundedIsFloat
<1>. QED  BY <1>1, <1>3, <1>5, <1>6

\* The sums of positive floats never decrease.
LEMMA RoundedSumsGrow ==
    ASSUME NEW n \in Nat, NEW f, \A i \in 1..n : f[i] \in Floats \ {0},
           NEW t, RoundedSums(t, f, n)
    PROVE  /\ t[0] = 0
           /\ \A i \in 0..n : t[i] \in Floats /\ t[i] \in Nat /\ t[i] <= t[n]
           /\ \A i \in 1..n : t[i - 1] <= t[i] /\ t[i] > 0
<1>1. t[0] = 0 /\ \A i \in 1..n : t[i] = Plus(t[i - 1], f[i])
  <2>1. \A i \in 0..n : t[i] = IF i = 0 THEN 0 ELSE Plus(t[i - 1], f[i])
    BY DEF RoundedSums
  <2>. QED  BY <2>1
<1>2. \A i \in 0..n : t[i] \in Floats
  <2>. DEFINE S == {i \in Nat : i <= n => t[i] \in Floats}
  <2>1. 0 \in S
    <3>1. 0 \in 0..Precision  BY InfinityIs
    <3>2. 0 \in Floats  BY <3>1, FloatsAre
    <3>. QED  BY <1>1, <3>2
  <2>2. ASSUME NEW i \in S PROVE i + 1 \in S
    <3>. SUFFICES ASSUME i + 1 <= n PROVE t[i + 1] \in Floats  OBVIOUS
    <3>1. i + 1 \in 1..n /\ (i + 1) - 1 = i /\ t[i] \in Floats  OBVIOUS
    <3>2. t[i + 1] = Plus(t[i], f[i + 1]) /\ f[i + 1] \in Floats  BY <1>1, <3>1
    <3>. QED  BY <3>1, <3>2, PlusGrows
  <2>3. S = Nat
    <3>. HIDE DEF S
    <3>1. S \in SUBSET Nat  BY DEF S
    <3>. QED  BY <2>1, <2>2, <3>1, Induction
  <2>. QED  BY <2>3
<1>3. \A i \in 0..n : t[i] \in Nat  BY <1>2, FloatsAre
<1>4. \A i \in 1..n : t[i - 1] <= t[i] /\ t[i] > 0
  <2>1. ASSUME NEW i \in 1..n PROVE t[i - 1] <= t[i] /\ t[i] > 0
    <3>1. i - 1 \in 0..n /\ f[i] \in Floats /\ f[i] # 0  OBVIOUS
    <3>2. t[i - 1] \in Floats /\ t[i] = Plus(t[i - 1], f[i])
      BY <1>1, <1>2, <3>1
    <3>3. f[i] \in Nat /\ t[i - 1] <= t[i] /\ f[i] <= t[i] /\ t[i] \in Nat
      BY <3>1, <3>2, PlusGrows
    <3>. QED  BY <3>1, <3>3
  <2>. QED  BY <2>1
<1>5. \A i \in 0..n : t[i] <= t[n]
  <2>. DEFINE S == {k \in Nat : k <= n => t[n - k] <= t[n]}
  <2>1. 0 \in S
    <3>1. n - 0 = n /\ t[n] \in Nat  BY <1>3
    <3>. QED  BY <3>1
  <2>2. ASSUME NEW k \in S PROVE k + 1 \in S
    <3>. SUFFICES ASSUME k + 1 <= n PROVE t[n - (k + 1)] <= t[n]  OBVIOUS
    <3>1. n - k \in 1..n /\ (n - k) - 1 = n - (k + 1) /\ t[n - k] <= t[n]
      OBVIOUS
    <3>2. t[n - (k + 1)] <= t[n - k]  BY <1>4, <3>1
    <3>3. /\ n - (k + 1) \in 0..n /\ n - k \in 0..n /\ n \in 0..n  BY <3>1
    <3>4. t[n - (k + 1)] \in Nat /\ t[n - k] \in Nat /\ t[n] \in Nat
      BY <1>3, <3>3
    <3>. QED  BY <3>1, <3>2, <3>4
  <2>3. S = Nat
    <3>. HIDE DEF S
    <3>1. S \in SUBSET Nat  BY DEF S
    <3>. QED  BY <2>1, <2>2, <3>1, Induction
  <2>4. ASSUME NEW i \in 0..n PROVE t[i] <= t[n]
    <3>1. n - i \in Nat /\ n - i <= n /\ n - (n - i) = i  OBVIOUS
    <3>2. n - i \in S  BY <2>3, <3>1, Zenon
    <3>. QED  BY <3>1, <3>2
  <2>. QED  BY <2>4
<1>. QED  BY <1>1, <1>2, <1>3, <1>4, <1>5

\* The race's floats are these.
LEMMA RaceRounds ==
    /\ D!FiniteFloats = FiniteFloats
    /\ \A n, d : D!Rounded(n, d) = Rounded(n, d)
    /\ \A x, y : D!Plus(x, y) = Plus(x, y)
    /\ \A x, y : D!Minus(x, y) = Minus(x, y)
    /\ \A x, y : D!Times(x, y) = Times(x, y)
    /\ \A x, y : D!Over(x, y) = Over(x, y)
<1>1. D!Widest = Widest  BY Zenon DEF D!Widest, Widest
<1>2. D!Infinity = Infinity  BY <1>1, Zenon DEF D!Infinity, Infinity
<1>3. ASSUME NEW x PROVE D!Spacing(x) = Spacing(x)
  BY Zenon DEF D!Spacing, Spacing
<1>4. D!Nearest = Nearest
  BY <1>2, <1>3, Zenon DEF D!Nearest, Nearest
<1>5. \A n, d : D!Rounded(n, d) = Rounded(n, d)
  BY <1>4, Zenon DEF D!Rounded, Rounded
<1>6. \A x, y : D!Plus(x, y) = Plus(x, y)  BY <1>5, Zenon DEF D!Plus, Plus
<1>7. \A x, y : D!Minus(x, y) = Minus(x, y)  BY <1>5, Zenon DEF D!Minus, Minus
<1>8. \A x, y : D!Times(x, y) = Times(x, y)
  BY <1>2, <1>5, Zenon DEF D!Times, Times
<1>9. \A x, y : D!Over(x, y) = Over(x, y)
  BY <1>2, <1>5, Zenon DEF D!Over, Over
<1>10. D!FiniteFloats = FiniteFloats  BY DEF D!FiniteFloats, FiniteFloats
<1>. QED  BY <1>5, <1>6, <1>7, <1>8, <1>9, <1>10

\* What the duck that finishes after k others is behind the winner.
Behind(c, k) == Rounded(c.gap * k, 1)

\* The numbers of an accepted race.
LEMMA RaceNumbers ==
    ASSUME NEW c \in Engines, c.game = "duckrace"
    PROVE  /\ c.ducks \in Nat \ {0, 1} /\ c.base \in FiniteFloats \ {0}
           /\ c.finish \in FiniteFloats \ {0} /\ c.finish <= Unit
           /\ c.gap \in FiniteFloats \ {0}
           /\ Minus(c.finish, Behind(c, c.ducks - 1)) > 0
           /\ D!Segments(c) \in Nat \ {0}
           /\ D!Segments(c) * c.tick = c.duration
<1>1. D!Valid(c)  BY EnginesAreValid
<1>2. \A k : D!Lag(c, k) = Behind(c, k)  BY RaceRounds, Zenon DEF D!Lag, Behind
<1>3. /\ {c.base, c.finish, c.gap} \subseteq FiniteFloats \ {0}
      /\ c.finish <= Unit /\ Minus(c.finish, Behind(c, c.ducks - 1)) > 0
  BY <1>1, <1>2, RaceRounds, Zenon DEF D!Valid
<1>4. /\ c.duration \in D!MinDuration..D!MaxDuration
      /\ c.tick \in D!MinTick..D!MaxTick /\ c.duration % c.tick = 0
  BY <1>1, Zenon DEF D!Valid
<1>5. c.duration \in Nat /\ c.tick \in Nat \ {0} /\ c.duration >= c.tick
  <2>1. /\ \A a \in D!MinDuration..D!MaxDuration : a \in Nat /\ a >= 1000
        /\ \A b \in D!MinTick..D!MaxTick : b \in Nat \ {0} /\ b <= 1000
    BY DEF D!MinDuration, D!MaxDuration, D!MinTick, D!MaxTick
  <2>2. PICK a, b : a = c.duration /\ b = c.tick  OBVIOUS
  <2>3. a \in Nat /\ b \in Nat \ {0} /\ a >= 1000 /\ b <= 1000
    BY <1>4, <2>1, <2>2
  <2>4. a >= b  BY <2>3
  <2>. QED  BY <2>2, <2>3, <2>4
<1>6. ASSUME NEW a \in Nat, NEW b \in Nat \ {0}, a >= b, a % b = 0
      PROVE  a \div b \in Nat \ {0} /\ (a \div b) * b = a
  <2>1. PICK q \in Nat : q = a \div b /\ a = b * q + 0
    BY <1>6, DivMod, Zenon
  <2>2. b * q = q * b /\ b * q + 0 = b * q /\ b * 0 = 0  BY Z3
  <2>3. q # 0  BY <1>6, <2>1, <2>2
  <2>. QED  BY <2>1, <2>2, <2>3
<1>7. D!Segments(c) \in Nat \ {0} /\ D!Segments(c) * c.tick = c.duration
  BY <1>4, <1>5, <1>6, Zenon DEF D!Segments
<1>8. c.ducks \in Nat \ {0, 1}  BY RaceRequests
<1>. QED  BY <1>3, <1>7, <1>8, Zenon

\* Every duck is less behind the winner than the winner is ahead of the start,
\* and the more the later it finishes.
LEMMA BehindIs ==
    ASSUME NEW c \in Engines, c.game = "duckrace",
           NEW k \in 0..(c.ducks - 1), NEW j \in 0..k
    PROVE  /\ c.gap * k \in Nat /\ Behind(c, k) \in Nat
           /\ Behind(c, k) < c.finish /\ Behind(c, j) <= Behind(c, k)
<1>. DEFINE top == c.ducks - 1
<1>1. /\ c.ducks \in Nat \ {0, 1} /\ c.gap \in FiniteFloats \ {0}
      /\ c.finish \in FiniteFloats \ {0}
      /\ Minus(c.finish, Behind(c, top)) > 0
  BY RaceNumbers
<1>2. c.gap \in Nat /\ c.finish \in Nat  BY <1>1, FloatsAre
<1>3. top \in Nat /\ k \in Nat /\ j \in Nat /\ j <= k /\ k <= top  BY <1>1
<1>. HIDE DEF top
<1>4. ASSUME NEW m \in Nat, NEW n \in Nat, m <= n
      PROVE  /\ c.gap * n \in Nat
             /\ Behind(c, m) \in Nat /\ Behind(c, n) \in Nat
             /\ Behind(c, m) <= Behind(c, n)
  <2>1. c.gap * m \in Nat /\ c.gap * n \in Nat /\ c.gap * m <= c.gap * n
    BY <1>2, <1>4, ProductGrows
  <2>2. /\ Rounded(c.gap * m, 1) \in Nat /\ Rounded(c.gap * n, 1) \in Nat
        /\ Rounded(c.gap * m, 1) <= Rounded(c.gap * n, 1)
    BY <2>1, RoundedIsFloat, RoundedGrows
  <2>. QED  BY <2>1, <2>2, Zenon DEF Behind
<1>5. PICK b \in Nat : b = Behind(c, top)  BY <1>3, <1>4
<1>6. b < c.finish
  <2>1. SUFFICES ASSUME c.finish <= b PROVE FALSE  BY <1>2, <1>5
  <2>2. CASE c.finish = b
    <3>1. Minus(c.finish, b) = Rounded(0, 1)
      <4>1. ~(c.finish < b) /\ c.finish - b = 0  BY <1>2, <1>5, <2>2
      <4>. QED  BY <4>1, Zenon DEF Minus
    <3>2. Rounded(0, 1) = 0
      <4>1. 0 \in Nat /\ 0 <= Precision  BY InfinityIs
      <4>. QED  BY <4>1, WholeRoundsTo
    <3>. QED  BY <1>1, <1>5, <3>1, <3>2
  <2>3. CASE c.finish < b
    <3>1. PICK d \in Nat : d = b - c.finish  BY <1>2, <1>5, <2>3
    <3>2. Minus(c.finish, b) = -Rounded(d, 1)  BY <2>3, <3>1, Zenon DEF Minus
    <3>3. Rounded(d, 1) \in Nat  BY <3>1, RoundedIsFloat
    <3>. QED  BY <1>1, <1>5, <3>2, <3>3
  <2>. QED  BY <1>2, <1>5, <2>1, <2>2, <2>3
<1>7. c.gap * k \in Nat /\ Behind(c, k) \in Nat /\ Behind(c, k) <= b
  BY <1>3, <1>4, <1>5
<1>8. Behind(c, j) <= Behind(c, k)  BY <1>3, <1>4
<1>. QED  BY <1>2, <1>5, <1>6, <1>7, <1>8

\* A duck that finishes after k others ends that far behind the finish, as far as
\* the difference can be told.
LEMMA TargetIs ==
    ASSUME NEW c \in Engines, c.game = "duckrace",
           NEW t, IsPermutation(t, c.ducks), NEW k \in 0..(c.ducks - 1)
    PROVE  /\ c.finish - Behind(c, k) \in Nat \ {0}
           /\ D!Target(c, t, t[k]) = Rounded(c.finish - Behind(c, k), 1)
           /\ D!Target(c, t, t[k]) \in Nat \ {0}
           /\ D!Target(c, t, t[k]) <= Unit
<1>. DEFINE before == {rank \in 0..(c.ducks - 1) :
                          \A r \in 0..rank : t[r] # t[k]}
<1>1. c.ducks \in Nat \ {0, 1}  BY RaceNumbers
<1>2. \A i, j \in 0..(c.ducks - 1) : t[i] = t[j] => i = j
  BY DEF IsPermutation
<1>3. before = 0..(k - 1)
  <2>1. ASSUME NEW q \in before PROVE q \in 0..(k - 1)
    <3>1. q \in 0..(c.ducks - 1) /\ k \notin 0..q  OBVIOUS
    <3>. QED  BY <1>1, <3>1
  <2>2. ASSUME NEW q \in 0..(k - 1) PROVE q \in before
    <3>1. q \in 0..(c.ducks - 1) /\ \A r \in 0..q : r \in 0..(c.ducks - 1) /\ r # k
      BY <1>1
    <3>2. \A r \in 0..q : t[r] # t[k]  BY <1>2, <3>1
    <3>. QED  BY <3>1, <3>2
  <2>. QED  BY <2>1, <2>2
<1>4. Cardinality(before) = k
  <2>1. Cardinality(0..(k - 1)) = IF 0 > k - 1 THEN 0 ELSE (k - 1) - 0 + 1
    <3>1. 0 \in Int /\ k - 1 \in Int  BY <1>1
    <3>. QED  BY <3>1, FS_Interval, Zenon
  <2>2. k \in Nat  BY <1>1
  <2>. HIDE DEF before
  <2>. QED  BY <1>3, <2>1, <2>2
<1>5. D!Target(c, t, t[k]) = Minus(c.finish, D!Lag(c, Cardinality(before)))
  <2>1. D!Cardinality(before) = Cardinality(before)
    BY Zenon DEF D!Cardinality, Cardinality, D!IsFiniteSet, IsFiniteSet
  <2>2. D!Target(c, t, t[k]) = D!Minus(c.finish, D!Lag(c, D!Cardinality(before)))
    BY Zenon DEF D!Target
  <2>. HIDE DEF before
  <2>. QED  BY <2>1, <2>2, RaceRounds, Zenon
<1>. HIDE DEF before
<1>6. D!Target(c, t, t[k]) = Minus(c.finish, Behind(c, k))
  <2>1. D!Lag(c, k) = Behind(c, k)  BY RaceRounds, Zenon DEF D!Lag, Behind
  <2>. QED  BY <1>4, <1>5, <2>1, Zenon
<1>7. PICK b \in Nat : b = Behind(c, k) /\ b < c.finish
  <2>1. k \in 0..k  BY <1>1
  <2>. QED  BY <2>1, BehindIs
<1>8. /\ c.finish \in FiniteFloats /\ c.finish \in Nat /\ c.finish <= Unit
      /\ c.finish \in Floats /\ Unit \in Nat
  BY RaceNumbers, FloatsAre, InfinityIs
<1>9. PICK x \in Nat \ {0} : x = c.finish - b /\ x <= c.finish
  BY <1>7, <1>8
<1>10. Minus(c.finish, b) = Rounded(x, 1)
  <2>1. ~(c.finish < b)  BY <1>7, <1>8
  <2>. QED  BY <1>9, <2>1, Zenon DEF Minus
<1>11. Rounded(x, 1) \in Nat \ {0} /\ Rounded(x, 1) <= Unit
  <2>1. Rounded(x, 1) \in Nat  BY <1>9, RoundedIsFloat
  <2>2. 1 \in Floats
    <3>1. 1 \in 0..Precision  BY InfinityIs
    <3>. QED  BY <3>1, FloatsAre
  <2>3. 1 * 1 <= x /\ x <= c.finish * 1  BY <1>8, <1>9
  <2>4. 1 <= Rounded(x, 1)  BY <1>9, <2>2, <2>3, RoundedStays
  <2>5. Rounded(x, 1) <= c.finish  BY <1>8, <1>9, <2>3, RoundedStays
  <2>. QED  BY <1>8, <2>1, <2>4, <2>5
<1>. QED  BY <1>6, <1>7, <1>9, <1>10, <1>11, Zenon

\* Every duck finishes somewhere.
LEMMA EveryoneFinishes ==
    ASSUME NEW n \in Nat, NEW t, IsPermutation(t, n), NEW d \in 0..(n - 1)
    PROVE  \E k \in 0..(n - 1) : t[k] = d
<1>. DEFINE I == 0..(n - 1)
            u == [i \in I |-> t[i]]
<1>1. \A i \in I : u[i] \in I /\ \A j \in I : u[i] = u[j] => i = j
  BY DEF IsPermutation
<1>2. u \in [I -> I]  BY <1>1
<1>3. IsFiniteSet(I)  BY FS_Interval
<1>4. \A k \in I : u[k] = t[k]  OBVIOUS
<1>. HIDE DEF u, I
<1>5. u \in Injection(I, I)  BY <1>1, <1>2, Zenon DEF Injection, IsInjective
<1>6. u \in Surjection(I, I)  BY <1>3, <1>5, FS_Injection, Zenon
<1>7. d \in I  BY DEF I
<1>8. \E k \in I : u[k] = d  BY <1>6, <1>7, Zenon DEF Surjection
<1>. QED  BY <1>4, <1>8 DEF I

\* Lists one after the other are as long as both.
LEMMA LengthOfBoth ==
    ASSUME NEW p \in Seq(Nat), NEW w \in Seq(Nat)
    PROVE  Len(p \o w) = Len(p) + Len(w)
  OBVIOUS

\* A race asks for a place for each duck but the last, and for its weights.
LEMMA RaceDraws ==
    ASSUME NEW c \in Engines, c.game = "duckrace"
    PROVE  /\ c.ducks * D!Segments(c) \in Nat
           /\ Len(Requests(c)) = c.ducks - 1 + c.ducks * D!Segments(c)
<1>. DEFINE places  == [i \in 1..(c.ducks - 1) |-> c.ducks - (i - 1)]
            weights == [i \in 1..(c.ducks * D!Segments(c)) |-> Float]
<1>1. c.ducks \in Nat \ {0, 1} /\ D!Segments(c) \in Nat \ {0}  BY RaceNumbers
<1>2. c.ducks * D!Segments(c) \in Nat
  <2>1. \A x \in Nat \ {0, 1}, y \in Nat \ {0} : x * y \in Nat  BY Z3
  <2>. QED  BY <1>1, <2>1, Zenon
<1>3. Requests(c) = places \o weights
  <2>1. Requests(c) = D!Requests(c)  BY DEF Requests
  <2>. QED  BY <2>1, Zenon DEF D!Requests, D!Float, Float
<1>4. places \in Seq(Nat) /\ Len(places) = c.ducks - 1
  <2>1. \A i \in 1..(c.ducks - 1) : c.ducks - (i - 1) \in Nat  BY <1>1
  <2>2. c.ducks - 1 \in Nat  BY <1>1
  <2>. QED  BY <2>1, <2>2
<1>5. weights \in Seq(Nat) /\ Len(weights) = c.ducks * D!Segments(c)
  BY <1>2 DEF Float
<1>. HIDE DEF places, weights
<1>6. Len(places \o weights) = Len(places) + Len(weights)
  BY <1>4, <1>5, LengthOfBoth, Zenon
<1>. QED  BY <1>2, <1>3, <1>4, <1>5, <1>6, Zenon

\* The weights of a duck sum up to something that does not shrink with any.
LEMMA WeightsGrow ==
    ASSUME NEW c \in Engines, c.game = "duckrace",
           NEW a \in Seq(Nat), Len(a) = Len(Requests(c)),
           NEW d \in 0..(c.ducks - 1)
    PROVE  LET w == D!Weights(c, a, d)
               n == D!Segments(c)
           IN  /\ w[0] = 0
               /\ \A i \in 0..n : w[i] \in Floats /\ w[i] \in Nat /\ w[i] <= w[n]
               /\ \A i \in 1..n : w[i - 1] <= w[i] /\ w[i] > 0
<1>. DEFINE n == D!Segments(c)
            w == D!Weights(c, a, d)
            f == [s \in 1..n |-> D!Weight(c, a, d, s)]
<1>1. /\ c.ducks \in Nat \ {0, 1} /\ n \in Nat \ {0}
      /\ c.base \in FiniteFloats \ {0}
  BY RaceNumbers
<1>2. Len(a) = c.ducks - 1 + c.ducks * n  BY RaceDraws
<1>3. ASSUME NEW s \in 1..n PROVE f[s] \in Floats \ {0}
  <2>1. PICK p \in Nat, m \in Nat : p = d * n /\ m = c.ducks * n /\ p + n <= m
    <3>1. d \in Nat /\ d + 1 \in Nat /\ c.ducks \in Nat /\ d + 1 <= c.ducks /\ n \in Nat
      BY <1>1
    <3>2. n * (d + 1) \in Nat /\ n * c.ducks \in Nat /\ n * (d + 1) <= n * c.ducks
      BY <3>1, ProductGrows
    <3>3. \A x, y \in Nat : /\ x * y = y * x /\ x * y \in Nat
                           /\ x * (y + 1) = y * x + x
      BY Z3
    <3>4. n * (d + 1) = d * n + n /\ d * n \in Nat /\ n * c.ducks = c.ducks * n
      BY <3>1, <3>3
    <3>. QED  BY <3>2, <3>4
  <2>2. PICK q \in Nat, l \in Nat : q = c.ducks - 1 /\ l = Len(a) /\ l = q + m
    <3>1. c.ducks - 1 \in Nat /\ Len(a) \in Nat  BY <1>1
    <3>. QED  BY <1>2, <2>1, <3>1
  <2>3. q + p + s \in 1..l
    <3>1. s \in Nat /\ s >= 1 /\ s <= n /\ n \in Nat  BY <1>1
    <3>. HIDE DEF n
    <3>2. p + n <= m /\ l = q + m  BY <2>1, <2>2
    <3>. QED  BY <3>1, <3>2
  <2>4. PICK u \in Nat : u = a[q + p + s]
    <3>1. \A j \in 1..Len(a) : a[j] \in Nat  OBVIOUS
    <3>. QED  BY <2>2, <2>3, <3>1, Zenon
  <2>5. PICK g \in Nat \ {0} : g = Grains["duckrace"]
    BY GamesAssumption, InstantAssumption
  <2>6. /\ c.base \in Floats /\ c.base \in Nat /\ c.base # 0 /\ Unit \in Nat
    BY <1>1, FloatsAre, InfinityIs
  <2>7. PICK y \in Nat : y = c.base * g + u * Unit /\ c.base * g <= y
    <3>1. c.base * g \in Nat /\ u * Unit \in Nat
      <4>1. \A i, j \in Nat : i * j \in Nat  BY Z3
      <4>. QED  BY <2>4, <2>5, <2>6, <4>1
    <3>. QED  BY <3>1
  <2>8. f[s] = D!Weight(c, a, d, s)  OBVIOUS
  <2>9. D!Weight(c, a, d, s) = Rounded(y, g)
    <3>1. D!Weight(c, a, d, s) =
             D!Rounded(c.base * Grains["duckrace"] + a[q + p + s] * Unit,
                       Grains["duckrace"])
      BY <2>1, <2>2, Zenon DEF D!Weight
    <3>. QED  BY <2>4, <2>5, <2>7, <3>1, RaceRounds, Zenon
  <2>10. Rounded(y, g) \in Floats /\ Rounded(y, g) \in Nat /\ c.base <= Rounded(y, g)
    BY <2>5, <2>6, <2>7, RoundedIsFloat, RoundedStays
  <2>11. Rounded(y, g) # 0  BY <2>6, <2>10
  <2>. QED  BY <2>8, <2>9, <2>10, <2>11
<1>4. \E t : RoundedSums(t, f, n)
  <2>. HIDE DEF f
  <2>. QED  BY <1>1, RoundedSumsExist
<1>5. w = CHOOSE t : RoundedSums(t, f, n)
  <2>1. \A x, y : D!Plus(x, y) = Plus(x, y)  BY RaceRounds
  <2>. QED  BY <2>1, Zenon DEF D!Weights, RoundedSums
<1>. HIDE DEF f, w, n
<1>6. RoundedSums(w, f, n)  BY <1>4, <1>5, Zenon
<1>7. n \in Nat  BY <1>1
<1>8. /\ w[0] = 0
      /\ \A i \in 0..n : w[i] \in Floats /\ w[i] \in Nat /\ w[i] <= w[n]
      /\ \A i \in 1..n : w[i - 1] <= w[i] /\ w[i] > 0
  BY <1>3, <1>6, <1>7, RoundedSumsGrow, Zenon
<1>. QED  BY <1>8, Zenon DEF w, n

\* A larger share of the way to a target is no shorter way, and none goes past
\* it: quotient and product are rounded, but not below what they were for less.
LEMMA SharesGrow ==
    ASSUME NEW g \in Floats, g < Infinity, NEW w \in Floats \ {0},
           NEW x \in Nat, NEW y \in Nat, x <= y, y <= w
    PROVE  /\ Times(g, Over(x, w)) \in Nat /\ Times(g, Over(y, w)) \in Nat
           /\ Times(g, Over(x, w)) <= Times(g, Over(y, w))
           /\ Times(g, Over(y, w)) <= g
<1>1. /\ g \in Nat /\ Unit \in Nat \ {0} /\ Infinity \in Nat \ {0}
      /\ Unit \in Floats /\ Unit < Infinity /\ g # Infinity /\ 0 # Infinity
      /\ w \in Nat \ {0} /\ w <= Infinity
  BY FloatsAre, InfinityIs
<1>2. \A i, j \in Nat : i * j \in Nat /\ i * j = j * i  BY Z3
<1>3. ASSUME NEW z \in Nat, NEW e \in Nat, z <= e, e <= Unit
      PROVE  /\ Times(g, z) \in Nat /\ Times(g, e) \in Nat
             /\ Times(g, z) <= Times(g, e) /\ Times(g, e) <= g
  <2>1. z # Infinity /\ e # Infinity  BY <1>1, <1>3
  <2>2. Times(g, z) = Rounded(g * z, Unit) /\ Times(g, e) = Rounded(g * e, Unit)
    BY <1>1, <2>1, Zenon DEF Times
  <2>3. g * z \in Nat /\ g * e \in Nat /\ g * z <= g * e
    BY <1>1, <1>3, ProductGrows
  <2>4. g * e <= g * Unit  BY <1>1, <1>3, ProductGrows
  <2>5. Rounded(g * z, Unit) <= Rounded(g * e, Unit)  BY <1>1, <2>3, RoundedGrows
  <2>6. Rounded(g * e, Unit) <= g  BY <1>1, <2>3, <2>4, RoundedStays
  <2>7. Rounded(g * z, Unit) \in Nat /\ Rounded(g * e, Unit) \in Nat
    BY <1>1, <2>3, RoundedIsFloat
  <2>. QED  BY <2>2, <2>5, <2>6, <2>7
<1>4. PICK z \in Nat, e \in Nat : z = Over(x, w) /\ e = Over(y, w) /\ z <= e /\ e <= Unit
  <2>1. CASE w = Infinity
    <3>1. Over(x, w) = 0 /\ Over(y, w) = 0  BY <2>1, Zenon DEF Over
    <3>. QED  BY <1>1, <3>1
  <2>2. CASE w # Infinity /\ w < Infinity
    <3>1. x # Infinity /\ y # Infinity  BY <1>1, <2>2
    <3>2. Over(x, w) = Rounded(x * Unit, w) /\ Over(y, w) = Rounded(y * Unit, w)
      BY <2>2, <3>1, Zenon DEF Over
    <3>3. Unit * x <= Unit * y /\ Unit * y <= Unit * w
      BY <1>1, ProductGrows
    <3>4. PICK m \in Nat, n \in Nat :
             m = x * Unit /\ n = y * Unit /\ m <= n /\ n <= Unit * w
      <4>1. /\ x * Unit = Unit * x /\ y * Unit = Unit * y
            /\ x * Unit \in Nat /\ y * Unit \in Nat
        BY <1>1, <1>2
      <4>. QED  BY <3>3, <4>1
    <3>5. Rounded(m, w) <= Rounded(n, w)  BY <1>1, <3>4, RoundedGrows
    <3>6. Rounded(n, w) <= Unit  BY <1>1, <3>4, RoundedStays
    <3>7. Rounded(m, w) \in Nat /\ Rounded(n, w) \in Nat
      BY <1>1, <3>4, RoundedIsFloat
    <3>8. Over(x, w) = Rounded(m, w) /\ Over(y, w) = Rounded(n, w)
      BY <3>2, <3>4, Zenon
    <3>. QED  BY <3>5, <3>6, <3>7, <3>8
  <2>. QED  BY <1>1, <2>1, <2>2
<1>. QED  BY <1>3, <1>4, Zenon

\* No duck moves back with a frame, or past the finish.
LEMMA DucksMoveOn ==
    ASSUME NEW c \in Engines, c.game = "duckrace",
           NEW t, IsPermutation(t, c.ducks),
           NEW a \in Seq(Nat), Len(a) = Len(Requests(c)),
           NEW d \in 0..(c.ducks - 1)
    PROVE  LET At(f) == D!Position(c, t, a, d, f)
               n == D!Segments(c)
           IN  /\ At(0) = 0 /\ At(n) \in Nat \ {0} /\ At(n) <= Unit
               /\ \A f \in 1..n : At(f - 1) <= At(f)
<1>. DEFINE g == D!Target(c, t, d)
            w == D!Weights(c, a, d)
            n == D!Segments(c)
            At(i) == D!Position(c, t, a, d, i)
<1>1. c.ducks \in Nat /\ n \in Nat \ {0}  BY RaceNumbers
<1>2. g \in Nat \ {0} /\ g <= Unit /\ g \in Floats
  <2>1. PICK k \in 0..(c.ducks - 1) : t[k] = d  BY <1>1, EveryoneFinishes
  <2>2. /\ c.finish - Behind(c, k) \in Nat \ {0}
        /\ D!Target(c, t, t[k]) = Rounded(c.finish - Behind(c, k), 1)
        /\ D!Target(c, t, t[k]) \in Nat \ {0}
        /\ D!Target(c, t, t[k]) <= Unit
    BY TargetIs
  <2>3. PICK x \in Nat : x = c.finish - Behind(c, k)  BY <2>2
  <2>4. Rounded(x, 1) \in Floats  BY <2>3, RoundedIsFloat
  <2>. QED  BY <2>1, <2>2, <2>3, <2>4, Zenon
<1>3. /\ w[0] = 0
      /\ \A i \in 0..n : w[i] \in Floats /\ w[i] \in Nat /\ w[i] <= w[n]
      /\ \A i \in 1..n : w[i - 1] <= w[i] /\ w[i] > 0
  BY WeightsGrow
<1>4. ASSUME NEW i
      PROVE  At(i) = IF i = 0 THEN 0 ELSE IF i = n THEN g
                     ELSE Times(g, Over(w[i], w[n]))
  BY RaceRounds, Zenon DEF D!Position
<1>5. Unit \in Nat \ {0} /\ Unit < Infinity /\ Infinity \in Nat
  BY FloatsAre, InfinityIs
<1>6. g < Infinity  BY <1>2, <1>5
<1>. HIDE DEF At, g, w, n
<1>7. 0 # n  BY <1>1
<1>8. At(0) = 0 /\ At(n) = g  BY <1>4, <1>7, Zenon
<1>9. PICK z \in Floats \ {0} : z = w[n]
  <2>1. n \in 0..n /\ n \in 1..n  BY <1>1
  <2>. QED  BY <1>3, <2>1
<1>10. ASSUME NEW f \in 1..n PROVE At(f - 1) <= At(f)
  <2>1. f - 1 \in 0..n /\ f \in 0..n /\ f # 0 /\ f - 1 # n  BY <1>1
  <2>2. PICK x \in Nat, y \in Nat : x = w[f - 1] /\ y = w[f] /\ x <= y /\ y <= z
    BY <1>3, <1>9, <2>1
  <2>3. /\ Times(g, Over(x, z)) \in Nat /\ Times(g, Over(y, z)) \in Nat
        /\ Times(g, Over(x, z)) <= Times(g, Over(y, z))
        /\ Times(g, Over(y, z)) <= g
    BY <1>2, <1>6, <2>2, SharesGrow
  <2>4. At(f) = IF f = n THEN g ELSE Times(g, Over(y, z))
    BY <1>4, <1>9, <2>1, <2>2, Zenon
  <2>5. At(f - 1) = IF f - 1 = 0 THEN 0 ELSE Times(g, Over(x, z))
    BY <1>4, <1>9, <2>1, <2>2, Zenon
  <2>. QED  BY <1>2, <2>3, <2>4, <2>5
<1>. QED  BY <1>2, <1>8, <1>10, Zenon DEF At, n

\* A gap well above the spacing of the numbers up to 1 is not lost.
LEMMA GapsRemain ==
    ASSUME NEW p \in Nat \ {0}, NEW U \in Nat, NEW h \in Nat, h * p > 4 * U,
           NEW f \in Nat, NEW i \in Nat, NEW j \in Nat, j = i + h,
           NEW b \in Nat, NEW e \in Nat, NEW x \in Nat, NEW y \in Nat,
           NEW r \in Nat, NEW s \in Nat, f = b + x, f = e + y,
           p * b <= p * i + U, p * j <= p * e + U,
           p * x <= p * r + U, p * s <= p * y + U
    PROVE  s < r
<1>1. SUFFICES ASSUME r <= s PROVE FALSE  OBVIOUS
<1>2. \A k \in Nat : p * k \in Nat  BY Z3
<1>3. \A k, l \in Nat : p * (k + l) = p * k + p * l /\ k * l = l * k  BY Z3
<1>4. PICK pf \in Nat, pi \in Nat, pj \in Nat, pb \in Nat, pe \in Nat,
           px \in Nat, py \in Nat, pr \in Nat, ps \in Nat, ph \in Nat :
         /\ pf = p * f /\ pi = p * i /\ pj = p * j /\ pb = p * b /\ pe = p * e
         /\ px = p * x /\ py = p * y /\ pr = p * r /\ ps = p * s /\ ph = p * h
  BY <1>2
<1>5. pf = pb + px /\ pf = pe + py /\ pj = pi + ph /\ ph > 4 * U
  BY <1>3, <1>4
<1>6. pr <= ps  BY <1>1, <1>4, ProductGrows
<1>7. pb <= pi + U /\ pj <= pe + U /\ px <= pr + U /\ ps <= py + U
  BY <1>4, Zenon
<1>. QED  BY <1>5, <1>6, <1>7

\* No duck is behind one that finishes after it; it is ahead by a gap that can be
\* told.
LEMMA TargetsAreRanked ==
    ASSUME NEW c \in Engines, c.game = "duckrace",
           NEW t, IsPermutation(t, c.ducks), NEW a,
           NEW k \in 0..(c.ducks - 2), NEW n, n = D!Segments(c)
    PROVE  LET ahead  == D!Position(c, t, a, t[k], n)
               behind == D!Position(c, t, a, t[k + 1], n)
           IN  /\ behind <= ahead
               /\ c.gap * Precision > 4 * Unit => behind < ahead
<1>1. /\ c.ducks \in Nat \ {0, 1} /\ c.gap \in Nat /\ c.finish \in Nat
      /\ c.finish <= Unit /\ n \in Nat \ {0} /\ Unit \in Nat \ {0}
      /\ Unit \in Floats /\ Precision \in Nat \ {0}
  BY RaceNumbers, FloatsAre, InfinityIs
<1>2. /\ k \in Nat /\ k \in 0..(c.ducks - 1) /\ k + 1 \in 0..(c.ducks - 1)
      /\ k \in 0..k /\ k \in 0..(k + 1)
  BY <1>1
<1>3. \A d : D!Position(c, t, a, d, n) = D!Target(c, t, d)
  <2>1. n # 0  BY <1>1
  <2>. QED  BY <2>1, Zenon DEF D!Position
<1>4. PICK i \in Nat, b \in Nat : i = c.gap * k /\ b = Behind(c, k) /\ b < c.finish
  BY <1>2, BehindIs
<1>5. PICK j \in Nat, e \in Nat : /\ j = c.gap * (k + 1) /\ e = Behind(c, k + 1)
                                  /\ e < c.finish /\ b <= e
  BY <1>2, <1>4, BehindIs
<1>6. PICK x \in Nat, y \in Nat : x = c.finish - b /\ y = c.finish - e /\ y <= x
  BY <1>1, <1>4, <1>5
<1>7. PICK r \in Nat, s \in Nat :
         r = D!Target(c, t, t[k]) /\ s = D!Target(c, t, t[k + 1])
         /\ r = Rounded(x, 1) /\ s = Rounded(y, 1)
  <2>1. /\ D!Target(c, t, t[k]) = Rounded(c.finish - Behind(c, k), 1)
        /\ D!Target(c, t, t[k + 1]) = Rounded(c.finish - Behind(c, k + 1), 1)
    BY <1>2, TargetIs
  <2>2. Rounded(x, 1) \in Nat /\ Rounded(y, 1) \in Nat  BY <1>6, RoundedIsFloat
  <2>. QED  BY <1>4, <1>5, <1>6, <2>1, <2>2, Zenon
<1>8. s <= r  BY <1>6, <1>7, RoundedGrows
<1>9. ASSUME c.gap * Precision > 4 * Unit PROVE s < r
  <2>1. j = i + c.gap
    <3>1. \A l, m \in Nat : l * (m + 1) = l * m + l  BY Z3
    <3>. QED  BY <1>1, <1>2, <1>4, <1>5, <3>1
  <2>2. b = Rounded(i, 1) /\ e = Rounded(j, 1)
    BY <1>4, <1>5, Zenon DEF Behind
  <2>3. ASSUME NEW m \in Nat, Rounded(m, 1) < c.finish PROVE m <= Unit
    <3>1. SUFFICES ASSUME Unit <= m PROVE Unit <= Rounded(m, 1)
      <4>1. Rounded(m, 1) \in Nat  BY RoundedIsFloat
      <4>. QED  BY <1>1, <2>3, <3>1, <4>1
    <3>2. Unit * 1 <= m  BY <1>1, <3>1
    <3>. QED  BY <1>1, <3>2, RoundedStays
  <2>4. i <= Unit /\ j <= Unit  BY <1>4, <1>5, <2>2, <2>3
  <2>5. Precision * b <= Precision * i + Unit  BY <2>2, <2>4, RoundsWithinUnit
  <2>6. Precision * j <= Precision * e + Unit  BY <2>2, <2>4, RoundsWithinUnit
  <2>7. x <= Unit /\ y <= Unit  BY <1>1, <1>4, <1>5, <1>6
  <2>8. Precision * x <= Precision * r + Unit  BY <1>7, <2>7, RoundsWithinUnit
  <2>9. Precision * s <= Precision * y + Unit  BY <1>7, <2>7, RoundsWithinUnit
  <2>10. c.finish = b + x /\ c.finish = e + y  BY <1>1, <1>4, <1>5, <1>6
  <2>11. Unit \in Nat /\ c.gap \in Nat /\ c.finish \in Nat  BY <1>1
  <2>. QED
    BY <1>1, <1>9, <2>1, <2>5, <2>6, <2>8, <2>9, <2>10, <2>11, GapsRemain
<1>. QED  BY <1>3, <1>7, <1>8, <1>9, Zenon

\* What the observer of a race holds is what the draws of the round give.
RaceInv ==
    pc = "observe" /\ config.game = "duckrace" =>
        /\ Len(draws) = Len(Requests(config))
        /\ result = D!Outcome(config, tiles, draws)

\* A round is handed over as it was drawn, and is left alone while observed.
LEMMA RaceInvNext == RaceInv /\ [GamesNext]_allVars => RaceInv'
<1>. SUFFICES ASSUME RaceInv, [GamesNext]_allVars PROVE RaceInv'  OBVIOUS
<1>1. CASE PlayReturns
  <2>1. /\ Drawn = Len(Requests(config)) /\ result' = Outcome(config, tiles, draws)
        /\ UNCHANGED <<config, tiles, draws>>
    BY <1>1 DEF PlayReturns, Played, gameVars
  <2>2. config.game = "duckrace" =>
           Outcome(config, tiles, draws) = D!Outcome(config, tiles, draws)
    BY DEF Outcome
  <2>. QED  BY <2>1, <2>2 DEF RaceInv, Drawn
<1>2. CASE PlayStarts  BY <1>2 DEF PlayStarts, StartRound, RaceInv
<1>3. CASE Draw  BY <1>3 DEF Draw, RaceInv, vars
<1>4. CASE DrawFails  BY <1>4 DEF DrawFails, EngineError, Return, RaceInv
<1>5. CASE EvaluateBoard  BY <1>5 DEF EvaluateBoard, RaceInv, vars
<1>6. CASE RoundEnds
  BY <1>6 DEF RoundEnds, Observe, ObserverError, Return, RaceInv
<1>7. CASE RunEnds  BY <1>7 DEF RunEnds, Completed, ContextError, Return, RaceInv
<1>8. CASE RunCancelled
  BY <1>8 DEF RunCancelled, Cancel, RaceInv, gameVars
<1>9. CASE UNCHANGED allVars  BY <1>9 DEF allVars, vars, gameVars, RaceInv
<1>. QED
  BY <1>1, <1>2, <1>3, <1>4, <1>5, <1>6, <1>7, <1>8, <1>9
  DEF GamesNext, GamesStep

\* The last of so many frames.
LEMMA LastIs ==
    ASSUME NEW n \in Nat PROVE Max(0..n) = n
<1>1. n \in 0..n /\ \A y \in 0..n : n >= y  BY SMT
<1>2. Max(0..n) \in 0..n /\ \A y \in 0..n : Max(0..n) >= y
  <2>1. \E x \in 0..n : \A y \in 0..n : x >= y  BY <1>1, Zenon
  <2>. QED  BY <2>1, Zenon DEF Max
<1>. QED  BY <1>1, <1>2

\* Any number of ducks over any number of segments, whatever their weights: none
\* ever moves back or past the finish, and they end in the order the shuffle
\* dealt, as far as their gap can be told.
THEOREM RacesDoEndInOrder == GamesSpec => []RacesEndInOrder
<1>1. GamesTypeOK /\ RaceInv => RacesEndInOrder
  <2>. SUFFICES ASSUME GamesTypeOK, RaceInv,
                       pc = "observe", config.game = "duckrace"
                PROVE  LET last     == Max(DOMAIN result.frames)
                           At(f, d) == result.frames[f].positions[d]
                       IN  /\ result.frames[last].elapsed = config.duration
                           /\ \A d \in 0..(config.ducks - 1) :
                                 /\ At(0, d) = 0 /\ At(last, d) > 0
                                 /\ At(last, d) <= Unit
                                 /\ \A f \in 1..last : At(f - 1, d) <= At(f, d)
                           /\ \A i \in 1..(config.ducks - 1) :
                                 LET ahead  == At(last, result.order[i])
                                     behind == At(last, result.order[i + 1])
                                 IN  /\ behind <= ahead
                                     /\ config.gap * Precision > 4 * Unit
                                           => behind < ahead
    BY Zenon DEF RacesEndInOrder
  <2>. DEFINE last == Max(DOMAIN result.frames)
              At(f, d) == result.frames[f].positions[d]
              n == D!Segments(config)
              Pos(f, d) == D!Position(config, tiles, draws, d, f)
              Row(f) == [d \in 0..(config.ducks - 1) |-> Pos(f, d)]
              Frame(f) == [elapsed |-> f * config.tick, positions |-> Row(f)]
              Place(i) == tiles[i - 1]
  <2>1. /\ config \in Engines /\ draws \in Seq(Nat)
        /\ Len(draws) = Len(Requests(config))
        /\ result = D!Outcome(config, tiles, draws)
    BY DEF GamesTypeOK, RaceInv
  <2>2. IsPermutation(tiles, config.ducks)  BY DEF GamesTypeOK, Tiles
  <2>3. /\ config.ducks \in Nat \ {0, 1} /\ n \in Nat \ {0}
        /\ n * config.tick = config.duration
    BY <2>1, RaceNumbers
  <2>4. /\ result.frames = [f \in 0..n |-> Frame(f)]
        /\ result.order = [i \in 1..config.ducks |-> Place(i)]
    <3>1. result = [game   |-> "duckrace", frames |-> [f \in 0..n |-> Frame(f)],
                    order  |-> [i \in 1..config.ducks |-> Place(i)]]
      BY <2>1, Zenon DEF D!Outcome, D!FinishOrder
    <3>. HIDE DEF Frame, Place
    <3>. QED  BY <3>1
  <2>5. ASSUME NEW f
         PROVE  Frame(f).elapsed = f * config.tick /\ Frame(f).positions = Row(f)
    <3>1. PICK e : e = f * config.tick  OBVIOUS
    <3>. HIDE DEF Row
    <3>2. Frame(f) = [elapsed |-> e, positions |-> Row(f)]  BY <3>1, Zenon
    <3>. QED  BY <3>1, <3>2
  <2>. HIDE DEF n, Pos, Frame
  <2>6. last = n
    <3>1. DOMAIN result.frames = 0..n  BY <2>4, Zenon
    <3>. QED  BY <2>3, <3>1, LastIs
  <2>7. ASSUME NEW f \in 0..n, NEW d \in 0..(config.ducks - 1)
        PROVE  At(f, d) = Pos(f, d)
    <3>1. result.frames[f] = Frame(f)  BY <2>4
    <3>2. Row(f)[d] = Pos(f, d)  OBVIOUS
    <3>. HIDE DEF Row
    <3>3. result.frames[f].positions[d] = Row(f)[d]  BY <2>5, <3>1, Zenon
    <3>. QED  BY <3>2, <3>3, Zenon
  <2>8. result.frames[last].elapsed = config.duration
    <3>1. n \in 0..n  BY <2>3
    <3>2. result.frames[n] = Frame(n)  BY <2>4, <3>1
    <3>. QED  BY <2>3, <2>6, <2>5, <3>2, Zenon
  <2>9. ASSUME NEW d \in 0..(config.ducks - 1)
        PROVE  /\ At(0, d) = 0 /\ At(last, d) > 0 /\ At(last, d) <= Unit
               /\ \A f \in 1..last : At(f - 1, d) <= At(f, d)
    <3>1. /\ Pos(0, d) = 0 /\ Pos(n, d) \in Nat \ {0} /\ Pos(n, d) <= Unit
          /\ \A f \in 1..n : Pos(f - 1, d) <= Pos(f, d)
      BY <2>1, <2>2, DucksMoveOn DEF Pos, n
    <3>2. 0 \in 0..n /\ n \in 0..n  BY <2>3
    <3>3. At(0, d) = Pos(0, d) /\ At(last, d) = Pos(n, d)
      BY <2>6, <2>7, <3>2, Zenon
    <3>. HIDE DEF At, last
    <3>4. ASSUME NEW f \in 1..last PROVE At(f - 1, d) <= At(f, d)
      <4>1. f \in 1..n /\ f \in 0..n /\ f - 1 \in 0..n  BY <2>3, <2>6
      <4>2. At(f - 1, d) = Pos(f - 1, d) /\ At(f, d) = Pos(f, d)
        BY <2>7, <4>1, Zenon
      <4>. QED  BY <3>1, <4>1, <4>2, Zenon
    <3>5. At(last, d) > 0
      <4>1. \A p \in Nat \ {0} : p > 0  OBVIOUS
      <4>. QED  BY <3>1, <3>3, <4>1, Zenon
    <3>. QED  BY <3>1, <3>3, <3>4, <3>5, Zenon
  <2>10. ASSUME NEW i \in 1..(config.ducks - 1)
         PROVE  LET ahead  == At(last, result.order[i])
                    behind == At(last, result.order[i + 1])
                IN  /\ behind <= ahead
                    /\ config.gap * Precision > 4 * Unit => behind < ahead
    <3>. DEFINE k == i - 1
    <3>1. /\ k \in 0..(config.ducks - 2) /\ k + 1 = i /\ (i + 1) - 1 = k + 1
          /\ i \in 1..config.ducks /\ i + 1 \in 1..config.ducks
          /\ k \in 0..(config.ducks - 1) /\ k + 1 \in 0..(config.ducks - 1)
          /\ n \in 0..n
      BY <2>3
    <3>2. result.order[i] = tiles[k] /\ result.order[i + 1] = tiles[k + 1]
      <4>1. Place(i) = tiles[k] /\ Place(i + 1) = tiles[k + 1]
        BY <3>1, Zenon
      <4>. HIDE DEF Place, k
      <4>2. result.order[i] = Place(i) /\ result.order[i + 1] = Place(i + 1)
        BY <2>4, <3>1
      <4>. QED  BY <4>1, <4>2
    <3>. HIDE DEF k, At
    <3>3. /\ tiles[k] \in 0..(config.ducks - 1)
          /\ tiles[k + 1] \in 0..(config.ducks - 1)
      BY <2>2, <3>1, Zenon DEF IsPermutation
    <3>4. /\ Pos(n, tiles[k + 1]) <= Pos(n, tiles[k])
          /\ config.gap * Precision > 4 * Unit
                => Pos(n, tiles[k + 1]) < Pos(n, tiles[k])
      BY <2>1, <2>2, <3>1, TargetsAreRanked DEF Pos, n
    <3>5. /\ At(n, tiles[k]) = Pos(n, tiles[k])
          /\ At(n, tiles[k + 1]) = Pos(n, tiles[k + 1])
      BY <2>7, <3>1, <3>3
    <3>. QED  BY <2>6, <3>2, <3>4, <3>5, Zenon
  <2>. QED  BY <2>8, <2>9, <2>10, Zenon
<1>2. GamesInit => RaceInv  BY DEF GamesInit, Init, RaceInv
<1>. QED
  BY <1>1, <1>2, RaceInvNext, NothingLostInTheShuffle, PTL DEF GamesSpec


------------------------------------------------------------------------------
(* Every deal is as likely as any other.                                     *)

\* t holds the tiles after 0, 1, ... k draws of d.
Steps(t, n, d, k) ==
    t = [i \in 0..k |-> IF i = 0 THEN InOrder(n)
                        ELSE Swap(t[i - 1], i - 1, i - 1 + d[i])]

After(n, k, d) == CHOOSE t : Steps(t, n, d, k)

Deal(n, k, d) == After(n, k, d)[k]

\* The draws that fill the first k of n places.
DrawsOf(n, k) ==
    {d \in [1..k -> Nat] : \A i \in 1..k : d[i] <= n - i}

\* Any draws shuffle the tiles one after the other.
LEMMA StepsExist ==
    ASSUME NEW n, NEW d, NEW k \in Nat
    PROVE  \E t : Steps(t, n, d, k)
<1>. DEFINE S == {m \in Nat : \E t : Steps(t, n, d, m)}
            Move(v, i) == Swap(v, i - 1, i - 1 + d[i])
<1>1. 0 \in S
  <2>. DEFINE t == [i \in 0..0 |-> InOrder(n)]
              v == [i \in 0..0 |-> IF i = 0 THEN InOrder(n) ELSE Move(t[i - 1], i)]
  <2>1. t = v
    <3>. HIDE DEF Move
    <3>. QED  BY SMT
  <2>2. Steps(t, n, d, 0)  BY <2>1, Zenon DEF Steps
  <2>. QED  BY <2>2
<1>2. ASSUME NEW m \in S PROVE m + 1 \in S
  <2>1. m \in Nat /\ \E t : Steps(t, n, d, m)  OBVIOUS
  <2>2. PICK t : Steps(t, n, d, m)  BY <2>1
  <2>. DEFINE u == [i \in 0..(m + 1) |-> IF i = m + 1 THEN Move(t[m], i) ELSE t[i]]
              v == [i \in 0..(m + 1) |-> IF i = 0 THEN InOrder(n)
                                         ELSE Move(u[i - 1], i)]
  <2>3. ASSUME NEW i \in 0..(m + 1) PROVE u[i] = v[i]
    <3>1. t = [j \in 0..m |-> IF j = 0 THEN InOrder(n) ELSE Move(t[j - 1], j)]
      BY <2>2, Zenon DEF Steps
    <3>. HIDE DEF Move
    <3>2. u[m + 1] = Move(t[m], m + 1) /\ \A j \in 0..m : u[j] = t[j]
      BY <2>1
    <3>3. v[i] = IF i = 0 THEN InOrder(n) ELSE Move(u[i - 1], i)  BY Zenon
    <3>4. \A j \in 0..m : t[j] = IF j = 0 THEN InOrder(n) ELSE Move(t[j - 1], j)
      BY <3>1, Zenon
    <3>. HIDE DEF u, v
    <3>5. CASE i = 0
      <4>1. 0 \in 0..m  BY <2>1
      <4>. QED  BY <3>2, <3>3, <3>4, <3>5, <4>1, Zenon
    <3>6. CASE i = m + 1
      <4>1. i - 1 = m /\ i # 0 /\ m \in 0..m  BY <2>1, <3>6
      <4>. QED  BY <3>2, <3>3, <3>6, <4>1, Zenon
    <3>7. CASE i # 0 /\ i # m + 1
      <4>1. i \in 0..m /\ i - 1 \in 0..m  BY <2>1, <3>7
      <4>. QED  BY <3>2, <3>3, <3>4, <3>7, <4>1, Zenon
    <3>. QED  BY <3>5, <3>6, <3>7
  <2>4. u = v
    <3>. HIDE DEF Move
    <3>. QED  BY <2>3
  <2>5. Steps(u, n, d, m + 1)  BY <2>4, Zenon DEF Steps
  <2>. QED  BY <2>1, <2>5
<1>3. S = Nat
  <2>. HIDE DEF S
  <2>1. S \in SUBSET Nat  BY DEF S
  <2>. QED  BY <1>1, <1>2, <2>1, Induction
<1>. QED  BY <1>3

\* The tiles after a draw are those before it with two places exchanged.
LEMMA AfterIs ==
    ASSUME NEW n, NEW d, NEW m \in Nat
    PROVE  /\ After(n, m, d)[0] = InOrder(n)
           /\ \A k \in 0..(m - 1) :
                 After(n, m, d)[k + 1] = Swap(After(n, m, d)[k], k, k + d[k + 1])
<1>. DEFINE t == After(n, m, d)
            Move(v, i) == Swap(v, i - 1, i - 1 + d[i])
<1>1. Steps(t, n, d, m)  BY StepsExist, Zenon DEF After
<1>2. t = [i \in 0..m |-> IF i = 0 THEN InOrder(n) ELSE Move(t[i - 1], i)]
  BY <1>1, Zenon DEF Steps
<1>3. \A i \in 0..m : t[i] = IF i = 0 THEN InOrder(n) ELSE Move(t[i - 1], i)
  <2>. HIDE DEF t, Move
  <2>. QED  BY <1>2, Zenon
<1>4. ASSUME NEW k \in 0..(m - 1) PROVE t[k + 1] = Swap(t[k], k, k + d[k + 1])
  <2>1. k + 1 \in 0..m /\ k + 1 # 0 /\ (k + 1) - 1 = k  OBVIOUS
  <2>2. t[k + 1] = Move(t[k], k + 1)
    <3>. HIDE DEF t, Move
    <3>. QED  BY <1>3, <2>1, Zenon
  <2>. HIDE DEF t
  <2>. QED  BY <2>1, <2>2, Zenon
<1>5. 0 \in 0..m  OBVIOUS
<1>. HIDE DEF t, Move
<1>. QED  BY <1>3, <1>4, <1>5, Zenon DEF t

\* Draws that begin alike shuffle alike so far.
LEMMA AfterAgrees ==
    ASSUME NEW n, NEW m \in Nat, NEW d, NEW e, NEW k \in 0..m,
           \A i \in 1..k : d[i] = e[i]
    PROVE  After(n, m, d)[k] = After(n, m, e)[k]
<1>. DEFINE t == After(n, m, d)
            u == After(n, m, e)
            S == {j \in Nat : j <= k => t[j] = u[j]}
<1>1. /\ t[0] = InOrder(n) /\ u[0] = InOrder(n)
      /\ \A j \in 0..(m - 1) : /\ t[j + 1] = Swap(t[j], j, j + d[j + 1])
                              /\ u[j + 1] = Swap(u[j], j, j + e[j + 1])
  BY AfterIs, Zenon
<1>. HIDE DEF t, u
<1>2. 0 \in S  BY <1>1
<1>3. ASSUME NEW j \in S PROVE j + 1 \in S
  <2>. SUFFICES ASSUME j + 1 <= k PROVE t[j + 1] = u[j + 1]  OBVIOUS
  <2>1. j \in 0..(m - 1) /\ j + 1 \in 1..k /\ t[j] = u[j]  OBVIOUS
  <2>2. d[j + 1] = e[j + 1]  BY <2>1
  <2>. HIDE DEF S
  <2>. QED  BY <1>1, <2>1, <2>2, Zenon
<1>4. S = Nat
  <2>. HIDE DEF S
  <2>1. S \in SUBSET Nat  BY DEF S
  <2>. QED  BY <1>2, <1>3, <2>1, Induction
<1>5. k \in S /\ k <= k  BY <1>4
<1>. QED  BY <1>5 DEF t, u

\* The table is a permutation of the tiles after every draw.
LEMMA AfterIsPermutation ==
    ASSUME NEW n \in Nat, NEW m \in 0..n, NEW d \in DrawsOf(n, m), NEW k \in 0..m
    PROVE  /\ IsPermutation(After(n, m, d)[k], n)
           /\ After(n, m, d)[k] \in [0..(n - 1) -> 0..(n - 1)]
<1>. DEFINE t == After(n, m, d)
            I == 0..(n - 1)
            Good(v) == IsPermutation(v, n) /\ v \in [I -> I]
            S == {j \in Nat : j <= m => Good(t[j])}
<1>1. /\ t[0] = InOrder(n)
      /\ \A j \in 0..(m - 1) : t[j + 1] = Swap(t[j], j, j + d[j + 1])
  <2>1. m \in Nat  OBVIOUS
  <2>. QED  BY <2>1, AfterIs, Zenon
<1>. HIDE DEF t
<1>2. 0 \in S
  <2>1. IsPermutation(t[0], n)  BY <1>1, InOrderIsPermutation
  <2>2. t[0] \in [I -> I]  BY <1>1 DEF InOrder
  <2>3. Good(t[0])  BY <2>1, <2>2
  <2>. HIDE DEF Good
  <2>. QED  BY <2>3
<1>3. ASSUME NEW j \in S PROVE j + 1 \in S
  <2>. HIDE DEF Good
  <2>. SUFFICES ASSUME j + 1 <= m PROVE Good(t[j + 1])  OBVIOUS
  <2>1. j \in 0..(m - 1) /\ Good(t[j])  OBVIOUS
  <2>. HIDE DEF S
  <2>2. j \in I /\ j + d[j + 1] \in I
    <3>1. d[j + 1] \in Nat /\ d[j + 1] <= n - (j + 1)  BY <2>1 DEF DrawsOf
    <3>. QED  BY <2>1, <3>1
  <2>3. t[j + 1] = Swap(t[j], j, j + d[j + 1])  BY <1>1, <2>1
  <2>4. IsPermutation(Swap(t[j], j, j + d[j + 1]), n)
    BY <2>1, <2>2, SwapKeepsPermutation DEF Good
  <2>5. \A i, l \in I : Swap(t[j], i, l) \in [I -> I]
    <3>. HIDE DEF I
    <3>. QED  BY <2>1 DEF Swap, Good
  <2>. QED  BY <2>2, <2>3, <2>4, <2>5, Zenon DEF Good
<1>4. S = Nat
  <2>. HIDE DEF Good
  <2>1. S \in SUBSET Nat  OBVIOUS
  <2>. HIDE DEF S
  <2>. QED  BY <1>2, <1>3, <2>1, Induction
<1>5. Good(t[k])
  <2>. HIDE DEF Good
  <2>1. k \in S /\ k <= m  BY <1>4
  <2>. QED  BY <2>1
<1>. QED  BY <1>5 DEF t

\* A place that has been filled stays as it is.
LEMMA PlacesAre ==
    ASSUME NEW n \in Nat, NEW m \in 0..n, NEW d \in DrawsOf(n, m), NEW k \in 0..m,
           NEW p \in 0..(k - 1)
    PROVE  After(n, m, d)[k][p] = After(n, m, d)[p][p + d[p + 1]]
<1>. DEFINE t == After(n, m, d)
            I == 0..(n - 1)
            S == {j \in Nat : p < j /\ j <= m => t[j][p] = t[p][p + d[p + 1]]}
<1>1. \A j \in 0..(m - 1) : t[j + 1] = Swap(t[j], j, j + d[j + 1])
  <2>1. m \in Nat  OBVIOUS
  <2>. QED  BY <2>1, AfterIs, Zenon
<1>2. \A j \in 0..m : t[j] \in [I -> I]  BY AfterIsPermutation
<1>. HIDE DEF t
<1>3. 0 \in S  OBVIOUS
<1>4. ASSUME NEW j \in S PROVE j + 1 \in S
  <2>. SUFFICES ASSUME p < j + 1, j + 1 <= m
                PROVE  t[j + 1][p] = t[p][p + d[p + 1]]
    OBVIOUS
  <2>1. j \in 0..(m - 1) /\ p \in I /\ j \in I /\ j \in 0..m  OBVIOUS
  <2>2. d[j + 1] \in Nat /\ j + d[j + 1] \in I
    <3>1. d[j + 1] \in Nat /\ d[j + 1] <= n - (j + 1)  BY <2>1 DEF DrawsOf
    <3>. QED  BY <2>1, <3>1
  <2>3. t[j + 1][p] = IF p = j + d[j + 1] THEN t[j][j]
                      ELSE IF p = j THEN t[j][j + d[j + 1]] ELSE t[j][p]
    <3>1. \A i, l \in I : Swap(t[j], i, l)[p] =
             IF p = l THEN t[j][i] ELSE IF p = i THEN t[j][l] ELSE t[j][p]
      <4>. HIDE DEF I, S
      <4>. QED  BY <1>2, <2>1 DEF Swap
    <3>. QED  BY <1>1, <2>1, <2>2, <3>1, Zenon
  <2>4. CASE p = j
    <3>1. p + 1 = j + 1  BY <2>4
    <3>2. t[j + 1][p] = t[j][j + d[j + 1]]
      <4>. HIDE DEF S
      <4>1. CASE j = j + d[j + 1]  BY <2>3, <2>4, <4>1, Zenon
      <4>2. CASE j # j + d[j + 1]  BY <2>3, <2>4, <4>2, Zenon
      <4>. QED  BY <4>1, <4>2
    <3>. QED  BY <2>4, <3>2, Zenon
  <2>5. CASE p # j
    <3>1. p < j /\ p # j + d[j + 1]  BY <2>2, <2>5
    <3>2. t[j][p] = t[p][p + d[p + 1]]  BY <2>1, <3>1
    <3>. HIDE DEF S
    <3>. QED  BY <2>3, <2>5, <3>1, <3>2, Zenon
  <2>. QED  BY <2>4, <2>5
<1>5. S = Nat
  <2>. HIDE DEF S
  <2>1. S \in SUBSET Nat  BY DEF S
  <2>. QED  BY <1>3, <1>4, <2>1, Induction
<1>6. k \in S /\ p < k /\ k <= m  BY <1>5
<1>. QED  BY <1>6 DEF t

\* Draws that fill the first places alike are the same draws.
LEMMA DealIsInjective ==
    ASSUME NEW n \in Nat, NEW m \in 0..n,
           NEW d \in DrawsOf(n, m), NEW e \in DrawsOf(n, m),
           \A p \in 0..(m - 1) : Deal(n, m, d)[p] = Deal(n, m, e)[p]
    PROVE  d = e
<1>. DEFINE t == After(n, m, d)
            u == After(n, m, e)
            S == {k \in Nat : k <= m => \A i \in 1..k : d[i] = e[i]}
<1>1. \A p \in 0..(m - 1) : t[p][p + d[p + 1]] = u[p][p + e[p + 1]]
  <2>. SUFFICES ASSUME NEW p \in 0..(m - 1)
                PROVE  t[p][p + d[p + 1]] = u[p][p + e[p + 1]]
    OBVIOUS
  <2>1. m \in 0..m  OBVIOUS
  <2>2. t[m][p] = t[p][p + d[p + 1]] /\ u[m][p] = u[p][p + e[p + 1]]
    BY <2>1, PlacesAre
  <2>3. t[m][p] = u[m][p]  BY DEF Deal
  <2>. QED  BY <2>2, <2>3, Zenon
<1>2. 0 \in S  OBVIOUS
<1>3. ASSUME NEW k \in S PROVE k + 1 \in S
  <2>. SUFFICES ASSUME k + 1 <= m PROVE \A i \in 1..(k + 1) : d[i] = e[i]
    OBVIOUS
  <2>1. k \in 0..(m - 1) /\ k \in 0..m /\ \A i \in 1..k : d[i] = e[i]  OBVIOUS
  <2>2. t[k] = u[k]  BY <2>1, AfterAgrees
  <2>3. t[k][k + d[k + 1]] = t[k][k + e[k + 1]]  BY <1>1, <2>1, <2>2
  <2>4. k + d[k + 1] \in 0..(n - 1) /\ k + e[k + 1] \in 0..(n - 1)
        /\ d[k + 1] \in Nat /\ e[k + 1] \in Nat
    <3>1. /\ d[k + 1] \in Nat /\ d[k + 1] <= n - (k + 1)
          /\ e[k + 1] \in Nat /\ e[k + 1] <= n - (k + 1)
      BY <2>1 DEF DrawsOf
    <3>. QED  BY <2>1, <3>1
  <2>5. IsPermutation(t[k], n)  BY <2>1, AfterIsPermutation
  <2>. HIDE DEF t, S
  <2>6. k + d[k + 1] = k + e[k + 1]  BY <2>3, <2>4, <2>5 DEF IsPermutation
  <2>. QED  BY <2>1, <2>4, <2>6
<1>4. S = Nat
  <2>. HIDE DEF S
  <2>1. S \in SUBSET Nat  BY DEF S
  <2>. QED  BY <1>2, <1>3, <2>1, Induction
<1>5. m \in S /\ m <= m  BY <1>4
<1>6. \A i \in 1..m : d[i] = e[i]  BY <1>5
<1>. QED  BY <1>6 DEF DrawsOf

\* x puts m different tiles of n in the first m places.
Fills(n, m, x) ==
    /\ \A p \in 0..(m - 1) : x[p] \in 0..(n - 1)
    /\ \A p, q \in 0..(m - 1) : x[p] = x[q] => p = q

\* Whatever the first places are to hold, some draws put it there.
LEMMA DealIsSurjective ==
    ASSUME NEW n \in Nat, NEW m \in 0..n, NEW x, Fills(n, m, x)
    PROVE  \E d \in DrawsOf(n, m) :
              \A p \in 0..(m - 1) : Deal(n, m, d)[p] = x[p]
<1>. DEFINE Reaches(d, k) == \A p \in 0..(k - 1) : After(n, m, d)[k][p] = x[p]
            S == {k \in Nat : k <= m => \E d \in DrawsOf(n, m) : Reaches(d, k)}
<1>0. /\ \A p \in 0..(m - 1) : x[p] \in 0..(n - 1)
      /\ \A p, q \in 0..(m - 1) : x[p] = x[q] => p = q
  BY DEF Fills
<1>1. 0 \in S
  <2>1. [i \in 1..m |-> 0] \in DrawsOf(n, m)  BY DEF DrawsOf
  <2>2. 0..(0 - 1) = {}  OBVIOUS
  <2>. QED  BY <2>1, <2>2
<1>2. ASSUME NEW k \in S PROVE k + 1 \in S
  <2>. SUFFICES ASSUME k + 1 <= m
                PROVE  \E d \in DrawsOf(n, m) : Reaches(d, k + 1)
    OBVIOUS
  <2>1. k \in 0..(m - 1) /\ k \in 0..m /\ k + 1 \in 0..m  OBVIOUS
  <2>2. \E d \in DrawsOf(n, m) : Reaches(d, k)  BY <2>1
  <2>3. PICK d \in DrawsOf(n, m) : Reaches(d, k)  BY <2>2
  <2>. DEFINE t == After(n, m, d)
  <2>4. IsPermutation(t[k], n)  BY <2>1, AfterIsPermutation
  <2>5. x[k] \in 0..(n - 1)  BY <1>0, <2>1
  <2>6. PICK q \in 0..(n - 1) : t[k][q] = x[k]
    <3>. HIDE DEF t, S, Reaches
    <3>. QED  BY <2>4, <2>5, EveryoneFinishes
  <2>7. q >= k
    <3>. SUFFICES ASSUME q < k PROVE FALSE  OBVIOUS
    <3>1. q \in 0..(k - 1) /\ q \in 0..(m - 1) /\ q # k  BY <2>1
    <3>2. x[q] = x[k]  BY <2>3, <2>6, <3>1
    <3>. QED  BY <1>0, <2>1, <3>1, <3>2
  <2>. DEFINE e == [d EXCEPT ![k + 1] = q - k]
              u == After(n, m, e)
  <2>8. d \in [1..m -> Nat] /\ \A i \in 1..m : d[i] <= n - i  BY DEF DrawsOf
  <2>9. q - k \in Nat /\ q - k <= n - (k + 1) /\ k + 1 \in 1..m  BY <2>1, <2>7
  <2>. HIDE DEF S, Reaches
  <2>10. /\ e \in [1..m -> Nat]
         /\ \A l \in 1..m : e[l] = IF l = k + 1 THEN q - k ELSE d[l]
    <3>1. \A i \in 1..m, v \in Nat :
             /\ [d EXCEPT ![i] = v] \in [1..m -> Nat]
             /\ \A l \in 1..m :
                   [d EXCEPT ![i] = v][l] = IF l = i THEN v ELSE d[l]
      BY <2>8
    <3>. QED  BY <2>9, <3>1, Zenon
  <2>. HIDE DEF e
  <2>11. e[k + 1] = q - k /\ \A i \in 1..k : e[i] = d[i]
    <3>1. \A i \in 1..k : i \in 1..m /\ i # k + 1  BY <2>1
    <3>. QED  BY <2>9, <2>10, <3>1
  <2>12. e \in DrawsOf(n, m)
    <3>1. \A i \in 1..m : e[i] <= n - i  BY <2>8, <2>9, <2>10
    <3>. QED  BY <2>10, <3>1 DEF DrawsOf
  <2>13. u[k] = t[k]  BY <2>1, <2>11, AfterAgrees
  <2>14. ASSUME NEW p \in 0..((k + 1) - 1) PROVE u[k + 1][p] = x[p]
    <3>1. u[k + 1][p] = u[p][p + e[p + 1]]  BY <2>1, <2>12, PlacesAre
    <3>2. CASE p = k
      <4>1. k + e[k + 1] = q  BY <2>1, <2>11
      <4>. QED  BY <2>6, <2>13, <3>1, <3>2, <4>1, Zenon
    <3>3. CASE p # k
      <4>1. p \in 0..(k - 1)  BY <2>1, <3>3
      <4>2. u[k][p] = u[p][p + e[p + 1]]  BY <2>1, <2>12, <4>1, PlacesAre
      <4>3. t[k][p] = x[p]  BY <2>3, <4>1 DEF Reaches
      <4>. QED  BY <2>13, <3>1, <4>2, <4>3, Zenon
    <3>. QED  BY <3>2, <3>3
  <2>15. Reaches(e, k + 1)  BY <2>14 DEF Reaches
  <2>. QED  BY <2>12, <2>15
<1>3. S = Nat
  <2>. HIDE DEF S
  <2>1. S \in SUBSET Nat  BY DEF S
  <2>. QED  BY <1>1, <1>2, <2>1, Induction
<1>4. m \in S /\ m <= m  BY <1>3
<1>. QED  BY <1>4 DEF Deal

\* A deal is a permutation of the tiles.
LEMMA DealIsPermutation ==
    ASSUME NEW n \in Nat, NEW m \in 0..n, NEW d \in DrawsOf(n, m)
    PROVE  IsPermutation(Deal(n, m, d), n)
<1>1. m \in 0..m  OBVIOUS
<1>. QED  BY <1>1, AfterIsPermutation DEF Deal

\* There are finitely many draws.
LEMMA FinitelyManyDraws ==
    ASSUME NEW n \in Nat, NEW m \in 0..n
    PROVE  IsFiniteSet(DrawsOf(n, m))
<1>. DEFINE X == (1..m) \X (0..n)
            graph == [d \in DrawsOf(n, m) |-> {<<i, d[i]>> : i \in 1..m}]
<1>1. IsFiniteSet(SUBSET X)
  <2>1. IsFiniteSet(1..m) /\ IsFiniteSet(0..n)  BY FS_Interval
  <2>2. IsFiniteSet(X)  BY <2>1, FS_Product
  <2>. HIDE DEF X
  <2>. QED  BY <2>2, FS_SUBSET
<1>2. ASSUME NEW d \in DrawsOf(n, m) PROVE graph[d] \in SUBSET X
  <2>1. \A i \in 1..m : d[i] \in 0..n  BY DEF DrawsOf
  <2>2. \A i \in 1..m : <<i, d[i]>> \in X  BY <2>1
  <2>. HIDE DEF X
  <2>. QED  BY <2>2
<1>3. ASSUME NEW d \in DrawsOf(n, m), NEW e \in DrawsOf(n, m), graph[d] = graph[e]
      PROVE  d = e
  <2>1. {<<i, d[i]>> : i \in 1..m} = {<<i, e[i]>> : i \in 1..m}  BY <1>3
  <2>2. ASSUME NEW i \in 1..m PROVE d[i] = e[i]
    <3>1. <<i, d[i]>> \in {<<j, e[j]>> : j \in 1..m}  BY <2>1
    <3>2. PICK j \in 1..m : <<i, d[i]>> = <<j, e[j]>>  BY <3>1
    <3>. QED  BY <3>2
  <2>. QED  BY <2>2 DEF DrawsOf
<1>4. graph \in [DrawsOf(n, m) -> SUBSET X]  BY <1>2
<1>. HIDE DEF graph, X
<1>5. graph \in Injection(DrawsOf(n, m), SUBSET X)
  BY <1>3, <1>4, Zenon DEF Injection, IsInjective
<1>. QED  BY <1>1, <1>5, FS_Injection, Zenon

\* The tiles in the first m places: where the mines are.
FirstOf(n, m, d) == {Deal(n, m, d)[i] : i \in 0..(m - 1)}

\* The draws that lay the mines there.
DrawsFor(n, m, x) == {d \in DrawsOf(n, m) : FirstOf(n, m, d) = x}

\* The mines may lie anywhere, and nowhere twice.
LEMMA MinesAnywhere ==
    ASSUME NEW n \in Nat, NEW m \in 0..n
    PROVE  {FirstOf(n, m, d) : d \in DrawsOf(n, m)} = kSubset(m, 0..(n - 1))
<1>. DEFINE I == 0..(n - 1)
<1>1. ASSUME NEW d \in DrawsOf(n, m) PROVE FirstOf(n, m, d) \in kSubset(m, I)
  <2>. DEFINE t == Deal(n, m, d)
              X == FirstOf(n, m, d)
              f == [i \in 1..m |-> t[i - 1]]
  <2>1. IsPermutation(t, n)  BY DealIsPermutation
  <2>2. X = {t[i] : i \in 0..(m - 1)}  BY DEF FirstOf
  <2>. HIDE DEF t, X
  <2>3. /\ \A i \in 0..(n - 1) : t[i] \in 0..(n - 1)
        /\ \A i, j \in 0..(n - 1) : t[i] = t[j] => i = j
    BY <2>1 DEF IsPermutation
  <2>4. \A i \in 0..(m - 1) : i \in 0..(n - 1)  OBVIOUS
  <2>5. X \in SUBSET I  BY <2>2, <2>3, <2>4
  <2>6. ASSUME NEW i \in 1..m PROVE f[i] \in X
    <3>1. i - 1 \in 0..(m - 1)  OBVIOUS
    <3>. QED  BY <2>2, <3>1
  <2>7. ASSUME NEW i \in 1..m, NEW j \in 1..m, f[i] = f[j] PROVE i = j
    <3>1. i - 1 \in 0..(n - 1) /\ j - 1 \in 0..(n - 1)  OBVIOUS
    <3>2. t[i - 1] = t[j - 1]  BY <2>7
    <3>. QED  BY <2>3, <3>1, <3>2
  <2>8. ASSUME NEW a \in X PROVE \E i \in 1..m : f[i] = a
    <3>1. PICK i \in 0..(m - 1) : a = t[i]  BY <2>2
    <3>2. i + 1 \in 1..m /\ (i + 1) - 1 = i  OBVIOUS
    <3>3. f[i + 1] = a  BY <3>1, <3>2
    <3>. QED  BY <3>2, <3>3
  <2>9. f \in [1..m -> X]  BY <2>6
  <2>. HIDE DEF f
  <2>10. f \in Bijection(1..m, X)
    BY <2>7, <2>8, <2>9, Zenon DEF Bijection, Injection, Surjection, IsInjective
  <2>11. Cardinality(X) = m
    <3>1. ExistsBijection(1..m, X)  BY <2>10, Zenon DEF ExistsBijection
    <3>2. m \in Nat  OBVIOUS
    <3>. QED  BY <3>1, <3>2, FS_CountingElements
  <2>. HIDE DEF I
  <2>. QED  BY <2>5, <2>11 DEF kSubset, X
<1>2. ASSUME NEW x \in kSubset(m, I)
      PROVE  \E d \in DrawsOf(n, m) : FirstOf(n, m, d) = x
  <2>1. x \in SUBSET I /\ Cardinality(x) = m  BY DEF kSubset
  <2>2. IsFiniteSet(x)
    <3>1. IsFiniteSet(I)  BY FS_Interval
    <3>. HIDE DEF I
    <3>. QED  BY <2>1, <3>1, FS_Subset
  <2>3. ExistsBijection(1..m, x)  BY <2>1, <2>2, FS_CardinalityType, Zenon
  <2>4. PICK f \in Bijection(1..m, x) : TRUE  BY <2>3, Zenon DEF ExistsBijection
  <2>5. /\ \A i \in 1..m : f[i] \in x
        /\ \A i, j \in 1..m : f[i] = f[j] => i = j
        /\ \A a \in x : \E i \in 1..m : f[i] = a
    BY <2>4, Zenon DEF Bijection, Injection, Surjection, IsInjective
  <2>. DEFINE p == [i \in 0..(m - 1) |-> f[i + 1]]
  <2>6. \A i \in 0..(m - 1) : i + 1 \in 1..m /\ p[i] = f[i + 1]  OBVIOUS
  <2>. HIDE DEF p
  <2>7. \A i \in 0..(m - 1) : p[i] \in I /\ p[i] \in x
    <3>. HIDE DEF I
    <3>. QED  BY <2>1, <2>5, <2>6
  <2>8. ASSUME NEW i \in 0..(m - 1), NEW j \in 0..(m - 1), p[i] = p[j]
        PROVE  i = j
    <3>1. i + 1 \in 1..m /\ j + 1 \in 1..m /\ f[i + 1] = f[j + 1]
      BY <2>6, <2>8
    <3>2. i + 1 = j + 1  BY <2>5, <3>1
    <3>. QED  BY <3>2
  <2>9. \A a \in x : \E i \in 0..(m - 1) : p[i] = a
    <3>. SUFFICES ASSUME NEW a \in x PROVE \E i \in 0..(m - 1) : p[i] = a
      OBVIOUS
    <3>1. PICK i \in 1..m : f[i] = a  BY <2>5
    <3>2. i - 1 \in 0..(m - 1) /\ (i - 1) + 1 = i  OBVIOUS
    <3>3. p[i - 1] = a  BY <2>6, <3>1, <3>2, Zenon
    <3>. QED  BY <3>2, <3>3
  <2>10. PICK d \in DrawsOf(n, m) : \A i \in 0..(m - 1) : Deal(n, m, d)[i] = p[i]
    <3>1. \A i, j \in 0..(m - 1) : p[i] = p[j] => i = j  BY <2>8
    <3>2. \A i \in 0..(m - 1) : p[i] \in 0..(n - 1)  BY <2>7
    <3>3. Fills(n, m, p)  BY <3>1, <3>2 DEF Fills
    <3>. QED  BY <3>3, DealIsSurjective
  <2>11. FirstOf(n, m, d) = x
    <3>1. FirstOf(n, m, d) = {p[i] : i \in 0..(m - 1)}  BY <2>10 DEF FirstOf
    <3>. QED  BY <2>7, <2>9, <3>1
  <2>. QED  BY <2>11
<1>. HIDE DEF I
<1>3. {FirstOf(n, m, d) : d \in DrawsOf(n, m)} = kSubset(m, I)  BY <1>1, <1>2
<1>. QED  BY <1>3 DEF I

\* No set of mines is laid by more draws than another.
LEMMA MinesAreNoMoreLikely ==
    ASSUME NEW n \in Nat, NEW m \in 0..n,
           NEW x \in kSubset(m, 0..(n - 1)), NEW y \in kSubset(m, 0..(n - 1))
    PROVE  /\ Cardinality(DrawsFor(n, m, x)) \in Nat
           /\ Cardinality(DrawsFor(n, m, x)) <= Cardinality(DrawsFor(n, m, y))
<1>. DEFINE I == 0..(n - 1)
            Q == 0..(m - 1)
            T(d) == Deal(n, m, d)
            Moved(g, d, e) == \A i \in Q : T(e)[i] = g[T(d)[i]]
<1>1. /\ x \in SUBSET I /\ Cardinality(x) = m /\ IsFiniteSet(x)
      /\ y \in SUBSET I /\ Cardinality(y) = m /\ IsFiniteSet(y)
  <2>1. /\ x \in SUBSET I /\ Cardinality(x) = m
        /\ y \in SUBSET I /\ Cardinality(y) = m
    BY DEF kSubset
  <2>2. IsFiniteSet(I)  BY FS_Interval
  <2>. HIDE DEF I
  <2>. QED  BY <2>1, <2>2, FS_Subset
<1>2. PICK g \in Bijection(x, y) : TRUE
  <2>1. ExistsBijection(x, y)  BY <1>1, FS_SameCardinalityBij, Zenon
  <2>. QED  BY <2>1, Zenon DEF ExistsBijection
<1>3. /\ \A a \in x : g[a] \in y
      /\ \A a, b \in x : g[a] = g[b] => a = b
      /\ \A b \in y : \E a \in x : g[a] = b
  BY <1>2, Zenon DEF Bijection, Injection, Surjection, IsInjective
<1>4. ASSUME NEW d \in DrawsFor(n, m, x)
      PROVE  /\ d \in DrawsOf(n, m) /\ {T(d)[i] : i \in Q} = x
             /\ \A i \in Q : T(d)[i] \in x
             /\ \A i, j \in Q : T(d)[i] = T(d)[j] => i = j
  <2>1. d \in DrawsOf(n, m) /\ {T(d)[i] : i \in Q} = x  BY DEF DrawsFor, FirstOf
  <2>2. IsPermutation(T(d), n)  BY <2>1, DealIsPermutation
  <2>3. \A i \in Q : i \in I  OBVIOUS
  <2>4. \A i, j \in I : T(d)[i] = T(d)[j] => i = j  BY <2>2 DEF IsPermutation
  <2>. HIDE DEF T, Q, I
  <2>. QED  BY <2>1, <2>3, <2>4
<1>5. ASSUME NEW d \in DrawsFor(n, m, x)
      PROVE  \E e \in DrawsFor(n, m, y) : Moved(g, d, e)
  <2>. DEFINE p == [i \in Q |-> g[T(d)[i]]]
  <2>1. \A i \in Q : p[i] = g[T(d)[i]]  OBVIOUS
  <2>. HIDE DEF p
  <2>2. \A i \in Q : p[i] \in y /\ p[i] \in I
    <3>. HIDE DEF T, Q, I
    <3>. QED  BY <1>1, <1>3, <1>4, <2>1
  <2>3. \A i, j \in Q : p[i] = p[j] => i = j
    <3>. HIDE DEF T, Q, I
    <3>. QED  BY <1>3, <1>4, <2>1
  <2>4. PICK e \in DrawsOf(n, m) : \A i \in Q : Deal(n, m, e)[i] = p[i]
    <3>1. Fills(n, m, p)  BY <2>2, <2>3 DEF Fills
    <3>. QED  BY <3>1, DealIsSurjective
  <2>5. Moved(g, d, e)
    <3>. HIDE DEF Q
    <3>. QED  BY <2>1, <2>4
  <2>6. FirstOf(n, m, e) = y
    <3>1. FirstOf(n, m, e) = {p[i] : i \in Q}  BY <2>4 DEF FirstOf
    <3>2. ASSUME NEW b \in y PROVE \E i \in Q : p[i] = b
      <4>. HIDE DEF Q, T
      <4>1. PICK a \in x : g[a] = b  BY <1>3
      <4>2. PICK i \in Q : T(d)[i] = a  BY <1>4
      <4>. QED  BY <2>1, <4>1, <4>2
    <3>. HIDE DEF Q
    <3>. QED  BY <2>2, <3>1, <3>2
  <2>7. e \in DrawsFor(n, m, y)  BY <2>6 DEF DrawsFor
  <2>. HIDE DEF Moved
  <2>. QED  BY <2>5, <2>7
<1>. DEFINE Image(d) == CHOOSE e \in DrawsFor(n, m, y) : Moved(g, d, e)
            f == [d \in DrawsFor(n, m, x) |-> Image(d)]
<1>6. ASSUME NEW d \in DrawsFor(n, m, x)
      PROVE  f[d] \in DrawsFor(n, m, y) /\ Moved(g, d, f[d])
  <2>1. f[d] = Image(d)  OBVIOUS
  <2>. HIDE DEF Moved
  <2>2. Image(d) \in DrawsFor(n, m, y) /\ Moved(g, d, Image(d))
    BY <1>5, Zenon
  <2>. HIDE DEF Image, f
  <2>. QED  BY <2>1, <2>2
<1>. HIDE DEF Image
<1>7. f \in [DrawsFor(n, m, x) -> DrawsFor(n, m, y)]
  <2>. HIDE DEF Moved
  <2>. QED  BY <1>6
<1>. HIDE DEF f
<1>8. ASSUME NEW d \in DrawsFor(n, m, x), NEW e \in DrawsFor(n, m, x), f[d] = f[e]
      PROVE  d = e
  <2>1. ASSUME NEW i \in Q PROVE T(d)[i] = T(e)[i]
    <3>. HIDE DEF Q, T
    <3>1. g[T(d)[i]] = g[T(e)[i]]  BY <1>6, <1>8
    <3>2. T(d)[i] \in x /\ T(e)[i] \in x  BY <1>4
    <3>. QED  BY <1>3, <3>1, <3>2
  <2>2. d \in DrawsOf(n, m) /\ e \in DrawsOf(n, m)  BY <1>4
  <2>. QED  BY <2>1, <2>2, DealIsInjective
<1>9. f \in Injection(DrawsFor(n, m, x), DrawsFor(n, m, y))
  BY <1>7, <1>8, Zenon DEF Injection, IsInjective
<1>10. IsFiniteSet(DrawsFor(n, m, x)) /\ IsFiniteSet(DrawsFor(n, m, y))
  <2>1. IsFiniteSet(DrawsOf(n, m))  BY FinitelyManyDraws
  <2>. QED  BY <2>1, FS_Subset DEF DrawsFor
<1>. QED  BY <1>9, <1>10, FS_Injection, FS_CardinalityType, Zenon

\* Two orders that agree but for the last place agree there too.
LEMMA LastPlaceIsLeft ==
    ASSUME NEW n \in Nat \ {0}, NEW f, NEW g, IsPermutation(f, n),
           IsPermutation(g, n), \A p \in 0..(n - 2) : f[p] = g[p]
    PROVE  \A p \in 0..(n - 1) : f[p] = g[p]
<1>1. /\ \A p \in 0..(n - 1) : f[p] \in 0..(n - 1)
      /\ \A p, q \in 0..(n - 1) : f[p] = f[q] => p = q
  BY DEF IsPermutation
<1>2. n - 1 \in 0..(n - 1)  OBVIOUS
<1>3. PICK k \in 0..(n - 1) : g[k] = f[n - 1]
  <2>1. f[n - 1] \in 0..(n - 1) /\ n \in Nat  BY <1>1, <1>2
  <2>. QED  BY <2>1, EveryoneFinishes
<1>4. k = n - 1
  <2>. SUFFICES ASSUME k # n - 1 PROVE FALSE  OBVIOUS
  <2>1. k \in 0..(n - 2)  OBVIOUS
  <2>2. f[k] = f[n - 1]  BY <1>3, <2>1
  <2>. QED  BY <1>1, <1>2, <2>2
<1>5. f[n - 1] = g[n - 1]  BY <1>3, <1>4
<1>6. \A p \in 0..(n - 1) : p = n - 1 \/ p \in 0..(n - 2)  OBVIOUS
<1>. QED  BY <1>5, <1>6

\* Every finish order comes up, and each for one sequence of draws.
LEMMA AnyoneFinishesAnywhere ==
    ASSUME NEW n \in Nat \ {0}
    PROVE  /\ {Deal(n, n - 1, d) : d \in DrawsOf(n, n - 1)} =
                 {f \in [0..(n - 1) -> 0..(n - 1)] : IsPermutation(f, n)}
           /\ \A d \in DrawsOf(n, n - 1) :
                 {e \in DrawsOf(n, n - 1) : Deal(n, n - 1, e) = Deal(n, n - 1, d)}
                    = {d}
<1>. DEFINE I == 0..(n - 1)
            W == DrawsOf(n, n - 1)
            T(d) == Deal(n, n - 1, d)
<1>1. n \in Nat /\ n - 1 \in 0..n /\ n - 1 \in 0..(n - 1) /\ (n - 1) - 1 = n - 2
  OBVIOUS
<1>2. ASSUME NEW d \in W PROVE T(d) \in [I -> I] /\ IsPermutation(T(d), n)
  BY <1>1, AfterIsPermutation, Zenon DEF Deal
<1>3. ASSUME NEW f \in [I -> I], IsPermutation(f, n)
      PROVE  \E d \in W : T(d) = f
  <2>1. Fills(n, n - 1, f)
    <3>1. \A p \in 0..((n - 1) - 1) : p \in I  OBVIOUS
    <3>. QED  BY <1>3, <3>1 DEF IsPermutation, Fills
  <2>2. PICK d \in W : \A p \in 0..((n - 1) - 1) : T(d)[p] = f[p]
    BY <1>1, <2>1, DealIsSurjective
  <2>3. \A p \in I : T(d)[p] = f[p]
    <3>1. \A p \in 0..(n - 2) : T(d)[p] = f[p]  BY <1>1, <2>2, Zenon
    <3>2. IsPermutation(T(d), n)  BY <1>2
    <3>. HIDE DEF T
    <3>. QED  BY <1>3, <3>1, <3>2, LastPlaceIsLeft
  <2>4. T(d) \in [I -> I]  BY <1>2
  <2>. HIDE DEF T, I, W
  <2>5. T(d) = f  BY <2>3, <2>4
  <2>. QED  BY <2>5
<1>4. ASSUME NEW d \in W, NEW e \in W, T(e) = T(d) PROVE e = d
  BY <1>1, <1>4, DealIsInjective
<1>5. {T(d) : d \in W} = {f \in [I -> I] : IsPermutation(f, n)}
  <2>. HIDE DEF T, W, I
  <2>. QED  BY <1>2, <1>3
<1>6. \A d \in W : {e \in W : T(e) = T(d)} = {d}
  <2>. HIDE DEF T, W
  <2>. QED  BY <1>4
<1>. QED  BY <1>5, <1>6

------------------------------------------------------------------------------
\* What the games that shuffle ask for: one place after the other, among those
\* that are left.
LEMMA ShuffleNumbers ==
    ASSUME NEW c \in Engines, Shuffles(c) > 0
    PROVE  /\ \/ c.game = "mines" /\ Shuffles(c) = c.mines
              \/ c.game = "duckrace" /\ Shuffles(c) = Tiles(c) - 1
           /\ Tiles(c) \in Nat \ {0} /\ Shuffles(c) \in 0..Tiles(c)
           /\ \A i \in 1..Shuffles(c) :
                 Answers(c, Requests(c)[i]) = 0..(Tiles(c) - i)
<1>1. CASE c.game = "mines"
  <2>1. Tiles(c) = c.size /\ Shuffles(c) = c.mines  BY <1>1 DEF Tiles, Shuffles
  <2>2. /\ c.size \in Nat /\ c.mines \in 1..(c.size - 1)
        /\ \A i \in 1..c.mines : Requests(c)[i] = c.size - (i - 1)
    BY <1>1, MinesRequests
  <2>3. ASSUME NEW i \in 1..c.mines
        PROVE  Answers(c, Requests(c)[i]) = 0..(c.size - i)
    <3>1. PICK r : r = Requests(c)[i]  OBVIOUS
    <3>2. r = c.size - (i - 1)  BY <2>2, <3>1
    <3>3. r # 0 /\ r - 1 = c.size - i  BY <2>2, <3>2
    <3>. QED  BY <3>1, <3>3 DEF Answers, Float
  <2>4. c.size \in Nat \ {0} /\ c.mines \in 0..c.size  BY <2>2
  <2>5. \A i \in 1..Shuffles(c) : Answers(c, Requests(c)[i]) = 0..(Tiles(c) - i)
    BY <2>1, <2>3, Zenon
  <2>6. Tiles(c) \in Nat \ {0} /\ Shuffles(c) \in 0..Tiles(c)
    BY <2>1, <2>4, Zenon
  <2>. QED  BY <1>1, <2>1, <2>5, <2>6, Zenon
<1>2. CASE c.game = "duckrace"
  <2>1. Tiles(c) = c.ducks /\ Shuffles(c) = c.ducks - 1
    BY <1>2 DEF Tiles, Shuffles
  <2>2. /\ c.ducks \in Nat \ {0, 1}
        /\ \A i \in 1..(c.ducks - 1) : Requests(c)[i] = c.ducks - (i - 1)
    BY <1>2, RaceRequests
  <2>3. ASSUME NEW i \in 1..(c.ducks - 1)
        PROVE  Answers(c, Requests(c)[i]) = 0..(c.ducks - i)
    <3>1. PICK r : r = Requests(c)[i]  OBVIOUS
    <3>2. r = c.ducks - (i - 1)  BY <2>2, <3>1
    <3>3. r # 0 /\ r - 1 = c.ducks - i  BY <2>2, <3>2
    <3>. QED  BY <3>1, <3>3 DEF Answers, Float
  <2>. QED  BY <1>2, <2>1, <2>2, <2>3
<1>3. CASE c.game \notin {"mines", "duckrace"}  BY <1>3 DEF Shuffles
<1>. QED  BY <1>1, <1>2, <1>3

\* t holds the lists of the first 0, 1, ... k answers to c.
Lists(t, c, k) ==
    t = [i \in 0..k |->
            IF i = 0 THEN {<<>>}
            ELSE OneMore(t[i - 1], Answers(c, Requests(c)[i]))]

\* A list of k - 1 numbers with one more is a list of k.
LEMMA AppendIs ==
    ASSUME NEW k \in Nat \ {0}, NEW s \in Seq(Nat), Len(s) = k - 1, NEW a \in Nat
    PROVE  /\ Append(s, a) \in [1..k -> Nat] /\ Append(s, a)[k] = a
           /\ \A j \in 1..(k - 1) : Append(s, a)[j] = s[j]
<1>1. Append(s, a) \in Seq(Nat) /\ Len(Append(s, a)) = k  OBVIOUS
<1>2. Append(s, a)[k] = a /\ \A j \in 1..(k - 1) : Append(s, a)[j] = s[j]
  OBVIOUS
<1>3. \A t \in Seq(Nat) : t \in [1..Len(t) -> Nat]  OBVIOUS
<1>4. Append(s, a) \in [1..k -> Nat]  BY <1>1, <1>3, Zenon
<1>. QED  BY <1>2, <1>4, Zenon

\* No draws, and draws with one more.
LEMMA OneMoreDraw ==
    ASSUME NEW n \in Nat
    PROVE  /\ DrawsOf(n, 0) = {<<>>}
           /\ \A i \in 1..n :
                 DrawsOf(n, i) = OneMore(DrawsOf(n, i - 1), 0..(n - i))
<1>1. DrawsOf(n, 0) = {<<>>}
  <2>1. \A d \in [1..0 -> Nat] : d = <<>>  OBVIOUS
  <2>2. <<>> \in [1..0 -> Nat]  OBVIOUS
  <2>3. 1..0 = {}  OBVIOUS
  <2>. QED  BY <2>1, <2>2, <2>3 DEF DrawsOf
<1>2. ASSUME NEW i \in 1..n, NEW d \in DrawsOf(n, i - 1), NEW a \in 0..(n - i)
      PROVE  Append(d, a) \in DrawsOf(n, i)
  <2>1. d \in [1..(i - 1) -> Nat] /\ \A j \in 1..(i - 1) : d[j] <= n - j
    BY DEF DrawsOf
  <2>2. d \in Seq(Nat) /\ Len(d) = i - 1  BY <2>1
  <2>3. /\ Append(d, a) \in [1..i -> Nat]
        /\ Append(d, a)[i] = a
        /\ \A j \in 1..(i - 1) : Append(d, a)[j] = d[j]
    <3>1. i \in Nat \ {0} /\ a \in Nat  OBVIOUS
    <3>2. Append(d, a) \in [1..i -> Nat]  BY <2>2, <3>1, AppendIs, Zenon
    <3>3. Append(d, a)[i] = a  BY <2>2, <3>1, AppendIs, Zenon
    <3>4. \A j \in 1..(i - 1) : Append(d, a)[j] = d[j]  BY <2>2, <3>1
    <3>. QED  BY <3>2, <3>3, <3>4, Zenon
  <2>4. \A j \in 1..i : Append(d, a)[j] <= n - j  BY <2>1, <2>3
  <2>. QED  BY <2>3, <2>4 DEF DrawsOf
<1>3. ASSUME NEW i \in 1..n, NEW e \in DrawsOf(n, i)
      PROVE  \E d \in DrawsOf(n, i - 1), a \in 0..(n - i) : e = Append(d, a)
  <2>1. e \in [1..i -> Nat] /\ \A j \in 1..i : e[j] <= n - j  BY DEF DrawsOf
  <2>. DEFINE d == [j \in 1..(i - 1) |-> e[j]]
  <2>2. /\ d \in [1..(i - 1) -> Nat]
        /\ \A j \in 1..(i - 1) : d[j] = e[j] /\ j \in 1..i
    BY <2>1
  <2>. HIDE DEF d
  <2>3. d \in DrawsOf(n, i - 1)  BY <2>1, <2>2 DEF DrawsOf
  <2>4. e[i] \in 0..(n - i)  BY <2>1
  <2>5. d \in Seq(Nat) /\ Len(d) = i - 1  BY <2>2
  <2>6. e = Append(d, e[i])
    <3>1. /\ Append(d, e[i]) \in [1..i -> Nat]
          /\ Append(d, e[i])[i] = e[i]
          /\ \A j \in 1..(i - 1) : Append(d, e[i])[j] = d[j]
      <4>1. i \in Nat \ {0} /\ e[i] \in Nat  BY <2>4
      <4>2. Append(d, e[i]) \in [1..i -> Nat]  BY <2>5, <4>1, AppendIs, Zenon
      <4>3. Append(d, e[i])[i] = e[i]  BY <2>5, <4>1, AppendIs, Zenon
      <4>4. \A j \in 1..(i - 1) : Append(d, e[i])[j] = d[j]  BY <2>5, <4>1
      <4>. QED  BY <4>2, <4>3, <4>4, Zenon
    <3>2. \A j \in 1..i : Append(d, e[i])[j] = e[j]  BY <2>2, <3>1
    <3>. QED  BY <2>1, <3>1, <3>2
  <2>. QED  BY <2>3, <2>4, <2>6
<1>4. ASSUME NEW i \in 1..n
      PROVE  DrawsOf(n, i) = OneMore(DrawsOf(n, i - 1), 0..(n - i))
  <2>. DEFINE X == OneMore(DrawsOf(n, i - 1), 0..(n - i))
  <2>1. ASSUME NEW e \in X PROVE e \in DrawsOf(n, i)
    <3>1. PICK d \in DrawsOf(n, i - 1), a \in 0..(n - i) : e = Append(d, a)
      BY DEF OneMore
    <3>. QED  BY <1>2, <3>1, Zenon
  <2>2. ASSUME NEW e \in DrawsOf(n, i) PROVE e \in X
    <3>1. PICK d \in DrawsOf(n, i - 1), a \in 0..(n - i) : e = Append(d, a)
      BY <1>3, Zenon
    <3>. QED  BY <3>1 DEF OneMore
  <2>. HIDE DEF X
  <2>3. DrawsOf(n, i) = X  BY <2>1, <2>2
  <2>. QED  BY <2>3 DEF X
<1>. QED  BY <1>1, <1>4

\* Lists that grow by what may be answered hold all that may be answered.
LEMMA AnswersLeadTo ==
    ASSUME NEW c, NEW m \in Nat, NEW w, w[0] = {<<>>},
           \A i \in 1..m : w[i] = OneMore(w[i - 1], Answers(c, Requests(c)[i]))
    PROVE  DrawSequences(c, m) = w[m]
<1>. DEFINE More(lists, i) == OneMore(lists, Answers(c, Requests(c)[i]))
            u == [i \in 0..m |-> w[i]]
            t == CHOOSE x : Lists(x, c, m)
<1>1. w[0] = {<<>>} /\ \A i \in 1..m : w[i] = More(w[i - 1], i)  OBVIOUS
<1>. HIDE DEF More
<1>2. Lists(u, c, m)
  <2>. DEFINE v == [i \in 0..m |-> IF i = 0 THEN {<<>>} ELSE More(u[i - 1], i)]
  <2>1. ASSUME NEW i \in 0..m PROVE u[i] = v[i]
    <3>1. u[i] = w[i] /\ v[i] = IF i = 0 THEN {<<>>} ELSE More(u[i - 1], i)
      BY Zenon
    <3>2. i # 0 => i \in 1..m /\ u[i - 1] = w[i - 1]
      <4>1. i # 0 => i \in 1..m /\ i - 1 \in 0..m  OBVIOUS
      <4>. QED  BY <4>1, Zenon
    <3>. HIDE DEF u, v
    <3>. QED  BY <1>1, <3>1, <3>2, Zenon
  <2>2. u = v  BY <2>1
  <2>. HIDE DEF u
  <2>. QED  BY <2>2, Zenon DEF Lists, More
<1>3. Lists(t, c, m)  BY <1>2, Zenon
<1>. HIDE DEF t
<1>4. \A i \in 0..m : t[i] = IF i = 0 THEN {<<>>} ELSE More(t[i - 1], i)
  <2>1. t = [i \in 0..m |-> IF i = 0 THEN {<<>>} ELSE More(t[i - 1], i)]
    BY <1>3, Zenon DEF Lists, More
  <2>. QED  BY <2>1, Zenon
<1>. DEFINE S == {i \in Nat : i <= m => t[i] = w[i]}
<1>5. 0 \in S
  <2>1. 0 \in 0..m  OBVIOUS
  <2>. QED  BY <1>1, <1>4, <2>1
<1>6. ASSUME NEW i \in S PROVE i + 1 \in S
  <2>. SUFFICES ASSUME i + 1 <= m PROVE t[i + 1] = w[i + 1]  OBVIOUS
  <2>1. /\ i + 1 \in 0..m /\ i + 1 \in 1..m /\ i + 1 # 0 /\ (i + 1) - 1 = i
        /\ t[i] = w[i]
    OBVIOUS
  <2>. HIDE DEF S
  <2>2. t[i + 1] = More(t[i], i + 1)  BY <1>4, <2>1, Zenon
  <2>3. w[i + 1] = More(w[i], i + 1)  BY <1>1, <2>1, Zenon
  <2>. QED  BY <2>1, <2>2, <2>3, Zenon
<1>7. S = Nat
  <2>1. S \in SUBSET Nat  OBVIOUS
  <2>. HIDE DEF S
  <2>. QED  BY <1>5, <1>6, <2>1, Induction
<1>8. t[m] = w[m]
  <2>1. m \in S /\ m <= m  BY <1>7
  <2>. QED  BY <2>1
<1>9. DrawSequences(c, m) = t[m]  BY Zenon DEF DrawSequences, t, Lists
<1>. QED  BY <1>8, <1>9

\* What the source may answer to a shuffle.
LEMMA AnswersAreDraws ==
    ASSUME NEW c \in Engines, Shuffles(c) > 0
    PROVE  DrawSequences(c, Shuffles(c)) = DrawsOf(Tiles(c), Shuffles(c))
<1>. DEFINE n == Tiles(c)
            m == Shuffles(c)
            w == [i \in 0..m |-> DrawsOf(n, i)]
<1>1. /\ n \in Nat /\ m \in 0..n
      /\ \A i \in 1..m : Answers(c, Requests(c)[i]) = 0..(n - i)
  BY ShuffleNumbers
<1>2. /\ DrawsOf(n, 0) = {<<>>}
      /\ \A i \in 1..m : DrawsOf(n, i) = OneMore(DrawsOf(n, i - 1), 0..(n - i))
  <2>1. \A i \in 1..m : i \in 1..n  BY <1>1
  <2>. HIDE DEF n, m
  <2>. QED  BY <1>1, <2>1, OneMoreDraw, Zenon
<1>. HIDE DEF n, m
<1>3. \A i \in 0..m : w[i] = DrawsOf(n, i)  OBVIOUS
<1>4. m \in Nat /\ 0 \in 0..m /\ m \in 0..m
      /\ \A i \in 1..m : i \in 0..m /\ i - 1 \in 0..m
  BY <1>1
<1>. HIDE DEF w
<1>5. w[0] = {<<>>}  BY <1>2, <1>3, <1>4, Zenon
<1>6. ASSUME NEW i \in 1..m
      PROVE  w[i] = OneMore(w[i - 1], Answers(c, Requests(c)[i]))
  BY <1>1, <1>2, <1>3, <1>4, Zenon
<1>7. DrawSequences(c, m) = w[m]  BY <1>4, <1>5, <1>6, AnswersLeadTo
<1>. QED  BY <1>3, <1>4, <1>7 DEF n, m

\* The shuffle of a round is the deal of its draws.
LEMMA ShufflesAreDeals ==
    ASSUME NEW c, NEW d
    PROVE  Shuffled(c, d) = Deal(Tiles(c), Shuffles(c), d)
  BY Zenon DEF Shuffled, Deal, After, Steps

\* Whatever an engine shuffles, it deals everything, and nothing more often.
LEMMA EveryDealIsAsLikely ==
    ASSUME NEW c \in Engines, Shuffles(c) > 0
    PROVE  LET sequences == DrawSequences(c, Shuffles(c))
               dealt     == {Dealt(c, Shuffled(c, d)) : d \in sequences}
               From(x)   == {d \in sequences : Dealt(c, Shuffled(c, d)) = x}
               all       == 0..(Tiles(c) - 1)
           IN  /\ \A x, y \in dealt : Cardinality(From(x)) = Cardinality(From(y))
               /\ dealt = IF c.game = "mines" THEN kSubset(c.mines, all)
                          ELSE {f \in [all -> all] : IsPermutation(f, Tiles(c))}
<1>. DEFINE n == Tiles(c)
            m == Shuffles(c)
            W == DrawSequences(c, m)
            R(d) == Dealt(c, Shuffled(c, d))
            B == {R(d) : d \in W}
            From(x) == {d \in W : R(d) = x}
            I == 0..(n - 1)
<1>1. /\ \/ c.game = "mines" /\ m = c.mines
         \/ c.game = "duckrace" /\ m = n - 1
      /\ n \in Nat \ {0} /\ m \in 0..n
  BY ShuffleNumbers
<1>2. W = DrawsOf(n, m)  BY AnswersAreDraws
<1>3. \A d : Shuffled(c, d) = Deal(n, m, d)  BY ShufflesAreDeals
<1>. HIDE DEF n, m, W
<1>4. CASE c.game = "mines"
  <2>1. \A d : R(d) = FirstOf(n, m, d)
    BY <1>1, <1>3, <1>4, Zenon DEF Dealt, FirstOf
  <2>2. B = kSubset(c.mines, I)
    <3>1. {FirstOf(n, m, d) : d \in DrawsOf(n, m)} = kSubset(m, I)
      BY <1>1, MinesAnywhere
    <3>2. m = c.mines  BY <1>1, <1>4
    <3>. QED  BY <1>2, <2>1, <3>1, <3>2, Zenon
  <2>3. ASSUME NEW x \in B, NEW y \in B
        PROVE  Cardinality(From(x)) = Cardinality(From(y))
    <3>1. x \in kSubset(m, I) /\ y \in kSubset(m, I)
      BY <1>1, <1>4, <2>2
    <3>2. From(x) = DrawsFor(n, m, x) /\ From(y) = DrawsFor(n, m, y)
      BY <1>2, <2>1, Zenon DEF DrawsFor
    <3>3. /\ Cardinality(DrawsFor(n, m, x)) \in Nat
          /\ Cardinality(DrawsFor(n, m, y)) \in Nat
          /\ Cardinality(DrawsFor(n, m, x)) <= Cardinality(DrawsFor(n, m, y))
          /\ Cardinality(DrawsFor(n, m, y)) <= Cardinality(DrawsFor(n, m, x))
      BY <1>1, <3>1, MinesAreNoMoreLikely
    <3>4. \A a, b \in Nat : a <= b /\ b <= a => a = b  OBVIOUS
    <3>5. Cardinality(DrawsFor(n, m, x)) = Cardinality(DrawsFor(n, m, y))
      BY <3>3, <3>4, Zenon
    <3>. QED  BY <3>2, <3>5, Zenon
  <2>. HIDE DEF B, From
  <2>4. /\ \A x, y \in B : Cardinality(From(x)) = Cardinality(From(y))
        /\ B = IF c.game = "mines" THEN kSubset(c.mines, I)
               ELSE {f \in [I -> I] : IsPermutation(f, n)}
    BY <1>4, <2>2, <2>3, Zenon
  <2>. QED  BY <2>4, Zenon DEF B, From, W, n, m
<1>5. CASE c.game = "duckrace"
  <2>0. m = n - 1 /\ c.game # "mines"  BY <1>1, <1>5
  <2>1. \A d : R(d) = Deal(n, n - 1, d)
    BY <1>3, <2>0, Zenon DEF Dealt
  <2>2. B = {f \in [I -> I] : IsPermutation(f, n)}
    <3>1. {Deal(n, n - 1, d) : d \in DrawsOf(n, n - 1)} =
             {f \in [I -> I] : IsPermutation(f, n)}
      BY <1>1, AnyoneFinishesAnywhere
    <3>. QED  BY <1>2, <2>0, <2>1, <3>1, Zenon
  <2>3. ASSUME NEW x \in B PROVE Cardinality(From(x)) = 1
    <3>1. PICK d \in W : x = R(d)  OBVIOUS
    <3>2. From(x) = {d}
      <4>1. {e \in DrawsOf(n, n - 1) : Deal(n, n - 1, e) = Deal(n, n - 1, d)} = {d}
        BY <1>1, <1>2, <2>0, AnyoneFinishesAnywhere, Zenon
      <4>. QED  BY <1>2, <2>0, <2>1, <3>1, <4>1, Zenon
    <3>. QED  BY <3>2, FS_Singleton, Zenon
  <2>. HIDE DEF B, From
  <2>4. /\ \A x, y \in B : Cardinality(From(x)) = Cardinality(From(y))
        /\ B = IF c.game = "mines" THEN kSubset(c.mines, I)
               ELSE {f \in [I -> I] : IsPermutation(f, n)}
    BY <2>0, <2>2, <2>3, Zenon
  <2>. QED  BY <2>4, Zenon DEF B, From, W, n, m
<1>. QED  BY <1>1, <1>4, <1>5

\* Whatever is accepted, a board of mines may hold its mines anywhere and a race
\* may end in any order, and each of these comes from as many answers of the
\* source as any other.
THEOREM ShufflesAreFair == GamesSpec => []ShufflesAreUniform
<1>1. GamesTypeOK => ShufflesAreUniform
  <2>1. GamesTypeOK => config \in Engines  BY DEF GamesTypeOK
  <2>. QED  BY <2>1, EveryDealIsAsLikely, Zenon DEF ShufflesAreUniform
<1>. QED  BY <1>1, NothingLostInTheShuffle, PTL

------------------------------------------------------------------------------
(* What the picks pay back.                                                  *)

\* The ways to lay m mines on the tiles A.
Laid(m, A) == {s \in [1..m -> A] : M!Distinct(s)}

\* Tiles a and b change their names.
Renamed(a, b, x) == IF x = a THEN b ELSE IF x = b THEN a ELSE x

\* As many tiles are mines as mines are laid.
LEMMA LaidIs ==
    ASSUME NEW m \in Nat, NEW A, IsFiniteSet(A), NEW s \in Laid(m, A)
    PROVE  /\ s \in [1..m -> A] /\ \A i, j \in 1..m : s[i] = s[j] => i = j
           /\ ToSet(s) \in SUBSET A /\ IsFiniteSet(A \ ToSet(s))
           /\ m <= Cardinality(A)
           /\ Cardinality(A \ ToSet(s)) = Cardinality(A) - m
<1>1. s \in [1..m -> A] /\ \A i, j \in 1..m : s[i] = s[j] => i = j
  BY DEF Laid, M!Distinct
<1>2. ToSet(s) = {s[i] : i \in 1..m}  BY <1>1 DEF ToSet
<1>3. ToSet(s) \in SUBSET A  BY <1>1, <1>2
<1>4. Cardinality(ToSet(s)) = m
  <2>1. s \in [1..m -> ToSet(s)]  BY <1>1, <1>2
  <2>2. \A a \in ToSet(s) : \E i \in 1..m : s[i] = a  BY <1>2
  <2>3. s \in Bijection(1..m, ToSet(s))
    BY <1>1, <2>1, <2>2, Zenon DEF Bijection, Injection, Surjection, IsInjective
  <2>4. ExistsBijection(1..m, ToSet(s))  BY <2>3, Zenon DEF ExistsBijection
  <2>. QED  BY <2>4, FS_CountingElements
<1>5. A \cap ToSet(s) = ToSet(s)  BY <1>3
<1>6. /\ IsFiniteSet(A \ ToSet(s))
      /\ Cardinality(A \ ToSet(s)) = Cardinality(A) - m
  BY <1>4, <1>5, FS_Difference
<1>7. m <= Cardinality(A)
  <2>1. Cardinality(ToSet(s)) <= Cardinality(A)  BY <1>3, FS_Subset
  <2>. QED  BY <1>4, <2>1
<1>. QED  BY <1>1, <1>3, <1>6, <1>7

\* There are finitely many ways to lay mines.
LEMMA FinitelyManyBoards ==
    ASSUME NEW m \in Nat, NEW A, IsFiniteSet(A)
    PROVE  IsFiniteSet(Laid(m, A))
<1>. DEFINE X == (1..m) \X A
            graph == [s \in Laid(m, A) |-> {<<i, s[i]>> : i \in 1..m}]
<1>1. IsFiniteSet(SUBSET X)
  <2>1. IsFiniteSet(1..m)  BY FS_Interval
  <2>2. IsFiniteSet(X)  BY <2>1, FS_Product
  <2>. HIDE DEF X
  <2>. QED  BY <2>2, FS_SUBSET
<1>2. ASSUME NEW s \in Laid(m, A) PROVE graph[s] \in SUBSET X
  <2>1. s \in [1..m -> A]  BY LaidIs
  <2>2. \A i \in 1..m : <<i, s[i]>> \in X  BY <2>1
  <2>. HIDE DEF X
  <2>. QED  BY <2>2
<1>3. ASSUME NEW s \in Laid(m, A), NEW t \in Laid(m, A), graph[s] = graph[t]
      PROVE  s = t
  <2>1. {<<i, s[i]>> : i \in 1..m} = {<<i, t[i]>> : i \in 1..m}  BY <1>3
  <2>2. ASSUME NEW i \in 1..m PROVE s[i] = t[i]
    <3>1. <<i, s[i]>> \in {<<j, t[j]>> : j \in 1..m}  BY <2>1
    <3>2. PICK j \in 1..m : <<i, s[i]>> = <<j, t[j]>>  BY <3>1
    <3>. QED  BY <3>2
  <2>3. s \in [1..m -> A] /\ t \in [1..m -> A]  BY LaidIs
  <2>. QED  BY <2>2, <2>3
<1>4. graph \in [Laid(m, A) -> SUBSET X]  BY <1>2
<1>. HIDE DEF graph, X
<1>5. graph \in Injection(Laid(m, A), SUBSET X)
  BY <1>3, <1>4, Zenon DEF Injection, IsInjective
<1>. QED  BY <1>1, <1>5, FS_Injection, Zenon

\* What goes with b in the pairs V.
With(V, X, b) == {x \in X : <<b, x>> \in V}

\* Everything in B goes with k others.
AsManyWith(B, V, X, k) ==
    \A b \in B : IsFiniteSet(With(V, X, b)) /\ Cardinality(With(V, X, b)) = k

\* Pairs of which as many begin with each first element.
LEMMA PairsCounted ==
    ASSUME NEW B, IsFiniteSet(B), NEW X, NEW V \in SUBSET (B \X X), NEW k \in Nat,
           AsManyWith(B, V, X, k)
    PROVE  IsFiniteSet(V) /\ Cardinality(V) = Cardinality(B) * k
<1>. DEFINE Of(b) == With(V, X, b)
            Numbers(b) == Bijection(Of(b), 1..k)
            Number(b) == CHOOSE h : h \in Numbers(b)
            f == [p \in V |-> <<p[1], Number(p[1])[p[2]]>>]
<1>1. IsFiniteSet(1..k) /\ Cardinality(1..k) = k  BY FS_Interval
<1>2. ASSUME NEW b \in B PROVE Number(b) \in Numbers(b)
  <2>1. IsFiniteSet(Of(b)) /\ Cardinality(Of(b)) = k  BY Zenon DEF AsManyWith
  <2>. HIDE DEF Of
  <2>2. ExistsBijection(Of(b), 1..k)  BY <1>1, <2>1, FS_SameCardinalityBij, Zenon
  <2>. QED  BY <2>2, Zenon DEF ExistsBijection
<1>. HIDE DEF Number
<1>3. ASSUME NEW b \in B
      PROVE  /\ \A x \in Of(b) : Number(b)[x] \in 1..k
             /\ \A x, y \in Of(b) : Number(b)[x] = Number(b)[y] => x = y
             /\ \A i \in 1..k : \E x \in Of(b) : Number(b)[x] = i
  BY <1>2, Zenon DEF Bijection, Injection, Surjection, IsInjective
<1>4. /\ \A p \in V : \E b \in B : \E x \in Of(b) : p = <<b, x>>
      /\ \A b \in B : \A x \in Of(b) : <<b, x>> \in V
  BY DEF With
<1>5. ASSUME NEW b \in B, NEW x \in Of(b)
      PROVE  f[<<b, x>>] = <<b, Number(b)[x]>>
  <2>1. <<b, x>> \in V  BY <1>4
  <2>. QED  BY <2>1
<1>. HIDE DEF Of
<1>6. f \in [V -> B \X (1..k)]
  <2>1. ASSUME NEW p \in V PROVE f[p] \in B \X (1..k)
    <3>1. PICK b \in B : \E x \in Of(b) : p = <<b, x>>  BY <1>4
    <3>2. PICK x \in Of(b) : p = <<b, x>>  BY <3>1
    <3>3. f[p] = <<b, Number(b)[x]>> /\ Number(b)[x] \in 1..k
      BY <1>3, <1>5, <3>2
    <3>. QED  BY <3>3
  <2>. QED  BY <2>1
<1>. HIDE DEF f
<1>7. ASSUME NEW p \in V, NEW q \in V, f[p] = f[q] PROVE p = q
  <2>1. PICK b \in B, c \in B : /\ \E x \in Of(b) : p = <<b, x>>
                                /\ \E y \in Of(c) : q = <<c, y>>
    BY <1>4
  <2>2. PICK x \in Of(b) : p = <<b, x>>  BY <2>1
  <2>3. PICK y \in Of(c) : q = <<c, y>>  BY <2>1
  <2>4. <<b, Number(b)[x]>> = <<c, Number(c)[y]>>
    <3>1. f[p] = <<b, Number(b)[x]>>  BY <1>5, <2>2, Zenon
    <3>2. f[q] = <<c, Number(c)[y]>>  BY <1>5, <2>3, Zenon
    <3>. QED  BY <1>7, <3>1, <3>2, Zenon
  <2>5. b = c /\ Number(b)[x] = Number(c)[y]  BY <2>4
  <2>6. x = y  BY <1>3, <2>5
  <2>. QED  BY <2>2, <2>3, <2>5, <2>6
<1>8. ASSUME NEW z \in B \X (1..k) PROVE \E p \in V : f[p] = z
  <2>1. PICK b \in B, i \in 1..k : z = <<b, i>>  OBVIOUS
  <2>2. PICK x \in Of(b) : Number(b)[x] = i  BY <1>3
  <2>3. <<b, x>> \in V  BY <1>4
  <2>. QED  BY <1>5, <2>1, <2>2, <2>3
<1>9. /\ f \in Injection(V, B \X (1..k))
      /\ f \in Surjection(V, B \X (1..k))
  BY <1>6, <1>7, <1>8, Zenon DEF Injection, Surjection, IsInjective
<1>10. /\ IsFiniteSet(B \X (1..k))
       /\ Cardinality(B \X (1..k)) = Cardinality(B) * k
  BY <1>1, FS_Product
<1>11. /\ IsFiniteSet(V)
       /\ Cardinality(V) = Cardinality(B \X (1..k))
  <2>. DEFINE T == B \X (1..k)
  <2>. HIDE DEF T
  <2>1. f \in Injection(V, T) /\ f \in Surjection(V, T) /\ IsFiniteSet(T)
    BY <1>9, <1>10 DEF T
  <2>2. IsFiniteSet(V) /\ Cardinality(V) = Cardinality(T)
    BY <2>1, FS_Injection
  <2>. QED  BY <2>2 DEF T
<1>. QED  BY <1>10, <1>11, Zenon

\* A board and a tile that is safe on it.
SafeTiles(m, A) == {p \in Laid(m, A) \X A : p[2] \notin ToSet(p[1])}

\* Every board leaves as many tiles safe.
LEMMA SafeOnBoards ==
    ASSUME NEW m \in Nat, NEW A, IsFiniteSet(A), m <= Cardinality(A)
    PROVE  /\ IsFiniteSet(SafeTiles(m, A))
           /\ Cardinality(SafeTiles(m, A)) =
                 Cardinality(Laid(m, A)) * (Cardinality(A) - m)
<1>. DEFINE B == Laid(m, A)
            V == SafeTiles(m, A)
            k == Cardinality(A) - m
<1>1. k \in Nat
  <2>1. Cardinality(A) \in Nat  BY FS_CardinalityType
  <2>. QED  BY <2>1
<1>2. V \in SUBSET (B \X A)
      /\ \A s \in B : \A a : a \in With(V, A, s) <=> a \in A \ ToSet(s)
  <2>. HIDE DEF B
  <2>. QED  BY DEF SafeTiles, With, B
<1>3. AsManyWith(B, V, A, k)
  <2>1. ASSUME NEW s \in B
        PROVE  IsFiniteSet(With(V, A, s)) /\ Cardinality(With(V, A, s)) = k
    <3>1. IsFiniteSet(A \ ToSet(s)) /\ Cardinality(A \ ToSet(s)) = k  BY LaidIs
    <3>2. With(V, A, s) = A \ ToSet(s)  BY <1>2
    <3>. QED  BY <3>1, <3>2, Zenon
  <2>. QED  BY <2>1, Zenon DEF AsManyWith
<1>4. IsFiniteSet(B)  BY FinitelyManyBoards
<1>. HIDE DEF V, B, k
<1>5. IsFiniteSet(V) /\ Cardinality(V) = Cardinality(B) * k
  BY <1>1, <1>2, <1>3, <1>4, PairsCounted
<1>. QED  BY <1>5, Zenon DEF V, B, k

\* s with the names of tiles a and b exchanged.
Exchanged(a, b, s) == [i \in DOMAIN s |-> Renamed(a, b, s[i])]

\* A board on which tile a is safe is one without it, once a bears the name of
\* the one that is left out.
LEMMA ExchangedIs ==
    ASSUME NEW m \in Nat, NEW A, IsFiniteSet(A), NEW a \in A, NEW o \in A
    PROVE  /\ \A s \in Laid(m, A) :
                 /\ Exchanged(a, o, Exchanged(a, o, s)) = s
                 /\ a \notin ToSet(s) => Exchanged(a, o, s) \in Laid(m, A \ {o})
           /\ \A u \in Laid(m, A \ {o}) :
                 /\ Exchanged(a, o, u) \in Laid(m, A)
                 /\ a \notin ToSet(Exchanged(a, o, u))
                 /\ Exchanged(a, o, Exchanged(a, o, u)) = u
<1>1. \A x, y \in A : Renamed(a, o, x) = Renamed(a, o, y) => x = y
  BY Zenon DEF Renamed
<1>2. \A x \in A : /\ Renamed(a, o, x) \in A
                   /\ Renamed(a, o, Renamed(a, o, x)) = x
                   /\ x # a => Renamed(a, o, x) # o
                   /\ x # o => Renamed(a, o, x) # a
  BY DEF Renamed
<1>3. IsFiniteSet(A \ {o})  BY FS_Difference
<1>4. ASSUME NEW B \in SUBSET A, IsFiniteSet(B), NEW s \in Laid(m, B)
      PROVE  /\ s \in [1..m -> B] /\ \A i, j \in 1..m : s[i] = s[j] => i = j
             /\ DOMAIN s = 1..m /\ \A i \in 1..m : s[i] \in A
  <2>1. s \in [1..m -> B] /\ \A i, j \in 1..m : s[i] = s[j] => i = j
    BY <1>4, LaidIs, Zenon
  <2>2. DOMAIN s = 1..m /\ \A i \in 1..m : s[i] \in A  BY <2>1
  <2>. QED  BY <2>1, <2>2, Zenon
<1>5. ASSUME NEW B \in SUBSET A, IsFiniteSet(B), NEW s \in Laid(m, B)
      PROVE  /\ DOMAIN Exchanged(a, o, s) = 1..m
             /\ \A i \in 1..m : Exchanged(a, o, s)[i] = Renamed(a, o, s[i])
             /\ Exchanged(a, o, Exchanged(a, o, s)) = s
             /\ Exchanged(a, o, s) \in Laid(m, A)
  <2>. DEFINE e == Exchanged(a, o, s)
              w == Exchanged(a, o, e)
  <2>1. DOMAIN e = 1..m /\ \A i \in 1..m : e[i] = Renamed(a, o, s[i])
    BY <1>4, <1>5 DEF Exchanged
  <2>2. e \in [1..m -> A]  BY <1>2, <1>4, <1>5, <2>1 DEF Exchanged
  <2>. HIDE DEF e
  <2>3. w \in [1..m -> A] /\ \A i \in 1..m : w[i] = s[i]
    <3>1. DOMAIN w = 1..m /\ \A i \in 1..m : w[i] = Renamed(a, o, e[i])
      BY <2>1 DEF Exchanged
    <3>2. \A i \in 1..m : w[i] = s[i]  BY <1>2, <1>4, <1>5, <2>1, <3>1
    <3>3. w = [i \in 1..m |-> Renamed(a, o, e[i])]  BY <2>1 DEF Exchanged
    <3>. HIDE DEF w
    <3>. QED  BY <1>2, <2>2, <3>2, <3>3
  <2>4. w = s
    <3>1. s \in [1..m -> A]  BY <1>4, <1>5
    <3>. HIDE DEF w
    <3>. QED  BY <2>3, <3>1
  <2>5. e \in Laid(m, A)
    <3>1. ASSUME NEW i \in 1..m, NEW j \in 1..m, e[i] = e[j] PROVE i = j
      <4>1. s[i] \in A /\ s[j] \in A  BY <1>4, <1>5
      <4>2. Renamed(a, o, s[i]) = Renamed(a, o, s[j])  BY <2>1, <3>1
      <4>3. s[i] = s[j]  BY <1>1, <4>1, <4>2
      <4>. QED  BY <1>4, <1>5, <4>3
    <3>2. M!Distinct(e)  BY <2>1, <3>1 DEF M!Distinct
    <3>. QED  BY <2>2, <3>2 DEF Laid
  <2>. QED  BY <2>1, <2>4, <2>5 DEF e
<1>6. ASSUME NEW s \in Laid(m, A), a \notin ToSet(s)
      PROVE  Exchanged(a, o, s) \in Laid(m, A \ {o})
  <2>. DEFINE e == Exchanged(a, o, s)
  <2>1. /\ DOMAIN e = 1..m /\ \A i \in 1..m : e[i] = Renamed(a, o, s[i])
        /\ e \in Laid(m, A)
    BY <1>5
  <2>2. DOMAIN s = 1..m /\ \A i \in 1..m : s[i] \in A  BY <1>4
  <2>. HIDE DEF e
  <2>3. \A i \in 1..m : s[i] # a  BY <1>6, <2>2 DEF ToSet
  <2>4. \A i \in 1..m : e[i] # o  BY <1>2, <2>1, <2>2, <2>3
  <2>5. e \in [1..m -> A] /\ M!Distinct(e)  BY <2>1 DEF Laid
  <2>6. e \in [1..m -> A \ {o}]  BY <2>4, <2>5
  <2>7. e \in Laid(m, A \ {o})  BY <2>5, <2>6 DEF Laid
  <2>. QED  BY <2>7 DEF e
<1>7. ASSUME NEW u \in Laid(m, A \ {o}) PROVE a \notin ToSet(Exchanged(a, o, u))
  <2>. DEFINE e == Exchanged(a, o, u)
  <2>1. A \ {o} \in SUBSET A  OBVIOUS
  <2>2. DOMAIN e = 1..m /\ \A i \in 1..m : e[i] = Renamed(a, o, u[i])
    BY <1>3, <1>5, <2>1
  <2>3. \A i \in 1..m : u[i] \in A /\ u[i] # o
    <3>1. u \in [1..m -> A \ {o}]  BY <1>3, <1>4, <2>1
    <3>. QED  BY <3>1
  <2>. HIDE DEF e
  <2>4. \A i \in 1..m : e[i] # a  BY <1>2, <2>2, <2>3
  <2>5. a \notin ToSet(e)  BY <2>2, <2>4 DEF ToSet
  <2>. QED  BY <2>5 DEF e
<1>8. A \in SUBSET A /\ A \ {o} \in SUBSET A  OBVIOUS
<1>9. ASSUME NEW s \in Laid(m, A)
      PROVE  Exchanged(a, o, Exchanged(a, o, s)) = s
  BY <1>5, <1>8, Zenon
<1>10. ASSUME NEW u \in Laid(m, A \ {o})
       PROVE  /\ Exchanged(a, o, u) \in Laid(m, A)
              /\ Exchanged(a, o, Exchanged(a, o, u)) = u
  BY <1>3, <1>5, <1>8, Zenon
<1>. QED  BY <1>6, <1>7, <1>9, <1>10, Zenon

\* Every tile is safe on as many boards as there are without the tile o.
LEMMA BoardsWithSafe ==
    ASSUME NEW m \in Nat, NEW A, IsFiniteSet(A), NEW o \in A
    PROVE  Cardinality(SafeTiles(m, A)) =
              Cardinality(A) * Cardinality(Laid(m, A \ {o}))
<1>. DEFINE V == SafeTiles(m, A)
            W == Laid(m, A \ {o})
            f == [y \in A \X W |-> <<Exchanged(y[1], o, y[2]), y[1]>>]
<1>1. \A p : p \in V <=> \E s \in Laid(m, A), a \in A :
                            a \notin ToSet(s) /\ p = <<s, a>>
  <2>1. \A p : p \in V <=> p \in Laid(m, A) \X A /\ p[2] \notin ToSet(p[1])
    BY DEF SafeTiles
  <2>. HIDE DEF V
  <2>. QED  BY <2>1
<1>2. \A y \in A \X W : \E a \in A, u \in W : y = <<a, u>>
  <2>. HIDE DEF W
  <2>. QED  OBVIOUS
<1>3. \A a \in A, u \in W : f[<<a, u>>] = <<Exchanged(a, o, u), a>>
  <2>. HIDE DEF W
  <2>. QED  OBVIOUS
<1>4. \A a \in A, u \in W : <<Exchanged(a, o, u), a>> \in V
  <2>1. \A a \in A, u \in W : Exchanged(a, o, u) \in Laid(m, A)
                              /\ a \notin ToSet(Exchanged(a, o, u))
    BY ExchangedIs
  <2>. HIDE DEF V, W
  <2>. QED  BY <1>1, <2>1
<1>5. \A a \in A, u \in W, t \in W :
         Exchanged(a, o, u) = Exchanged(a, o, t) => u = t
  <2>1. \A a \in A, u \in W : Exchanged(a, o, Exchanged(a, o, u)) = u
    BY ExchangedIs
  <2>. HIDE DEF W
  <2>. QED  BY <2>1, Zenon
<1>6. \A a \in A, s \in Laid(m, A) : a \notin ToSet(s) =>
         /\ Exchanged(a, o, s) \in W
         /\ Exchanged(a, o, Exchanged(a, o, s)) = s
  <2>1. ASSUME NEW a \in A
        PROVE  \A s \in Laid(m, A) :
                  /\ Exchanged(a, o, Exchanged(a, o, s)) = s
                  /\ a \notin ToSet(s) => Exchanged(a, o, s) \in W
    BY ExchangedIs
  <2>. HIDE DEF W
  <2>. QED  BY <2>1, Zenon
<1>. HIDE DEF V, W
<1>7. f \in [A \X W -> V]
  <2>1. ASSUME NEW y \in A \X W PROVE f[y] \in V
    <3>1. PICK a \in A, u \in W : y = <<a, u>>  BY <1>2
    <3>2. f[y] = <<Exchanged(a, o, u), a>>  BY <1>3, <3>1, Zenon
    <3>. QED  BY <1>4, <3>2, Zenon
  <2>. QED  BY <2>1
<1>. HIDE DEF f
<1>8. ASSUME NEW y \in A \X W, NEW z \in A \X W, f[y] = f[z] PROVE y = z
  <2>1. PICK a \in A, u \in W : y = <<a, u>>  BY <1>2
  <2>2. PICK b \in A, t \in W : z = <<b, t>>  BY <1>2
  <2>3. <<Exchanged(a, o, u), a>> = <<Exchanged(b, o, t), b>>
    BY <1>3, <1>8, <2>1, <2>2, Zenon
  <2>4. a = b /\ Exchanged(a, o, u) = Exchanged(b, o, t)  BY <2>3
  <2>5. u = t  BY <1>5, <2>4, Zenon
  <2>. QED  BY <2>1, <2>2, <2>4, <2>5
<1>9. ASSUME NEW p \in V PROVE \E y \in A \X W : f[y] = p
  <2>1. PICK s \in Laid(m, A), a \in A : a \notin ToSet(s) /\ p = <<s, a>>
    BY <1>1
  <2>2. /\ Exchanged(a, o, s) \in W
        /\ Exchanged(a, o, Exchanged(a, o, s)) = s
    BY <1>6, <2>1, Zenon
  <2>3. f[<<a, Exchanged(a, o, s)>>] = p  BY <1>3, <2>1, <2>2, Zenon
  <2>4. <<a, Exchanged(a, o, s)>> \in A \X W  BY <2>2
  <2>. QED  BY <2>3, <2>4, Zenon
<1>10. f \in Bijection(A \X W, V)
  BY <1>7, <1>8, <1>9, Zenon DEF Bijection, Injection, Surjection, IsInjective
<1>11. /\ IsFiniteSet(A \X W)
       /\ Cardinality(A \X W) = Cardinality(A) * Cardinality(W)
  <2>1. IsFiniteSet(A \ {o})  BY FS_Difference
  <2>2. IsFiniteSet(W)  BY <2>1, FinitelyManyBoards DEF W
  <2>. QED  BY <2>2, FS_Product
<1>12. Cardinality(V) = Cardinality(A \X W)
  <2>1. ExistsBijection(A \X W, V)  BY <1>10, Zenon DEF ExistsBijection
  <2>. QED  BY <1>11, <2>1, FS_Bijection, Zenon
<1>. QED  BY <1>11, <1>12, Zenon DEF V, W

\* With one tile fewer there are fewer boards, in proportion to its safety.
LEMMA OneTileFewer ==
    ASSUME NEW m \in Nat, NEW A, IsFiniteSet(A), NEW o \in A, m <= Cardinality(A)
    PROVE  Cardinality(A) * Cardinality(Laid(m, A \ {o})) =
              Cardinality(Laid(m, A)) * (Cardinality(A) - m)
  BY SafeOnBoards, BoardsWithSafe, Zenon

\* t holds the products of the first 0, 1, ... n values of f.
Products(t, f, n) ==
    t = [i \in 0..n |-> IF i = 0 THEN 1 ELSE t[i - 1] * f[i]]

\* Any values can be multiplied.
LEMMA ProductsExist ==
    ASSUME NEW f, NEW n \in Nat
    PROVE  \E t : Products(t, f, n)
<1>. DEFINE S == {m \in Nat : \E t : Products(t, f, m)}
            MultipliedBy(v, i) == v * f[i]
<1>1. 0 \in S
  <2>. DEFINE t == [i \in 0..0 |-> 1]
              v == [i \in 0..0 |-> IF i = 0 THEN 1 ELSE MultipliedBy(t[i - 1], i)]
  <2>1. t = v
    <3>. HIDE DEF MultipliedBy
    <3>. QED  BY SMT
  <2>2. Products(t, f, 0)  BY <2>1, Zenon DEF Products
  <2>. QED  BY <2>2
<1>2. ASSUME NEW m \in S PROVE m + 1 \in S
  <2>1. m \in Nat /\ \E t : Products(t, f, m)  OBVIOUS
  <2>2. PICK t : Products(t, f, m)  BY <2>1
  <2>. DEFINE u == [i \in 0..(m + 1) |-> IF i = m + 1 THEN MultipliedBy(t[m], i) ELSE t[i]]
              v == [i \in 0..(m + 1) |-> IF i = 0 THEN 1 ELSE MultipliedBy(u[i - 1], i)]
  <2>3. ASSUME NEW i \in 0..(m + 1) PROVE u[i] = v[i]
    <3>1. t = [j \in 0..m |-> IF j = 0 THEN 1 ELSE MultipliedBy(t[j - 1], j)]
      BY <2>2, Zenon DEF Products
    <3>. HIDE DEF MultipliedBy
    <3>2. u[m + 1] = MultipliedBy(t[m], m + 1) /\ \A j \in 0..m : u[j] = t[j]
      BY <2>1
    <3>3. v[i] = IF i = 0 THEN 1 ELSE MultipliedBy(u[i - 1], i)  BY Zenon
    <3>4. \A j \in 0..m : t[j] = IF j = 0 THEN 1 ELSE MultipliedBy(t[j - 1], j)
      BY <3>1, Zenon
    <3>. HIDE DEF u, v
    <3>5. CASE i = 0
      <4>1. 0 \in 0..m  BY <2>1
      <4>. QED  BY <3>2, <3>3, <3>4, <3>5, <4>1, Zenon
    <3>6. CASE i = m + 1
      <4>1. i - 1 = m /\ i # 0 /\ m \in 0..m  BY <2>1, <3>6
      <4>. QED  BY <3>2, <3>3, <3>6, <4>1, Zenon
    <3>7. CASE i # 0 /\ i # m + 1
      <4>1. i \in 0..m /\ i - 1 \in 0..m  BY <2>1, <3>7
      <4>. QED  BY <3>2, <3>3, <3>4, <3>7, <4>1, Zenon
    <3>. QED  BY <3>5, <3>6, <3>7
  <2>4. u = v
    <3>. HIDE DEF MultipliedBy
    <3>. QED  BY <2>3
  <2>5. Products(u, f, m + 1)  BY <2>4, Zenon DEF Products
  <2>. QED  BY <2>1, <2>5
<1>3. S = Nat
  <2>. HIDE DEF S
  <2>1. S \in SUBSET Nat  BY DEF S
  <2>. QED  BY <1>1, <1>2, <2>1, Induction
<1>. QED  BY <1>3

\* t leads to the product of n values, factor by factor.
LeadsToProduct(t, f, n) ==
    /\ M!Product(f, n) = t[n]
    /\ t[0] = 1 /\ \A i \in 0..n : t[i] \in Nat
    /\ \A i \in 0..(n - 1) : t[i + 1] = t[i] * f[i + 1]

\* What Product computes.
LEMMA ProductIs ==
    ASSUME NEW n \in Nat, NEW f, \A i \in 1..n : f[i] \in Nat
    PROVE  \E t : LeadsToProduct(t, f, n)
<1>. DEFINE t == CHOOSE t : Products(t, f, n)
            MultipliedBy(v, i) == v * f[i]
<1>1. Products(t, f, n)  BY ProductsExist, Zenon
<1>2. M!Product(f, n) = t[n]  BY Zenon DEF M!Product, Products
<1>. HIDE DEF t
<1>3. \A i \in 0..n : t[i] = IF i = 0 THEN 1 ELSE MultipliedBy(t[i - 1], i)
  <2>1. t = [i \in 0..n |-> IF i = 0 THEN 1 ELSE MultipliedBy(t[i - 1], i)]
    BY <1>1, Zenon DEF Products
  <2>. HIDE DEF MultipliedBy
  <2>. QED  BY <2>1, Zenon
<1>4. t[0] = 1
  <2>1. 0 \in 0..n  OBVIOUS
  <2>. QED  BY <1>3, <2>1, Zenon
<1>5. ASSUME NEW i \in 0..(n - 1) PROVE t[i + 1] = t[i] * f[i + 1]
  <2>1. i + 1 \in 0..n /\ i + 1 # 0 /\ (i + 1) - 1 = i  OBVIOUS
  <2>. QED  BY <1>3, <2>1, Zenon
<1>. DEFINE S == {i \in Nat : i <= n => t[i] \in Nat}
<1>6. 0 \in S  BY <1>4
<1>7. ASSUME NEW i \in S PROVE i + 1 \in S
  <2>. SUFFICES ASSUME i + 1 <= n PROVE t[i + 1] \in Nat  OBVIOUS
  <2>1. i \in 0..(n - 1) /\ t[i] \in Nat /\ f[i + 1] \in Nat  OBVIOUS
  <2>2. t[i + 1] = t[i] * f[i + 1]  BY <1>5, <2>1
  <2>3. \A a, b \in Nat : a * b \in Nat  OBVIOUS
  <2>. QED  BY <2>1, <2>2, <2>3, Zenon
<1>8. S = Nat
  <2>1. S \in SUBSET Nat  OBVIOUS
  <2>. HIDE DEF S
  <2>. QED  BY <1>6, <1>7, <2>1, Induction
<1>9. \A i \in 0..n : t[i] \in Nat  BY <1>8
<1>10. LeadsToProduct(t, f, n)  BY <1>2, <1>4, <1>5, <1>9 DEF LeadsToProduct
<1>. QED  BY <1>10

\* The factors of both sides of an equation may be multiplied in turn.
LEMMA MultiplyBoth ==
    ASSUME NEW a \in Nat, NEW b \in Nat, NEW c \in Nat, NEW x \in Nat, NEW y \in Nat,
           NEW z \in Nat, NEW v \in Nat,
           a * x = z * y, c * b = a * v
    PROVE  b * (x * c) = z * (y * v)
<1>1. b * (x * c) = (c * b) * x  BY Z3
<1>2. (c * b) * x = (a * v) * x  OBVIOUS
<1>3. (a * v) * x = (a * x) * v  BY Z3
<1>4. (a * x) * v = (z * y) * v  OBVIOUS
<1>5. (z * y) * v = z * (y * v)  BY Z3
<1>. QED  BY <1>1, <1>2, <1>3, <1>4, <1>5, Zenon

\* The tiles that k picks leave over.
Left(n, p, k) == (0..(n - 1)) \ {p[i] : i \in 1..k}

\* The boards on which k picks are safe, over all boards, are as the safe tiles
\* to all, pick by pick.
SafeShare(n, m, p, k) ==
    Cardinality(Laid(m, Left(n, p, k))) * M!Product([i \in 1..k |-> n - i + 1], k) =
        Cardinality(Laid(m, 0..(n - 1)))
            * M!Product([i \in 1..k |-> (n - m) - i + 1], k)

\* What the boards on which k picks are safe pay back at RTP r.
PaysBack(n, m, p, k, r) ==
    (r * M!Product([i \in 1..k |-> n - i + 1], k))
        * Cardinality(Laid(m, Left(n, p, k))) * Unit =
    r * Cardinality(Laid(m, 0..(n - 1)))
        * (Unit * M!Product([i \in 1..k |-> (n - m) - i + 1], k))

\* The first k picks, all safe on as many boards.
LEMMA SafeBoards ==
    ASSUME NEW n \in Nat, NEW m \in Nat, NEW k \in Nat, k <= n - m,
           NEW p, \A i \in 1..k : p[i] \in 0..(n - 1),
           \A i, j \in 1..k : p[i] = p[j] => i = j
    PROVE  SafeShare(n, m, p, k)
<1>. DEFINE f == [i \in 1..k |-> n - i + 1]
            g == [i \in 1..k |-> (n - m) - i + 1]
            A(j) == Left(n, p, j)
            W(j) == Cardinality(Laid(m, A(j)))
<1>1. /\ \A i \in 1..k : f[i] = n - i + 1 /\ f[i] \in Nat
      /\ \A i \in 1..k : g[i] = (n - m) - i + 1 /\ g[i] \in Nat
  OBVIOUS
<1>. HIDE DEF f, g
<1>2. PICK t : LeadsToProduct(t, f, k)
  <2>1. \A i \in 1..k : f[i] \in Nat  BY <1>1
  <2>. QED  BY <2>1, ProductIs
<1>3. PICK u : LeadsToProduct(u, g, k)
  <2>1. \A i \in 1..k : g[i] \in Nat  BY <1>1
  <2>. QED  BY <2>1, ProductIs
<1>4. A(0) = 0..(n - 1)
  <2>1. {p[i] : i \in 1..0} = {}  OBVIOUS
  <2>. QED  BY <2>1, Zenon DEF Left
<1>5. ASSUME NEW j \in 0..(k - 1)
      PROVE  p[j + 1] \in A(j) /\ A(j + 1) = A(j) \ {p[j + 1]}
  <2>1. j + 1 \in 1..k /\ 1..(j + 1) = (1..j) \cup {j + 1} /\ j + 1 \notin 1..j
        /\ \A i \in 1..j : i \in 1..k
    OBVIOUS
  <2>2. p[j + 1] \in 0..(n - 1) /\ p[j + 1] \notin {p[i] : i \in 1..j}
    BY <2>1
  <2>3. {p[i] : i \in 1..(j + 1)} = {p[i] : i \in 1..j} \cup {p[j + 1]}
    BY <2>1
  <2>. QED  BY <2>2, <2>3 DEF Left
<1>. HIDE DEF A
<1>6. \A j \in 0..k : IsFiniteSet(A(j)) /\ W(j) \in Nat
  <2>1. ASSUME NEW j \in 0..k PROVE IsFiniteSet(A(j)) /\ W(j) \in Nat
    <3>1. IsFiniteSet(0..(n - 1))  BY FS_Interval
    <3>2. IsFiniteSet(A(j))  BY <3>1, FS_Difference DEF A, Left
    <3>. QED  BY <3>2, FinitelyManyBoards, FS_CardinalityType
  <2>. QED  BY <2>1
<1>. HIDE DEF W
<1>. DEFINE S == {j \in Nat : j <= k => /\ Cardinality(A(j)) = n - j
                                        /\ W(j) * t[j] = W(0) * u[j]}
<1>7. 0 \in S
  <2>1. Cardinality(A(0)) = n - 0  BY <1>4, FS_Interval
  <2>2. t[0] = 1 /\ u[0] = 1  BY <1>2, <1>3, Zenon DEF LeadsToProduct
  <2>. QED  BY <2>1, <2>2
<1>8. ASSUME NEW j \in S PROVE j + 1 \in S
  <2>. SUFFICES ASSUME j + 1 <= k
                PROVE  /\ Cardinality(A(j + 1)) = n - (j + 1)
                       /\ W(j + 1) * t[j + 1] = W(0) * u[j + 1]
    OBVIOUS
  <2>1. /\ j \in 0..(k - 1) /\ j \in 0..k /\ j + 1 \in 0..k /\ 0 \in 0..k
        /\ j + 1 \in 1..k
        /\ Cardinality(A(j)) = n - j /\ W(j) * t[j] = W(0) * u[j]
    OBVIOUS
  <2>. HIDE DEF S
  <2>2. p[j + 1] \in A(j) /\ A(j + 1) = A(j) \ {p[j + 1]}  BY <1>5, <2>1
  <2>3. IsFiniteSet(A(j)) /\ {W(j), W(j + 1), W(0), t[j], u[j]} \subseteq Nat
    <3>1. t[j] \in Nat /\ u[j] \in Nat
      BY <1>2, <1>3, <2>1, Zenon DEF LeadsToProduct
    <3>. QED  BY <1>6, <2>1, <3>1
  <2>4. Cardinality(A(j + 1)) = n - (j + 1)
    <3>1. Cardinality(A(j + 1)) = Cardinality(A(j)) - 1
      BY <2>2, <2>3, FS_RemoveElement
    <3>. QED  BY <2>1, <3>1
  <2>5. (n - j) * W(j + 1) = W(j) * (n - j - m)
    <3>1. m <= Cardinality(A(j))  BY <2>1
    <3>. HIDE DEF A
    <3>2. Cardinality(A(j)) * Cardinality(Laid(m, A(j) \ {p[j + 1]})) =
             Cardinality(Laid(m, A(j))) * (Cardinality(A(j)) - m)
      <4>1. p[j + 1] \in A(j) /\ IsFiniteSet(A(j))  BY <2>2, <2>3
      <4>. QED  BY <3>1, <4>1, OneTileFewer
    <3>. QED  BY <2>1, <2>2, <3>2, Zenon DEF W
  <2>6. /\ f[j + 1] = n - j /\ g[j + 1] = n - j - m
        /\ n - j \in Nat /\ n - j - m \in Nat
    BY <1>1, <2>1
  <2>7. W(j + 1) * (t[j] * (n - j)) = W(0) * (u[j] * (n - j - m))
    <3>0. /\ W(j) \in Nat /\ W(j + 1) \in Nat /\ W(0) \in Nat
          /\ t[j] \in Nat /\ u[j] \in Nat
      BY <2>3
    <3>1. PICK a \in Nat, b \in Nat, z \in Nat, x \in Nat, y \in Nat, c \in Nat,
               v \in Nat :
             /\ a = W(j) /\ b = W(j + 1) /\ z = W(0) /\ x = t[j] /\ y = u[j]
             /\ c = n - j /\ v = n - j - m
      BY <2>6, <3>0
    <3>2. a * x = z * y /\ c * b = a * v  BY <2>1, <2>5, <3>1, Zenon
    <3>3. b * (x * c) = z * (y * v)  BY <3>2, MultiplyBoth
    <3>. QED  BY <3>1, <3>3, Zenon
  <2>8. t[j + 1] = t[j] * (n - j) /\ u[j + 1] = u[j] * (n - j - m)
    BY <1>2, <1>3, <2>1, <2>6, Zenon DEF LeadsToProduct
  <2>. QED  BY <2>4, <2>7, <2>8, Zenon
<1>9. S = Nat
  <2>1. S \in SUBSET Nat  OBVIOUS
  <2>. HIDE DEF S
  <2>. QED  BY <1>7, <1>8, <2>1, Induction
<1>10. W(k) * t[k] = W(0) * u[k]
  <2>1. k \in S /\ k <= k  BY <1>9
  <2>. QED  BY <2>1
<1>11. M!Product(f, k) = t[k] /\ M!Product(g, k) = u[k]
  BY <1>2, <1>3, Zenon DEF LeadsToProduct
<1>. QED  BY <1>4, <1>10, <1>11, Zenon DEF W, A, f, g, SafeShare

\* A set of naturals up to k has a largest.
LEMMA LargestIs ==
    ASSUME NEW k \in Nat, NEW U \in SUBSET (0..k), 0 \in U
    PROVE  M!Max(U) \in U /\ \A y \in U : M!Max(U) >= y
<1>. DEFINE Top(x, j) == x \in U /\ \A y \in U : y <= j => x >= y
            S == {j \in Nat : \E x : Top(x, j)}
<1>1. 0 \in S
  <2>1. Top(0, 0)  OBVIOUS
  <2>. QED  BY <2>1
<1>2. ASSUME NEW j \in S PROVE j + 1 \in S
  <2>1. j \in Nat /\ \E x : Top(x, j)  OBVIOUS
  <2>2. PICK x : Top(x, j)  BY <2>1
  <2>3. \A y \in U : y \in Nat  OBVIOUS
  <2>4. CASE j + 1 \in U
    <3>1. Top(j + 1, j + 1)  BY <2>1, <2>3, <2>4
    <3>. HIDE DEF Top
    <3>. QED  BY <2>1, <3>1
  <2>5. CASE j + 1 \notin U
    <3>1. Top(x, j + 1)  BY <2>1, <2>2, <2>3, <2>5
    <3>. HIDE DEF Top
    <3>. QED  BY <2>1, <3>1
  <2>. QED  BY <2>4, <2>5
<1>3. S = Nat
  <2>1. S \in SUBSET Nat  OBVIOUS
  <2>. HIDE DEF S
  <2>. QED  BY <1>1, <1>2, <2>1, Induction
<1>4. PICK x : Top(x, k)
  <2>. HIDE DEF Top
  <2>. QED  BY <1>3
<1>5. x \in U /\ \A y \in U : x >= y
  <2>1. \A y \in U : y <= k  OBVIOUS
  <2>. QED  BY <1>4, <2>1
<1>. QED  BY <1>5, Zenon DEF M!Max

\* b is a board, whatever it is of.
IsBoard(b) == \E g, n, r, s : b = [game |-> g, size |-> n, rtp |-> r, mines |-> s]

\* What a board was dealt from.
LEMMA ConfigOfBoard ==
    ASSUME NEW b, IsBoard(b), NEW s, NEW e, e = [b EXCEPT !.mines = s]
    PROVE  /\ IsBoard(e) /\ e.mines = s
           /\ M!ConfigOf(b).mines = Len(b.mines)
           /\ Len(s) = Len(b.mines) => M!ConfigOf(e) = M!ConfigOf(b)
<1>1. PICK g, n, r, q : b = [game |-> g, size |-> n, rtp |-> r, mines |-> q]
  BY DEF IsBoard
<1>2. e = [game |-> g, size |-> n, rtp |-> r, mines |-> s]  BY <1>1
<1>3. e.size = b.size /\ e.rtp = b.rtp /\ e.mines = s  BY <1>1, <1>2
<1>4. M!ConfigOf(b).mines = Len(b.mines)
  <2>1. PICK l, x, y : l = Len(b.mines) /\ x = b.size /\ y = b.rtp  OBVIOUS
  <2>2. M!ConfigOf(b) =
           M!Resolve([game |-> "mines", size |-> x, mines |-> l, rtp |-> y])
    BY <2>1, Zenon DEF M!ConfigOf
  <2>3. M!Resolve([game |-> "mines", size |-> x, mines |-> l, rtp |-> y]).mines = l
    BY DEF M!Resolve
  <2>. QED  BY <2>1, <2>2, <2>3, Zenon
<1>5. Len(s) = Len(b.mines) => M!ConfigOf(e) = M!ConfigOf(b)
  BY <1>3, Zenon DEF M!ConfigOf
<1>6. IsBoard(e)  BY <1>2, Zenon DEF IsBoard
<1>. QED  BY <1>3, <1>4, <1>5, <1>6

\* What an evaluation says of accepted picks: they are lost if one is a mine, and
\* else pay what so many safe picks do.
LEMMA EvaluationIs ==
    ASSUME NEW b, NEW p \in Seq(Int), NEW c, c = M!ConfigOf(b)
    PROVE  /\ M!Evaluate(b, p).ok => M!ValidBoard(b) /\ M!ValidPicks(p, c.size)
           /\ M!ValidBoard(b) /\ M!ValidPicks(p, c.size) =>
                 /\ M!Evaluate(b, p).lost \in BOOLEAN
                 /\ ~M!Evaluate(b, p).lost <=>
                       \A i \in 1..Len(p) : p[i] \notin M!ToSet(b.mines)
                 /\ ~M!Evaluate(b, p).lost =>
                       M!Evaluate(b, p).multiplier = M!CashOut(c, Len(p))
<1>. DEFINE Mine(i) == p[i] \in M!ToSet(b.mines)
            U == {n \in 0..Len(p) : \A i \in 1..n : ~Mine(i)}
            safe == M!Max(U)
            lost == safe < Len(p)
            reveal == [i \in 1..safe |->
                         [tile |-> p[i], mine |-> FALSE, safePicks |-> i,
                          multiplier |-> M!CashOut(c, i)]]
            fatal == [tile |-> p[safe + 1], mine |-> TRUE,
                      safePicks |-> safe, multiplier |-> M!Zero]
            reveals == IF lost THEN Append(reveal, fatal) ELSE reveal
            multiplier == IF lost THEN M!Zero ELSE M!CashOut(c, safe)
<1>1. Len(p) \in Nat  OBVIOUS
<1>2. ASSUME ~(M!ValidBoard(b) /\ M!ValidPicks(p, c.size))
      PROVE  M!Evaluate(b, p).ok = FALSE
  <2>1. M!Evaluate(b, p) = M!Refused  BY <1>2, Zenon DEF M!Evaluate
  <2>2. M!Refused.ok = FALSE  BY DEF M!Refused
  <2>. QED  BY <2>1, <2>2, Zenon
<1>3. ASSUME M!ValidBoard(b), M!ValidPicks(p, c.size)
      PROVE  M!Evaluate(b, p).lost = lost /\ M!Evaluate(b, p).multiplier = multiplier
  <2>1. M!Evaluate(b, p) =
           [ok |-> TRUE, reveals |-> reveals, lost |-> lost, safePicks |-> safe,
            multiplier |-> multiplier]
    BY <1>3, Zenon DEF M!Evaluate
  <2>. HIDE DEF reveals, lost, safe, multiplier
  <2>. QED  BY <2>1
<1>4. safe \in U /\ \A y \in U : safe >= y
  <2>1. U \in SUBSET (0..Len(p)) /\ 0 \in U  BY <1>1
  <2>. HIDE DEF U
  <2>. QED  BY <1>1, <2>1, LargestIs
<1>5. safe \in 0..Len(p) /\ \A i \in 1..safe : ~Mine(i)
  <2>. HIDE DEF safe
  <2>. QED  BY <1>4
<1>6. (\A i \in 1..Len(p) : ~Mine(i)) => safe = Len(p)
  <2>. SUFFICES ASSUME \A i \in 1..Len(p) : ~Mine(i) PROVE safe = Len(p)  OBVIOUS
  <2>. HIDE DEF safe, Mine
  <2>1. Len(p) \in U  BY <1>1
  <2>2. safe >= Len(p)  BY <1>4, <2>1
  <2>. QED  BY <1>1, <1>5, <2>2
<1>. HIDE DEF safe, U
<1>7. ~lost <=> \A i \in 1..Len(p) : ~Mine(i)
  <2>1. ~lost <=> safe = Len(p)  BY <1>1, <1>5
  <2>. QED  BY <1>5, <1>6, <2>1, Zenon
<1>8. ~lost => multiplier = M!CashOut(c, Len(p))
  <2>1. ~lost => safe = Len(p)  BY <1>1, <1>5
  <2>. QED  BY <2>1, Zenon
<1>9. lost \in BOOLEAN  OBVIOUS
<1>. HIDE DEF lost, multiplier
<1>. QED  BY <1>2, <1>3, <1>7, <1>8, <1>9, Zenon

\* How many tiles k picks leave over.
LEMMA LeftIs ==
    ASSUME NEW n \in Nat, NEW k \in Nat,
           NEW p, \A i \in 1..k : p[i] \in 0..(n - 1),
           \A i, j \in 1..k : p[i] = p[j] => i = j
    PROVE  /\ IsFiniteSet(Left(n, p, k)) /\ Cardinality(Left(n, p, k)) = n - k
           /\ Left(n, p, k) \in SUBSET (0..(n - 1))
<1>. DEFINE q == [i \in 1..k |-> p[i]]
            all == 0..(n - 1)
<1>1. q \in [1..k -> all] /\ \A i, j \in DOMAIN q : q[i] = q[j] => i = j
  OBVIOUS
<1>2. ToSet(q) = {p[i] : i \in 1..k}  BY DEF ToSet
<1>. HIDE DEF q
<1>3. q \in Laid(k, all)  BY <1>1 DEF Laid, M!Distinct
<1>4. IsFiniteSet(all) /\ Cardinality(all) = n  BY FS_Interval
<1>5. Left(n, p, k) = all \ ToSet(q)  BY <1>2, Zenon DEF Left
<1>. HIDE DEF all
<1>6. /\ IsFiniteSet(all \ ToSet(q))
      /\ Cardinality(all \ ToSet(q)) = Cardinality(all) - k
  BY <1>3, <1>4, LaidIs
<1>. QED  BY <1>4, <1>5, <1>6 DEF all

\* What k picks that can be safe pay back, over all the boards of m mines.
LEMMA BoardsPay ==
    ASSUME NEW n \in Nat, NEW m \in Nat, m <= n, NEW k \in Nat, NEW r \in Nat,
           NEW p, \A i \in 1..k : p[i] \in 0..(n - 1),
           \A i, j \in 1..k : p[i] = p[j] => i = j,
           NEW s \in Laid(m, Left(n, p, k))
    PROVE  k <= n - m /\ PaysBack(n, m, p, k, r)
<1>1. Unit \in Nat  BY InfinityIs
<1>. DEFINE A == Left(n, p, k)
            f == [i \in 1..k |-> n - i + 1]
            g == [i \in 1..k |-> (n - m) - i + 1]
<1>2. IsFiniteSet(A) /\ Cardinality(A) = n - k  BY LeftIs
<1>3. k <= n - m
  <2>. HIDE DEF A
  <2>1. m <= Cardinality(A)  BY <1>2, LaidIs DEF A
  <2>. QED  BY <1>2, <2>1
<1>4. Cardinality(Laid(m, A)) * M!Product(f, k) =
         Cardinality(Laid(m, 0..(n - 1))) * M!Product(g, k)
  <2>1. SafeShare(n, m, p, k)  BY <1>3, SafeBoards
  <2>. QED  BY <2>1, Zenon DEF SafeShare
<1>5. M!Product(f, k) \in Nat /\ M!Product(g, k) \in Nat
  <2>1. \A i \in 1..k : f[i] \in Nat /\ g[i] \in Nat  BY <1>3
  <2>2. PICK t : LeadsToProduct(t, f, k)  BY <2>1, ProductIs
  <2>3. PICK u : LeadsToProduct(u, g, k)  BY <2>1, ProductIs
  <2>4. k \in 0..k  OBVIOUS
  <2>. QED  BY <2>2, <2>3, <2>4, Zenon DEF LeadsToProduct
<1>6. /\ Cardinality(Laid(m, A)) \in Nat
      /\ Cardinality(Laid(m, 0..(n - 1))) \in Nat
  <2>1. IsFiniteSet(0..(n - 1))  BY FS_Interval
  <2>. QED  BY <1>2, <2>1, FinitelyManyBoards, FS_CardinalityType
<1>7. PICK W \in Nat, B \in Nat, F \in Nat, G \in Nat :
           /\ W = Cardinality(Laid(m, A)) /\ B = Cardinality(Laid(m, 0..(n - 1)))
           /\ F = M!Product(f, k) /\ G = M!Product(g, k)
  BY <1>5, <1>6
<1>8. W * F = B * G  BY <1>4, <1>7, Zenon
<1>9. (r * F) * W * Unit = r * B * (Unit * G)
  <2>1. (r * F) * W * Unit = (W * F) * (r * Unit)  BY <1>1, Z3
  <2>2. r * B * (Unit * G) = (B * G) * (r * Unit)  BY <1>1, Z3
  <2>. QED  BY <1>8, <2>1, <2>2, Zenon
<1>. QED  BY <1>3, <1>7, <1>9, Zenon DEF PaysBack

\* The boards p could have been picked on, dealt from c as b was, and those on
\* which p won; e is the multiplier p won on s.
MadeOn(b, p, c, boards, won, s, e) ==
    /\ c = M!ConfigOf(b)
    /\ boards = {t \in [1..c.mines -> 0..(c.size - 1)] : M!Distinct(t)}
    /\ won = {t \in boards : ~M!Evaluate([b EXCEPT !.mines = t], p).lost}
    /\ s \in won /\ e = M!Evaluate([b EXCEPT !.mines = s], p).multiplier

\* They pay back the RTP at the multiplier e.
PayTheRTP(c, boards, won, e) ==
    e.num * Cardinality(won) * Unit = c.rtp * Cardinality(boards) * e.den

\* Picks pay back the RTP over all the boards they could have been made on.
LEMMA PicksPay ==
    ASSUME NEW b, IsBoard(b), NEW p \in Seq(Int), p # <<>>,
           M!Evaluate(b, p).ok, NEW c, NEW boards, NEW won, NEW s, NEW e,
           MadeOn(b, p, c, boards, won, s, e)
    PROVE  PayTheRTP(c, boards, won, e)
<1>. DEFINE Board(t) == [b EXCEPT !.mines = t]
            all == 0..(c.size - 1)
<1>0. /\ c = M!ConfigOf(b)
      /\ boards = {t \in [1..c.mines -> 0..(c.size - 1)] : M!Distinct(t)}
      /\ won = {t \in boards : ~M!Evaluate([b EXCEPT !.mines = t], p).lost}
      /\ s \in won /\ e = M!Evaluate([b EXCEPT !.mines = s], p).multiplier
  BY Zenon DEF MadeOn
<1>1. PICK n, m, r : n = c.size /\ m = c.mines /\ r = c.rtp  OBVIOUS
<1>2. M!ValidBoard(b) /\ M!ValidPicks(p, c.size)  BY <1>0, EvaluationIs
<1>3. /\ MaxBoardSize \in Nat /\ Unit \in Nat
      /\ n \in Nat /\ m \in Nat /\ r \in Nat /\ m <= n
  <2>1. MaxBoardSize \in Nat /\ Unit \in Nat  BY GamesAssumption, InfinityIs
  <2>2. M!Valid(c)  BY <1>0, <1>2, Zenon DEF M!ValidBoard
  <2>3. n \in 2..MaxBoardSize /\ m \in 1..(n - 1) /\ r \in 1..Unit
    BY <1>1, <2>2, Zenon DEF M!Valid
  <2>. QED  BY <2>1, <2>3
<1>4. PICK k \in Nat : k = Len(p)  OBVIOUS
<1>5. /\ \A i \in 1..k : p[i] \in 0..(n - 1)
      /\ \A i, j \in 1..k : p[i] = p[j] => i = j
  <2>1. DOMAIN p = 1..k  BY <1>4
  <2>2. /\ {p[i] : i \in DOMAIN p} \subseteq 0..(n - 1)
        /\ \A i, j \in DOMAIN p : p[i] = p[j] => i = j
    BY <1>1, <1>2, Zenon DEF M!ValidPicks, M!ToSet, M!Distinct
  <2>. QED  BY <2>1, <2>2
<1>6. boards = Laid(m, 0..(n - 1))  BY <1>0, <1>1, Zenon DEF Laid
<1>7. ASSUME NEW t \in boards
      PROVE  /\ M!ConfigOf(Board(t)) = c /\ M!ValidBoard(Board(t))
             /\ Board(t).mines = t /\ t \in [1..m -> 0..(n - 1)]
  <2>1. t \in [1..m -> 0..(n - 1)] /\ M!Distinct(t)  BY <1>6 DEF Laid
  <2>2. Len(t) = m /\ {t[i] : i \in DOMAIN t} \subseteq 0..(n - 1)
    <3>1. DOMAIN t = 1..m /\ \A i \in 1..m : t[i] \in 0..(n - 1)  BY <2>1
    <3>2. t \in Seq(Int)  BY <1>3, <3>1, <2>1
    <3>3. DOMAIN t = 1..Len(t) /\ Len(t) \in Nat  BY <3>2
    <3>4. Len(t) = m  BY <1>3, <3>1, <3>3
    <3>. QED  BY <3>1, <3>4
  <2>3. m = Len(b.mines)  BY <1>0, <1>1, ConfigOfBoard
  <2>4. M!ConfigOf(Board(t)) = c /\ Board(t).mines = t
    BY <1>0, <2>2, <2>3, ConfigOfBoard
  <2>5. M!Valid(c)  BY <1>0, <1>2, Zenon DEF M!ValidBoard
  <2>6. M!ToSet(t) \subseteq 0..(c.size - 1)  BY <1>1, <2>2, Zenon DEF M!ToSet
  <2>. HIDE DEF Board
  <2>7. M!ValidBoard(Board(t))
    BY <2>1, <2>4, <2>5, <2>6, Zenon DEF M!ValidBoard
  <2>. QED  BY <2>1, <2>4, <2>7, Zenon
<1>. HIDE DEF Board
<1>8. ASSUME NEW t \in boards
      PROVE  /\ ~M!Evaluate(Board(t), p).lost <=> \A i \in 1..k : p[i] \notin ToSet(t)
             /\ ~M!Evaluate(Board(t), p).lost =>
                   M!Evaluate(Board(t), p).multiplier = M!CashOut(c, k)
  <2>1. M!ValidBoard(Board(t)) /\ M!ConfigOf(Board(t)) = c /\ Board(t).mines = t
    BY <1>7
  <2>2. M!ToSet(t) = ToSet(t)  BY Zenon DEF M!ToSet, ToSet
  <2>. DEFINE d == Board(t)
              v == M!Evaluate(d, p)
  <2>3. p \in Seq(Int) /\ c = M!ConfigOf(d)  BY <2>1
  <2>. HIDE DEF d
  <2>4. M!ValidBoard(d) /\ M!ValidPicks(p, c.size) =>
           /\ M!Evaluate(d, p).lost \in BOOLEAN
           /\ ~M!Evaluate(d, p).lost <=>
                 \A i \in 1..Len(p) : p[i] \notin M!ToSet(d.mines)
           /\ ~M!Evaluate(d, p).lost =>
                 M!Evaluate(d, p).multiplier = M!CashOut(c, Len(p))
    BY <2>3, EvaluationIs
  <2>5. M!ToSet(d.mines) = ToSet(t)  BY <2>1, <2>2, Zenon DEF d
  <2>6. M!ValidBoard(d) /\ M!ValidPicks(p, c.size)  BY <1>2, <2>1, Zenon DEF d
  <2>7. /\ ~M!Evaluate(d, p).lost <=>
                 \A i \in 1..Len(p) : p[i] \notin ToSet(t)
        /\ ~M!Evaluate(d, p).lost =>
                 M!Evaluate(d, p).multiplier = M!CashOut(c, Len(p))
    BY <2>4, <2>5, <2>6, Zenon
  <2>. QED  BY <1>4, <2>7, Zenon DEF d
<1>9. won = Laid(m, Left(n, p, k))
  <2>1. ASSUME NEW t \in won PROVE t \in Laid(m, Left(n, p, k))
    <3>1. t \in boards /\ \A i \in 1..k : p[i] \notin ToSet(t)  BY <1>0, <1>8, Zenon DEF Board
    <3>2. t \in [1..m -> 0..(n - 1)] /\ M!Distinct(t)  BY <1>6, <3>1 DEF Laid
    <3>3. ASSUME NEW j \in 1..m PROVE t[j] \in Left(n, p, k)
      <4>1. t[j] \in ToSet(t) /\ t[j] \in 0..(n - 1)  BY <3>2, Zenon DEF ToSet
      <4>2. \A i \in 1..k : p[i] # t[j]  BY <3>1, <4>1
      <4>. QED  BY <4>1, <4>2, Zenon DEF Left
    <3>4. t \in [1..m -> Left(n, p, k)]  BY <3>2, <3>3
    <3>. QED  BY <3>2, <3>4, Zenon DEF Laid
  <2>2. ASSUME NEW t \in Laid(m, Left(n, p, k)) PROVE t \in won
    <3>1. t \in [1..m -> Left(n, p, k)] /\ M!Distinct(t)  BY DEF Laid
    <3>2. t \in [1..m -> 0..(n - 1)] /\ \A i \in 1..k : p[i] \notin ToSet(t)
      BY <3>1 DEF Left, ToSet
    <3>3. t \in boards  BY <1>6, <3>1, <3>2, Zenon DEF Laid
    <3>. QED  BY <1>0, <1>8, <3>2, <3>3, Zenon DEF Board
  <2>. QED  BY <2>1, <2>2
<1>. DEFINE f == [i \in 1..k |-> n - i + 1]
            g == [i \in 1..k |-> (n - m) - i + 1]
<1>10. /\ k <= n - m
       /\ (r * M!Product(f, k)) * Cardinality(Laid(m, Left(n, p, k))) * Unit =
          r * Cardinality(Laid(m, 0..(n - 1))) * (Unit * M!Product(g, k))
  <2>1. s \in Laid(m, Left(n, p, k))  BY <1>0, <1>9, Zenon
  <2>2. k <= n - m /\ PaysBack(n, m, p, k, r)  BY <1>3, <1>5, <2>1, BoardsPay
  <2>. QED  BY <2>2, Zenon DEF PaysBack
<1>11. e.num = r * M!Product(f, k) /\ e.den = Unit * M!Product(g, k)
  <2>1. e = M!CashOut(c, k)  BY <1>0, <1>8, Zenon DEF Board
  <2>2. k # 0 /\ ~(k > n - m)  BY <1>3, <1>4, <1>10
  <2>3. M!CashOut(c, k) =
           M!Ratio(r * M!Product(f, k), Unit * M!Product(g, k))
    BY <1>1, <2>2, Zenon DEF M!CashOut
  <2>. HIDE DEF f, g
  <2>. QED  BY <2>1, <2>3 DEF M!Ratio
<1>. QED  BY <1>1, <1>6, <1>9, <1>10, <1>11, Zenon DEF PayTheRTP

\* A round of mines hands over a board, and what is said of picks is said of a
\* board that was kept or handed over.
PickInv ==
    /\ pc = "observe" /\ config.game = "mines" => IsBoard(result)
    /\ evaluation # None =>
          /\ IsBoard(evaluation.board) /\ evaluation.picks \in Seq(Int)
          /\ evaluation.outcome = M!Evaluate(evaluation.board, evaluation.picks)

\* Nothing has been picked yet.
LEMMA PickInvInit == GamesInit => PickInv
  BY DEF GamesInit, Init, PickInv

\* A board stays a board, and picks are forgotten with their round.
LEMMA PickInvNext == PickInv /\ [GamesNext]_allVars => PickInv'
<1>. SUFFICES ASSUME PickInv, [GamesNext]_allVars PROVE PickInv'  OBVIOUS
<1>1. CASE PlayReturns
  <2>1. /\ result' = Outcome(config, tiles, draws)
        /\ UNCHANGED <<config, evaluation>>
    BY <1>1 DEF PlayReturns, Played, gameVars
  <2>2. ASSUME config.game = "mines" PROVE IsBoard(Outcome(config, tiles, draws))
    <3>1. Outcome(config, tiles, draws) = M!Outcome(config, tiles)
      BY <2>2 DEF Outcome
    <3>. QED  BY <3>1, Zenon DEF IsBoard, M!Outcome
  <2>3. config'.game = "mines" => IsBoard(result')  BY <2>1, <2>2, Zenon
  <2>. QED  BY <2>1, <2>3, Zenon DEF PickInv
<1>2. CASE PlayStarts  BY <1>2 DEF PlayStarts, StartRound, PickInv
<1>3. CASE Draw  BY <1>3 DEF Draw, PickInv, vars
<1>4. CASE DrawFails
  BY <1>4 DEF DrawFails, EngineError, Return, PickInv, gameVars
<1>5. CASE EvaluateBoard
  <2>1. PICK b \in {result} \cup StoredBoards, picks \in PickLists :
           evaluation' = [board |-> b, picks |-> picks,
                          outcome |-> M!Evaluate(b, picks)]
    BY <1>5, Zenon DEF EvaluateBoard
  <2>2. /\ pc = "observe" /\ config.game = "mines"
        /\ UNCHANGED <<pc, config, result>>
    BY <1>5 DEF EvaluateBoard, vars
  <2>3. IsBoard(b)
    <3>1. CASE b = result  BY <2>2, <3>1, Zenon DEF PickInv
    <3>2. CASE b \in StoredBoards
      <4>1. b \in [game : {"mines"}, size : Int, rtp : Int, mines : Seq(Int)]
        BY <3>2, GamesAssumption
      <4>2. b = [game |-> b.game, size |-> b.size, rtp |-> b.rtp,
                 mines |-> b.mines]
        BY <4>1
      <4>. QED  BY <4>2, Zenon DEF IsBoard
    <3>. QED  BY <3>1, <3>2
  <2>4. picks \in Seq(Int)  BY GamesAssumption
  <2>. DEFINE o == M!Evaluate(b, picks)
  <2>5. evaluation' = [board |-> b, picks |-> picks, outcome |-> o]
    BY <2>1, Zenon
  <2>. HIDE DEF o
  <2>6. evaluation'.board = b /\ evaluation'.picks = picks /\ evaluation'.outcome = o
    BY <2>5
  <2>7. evaluation'.outcome = M!Evaluate(evaluation'.board, evaluation'.picks)
    BY <2>6, Zenon DEF o
  <2>. QED  BY <2>2, <2>3, <2>4, <2>6, <2>7, Zenon DEF PickInv
<1>6. CASE RoundEnds
  BY <1>6 DEF RoundEnds, Observe, ObserverError, Return, PickInv
<1>7. CASE RunEnds
  BY <1>7 DEF RunEnds, Completed, ContextError, Return, PickInv, gameVars
<1>8. CASE RunCancelled
  BY <1>8 DEF RunCancelled, Cancel, PickInv, gameVars
<1>9. CASE UNCHANGED allVars  BY <1>9 DEF allVars, vars, gameVars, PickInv
<1>. QED
  BY <1>1, <1>2, <1>3, <1>4, <1>5, <1>6, <1>7, <1>8, <1>9
  DEF GamesNext, GamesStep

\* Mines pays its RTP whatever is picked, and in whichever order: over all the
\* boards of as many mines, what the multiplier adds for the safe picks is just
\* what the picks of a mine forfeit, however big the board is.
THEOREM ThePicksPayTheRTP == GamesSpec => []PicksPayTheRTP
<1>1. PickInv => PicksPayTheRTP
  <2>. SUFFICES ASSUME PickInv, evaluation # None, evaluation.outcome.ok,
                       evaluation.picks # <<>>
                PROVE  LET c        == M!ConfigOf(evaluation.board)
                           Board(s) == [evaluation.board EXCEPT !.mines = s]
                           boards   == {s \in [1..c.mines -> 0..(c.size - 1)] :
                                           M!Distinct(s)}
                           won      == {s \in boards :
                                   ~M!Evaluate(Board(s), evaluation.picks).lost}
                       IN  \A s \in won :
                             LET multiplier ==
                                   M!Evaluate(Board(s), evaluation.picks).multiplier
                             IN  multiplier.num * Cardinality(won) * Unit =
                                   c.rtp * Cardinality(boards) * multiplier.den
    BY Zenon DEF PicksPayTheRTP
  <2>. DEFINE b == evaluation.board
              p == evaluation.picks
              c == M!ConfigOf(b)
              Board(s) == [b EXCEPT !.mines = s]
              boards == {s \in [1..c.mines -> 0..(c.size - 1)] : M!Distinct(s)}
              won == {s \in boards : ~M!Evaluate(Board(s), p).lost}
              Multiplier(s) == M!Evaluate(Board(s), p).multiplier
  <2>1. IsBoard(b) /\ p \in Seq(Int) /\ p # <<>> /\ M!Evaluate(b, p).ok
    BY Zenon DEF PickInv
  <2>2. ASSUME NEW s \in won
        PROVE  Multiplier(s).num * Cardinality(won) * Unit =
                  c.rtp * Cardinality(boards) * Multiplier(s).den
    <3>1. MadeOn(b, p, c, boards, won, s, Multiplier(s))  BY Zenon DEF MadeOn
    <3>. HIDE DEF b, p, c, boards, won, Multiplier
    <3>2. PayTheRTP(c, boards, won, Multiplier(s))
      BY <2>1, <3>1, PicksPay
    <3>. QED  BY <3>2, Zenon DEF PayTheRTP
  <2>. QED  BY <2>2, Zenon
<1>2. GamesSpec => []PickInv
  BY PickInvInit, PickInvNext, PTL DEF GamesSpec
<1>. QED  BY <1>1, <1>2, PTL

------------------------------------------------------------------------------
(* What the balls pay back.                                                  *)

\* The larger of two factors goes with the smaller.
LEMMA LargerFactor ==
    ASSUME NEW a \in Nat, NEW b \in Nat, NEW i \in Nat \ {0}, NEW j \in Nat,
           i <= j, a * i = b * j
    PROVE  b <= a
<1>. SUFFICES ASSUME a < b PROVE FALSE  OBVIOUS
<1>1. i * a \in Nat /\ i * b \in Nat /\ i * a < i * b  BY ProductGrowsStrictly
<1>2. b * i \in Nat /\ b * j \in Nat /\ b * i <= b * j  BY ProductGrows
<1>3. i * a = a * i /\ i * b = b * i  BY Z3
<1>. QED  BY <1>1, <1>2, <1>3

\* Subsets of k and k - 1 of n things: a subset and one of its members is a
\* subset of one less and something that is not in it.
LEMMA SubsetsCounted ==
    ASSUME NEW S, IsFiniteSet(S), NEW n \in Nat, n = Cardinality(S), NEW k \in 1..n
    PROVE  Cardinality(kSubset(k, S)) * k =
              Cardinality(kSubset(k - 1, S)) * (n - k + 1)
<1>. DEFINE A == kSubset(k, S)
            B == kSubset(k - 1, S)
            V == {p \in A \X S : p[2] \in p[1]}
            W == {p \in B \X S : p[2] \notin p[1]}
            f == [p \in V |-> <<p[1] \ {p[2]}, p[2]>>]
<1>1. /\ \A s \in A : s \in SUBSET S /\ IsFiniteSet(s) /\ Cardinality(s) = k
      /\ \A s \in B : s \in SUBSET S /\ IsFiniteSet(s) /\ Cardinality(s) = k - 1
  BY FS_Subset DEF kSubset
<1>2. IsFiniteSet(A) /\ IsFiniteSet(B)
  <2>1. IsFiniteSet(SUBSET S)  BY FS_SUBSET
  <2>. QED  BY <2>1, FS_Subset DEF kSubset
<1>3. /\ \A s, x : <<s, x>> \in V <=> s \in A /\ x \in s
      /\ \A s, x : <<s, x>> \in W <=> s \in B /\ x \in S \ s
      /\ \A p \in V : p = <<p[1], p[2]>>
      /\ \A p \in W : p = <<p[1], p[2]>>
  <2>1. \A s \in A : s \in SUBSET S  BY <1>1
  <2>. HIDE DEF A, B
  <2>. QED  BY <2>1
<1>4. V \in SUBSET (A \X S) /\ W \in SUBSET (B \X S)
  <2>. HIDE DEF A, B
  <2>. QED  OBVIOUS
<1>5. \A p \in V : f[p] = <<p[1] \ {p[2]}, p[2]>>  OBVIOUS
<1>. HIDE DEF V, W, f
<1>6. AsManyWith(A, V, S, k)
  <2>1. ASSUME NEW s \in A
        PROVE  IsFiniteSet(With(V, S, s)) /\ Cardinality(With(V, S, s)) = k
    <3>1. With(V, S, s) = s
      <4>. HIDE DEF A
      <4>. QED  BY <1>1, <1>3 DEF With
    <3>. QED  BY <1>1, <3>1, Zenon
  <2>. QED  BY <2>1, Zenon DEF AsManyWith
<1>7. AsManyWith(B, W, S, n - k + 1)
  <2>1. ASSUME NEW s \in B
        PROVE  IsFiniteSet(With(W, S, s)) /\ Cardinality(With(W, S, s)) = n - k + 1
    <3>1. With(W, S, s) = S \ s
      <4>. HIDE DEF B
      <4>. QED  BY <1>3 DEF With
    <3>2. S \cap s = s  BY <1>1
    <3>3. IsFiniteSet(S \ s) /\ Cardinality(S \ s) = n - (k - 1)
      <4>1. Cardinality(s) = k - 1  BY <1>1
      <4>2. IsFiniteSet(S \ s)  BY FS_Difference
      <4>3. Cardinality(S \ s) = Cardinality(S) - Cardinality(S \cap s)
        BY FS_Difference
      <4>. QED  BY <3>2, <4>1, <4>2, <4>3, Zenon
    <3>4. n - (k - 1) = n - k + 1  OBVIOUS
    <3>. QED  BY <3>1, <3>3, <3>4, Zenon
  <2>. QED  BY <2>1, Zenon DEF AsManyWith
<1>8. IsFiniteSet(V) /\ Cardinality(V) = Cardinality(A) * k
  <2>. HIDE DEF A, V
  <2>1. k \in Nat  OBVIOUS
  <2>. QED  BY <1>2, <1>4, <1>6, <2>1, PairsCounted
<1>9. IsFiniteSet(W) /\ Cardinality(W) = Cardinality(B) * (n - k + 1)
  <2>. DEFINE l == n - k + 1
  <2>1. l \in Nat  OBVIOUS
  <2>. HIDE DEF B, W, l
  <2>2. AsManyWith(B, W, S, l)  BY <1>7 DEF l
  <2>3. IsFiniteSet(W) /\ Cardinality(W) = Cardinality(B) * l
    BY <1>2, <1>4, <2>1, <2>2, PairsCounted
  <2>. QED  BY <2>3 DEF l
<1>10. ASSUME NEW s \in A, NEW x \in s PROVE s \ {x} \in B /\ x \in S \ (s \ {x})
  <2>1. s \in SUBSET S /\ IsFiniteSet(s) /\ Cardinality(s) = k  BY <1>1
  <2>2. Cardinality(s \ {x}) = k - 1  BY <2>1, FS_RemoveElement
  <2>. QED  BY <2>1, <2>2 DEF kSubset
<1>11. ASSUME NEW s \in B, NEW x \in S \ s
       PROVE  s \cup {x} \in A /\ (s \cup {x}) \ {x} = s
  <2>1. s \in SUBSET S /\ IsFiniteSet(s) /\ Cardinality(s) = k - 1  BY <1>1
  <2>2. Cardinality(s \cup {x}) = k
    <3>1. Cardinality(s \cup {x}) =
             IF x \in s THEN Cardinality(s) ELSE Cardinality(s) + 1
      BY <2>1, FS_AddElement, Zenon
    <3>2. (k - 1) + 1 = k  OBVIOUS
    <3>. QED  BY <2>1, <3>1, <3>2, Zenon
  <2>. QED  BY <2>1, <2>2 DEF kSubset
<1>. HIDE DEF A, B
<1>12. f \in [V -> W]
  <2>1. ASSUME NEW p \in V PROVE f[p] \in W
    <3>1. p[1] \in A /\ p[2] \in p[1]  BY <1>3
    <3>2. p[1] \ {p[2]} \in B /\ p[2] \in S \ (p[1] \ {p[2]})  BY <1>10, <3>1
    <3>3. PICK u, x : u = p[1] \ {p[2]} /\ x = p[2]  OBVIOUS
    <3>4. u \in B /\ x \in S \ u  BY <3>2, <3>3, Zenon
    <3>5. <<u, x>> \in W  BY <1>3, <3>4
    <3>. QED  BY <1>5, <3>3, <3>5, Zenon
  <2>. QED  BY <2>1 DEF f
<1>13. ASSUME NEW p \in V, NEW q \in V, f[p] = f[q] PROVE p = q
  <2>1. <<p[1] \ {p[2]}, p[2]>> = <<q[1] \ {q[2]}, q[2]>>  BY <1>5, <1>13, Zenon
  <2>2. p[2] \in p[1] /\ q[2] \in q[1]  BY <1>3
  <2>3. p[2] = q[2] /\ p[1] \ {p[2]} = q[1] \ {q[2]}  BY <2>1
  <2>4. p[1] = q[1]  BY <2>2, <2>3
  <2>. QED  BY <1>3, <2>3, <2>4, Zenon
<1>14. ASSUME NEW q \in W PROVE \E p \in V : f[p] = q
  <2>1. q[1] \in B /\ q[2] \in S \ q[1] /\ q = <<q[1], q[2]>>  BY <1>3
  <2>2. PICK s, x : s = q[1] /\ x = q[2]  OBVIOUS
  <2>3. s \cup {x} \in A /\ (s \cup {x}) \ {x} = s  BY <1>11, <2>1, <2>2
  <2>4. <<s \cup {x}, x>> \in V  BY <1>3, <2>3
  <2>5. f[<<s \cup {x}, x>>] = <<(s \cup {x}) \ {x}, x>>  BY <1>5, <2>4
  <2>. QED  BY <2>1, <2>2, <2>3, <2>4, <2>5, Zenon
<1>15. f \in Injection(V, W) /\ f \in Surjection(V, W)
  BY <1>12, <1>13, <1>14, Zenon DEF Injection, Surjection, IsInjective
<1>16. Cardinality(V) = Cardinality(W)
  BY <1>9, <1>15, FS_Injection
<1>. QED  BY <1>8, <1>9, <1>16, Zenon DEF A, B

\* The ways to turn right at k of n pins.
Ways(n, k) == Cardinality(kSubset(k, 1..n))

\* Each number of turns there can be, there is a way to make.
LEMMA WaysAre ==
    ASSUME NEW n \in Nat
    PROVE  /\ Ways(n, 0) = 1 /\ \A k \in 0..n : Ways(n, k) \in Nat \ {0}
           /\ \A k \in 1..n : Ways(n, k) * k = Ways(n, k - 1) * (n - k + 1)
<1>. DEFINE S == 1..n
<1>1. IsFiniteSet(S) /\ Cardinality(S) = n  BY FS_Interval
<1>2. Ways(n, 0) = 1
  <2>1. \A s \in SUBSET S : Cardinality(s) = 0 <=> s = {}
    <3>. HIDE DEF S
    <3>. QED  BY <1>1, FS_Subset, FS_EmptySet
  <2>2. kSubset(0, S) = {{}}  BY <2>1 DEF kSubset
  <2>3. Cardinality({{}}) = 1  BY FS_Singleton
  <2>. QED  BY <2>2, <2>3, Zenon DEF Ways
<1>3. ASSUME NEW k \in 1..n PROVE Ways(n, k) * k = Ways(n, k - 1) * (n - k + 1)
  <2>. HIDE DEF S
  <2>1. Cardinality(kSubset(k, S)) * k =
           Cardinality(kSubset(k - 1, S)) * (n - k + 1)
    BY <1>1, SubsetsCounted
  <2>. QED  BY <2>1, Zenon DEF Ways, S
<1>4. \A k \in Nat : Ways(n, k) \in Nat
  <2>1. IsFiniteSet(SUBSET S)  BY <1>1, FS_SUBSET
  <2>2. \A k \in Nat : IsFiniteSet(kSubset(k, S))  BY <2>1, FS_Subset DEF kSubset
  <2>. QED  BY <2>2, FS_CardinalityType DEF Ways
<1>. DEFINE T == {k \in Nat : k <= n => Ways(n, k) # 0}
<1>5. 0 \in T  BY <1>2
<1>6. ASSUME NEW k \in T PROVE k + 1 \in T
  <2>. SUFFICES ASSUME k + 1 <= n PROVE Ways(n, k + 1) # 0  OBVIOUS
  <2>1. k + 1 \in 1..n /\ (k + 1) - 1 = k /\ n - (k + 1) + 1 = n - k
    OBVIOUS
  <2>2. Ways(n, k + 1) * (k + 1) = Ways(n, k) * (n - k)  BY <1>3, <2>1
  <2>3. PICK a \in Nat \ {0} : a = Ways(n, k)  BY <1>4
  <2>4. a * (n - k) # 0
    <3>1. n - k \in Nat \ {0}  BY <2>1
    <3>2. a * 0 < a * (n - k)  BY <3>1, ProductGrowsStrictly
    <3>. QED  BY <3>1, <3>2
  <2>5. 0 * (k + 1) = 0  OBVIOUS
  <2>. QED  BY <2>2, <2>3, <2>4, <2>5, Zenon
<1>7. T = Nat
  <2>1. T \in SUBSET Nat  OBVIOUS
  <2>. HIDE DEF T
  <2>. QED  BY <1>5, <1>6, <2>1, Induction
<1>8. \A k \in 0..n : Ways(n, k) \in Nat \ {0}  BY <1>4, <1>7
<1>. QED  BY <1>2, <1>3, <1>8, Zenon

\* There are as many ways to turn left.
LEMMA WaysLeft ==
    ASSUME NEW n \in Nat, NEW k \in 0..n
    PROVE  Ways(n, n - k) = Ways(n, k)
<1>. DEFINE S == 1..n
            A == kSubset(k, S)
            B == kSubset(n - k, S)
            f == [s \in A |-> S \ s]
<1>1. IsFiniteSet(S) /\ Cardinality(S) = n  BY FS_Interval
<1>. HIDE DEF S
<1>2. IsFiniteSet(B)
  <2>1. IsFiniteSet(SUBSET S)  BY <1>1, FS_SUBSET
  <2>. QED  BY <2>1, FS_Subset DEF kSubset
<1>3. ASSUME NEW s \in SUBSET S
      PROVE  /\ Cardinality(S \ s) = n - Cardinality(s) /\ Cardinality(s) \in Nat
             /\ S \ (S \ s) = s
  <2>1. IsFiniteSet(s)  BY <1>1, FS_Subset
  <2>2. S \cap s = s  OBVIOUS
  <2>3. Cardinality(S \ s) = Cardinality(S) - Cardinality(S \cap s)
    BY <1>1, FS_Difference
  <2>. QED  BY <1>1, <2>1, <2>2, <2>3, FS_CardinalityType
<1>4. \A s \in A : s \in SUBSET S /\ Cardinality(s) = k  BY DEF kSubset
<1>5. \A s \in B : s \in SUBSET S /\ Cardinality(s) = n - k  BY DEF kSubset
<1>6. \A s \in SUBSET S : s \in A <=> Cardinality(s) = k  BY DEF kSubset
<1>7. \A s \in SUBSET S : s \in B <=> Cardinality(s) = n - k  BY DEF kSubset
<1>8. \A s \in A : f[s] = S \ s  OBVIOUS
<1>. HIDE DEF A, B
<1>9. f \in [A -> B]
  <2>1. ASSUME NEW s \in A PROVE f[s] \in B
    <3>1. S \ s \in SUBSET S /\ Cardinality(S \ s) = n - k  BY <1>3, <1>4
    <3>. QED  BY <1>7, <1>8, <3>1, Zenon
  <2>. QED  BY <2>1
<1>. HIDE DEF f
<1>10. ASSUME NEW s \in A, NEW t \in A, f[s] = f[t] PROVE s = t
  <2>1. S \ (S \ s) = s /\ S \ (S \ t) = t  BY <1>3, <1>4
  <2>. QED  BY <1>8, <1>10, <2>1, Zenon
<1>11. ASSUME NEW t \in B PROVE \E s \in A : f[s] = t
  <2>1. t \in SUBSET S /\ Cardinality(t) = n - k /\ S \ (S \ t) = t  BY <1>3, <1>5
  <2>2. S \ t \in SUBSET S /\ Cardinality(S \ t) = k
    <3>1. n - (n - k) = k  OBVIOUS
    <3>2. Cardinality(S \ t) = n - Cardinality(t)  BY <1>3, <2>1
    <3>. QED  BY <2>1, <3>1, <3>2
  <2>3. S \ t \in A  BY <1>6, <2>2, Zenon
  <2>. QED  BY <1>8, <2>1, <2>3, Zenon
<1>12. f \in Injection(A, B) /\ f \in Surjection(A, B)
  BY <1>9, <1>10, <1>11, Zenon DEF Injection, Surjection, IsInjective
<1>13. Cardinality(A) = Cardinality(B)  BY <1>2, <1>12, FS_Injection
<1>. QED  BY <1>13, Zenon DEF Ways, A, B, S

\* A product divided by one factor is the other.
LEMMA QuotientIs ==
    ASSUME NEW a \in Nat, NEW i \in Nat \ {0}
    PROVE  (a * i) \div i = a
<1>1. PICK q : q = (a * i) \div i  OBVIOUS
<1>2. a * i \in Nat /\ a * i = i * a  BY Z3
<1>3. q \in Nat /\ i * q <= a * i /\ a * i < i * (q + 1)
  <2>1. \A x \in Nat : LET d == x \div i IN d \in Int /\ i * d <= x /\ x < i * (d + 1)
    OBVIOUS
  <2>. QED  BY <1>1, <1>2, <2>1
<1>. QED  BY <1>1, <1>2, <1>3

\* t holds the binomials of n up to m, each computed from the one before.
Binomials(t, n, m) ==
    t = [i \in 0..m |-> IF i = 0 THEN 1 ELSE (t[i - 1] * (n - i + 1)) \div i]

\* The loop computes the number of ways, whichever side it starts from: each of
\* its divisions is exact.
LEMMA BinomialIs ==
    ASSUME NEW n \in Nat, NEW k \in 0..n
    PROVE  P!Binomial(n, k) = Ways(n, k)
<1>. DEFINE m == IF k > n \div 2 THEN n - k ELSE k
            Quotient(v, i) == (v * (n - i + 1)) \div i
            w == [i \in 0..m |-> Ways(n, i)]
            t == CHOOSE u : Binomials(u, n, m)
<1>1. m \in Nat /\ m <= n  OBVIOUS
<1>2. Ways(n, m) = Ways(n, k)
  <2>1. m = n - k \/ m = k  OBVIOUS
  <2>2. Ways(n, n - k) = Ways(n, k)  BY WaysLeft
  <2>. QED  BY <2>1, <2>2, Zenon
<1>3. P!Binomial(n, k) = t[m]  BY Zenon DEF P!Binomial, Binomials
<1>. HIDE DEF m
<1>4. /\ Ways(n, 0) = 1
      /\ \A i \in 1..m : Quotient(Ways(n, i - 1), i) = Ways(n, i)
  <2>1. ASSUME NEW i \in 1..m PROVE Quotient(Ways(n, i - 1), i) = Ways(n, i)
    <3>1. i \in 1..n /\ i \in Nat \ {0} /\ i \in 0..n  BY <1>1
    <3>2. Ways(n, i) \in Nat  BY <3>1, WaysAre
    <3>3. Ways(n, i) * i = Ways(n, i - 1) * (n - i + 1)  BY <3>1, WaysAre
    <3>4. (Ways(n, i) * i) \div i = Ways(n, i)  BY <3>1, <3>2, QuotientIs
    <3>. QED  BY <3>3, <3>4, Zenon
  <2>. QED  BY <2>1, WaysAre
<1>. HIDE DEF Quotient
<1>5. Binomials(w, n, m)
  <2>. DEFINE v == [i \in 0..m |-> IF i = 0 THEN 1 ELSE Quotient(w[i - 1], i)]
  <2>1. ASSUME NEW i \in 0..m PROVE w[i] = v[i]
    <3>1. w[i] = Ways(n, i) /\ v[i] = IF i = 0 THEN 1 ELSE Quotient(w[i - 1], i)
      BY Zenon
    <3>2. i # 0 => i \in 1..m /\ w[i - 1] = Ways(n, i - 1)
      <4>1. i # 0 => i \in 1..m /\ i - 1 \in 0..m  BY <1>1
      <4>. QED  BY <4>1, Zenon
    <3>. HIDE DEF w, v
    <3>. QED  BY <1>4, <3>1, <3>2, Zenon
  <2>2. w = v  BY <2>1
  <2>. HIDE DEF w
  <2>. QED  BY <2>2, Zenon DEF Binomials, Quotient
<1>6. Binomials(t, n, m)  BY <1>5, Zenon
<1>. HIDE DEF t
<1>7. \A i \in 0..m : t[i] = IF i = 0 THEN 1 ELSE Quotient(t[i - 1], i)
  <2>1. t = [i \in 0..m |-> IF i = 0 THEN 1 ELSE Quotient(t[i - 1], i)]
    BY <1>6, Zenon DEF Binomials, Quotient
  <2>. QED  BY <2>1, Zenon
<1>. DEFINE S == {i \in Nat : i <= m => t[i] = Ways(n, i)}
<1>8. 0 \in S
  <2>1. 0 \in 0..m  BY <1>1
  <2>. QED  BY <1>4, <1>7, <2>1
<1>9. ASSUME NEW i \in S PROVE i + 1 \in S
  <2>. SUFFICES ASSUME i + 1 <= m PROVE t[i + 1] = Ways(n, i + 1)  OBVIOUS
  <2>1. /\ i + 1 \in 0..m /\ i + 1 \in 1..m /\ i + 1 # 0 /\ (i + 1) - 1 = i
        /\ t[i] = Ways(n, i)
    BY <1>1
  <2>. HIDE DEF S
  <2>2. t[i + 1] = Quotient(t[i], i + 1)  BY <1>7, <2>1, Zenon
  <2>3. Quotient(Ways(n, i), i + 1) = Ways(n, i + 1)  BY <1>4, <2>1, Zenon
  <2>. QED  BY <2>1, <2>2, <2>3, Zenon
<1>10. S = Nat
  <2>1. S \in SUBSET Nat  OBVIOUS
  <2>. HIDE DEF S
  <2>. QED  BY <1>8, <1>9, <2>1, Induction
<1>11. t[m] = Ways(n, m)
  <2>1. m \in S /\ m <= m  BY <1>1, <1>10
  <2>. QED  BY <2>1
<1>. QED  BY <1>2, <1>3, <1>11, Zenon

\* Up to the middle, a bucket is reached in as many ways as the one before or more.
LEMMA WaysGrow ==
    ASSUME NEW n \in Nat, NEW k \in 1..(n \div 2)
    PROVE  Ways(n, k - 1) <= Ways(n, k)
<1>1. /\ k \in 1..n /\ k - 1 \in 0..n /\ k \in 0..n /\ k \in Nat \ {0}
      /\ n - k + 1 \in Nat /\ k <= n - k + 1
  OBVIOUS
<1>2. Ways(n, k) \in Nat /\ Ways(n, k - 1) \in Nat  BY <1>1, WaysAre
<1>3. Ways(n, k) * k = Ways(n, k - 1) * (n - k + 1)  BY <1>1, WaysAre
<1>. QED  BY <1>1, <1>2, <1>3, LargerFactor

\* The turns to the right of a ball.
Turns(d) == {i \in DOMAIN d : d[i] # 0}

\* Each way to turn is a path, and each path one of the ways.
LEMMA PathsAre ==
    ASSUME NEW n \in Nat
    PROVE  /\ Cardinality([1..n -> 0..1]) = 2 ^ n /\ 2 ^ n \in Nat
           /\ \A k : Cardinality({d \in [1..n -> 0..1] : P!Rights(d) = k}) = Ways(n, k)
<1>. DEFINE S == 1..n
            B == [S -> 0..1]
            f == [d \in B |-> Turns(d)]
<1>1. IsFiniteSet(S) /\ Cardinality(S) = n  BY FS_Interval
<1>2. IsFiniteSet(SUBSET S) /\ Cardinality(SUBSET S) = 2 ^ n  BY <1>1, FS_SUBSET
<1>. HIDE DEF S
<1>0. 2 ^ n \in Nat
  <2>1. Cardinality(SUBSET S) \in Nat  BY <1>2, FS_CardinalityType
  <2>. QED  BY <1>2, <2>1, Zenon
<1>3. \A d \in B : Turns(d) \in SUBSET S /\ P!Rights(d) = Cardinality(Turns(d))
  <2>1. \A d : P!Rights(d) = Cardinality(Turns(d))
    BY Zenon DEF Turns, P!Rights, P!Cardinality, Cardinality
  <2>2. \A d \in B : Turns(d) \in SUBSET S  BY DEF Turns
  <2>. QED  BY <2>1, <2>2, Zenon
<1>4. ASSUME NEW d \in B, NEW e \in B, Turns(d) = Turns(e) PROVE d = e
  <2>1. \A i \in S : d[i] # 0 <=> e[i] # 0
    <3>1. \A i \in S : i \in Turns(d) <=> d[i] # 0  BY DEF Turns
    <3>2. \A i \in S : i \in Turns(e) <=> e[i] # 0  BY DEF Turns
    <3>. QED  BY <1>4, <3>1, <3>2
  <2>2. \A i \in S : d[i] \in 0..1 /\ e[i] \in 0..1  OBVIOUS
  <2>3. \A i \in S : d[i] = e[i]  BY <2>1, <2>2
  <2>. QED  BY <2>3
<1>5. ASSUME NEW s \in SUBSET S PROVE \E d \in B : Turns(d) = s
  <2>. DEFINE d == [i \in S |-> IF i \in s THEN 1 ELSE 0]
  <2>1. d \in B  OBVIOUS
  <2>2. Turns(d) = s  BY DEF Turns
  <2>. HIDE DEF d
  <2>. QED  BY <2>1, <2>2
<1>. HIDE DEF B
<1>6. f \in Bijection(B, SUBSET S)
  <2>1. \A d \in B : f[d] = Turns(d)  OBVIOUS
  <2>2. f \in [B -> SUBSET S]  BY <1>3
  <2>. HIDE DEF f
  <2>. QED  BY <1>4, <1>5, <2>1, <2>2, Zenon
             DEF Bijection, Injection, Surjection, IsInjective
<1>7. Cardinality(B) = 2 ^ n
  <2>1. f \in Injection(B, SUBSET S) /\ f \in Surjection(B, SUBSET S)
    BY <1>6, Zenon DEF Bijection
  <2>2. Cardinality(B) = Cardinality(SUBSET S)  BY <1>2, <2>1, FS_Injection
  <2>. QED  BY <1>2, <2>2, Zenon
<1>8. ASSUME NEW k PROVE Cardinality({d \in B : P!Rights(d) = k}) = Ways(n, k)
  <2>. DEFINE T == {d \in B : P!Rights(d) = k}
              K == kSubset(k, S)
              g == [d \in T |-> Turns(d)]
  <2>1. \A d : d \in T <=> d \in B /\ Cardinality(Turns(d)) = k  BY <1>3
  <2>2. \A s : s \in K <=> s \in SUBSET S /\ Cardinality(s) = k  BY DEF kSubset
  <2>3. IsFiniteSet(K)
    <3>1. K \in SUBSET SUBSET S  BY <2>2
    <3>. QED  BY <1>2, <3>1, FS_Subset
  <2>. HIDE DEF T, K
  <2>4. \A d \in T : g[d] = Turns(d)  OBVIOUS
  <2>5. g \in [T -> K]  BY <1>3, <2>1, <2>2
  <2>. HIDE DEF g
  <2>6. ASSUME NEW d \in T, NEW e \in T, g[d] = g[e] PROVE d = e
    BY <1>4, <2>1, <2>4, <2>6
  <2>7. ASSUME NEW s \in K PROVE \E d \in T : g[d] = s
    <3>1. PICK d \in B : Turns(d) = s  BY <1>5, <2>2
    <3>2. d \in T  BY <2>1, <2>2, <3>1
    <3>. QED  BY <2>4, <3>1, <3>2
  <2>8. g \in Injection(T, K) /\ g \in Surjection(T, K)
    BY <2>5, <2>6, <2>7, Zenon DEF Injection, Surjection, IsInjective
  <2>9. Cardinality(T) = Cardinality(K)  BY <2>3, <2>8, FS_Injection
  <2>. QED  BY <2>9, Zenon DEF T, K, S, Ways
<1>. QED  BY <1>0, <1>7, <1>8, Zenon DEF B, S

\* t holds the sums of the first 0, 1, ... n values of f.
Sums(t, f, n) ==
    t = [i \in 0..n |-> IF i = 0 THEN 0 ELSE t[i - 1] + f[i]]

\* Any values can be summed up.
LEMMA SumsExist ==
    ASSUME NEW f, NEW n \in Nat
    PROVE  \E t : Sums(t, f, n)
<1>. DEFINE S == {m \in Nat : \E t : Sums(t, f, m)}
<1>1. 0 \in S
  <2>. DEFINE t == [i \in 0..0 |-> 0]
  <2>1. Sums(t, f, 0)  BY SMT DEF Sums
  <2>. QED  BY <2>1
<1>2. ASSUME NEW m \in S PROVE m + 1 \in S
  <2>1. m \in Nat /\ \E t : Sums(t, f, m)  OBVIOUS
  <2>2. PICK t : Sums(t, f, m)  BY <2>1
  <2>. DEFINE u == [i \in 0..(m + 1) |-> IF i = m + 1 THEN t[m] + f[m + 1] ELSE t[i]]
              v == [i \in 0..(m + 1) |-> IF i = 0 THEN 0 ELSE u[i - 1] + f[i]]
  <2>3. ASSUME NEW i \in 0..(m + 1) PROVE u[i] = v[i]
    <3>1. u[m + 1] = t[m] + f[m + 1] /\ \A j \in 0..m : u[j] = t[j]
      BY <2>1
    <3>2. v[i] = IF i = 0 THEN 0 ELSE u[i - 1] + f[i]  BY Zenon
    <3>3. \A j \in 0..m : t[j] = IF j = 0 THEN 0 ELSE t[j - 1] + f[j]
      BY <2>2 DEF Sums
    <3>. HIDE DEF u, v
    <3>4. CASE i = 0  BY <2>1, <3>1, <3>2, <3>3, <3>4
    <3>5. CASE i = m + 1
      <4>1. i - 1 = m /\ i # 0 /\ m \in 0..m  BY <2>1, <3>5
      <4>. QED  BY <3>1, <3>2, <3>5, <4>1
    <3>6. CASE i # 0 /\ i # m + 1
      <4>1. i \in 0..m /\ i - 1 \in 0..m  BY <2>1, <3>6
      <4>. QED  BY <3>1, <3>2, <3>3, <3>6, <4>1
    <3>. QED  BY <3>4, <3>5, <3>6
  <2>4. u = v  BY <2>3
  <2>5. Sums(u, f, m + 1)  BY <2>4, Zenon DEF Sums
  <2>. QED  BY <2>1, <2>5
<1>3. S = Nat
  <2>. HIDE DEF S
  <2>1. S \in SUBSET Nat  BY DEF S
  <2>. QED  BY <1>1, <1>2, <2>1, Induction
<1>. QED  BY <1>3

\* t leads to the sum of n values, one by one.
LeadsToSum(t, f, n) ==
    /\ Total(f, n) = t[n] /\ P!Total(f, n) = t[n]
    /\ t[0] = 0 /\ \A i \in 0..n : t[i] \in Nat
    /\ \A i \in 0..(n - 1) : t[i + 1] = t[i] + f[i + 1]

\* What Total computes.
LEMMA TotalIs ==
    ASSUME NEW n \in Nat, NEW f, \A i \in 1..n : f[i] \in Nat
    PROVE  \E t : LeadsToSum(t, f, n)
<1>. DEFINE t == CHOOSE u : Sums(u, f, n)
<1>1. Sums(t, f, n)  BY SumsExist, Zenon
<1>2. Total(f, n) = t[n]  BY Zenon DEF Total, Sums
<1>3. P!Total(f, n) = t[n]  BY Zenon DEF P!Total, Sums
<1>. HIDE DEF t
<1>4. \A i \in 0..n : t[i] = IF i = 0 THEN 0 ELSE t[i - 1] + f[i]
  BY <1>1 DEF Sums
<1>5. t[0] = 0  BY <1>4
<1>6. ASSUME NEW i \in 0..(n - 1) PROVE t[i + 1] = t[i] + f[i + 1]
  <2>1. i + 1 \in 0..n /\ i + 1 # 0 /\ (i + 1) - 1 = i  OBVIOUS
  <2>. QED  BY <1>4, <2>1, Zenon
<1>. DEFINE S == {i \in Nat : i <= n => t[i] \in Nat}
<1>7. 0 \in S  BY <1>5
<1>8. ASSUME NEW i \in S PROVE i + 1 \in S
  <2>. SUFFICES ASSUME i + 1 <= n PROVE t[i + 1] \in Nat  OBVIOUS
  <2>1. i \in 0..(n - 1) /\ t[i] \in Nat /\ f[i + 1] \in Nat  OBVIOUS
  <2>. QED  BY <1>6, <2>1
<1>9. S = Nat
  <2>1. S \in SUBSET Nat  OBVIOUS
  <2>. HIDE DEF S
  <2>. QED  BY <1>7, <1>8, <2>1, Induction
<1>10. \A i \in 0..n : t[i] \in Nat  BY <1>9
<1>. QED  BY <1>2, <1>3, <1>5, <1>6, <1>10 DEF LeadsToSum

\* A factor of every value is a factor of the sum.
LEMMA ScaledTotal ==
    ASSUME NEW n \in Nat, NEW f, \A i \in 1..n : f[i] \in Nat, NEW x \in Nat,
           NEW g, \A i \in 1..n : g[i] = x * f[i]
    PROVE  P!Total(f, n) \in Nat /\ Total(g, n) = x * P!Total(f, n)
<1>0. \A a, b \in Nat : a * b \in Nat /\ a * (b + 0) = a * b  BY Z3
<1>1. \A i \in 1..n : g[i] \in Nat  BY <1>0
<1>2. PICK t : LeadsToSum(t, f, n)  BY TotalIs
<1>3. PICK u : LeadsToSum(u, g, n)  BY <1>1, TotalIs
<1>4. /\ t[0] = 0 /\ \A i \in 0..n : t[i] \in Nat
      /\ \A i \in 0..(n - 1) : t[i + 1] = t[i] + f[i + 1]
  BY <1>2, Zenon DEF LeadsToSum
<1>5. u[0] = 0 /\ \A i \in 0..(n - 1) : u[i + 1] = u[i] + g[i + 1]
  BY <1>3, Zenon DEF LeadsToSum
<1>. DEFINE S == {i \in Nat : i <= n => u[i] = x * t[i]}
<1>6. 0 \in S
  <2>1. x * 0 = 0  BY SMT
  <2>. QED  BY <1>4, <1>5, <2>1
<1>7. ASSUME NEW i \in S PROVE i + 1 \in S
  <2>. SUFFICES ASSUME i + 1 <= n PROVE u[i + 1] = x * t[i + 1]  OBVIOUS
  <2>1. i \in 0..(n - 1) /\ i \in 0..n /\ i + 1 \in 1..n /\ u[i] = x * t[i]
    OBVIOUS
  <2>2. t[i] \in Nat /\ f[i + 1] \in Nat  BY <1>4, <2>1
  <2>3. \A a, b \in Nat : x * (a + b) = x * a + x * b  BY Z3
  <2>4. x * (t[i] + f[i + 1]) = x * t[i] + x * f[i + 1]  BY <2>2, <2>3, Zenon
  <2>5. u[i + 1] = u[i] + g[i + 1] /\ g[i + 1] = x * f[i + 1]
        /\ t[i + 1] = t[i] + f[i + 1]
    BY <1>4, <1>5, <2>1, Zenon
  <2>. QED  BY <2>1, <2>4, <2>5, Zenon
<1>8. S = Nat
  <2>1. S \in SUBSET Nat  OBVIOUS
  <2>. HIDE DEF S
  <2>. QED  BY <1>6, <1>7, <2>1, Induction
<1>9. u[n] = x * t[n] /\ t[n] \in Nat
  <2>1. n \in S /\ n \in 0..n  BY <1>8
  <2>. QED  BY <1>4, <2>1
<1>. QED  BY <1>2, <1>3, <1>9, Zenon DEF LeadsToSum

\* The two instances compute the same products.
LEMMA SameProduct ==
    ASSUME NEW f, NEW n PROVE P!Product(f, n) = M!Product(f, n)
  BY Zenon DEF P!Product, M!Product

\* A larger number has larger powers.
LEMMA PowersGrow ==
    ASSUME NEW x \in Nat, NEW y \in Nat, x <= y, NEW a \in Nat
    PROVE  /\ P!Power(x, a) \in Nat /\ P!Power(y, a) \in Nat
           /\ P!Power(x, a) <= P!Power(y, a)
<1>. DEFINE f == [i \in 1..a |-> x]
            g == [i \in 1..a |-> y]
<1>1. /\ \A i \in 1..a : f[i] = x /\ f[i] \in Nat
      /\ \A i \in 1..a : g[i] = y /\ g[i] \in Nat
  OBVIOUS
<1>2. P!Power(x, a) = M!Product(f, a) /\ P!Power(y, a) = M!Product(g, a)
  BY SameProduct, Zenon DEF P!Power
<1>. HIDE DEF f, g
<1>3. PICK t : LeadsToProduct(t, f, a)
  <2>1. \A i \in 1..a : f[i] \in Nat  BY <1>1
  <2>. QED  BY <2>1, ProductIs
<1>4. PICK u : LeadsToProduct(u, g, a)
  <2>1. \A i \in 1..a : g[i] \in Nat  BY <1>1
  <2>. QED  BY <2>1, ProductIs
<1>5. /\ t[0] = 1 /\ \A i \in 0..a : t[i] \in Nat
      /\ \A i \in 0..(a - 1) : t[i + 1] = t[i] * f[i + 1]
  BY <1>3, Zenon DEF LeadsToProduct
<1>6. /\ u[0] = 1 /\ \A i \in 0..a : u[i] \in Nat
      /\ \A i \in 0..(a - 1) : u[i + 1] = u[i] * g[i + 1]
  BY <1>4, Zenon DEF LeadsToProduct
<1>. DEFINE S == {i \in Nat : i <= a => t[i] <= u[i]}
<1>7. 0 \in S  BY <1>5, <1>6
<1>8. ASSUME NEW i \in S PROVE i + 1 \in S
  <2>. SUFFICES ASSUME i + 1 <= a PROVE t[i + 1] <= u[i + 1]  OBVIOUS
  <2>1. i \in 0..(a - 1) /\ i \in 0..a /\ i + 1 \in 1..a /\ t[i] <= u[i]
    OBVIOUS
  <2>2. t[i + 1] = t[i] * x /\ u[i + 1] = u[i] * y
    BY <1>1, <1>5, <1>6, <2>1, Zenon
  <2>3. PICK v \in Nat, w \in Nat : v = t[i] /\ w = u[i]  BY <1>5, <1>6, <2>1
  <2>4. v * x \in Nat /\ v * y \in Nat /\ v * x <= v * y  BY ProductGrows
  <2>5. v <= w  BY <2>1, <2>3
  <2>6. y * v \in Nat /\ y * w \in Nat /\ y * v <= y * w  BY <2>5, ProductGrows
  <2>7. y * v = v * y /\ y * w = w * y  BY Z3
  <2>8. v * x <= w * y  BY <2>4, <2>6, <2>7
  <2>. QED  BY <2>2, <2>3, <2>8, Zenon
<1>9. S = Nat
  <2>1. S \in SUBSET Nat  OBVIOUS
  <2>. HIDE DEF S
  <2>. QED  BY <1>7, <1>8, <2>1, Induction
<1>10. t[a] <= u[a] /\ t[a] \in Nat /\ u[a] \in Nat
  <2>1. a \in S /\ a \in 0..a  BY <1>9
  <2>. QED  BY <1>5, <1>6, <2>1
<1>11. M!Product(f, a) = t[a] /\ M!Product(g, a) = u[a]
  BY <1>3, <1>4, Zenon DEF LeadsToProduct
<1>. QED  BY <1>2, <1>10, <1>11, Zenon

\* The chances of the buckets, times 2 ^ rows.
Chance(c) == [k \in 0..c.rows |-> P!Binomial(c.rows, k)]

\* What a bucket weighs.
WeightOf(c, k) ==
    P!Power(P!Product([i \in 1..(c.rows \div 2) |-> Chance(c)[i]], c.rows \div 2)
                \div Chance(c)[k], c.alpha)

\* What all paths weigh.
WeightOfAll(c) ==
    P!Total([i \in 1..(c.rows + 1) |-> Chance(c)[i - 1] * WeightOf(c, i - 1)],
            c.rows + 1)

\* The multiplier of a bucket of a computed table.
LEMMA MultiplierIs ==
    ASSUME NEW c, NEW k
    PROVE  /\ P!Multiplier(c, k).num = c.rtp * WeightOf(c, k) * 2 ^ c.rows
           /\ P!Multiplier(c, k).den = Unit * WeightOfAll(c)
<1>. DEFINE x == c.rtp * WeightOf(c, k) * 2 ^ c.rows
            y == Unit * WeightOfAll(c)
<1>1. P!Multiplier(c, k) = P!Ratio(x, y)
  BY Zenon DEF P!Multiplier, Chance, WeightOf, WeightOfAll
<1>. HIDE DEF x, y
<1>2. P!Multiplier(c, k).num = x /\ P!Multiplier(c, k).den = y
  BY <1>1 DEF P!Ratio
<1>. QED  BY <1>2, Zenon DEF x, y

\* A bucket nearer the middle is a likelier one, and weighs no more.
LEMMA WeightsAre ==
    ASSUME NEW c, NEW n \in Nat, n = c.rows, c.alpha \in Nat
    PROVE  /\ \A k \in 0..n : Chance(c)[k] = Ways(n, k) /\ WeightOf(c, k) \in Nat
           /\ \A k \in 1..(n \div 2) : WeightOf(c, k) <= WeightOf(c, k - 1)
<1>. DEFINE h == n \div 2
            f == [i \in 1..h |-> Chance(c)[i]]
            x == P!Product(f, h)
            Share(k) == x \div Chance(c)[k]
<1>1. PICK a \in Nat : a = c.alpha  OBVIOUS
<1>2. h \in Nat /\ h <= n  OBVIOUS
<1>3. \A k \in 0..n : Chance(c)[k] = Ways(n, k)  BY BinomialIs DEF Chance
<1>4. \A k \in 0..n : Ways(n, k) \in Nat \ {0}  BY WaysAre
<1>5. \A k : WeightOf(c, k) = P!Power(Share(k), a)
  BY <1>1, Zenon DEF WeightOf
<1>. HIDE DEF h
<1>6. x \in Nat
  <2>1. \A i \in 1..h : f[i] \in Nat
    <3>1. \A i \in 1..h : i \in 0..n  BY <1>2
    <3>2. \A i \in 1..h : f[i] = Chance(c)[i]  OBVIOUS
    <3>. QED  BY <1>3, <1>4, <3>1, <3>2
  <2>. HIDE DEF f
  <2>2. PICK t : LeadsToProduct(t, f, h)  BY <1>2, <2>1, ProductIs
  <2>3. h \in 0..h  BY <1>2
  <2>. QED  BY <2>2, <2>3, SameProduct, Zenon DEF LeadsToProduct
<1>. HIDE DEF x
<1>7. \A y \in Nat \ {0} : x \div y \in Nat  BY <1>6
<1>8. \A k \in 0..n : Share(k) \in Nat  BY <1>3, <1>4, <1>7
<1>9. ASSUME NEW k \in 0..n PROVE WeightOf(c, k) \in Nat
  <2>1. PICK y \in Nat : y = Share(k)  BY <1>8
  <2>2. y <= y  OBVIOUS
  <2>3. P!Power(y, a) \in Nat  BY <2>2, PowersGrow, Zenon
  <2>. QED  BY <1>5, <2>1, <2>3, Zenon
<1>10. ASSUME NEW k \in 1..h PROVE WeightOf(c, k) <= WeightOf(c, k - 1)
  <2>1. k \in 0..n /\ k - 1 \in 0..n  BY <1>2
  <2>2. Ways(n, k - 1) <= Ways(n, k)  BY WaysGrow DEF h
  <2>3. PICK u \in Nat \ {0}, v \in Nat \ {0} :
             u = Chance(c)[k] /\ v = Chance(c)[k - 1] /\ v <= u
    BY <1>3, <1>4, <2>1, <2>2
  <2>4. x \div u <= x \div v
    <3>1. PICK q \in Nat, r \in Nat : q = x \div u /\ r = x \div v  BY <1>7
    <3>2. u * q <= x /\ x < v * (r + 1)  BY <1>6, <3>1
    <3>3. q * v \in Nat /\ q * u \in Nat /\ q * v <= q * u  BY <2>3, ProductGrows
    <3>4. q * u = u * q /\ q * v = v * q  BY Z3
    <3>5. v * q < v * (r + 1)  BY <1>6, <3>2, <3>3, <3>4
    <3>6. q < r + 1
      <4>. SUFFICES ASSUME r + 1 <= q PROVE FALSE  OBVIOUS
      <4>1. v * (r + 1) <= v * q /\ v * q \in Nat /\ v * (r + 1) \in Nat
        BY ProductGrows
      <4>. QED  BY <3>5, <4>1
    <3>. QED  BY <3>1, <3>6
  <2>5. PICK q \in Nat, r \in Nat : q = Share(k) /\ r = Share(k - 1)
    BY <1>8, <2>1
  <2>6. q <= r  BY <2>3, <2>4, <2>5, Zenon
  <2>7. P!Power(q, a) <= P!Power(r, a)  BY <2>6, PowersGrow
  <2>. HIDE DEF Share
  <2>8. WeightOf(c, k) = P!Power(q, a)  BY <1>5, <2>5, Zenon
  <2>9. WeightOf(c, k - 1) = P!Power(r, a)  BY <1>5, <2>5, Zenon
  <2>. QED  BY <2>7, <2>8, <2>9, Zenon
<1>. QED  BY <1>3, <1>9, <1>10, Zenon DEF h

\* What a ball's path leads to.
LEMMA LandsAt ==
    ASSUME NEW c, c.table = None, NEW d
    PROVE  /\ P!Outcome(c, d).bucket = P!Rights(d)
           /\ P!Outcome(c, d).multiplier = P!Multiplier(c, P!Rights(d))
<1>. DEFINE x == P!Rights(d)
            y == P!Multiplier(c, x)
            z == [i \in 1..c.rows |-> IF d[i] = 0 THEN "Left" ELSE "Right"]
<1>1. P!Outcome(c, d) =
         [game |-> "plinko", path |-> z, bucket |-> x, multiplier |-> y]
  BY Zenon DEF P!Outcome
<1>. HIDE DEF x, y, z
<1>2. P!Outcome(c, d).bucket = x /\ P!Outcome(c, d).multiplier = y  BY <1>1
<1>. QED  BY <1>2, Zenon DEF x, y

\* What an accepted configuration is made of.
LEMMA PlinkoConfig ==
    ASSUME NEW c \in Engines, c.game = "plinko"
    PROVE  c.rows \in Nat /\ c.rtp \in Nat /\ c.alpha \in Nat /\ Unit \in Nat
<1>1. P!Valid(c)  BY EnginesAreValid
<1>2. MinRows \in Nat /\ MaxRows \in Nat /\ c.alpha \in Int /\ Unit \in Nat
  BY GamesAssumption, InfinityIs
<1>3. PICK n, r, a : n = c.rows /\ r = c.rtp /\ a = c.alpha  OBVIOUS
<1>4. n \in MinRows..MaxRows /\ r \in 1..Unit /\ a >= 0
  BY <1>1, <1>3, Zenon DEF P!Valid
<1>5. n \in Nat /\ r \in Nat /\ a \in Nat  BY <1>2, <1>3, <1>4
<1>. QED  BY <1>2, <1>3, <1>5, Zenon

\* The paths of a ball: left or right at every pin.
LEMMA PathsDrawn ==
    ASSUME NEW c \in Engines, c.game = "plinko"
    PROVE  DrawSequences(c, c.rows) = [1..c.rows -> 0..1]
<1>1. PICK n \in Nat : n = c.rows  BY PlinkoConfig
<1>. DEFINE w == [i \in 0..n |-> [1..i -> 0..1]]
<1>2. \A i \in 0..n : w[i] = [1..i -> 0..1]  OBVIOUS
<1>. HIDE DEF w
<1>3. \A i \in 1..n : Answers(c, Requests(c)[i]) = 0..1
  <2>1. Requests(c) = [i \in 1..n |-> 2]
    BY <1>1, Zenon DEF Requests, P!Requests
  <2>2. \A i \in 1..n : Requests(c)[i] = 2  BY <2>1
  <2>. QED  BY <2>2 DEF Answers, Float
<1>4. w[0] = {<<>>}
  <2>1. \A d \in [1..0 -> 0..1] : d = <<>>  OBVIOUS
  <2>2. <<>> \in [1..0 -> 0..1]  OBVIOUS
  <2>3. 0 \in 0..n  OBVIOUS
  <2>. QED  BY <1>2, <2>1, <2>2, <2>3
<1>5. ASSUME NEW i \in 1..n
      PROVE  w[i] = OneMore(w[i - 1], Answers(c, Requests(c)[i]))
  <2>1. /\ i \in 0..n /\ i - 1 \in 0..n /\ i \in Nat \ {0}
    OBVIOUS
  <2>. DEFINE X == OneMore([1..(i - 1) -> 0..1], 0..1)
  <2>2. ASSUME NEW d \in [1..(i - 1) -> 0..1], NEW a \in 0..1
        PROVE  /\ Append(d, a) \in [1..i -> 0..1]
               /\ Append(d, a)[i] = a
               /\ \A j \in 1..(i - 1) : Append(d, a)[j] = d[j]
    <3>1. d \in Seq(Nat) /\ Len(d) = i - 1 /\ a \in Nat  BY <2>1
    <3>2. Append(d, a) \in [1..i -> Nat]  BY <2>1, <3>1, AppendIs, Zenon
    <3>3. Append(d, a)[i] = a  BY <2>1, <3>1, AppendIs, Zenon
    <3>4. \A j \in 1..(i - 1) : Append(d, a)[j] = d[j]  BY <2>1, <3>1, AppendIs
    <3>5. \A j \in 1..i : Append(d, a)[j] \in 0..1
      <4>1. \A j \in 1..i : j = i \/ j \in 1..(i - 1)  BY <2>1
      <4>2. \A j \in 1..(i - 1) : d[j] \in 0..1  OBVIOUS
      <4>. QED  BY <3>3, <3>4, <4>1, <4>2, Zenon
    <3>6. Append(d, a) \in [1..i -> 0..1]  BY <3>2, <3>5
    <3>. QED  BY <3>3, <3>4, <3>6, Zenon
  <2>3. ASSUME NEW e \in [1..i -> 0..1] PROVE e \in X
    <3>. DEFINE d == [j \in 1..(i - 1) |-> e[j]]
    <3>1. d \in [1..(i - 1) -> 0..1] /\ \A j \in 1..(i - 1) : d[j] = e[j]
      OBVIOUS
    <3>2. e[i] \in 0..1  BY <2>1
    <3>. HIDE DEF d
    <3>3. PICK f : f = Append(d, e[i])  OBVIOUS
    <3>4. /\ f \in [1..i -> 0..1] /\ f[i] = e[i]
          /\ \A j \in 1..(i - 1) : f[j] = e[j]
      BY <2>2, <3>1, <3>2, <3>3
    <3>5. \A j \in 1..i : f[j] = e[j]
      <4>1. \A j \in 1..i : j = i \/ j \in 1..(i - 1)  BY <2>1
      <4>. QED  BY <3>4, <4>1, Zenon
    <3>6. f = e  BY <3>4, <3>5
    <3>. QED  BY <3>1, <3>2, <3>3, <3>6 DEF OneMore
  <2>4. ASSUME NEW e \in X PROVE e \in [1..i -> 0..1]
    <3>1. PICK d \in [1..(i - 1) -> 0..1], a \in 0..1 : e = Append(d, a)
      BY DEF OneMore
    <3>. QED  BY <2>2, <3>1, Zenon
  <2>. HIDE DEF X
  <2>5. [1..i -> 0..1] = X  BY <2>3, <2>4
  <2>. QED  BY <1>2, <1>3, <2>1, <2>5, Zenon DEF X
<1>6. DrawSequences(c, n) = w[n]  BY <1>4, <1>5, AnswersLeadTo
<1>7. n \in 0..n  OBVIOUS
<1>. QED  BY <1>1, <1>2, <1>6, <1>7, Zenon

\* A bucket is reached as often as its binomial says, and weighs a whole number.
LEMMA BucketsAre ==
    ASSUME NEW c \in Engines, c.game = "plinko", NEW n \in Nat, n = c.rows
    PROVE  \A k \in 0..n : /\ Chance(c)[k] = Ways(n, k)
                           /\ Ways(n, k) \in Nat
                           /\ WeightOf(c, k) \in Nat
<1>1. c.alpha \in Nat  BY PlinkoConfig
<1>2. \A k \in 0..n : Chance(c)[k] = Ways(n, k) /\ WeightOf(c, k) \in Nat
  BY <1>1, WeightsAre
<1>3. \A k \in 0..n : Ways(n, k) \in Nat \ {0}  BY WaysAre
<1>4. \A k \in 0..n : Ways(n, k) \in Nat  BY <1>3
<1>. QED  BY <1>2, <1>4, Zenon

\* What the buckets pay, each as often as it is reached.
PaidBy(c, paths) ==
    [i \in 1..(c.rows + 1) |->
        Cardinality({d \in paths : P!Outcome(c, d).bucket = i - 1})
            * P!Multiplier(c, i - 1).num]

\* All of it is the RTP of what all paths weigh.
LEMMA BucketsPay ==
    ASSUME NEW c \in Engines, c.game = "plinko", c.table = None
    PROVE  LET paths == [1..c.rows -> 0..1] IN
           Total(PaidBy(c, paths), c.rows + 1) * Unit =
               c.rtp * Cardinality(paths) * (Unit * WeightOfAll(c))
<1>1. PICK n \in Nat, r \in Nat : n = c.rows /\ r = c.rtp /\ Unit \in Nat
  BY PlinkoConfig
<1>. DEFINE paths == [1..n -> 0..1]
            To(k) == {d \in paths : P!Outcome(c, d).bucket = k}
            f == [i \in 1..(n + 1) |-> Chance(c)[i - 1] * WeightOf(c, i - 1)]
            g == [i \in 1..(n + 1) |->
                     Cardinality(To(i - 1)) * P!Multiplier(c, i - 1).num]
<1>2. PICK E \in Nat : E = Cardinality(paths) /\ E = 2 ^ n
  BY PathsAre
<1>3. \A k : Cardinality(To(k)) = Ways(n, k)
  <2>1. ASSUME NEW k PROVE To(k) = {d \in paths : P!Rights(d) = k}
    <3>1. \A d \in paths : P!Outcome(c, d).bucket = P!Rights(d)  BY LandsAt
    <3>. QED  BY <3>1, Zenon
  <2>2. \A k : Cardinality({d \in paths : P!Rights(d) = k}) = Ways(n, k)
    BY PathsAre
  <2>. HIDE DEF To, paths
  <2>. QED  BY <2>1, <2>2, Zenon
<1>4. \A k \in 0..n : /\ Chance(c)[k] = Ways(n, k) /\ Ways(n, k) \in Nat
                      /\ WeightOf(c, k) \in Nat
  BY <1>1, BucketsAre, Zenon
<1>5. \A k : P!Multiplier(c, k).num = r * WeightOf(c, k) * E
  BY <1>1, <1>2, MultiplierIs, Zenon
<1>6. r * E \in Nat  BY Z3
<1>7. ASSUME NEW i \in 1..(n + 1)
      PROVE  f[i] \in Nat /\ g[i] = (r * E) * f[i]
  <2>1. i - 1 \in 0..n  OBVIOUS
  <2>2. PICK w \in Nat, v \in Nat : w = WeightOf(c, i - 1) /\ v = Ways(n, i - 1)
    BY <1>4, <2>1
  <2>3. f[i] = v * w  BY <1>4, <2>1, <2>2
  <2>4. g[i] = v * (r * w * E)  BY <1>3, <1>5, <2>2, Zenon
  <2>5. v * (r * w * E) = (r * E) * (v * w) /\ v * w \in Nat  BY Z3
  <2>. QED  BY <2>3, <2>4, <2>5, Zenon
<1>8. WeightOfAll(c) = P!Total(f, n + 1) /\ PaidBy(c, paths) = g
  BY <1>1, Zenon DEF WeightOfAll, PaidBy
<1>. HIDE DEF f, g, paths
<1>9. /\ P!Total(f, n + 1) \in Nat
      /\ Total(g, n + 1) = (r * E) * P!Total(f, n + 1)
  <2>1. n + 1 \in Nat  OBVIOUS
  <2>2. (\A i \in 1..(n + 1) : f[i] \in Nat)
        /\ \A i \in 1..(n + 1) : g[i] = (r * E) * f[i]
    BY <1>7, Zenon
  <2>. QED  BY <1>6, <2>1, <2>2, ScaledTotal
<1>10. PICK Z \in Nat : Z = P!Total(f, n + 1)  BY <1>9
<1>11. (r * E) * Z * Unit = r * E * (Unit * Z)  BY <1>1, Z3
<1>12. Total(PaidBy(c, paths), n + 1) * Unit =
          r * Cardinality(paths) * (Unit * WeightOfAll(c))
  BY <1>2, <1>8, <1>9, <1>10, <1>11, Zenon
<1>. QED  BY <1>1, <1>12, Zenon DEF paths

\* Plinko pays its RTP over all the paths of any number of rows, however steep
\* the risk, and the middle never pays more than the sides.
THEOREM TheBucketsPayTheRTP == GamesSpec => []PlinkoPaysTheRTP
<1>1. GamesTypeOK => PlinkoPaysTheRTP
  <2>. DEFINE c == config
              paths == DrawSequences(c, c.rows)
              To(k) == {d \in paths : P!Outcome(c, d).bucket = k}
              paid == [i \in 1..(c.rows + 1) |->
                          Cardinality(To(i - 1)) * P!Multiplier(c, i - 1).num]
              back == Total(paid, c.rows + 1)
  <2>. SUFFICES ASSUME GamesTypeOK, c.game = "plinko", c.table = None
                PROVE  /\ \A d \in paths :
                             LET outcome == P!Outcome(c, d) IN
                             /\ outcome.multiplier = P!Multiplier(c, outcome.bucket)
                             /\ back * Unit =
                                   c.rtp * Cardinality(paths) * outcome.multiplier.den
                       /\ \A k \in 1..(c.rows \div 2) :
                             P!Multiplier(c, k).num <= P!Multiplier(c, k - 1).num
    BY Zenon DEF PlinkoPaysTheRTP
  <2>1. c \in Engines  BY DEF GamesTypeOK
  <2>2. paths = [1..c.rows -> 0..1]  BY <2>1, PathsDrawn
  <2>3. paid = PaidBy(c, paths)  BY Zenon DEF PaidBy
  <2>4. back * Unit = c.rtp * Cardinality(paths) * (Unit * WeightOfAll(c))
    BY <2>1, <2>2, <2>3, BucketsPay, Zenon
  <2>5. ASSUME NEW d \in paths
        PROVE  /\ P!Outcome(c, d).multiplier = P!Multiplier(c, P!Outcome(c, d).bucket)
               /\ back * Unit =
                     c.rtp * Cardinality(paths) * P!Outcome(c, d).multiplier.den
    <3>. HIDE DEF back, paths
    <3>1. /\ P!Outcome(c, d).bucket = P!Rights(d)
          /\ P!Outcome(c, d).multiplier = P!Multiplier(c, P!Rights(d))
      BY LandsAt
    <3>2. P!Multiplier(c, P!Rights(d)).den = Unit * WeightOfAll(c)
      BY MultiplierIs
    <3>. QED  BY <2>4, <3>1, <3>2, Zenon
  <2>6. ASSUME NEW k \in 1..(c.rows \div 2)
        PROVE  P!Multiplier(c, k).num <= P!Multiplier(c, k - 1).num
    <3>1. PICK n \in Nat, r \in Nat : n = c.rows /\ r = c.rtp /\ Unit \in Nat
      BY <2>1, PlinkoConfig
    <3>2. k \in 1..(n \div 2) /\ k \in 0..n /\ k - 1 \in 0..n  BY <3>1
    <3>3. PICK x \in Nat, y \in Nat :
               x = WeightOf(c, k) /\ y = WeightOf(c, k - 1) /\ x <= y
      BY <2>1, <3>1, <3>2, PlinkoConfig, WeightsAre
    <3>4. PICK E \in Nat : E = 2 ^ n  BY PathsAre
    <3>5. /\ P!Multiplier(c, k).num = r * x * E
          /\ P!Multiplier(c, k - 1).num = r * y * E
      BY <3>1, <3>3, <3>4, MultiplierIs, Zenon
    <3>6. r * x * E <= r * y * E
      <4>1. PICK s \in Nat : s = r * E  BY Z3
      <4>2. s * x <= s * y  BY <3>3, ProductGrows
      <4>3. r * x * E = s * x /\ r * y * E = s * y  BY <4>1, Z3
      <4>. QED  BY <4>2, <4>3, Zenon
    <3>. QED  BY <3>5, <3>6, Zenon
  <2>. QED  BY <2>5, <2>6, Zenon
<1>. QED  BY <1>1, NothingLostInTheShuffle, PTL
==============================================================================
