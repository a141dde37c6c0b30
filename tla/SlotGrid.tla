------------------------------ MODULE SlotGrid ------------------------------
(****************************************************************************)
(* The grid of a spin: GenerateGrid and CollapseAndRefill of                *)
(* core/slot/reels.go and WaysEvaluator.Evaluate of core/slot/evaluator.go, *)
(* in the order Game.Spin calls them while cascades go on.                  *)
(*                                                                          *)
(* A grid is a sequence of reels, a reel a sequence of symbols from the top *)
(* row down.  Every call to the entropy source is a step of its own: what   *)
(* it answers is any index below the bound it was asked for.                *)
(****************************************************************************)
EXTENDS SlotGame, SequencesExt

CONSTANTS Games,
          Hole       \* a removed cell that is not refilled yet

ASSUME GridAssumption ==
    /\ Games \subseteq Game
    /\ \A g \in Games : WellFormed(g)
    /\ Hole \notin Symbols

VARIABLES
    game,       \* the definition, never written
    pc,         \* what Spin does next with the grid
    grid,       \* the grid, while it is generated or refilled a part of it
    eval,       \* the last evaluation
    before,     \* the grid the last cascade started from
    added,      \* the cells refilled since then, in order
    cascades    \* CascadeIndex

vars == <<game, pc, grid, eval, before, added, cascades>>

NoEval == [wins |-> {}, scatters |-> 0, scatter |-> 0, award |-> 0, total |-> 0]

------------------------------------------------------------------------------
(* WaysEvaluator: what a definition d makes of a grid g.                     *)

\* The rows of reel r that hold a symbol of S.
Matching(g, r, S) == {row \in DOMAIN g[r] : g[r][row] \in S}

\* The number of consecutive reels, from the first, with a matching cell.
MatchedReels(g, S) ==
    Max({n \in 0..Len(g) : \A r \in 1..n : Matching(g, r, S) # {}})

\* Mutation: every symbol with payouts is evaluated.
PayingEntriesOfAnyKind(d) == {e \in ToSet(d.catalog) : e.pays # <<>>}

\* Regular symbols, and wilds with payouts of their own.
PayingEntries(d) ==
    {e \in ToSet(d.catalog) : e.kind \in {"regular", "wild"} /\ e.pays # <<>>}

\* The symbols that count for an entry; a wild's own payout takes no other.
Accepted(d, e) == {e.id} \cup d.substitutes[e.id]

Reached(d, g, e) == MatchedReels(g, Accepted(d, e))

Times(m, n) == IF m = Failed THEN Failed ELSE MulInt(m, n)

\* Mutation: the last matched reel is left out of the product.
WaysOfOneReelFewer(g, S, n) ==
    LET ways[k \in 0..n] ==
          IF k = 0 THEN 1 ELSE Times(ways[k - 1], Cardinality(Matching(g, k, S)))
    IN  ways[n - 1]

\* The product of the matching cells of each matched reel.
WaysOf(g, S, n) ==
    LET ways[k \in 0..n] ==
          IF k = 0 THEN 1 ELSE Times(ways[k - 1], Cardinality(Matching(g, k, S)))
    IN  ways[n]

\* An entry wins if it pays something for the reels it reaches.
HasWin(d, g, e) ==
    /\ e \in PayingEntries(d) /\ Reached(d, g, e) >= d.minMatch
    /\ e.pays[Reached(d, g, e)] > 0

Win(d, g, e) ==
    LET n    == Reached(d, g, e)
        ways == WaysOf(g, Accepted(d, e), n) IN
    [symbol |-> e.id, reels |-> n, ways |-> ways,
     total  |-> IF ways = Failed THEN Failed ELSE MulInt(e.pays[n], ways),
     cells  |-> UNION {{r} \X Matching(g, r, Accepted(d, e)) : r \in 1..n}]

Wins(d, g) == {Win(d, g, e) : e \in {f \in ToSet(d.catalog) : HasWin(d, g, f)}}

\* What each entry of the catalog wins.
WinTotals(d, g) ==
    [i \in DOMAIN d.catalog |->
        LET e == d.catalog[i] IN IF HasWin(d, g, e) THEN Win(d, g, e).total ELSE 0]

\* The sum of a sequence of numbers.
Total(f) ==
    LET sum[i \in 0..Len(f)] == IF i = 0 THEN 0 ELSE sum[i - 1] + f[i]
    IN  sum[Len(f)]

Scatters(d, g) == UNION {{r} \X Matching(g, r, d.scatters) : r \in DOMAIN g}

\* The thresholds a count reaches; the first of the highest ones is taken.
BestThreshold(d, n) ==
    LET reached == {i \in DOMAIN d.thresholds : d.thresholds[i].count <= n}
        best    == CHOOSE i \in reached : \A j \in reached :
                      \/ d.thresholds[i].count > d.thresholds[j].count
                      \/ d.thresholds[i].count = d.thresholds[j].count /\ i <= j
    IN  IF reached = {} THEN [count |-> 0, payout |-> 0, award |-> 0]
                        ELSE d.thresholds[best]

\* Mutation: the sum of the wins is not checked.
EvaluationUnchecked(d, g) ==
    LET wins == Wins(d, g)
        best == BestThreshold(d, Cardinality(Scatters(d, g))) IN
    [wins |-> wins, scatters |-> Cardinality(Scatters(d, g)),
     scatter |-> best.payout, award |-> best.award,
     total |-> IF \E x \in wins : x.total = Failed THEN Failed
               ELSE Total(WinTotals(d, g)) + best.payout]

\* The checked sum of the wins fails once it leaves the range: no win is
\* negative.
Evaluation(d, g) ==
    LET wins  == Wins(d, g)
        n     == Cardinality(Scatters(d, g))
        best  == BestThreshold(d, n)
        sum   == Total(WinTotals(d, g)) + best.payout
        fails == (\E x \in wins : x.total = Failed) \/ sum > MaxInt
    IN  [wins |-> wins, scatters |-> n, scatter |-> best.payout,
         award |-> best.award, total |-> IF fails THEN Failed ELSE sum]

------------------------------------------------------------------------------
(* GenerateGrid and CollapseAndRefill.                                       *)

\* The strip from a stop on, wrapping around.
Window(strip, stop, n) ==
    [i \in 1..n |-> strip[((stop + i - 2) % Len(strip)) + 1]]

Init ==
    /\ game \in Games
    /\ pc = "generate" /\ grid = <<>> /\ eval = NoEval
    /\ before = <<>> /\ added = <<>> /\ cascades = 0

\* The row count, if it varies, then the stop of the next reel.
SampleReel ==
    /\ pc = "generate"
    /\ LET r == Len(grid) + 1 IN
       \E n \in game.rows, stop \in DOMAIN game.strips[r] :
          /\ grid' = Append(grid, Window(game.strips[r], stop, n))
          /\ pc' = IF r = Len(game.strips) THEN "evaluate" ELSE "generate"
    /\ UNCHANGED <<game, eval, before, added, cascades>>

\* Another cascade follows while there are wins and the limit allows it: the
\* cascade feature's condition.
Evaluate ==
    /\ pc = "evaluate"
    /\ LET e == Evaluation(game, grid) IN
       IF e.total = Failed
       THEN pc' = "failed" /\ UNCHANGED eval
       ELSE /\ eval' = e
            /\ pc' = IF e.wins # {} /\ cascades < game.maxCascades
                     THEN "collapse" ELSE "done"
    /\ UNCHANGED <<game, grid, before, added, cascades>>

\* The positions Spin hands over: those of every win of an evaluation.
Removed(e) == UNION {win.cells : win \in e.wins}

RemovedRows(e, r) == {row \in Nat : <<r, row>> \in Removed(e)}

\* What is left of a reel without some rows, in order.
Survivors(reel, rows) ==
    LET kept[n \in 0..Len(reel)] ==     \* of the n topmost cells
          IF n = 0 THEN <<>>
          ELSE IF n \in rows THEN kept[n - 1]
          ELSE Append(kept[n - 1], reel[n])
    IN  kept[Len(reel)]

HolesOf(reel, rows) ==
    [i \in 1..(Len(reel) - Len(Survivors(reel, rows))) |-> Hole]

\* Mutation: the survivors move up.
CollapsedReelUpwards(reel, rows) == Survivors(reel, rows) \o HolesOf(reel, rows)

\* The survivors of a reel at its bottom.
CollapsedReel(reel, rows) == HolesOf(reel, rows) \o Survivors(reel, rows)

Collapse ==
    /\ pc = "collapse"
    /\ before' = grid
    /\ grid' = [r \in DOMAIN grid |->
                   CollapsedReel(grid[r], RemovedRows(eval, r))]
    /\ added' = <<>>
    /\ cascades' = cascades + 1
    /\ pc' = "refill"
    /\ UNCHANGED <<game, eval>>

Holes(reel) == {row \in DOMAIN reel : reel[row] = Hole}

OpenReels(g) == {r \in DOMAIN g : Holes(g[r]) # {}}

\* Mutation: the topmost hole is filled first.
NextHoleFromTop(g) == LET r == Min(OpenReels(g)) IN <<r, Min(Holes(g[r]))>>

\* The leftmost open reel's bottommost hole.
NextHole(g) == LET r == Min(OpenReels(g)) IN <<r, Max(Holes(g[r]))>>

\* The strip a reel is refilled from.
StripOf(r) == game.strips[r]

RefillCell ==
    /\ pc = "refill"
    /\ LET r == NextHole(grid)[1]  row == NextHole(grid)[2] IN
       \E i \in DOMAIN StripOf(r) :
          /\ grid' = [grid EXCEPT ![r][row] = StripOf(r)[i]]
          /\ added' = Append(added, <<r, row>>)
          /\ pc' = IF OpenReels(grid) = {r} /\ Holes(grid[r]) = {row}
                   THEN "evaluate" ELSE "refill"
    /\ UNCHANGED <<game, eval, before, cascades>>

SourceFails ==
    /\ pc \in {"generate", "refill"}
    /\ pc' = "failed"
    /\ UNCHANGED <<game, grid, eval, before, added, cascades>>

Idle == pc \in {"done", "failed"} /\ UNCHANGED vars

Next ==
    \/ SampleReel \/ Evaluate \/ Collapse \/ RefillCell
    \/ SourceFails \/ Idle

Spec == Init /\ [][Next]_vars

------------------------------------------------------------------------------
(* Properties.                                                               *)

Cell == Symbols \cup {Hole}

\* Well-formed throughout; the evaluation is one SlotFeatures may assume.
TypeOK ==
    /\ game \in Games
    /\ pc \in {"generate", "evaluate", "collapse", "refill", "done", "failed"}
    /\ grid \in Seq(Seq(Cell)) /\ before \in Seq(Seq(Symbols))
    /\ \A r \in DOMAIN grid : Len(grid[r]) \in game.rows
    /\ pc \notin {"refill", "failed"} =>
          \A r \in DOMAIN grid : Hole \notin ToSet(grid[r])
    /\ {eval.total, eval.scatter} \subseteq Multiplier
    /\ eval.scatter <= eval.total
    /\ cascades \in 0..game.maxCascades

\* The reference for ways: a path takes one matching cell on each of the first
\* n reels; every path of the greatest length pays once.
Paths(d, g, S, n) ==
    {p \in [1..n -> 1..Max(d.rows)] : \A r \in 1..n :
        p[r] \in DOMAIN g[r] /\ g[r][p[r]] \in S}

PathsPay(d, g, e) ==
    LET S == Accepted(d, e)
        n == Max({k \in 0..Len(g) : Paths(d, g, S, k) # {}})
    IN  IF n < d.minMatch THEN 0
                          ELSE e.pays[n] * Cardinality(Paths(d, g, S, n))

\* What the paths of each entry of the catalog pay.
PathTotals(d, g) ==
    [i \in DOMAIN d.catalog |->
        LET e == d.catalog[i] IN
        IF e.kind \in {"regular", "wild"} /\ e.pays # <<>>
        THEN PathsPay(d, g, e) ELSE 0]

\* The total is what the paths and the scatters pay, or Spin failed.
PaysEveryPath ==
    pc \in {"collapse", "done"} =>
        eval.total - eval.scatter = Total(PathTotals(game, grid))

\* Once refilled, every cell that was on no winning path lies lower by the
\* number of winning cells that were under it.
SurvivorsFall ==
    pc = "evaluate" /\ cascades > 0 =>
        \A r \in DOMAIN before : \A row \in DOMAIN before[r] :
            <<r, row>> \notin Removed(eval) =>
                LET gone == {q \in DOMAIN before[r] :
                                q > row /\ <<r, q>> \in Removed(eval)}
                IN  grid[r][row + Cardinality(gone)] = before[r][row]

\* Protocol v1: the source's answers feed the holes reel by reel from the left
\* and from the bottom up, so that a replay puts them where they were.
RefillOrder ==
    \A i, j \in DOMAIN added : i < j =>
        \/ added[i][1] < added[j][1]
        \/ added[i][1] = added[j][1] /\ added[i][2] > added[j][2]

\* A cascade never removes a scatter: their number only grows, however many
\* grids follow.
ScattersStay ==
    [][pc = "evaluate" /\ cascades > 0 => eval'.scatters >= eval.scatters]_vars
==============================================================================
