--------------------------- MODULE SlotSimulation ---------------------------
(****************************************************************************)
(* RunWithRunner of slotsim/simulator.go and the accumulator of             *)
(* slotsim/statistics.go that it feeds.                                     *)
(*                                                                          *)
(* A round's outcome is what Game.Spin can settle on: its base and feature  *)
(* multipliers, the capped total, and whether it triggered anything.  The   *)
(* running mean, variance and the ratios of the report are floating point   *)
(* and left out; the ratio that picks a payout band is rounded as in the    *)
(* code.  Game id and version are copied.  Fewer spins than 2^64 - 1 are    *)
(* asked for, so neither the nonce nor the spin counter wraps.              *)
(****************************************************************************)
EXTENDS SlotMoney, Floating, SequencesExt

CONSTANTS Outcomes, Options, None

ASSUME SimulationAssumption ==
    /\ Outcomes \subseteq [base : Multiplier, feature : Multiplier,
                           total : Multiplier, triggered : BOOLEAN]
    /\ \A o \in Outcomes :
          o.total <= o.base + o.feature /\ o.base + o.feature <= MaxInt
    /\ Options \subseteq [spins : Nat \ {0}, bet : 1..MaxInt]
    /\ 1000 < Precision /\ MaxInt <= Unit

VARIABLES opts,       \* [spins, bet]: the positive ones Run lets through
          cancelled,  \* ctx.Err() # nil
          pc,         \* what runInternal does next
          nonce,      \* 1..opts.spins, one past it when the loop ends
          res,        \* the round just played, None before
          acc,        \* the accumulator
          error,      \* what was returned, "nil" until then
          report,     \* ... and with it, None until then
          played,     \* history: the rounds accumulated, in order
          late        \* history: those accumulated once ctx was cancelled

vars == <<opts, cancelled, pc, nonce, res, acc, error, report, played, late>>

------------------------------------------------------------------------------
(* The accumulator.                                                          *)

\* The payout bands, in multiples of the bet: above min, up to max; the last
\* is open and the first holds the rounds that paid nothing.
Band(min, max) == [min |-> min, max |-> max]

DefaultBuckets ==
    << Band(0, 0), Band(0, 1), Band(1, 2), Band(2, 5), Band(5, 10),
       Band(10, 20), Band(20, 50), Band(50, 100), Band(100, 500),
       Band(500, 1000), Band(1000, -1) >>

NewAccumulator ==
    [spins |-> 0, payout |-> 0, base |-> 0, feature |-> 0, hits |-> 0,
     features |-> 0, maxMultiplier |-> 0, maxPayout |-> 0,
     buckets |-> [i \in DOMAIN DefaultBuckets |-> 0]]

\* float64 of a whole number, counted in 1.0s: Unit, a power of two, scales out.
AsFloat(n) == Rounded(n, 1)

\* A payout's share of the bet.
WinRatio(payout) == Over(AsFloat(payout), AsFloat(opts.bet))

\* Mutation: a payout of exactly max times the bet is in no band.
InBandBelow(i, payout) ==
    LET b == DefaultBuckets[i] IN
    /\ WinRatio(payout) > b.min * Unit
    /\ b.max < 0 \/ WinRatio(payout) < b.max * Unit

InBand(i, payout) ==
    LET b == DefaultBuckets[i] IN
    /\ WinRatio(payout) > b.min * Unit
    /\ b.max < 0 \/ WinRatio(payout) <= b.max * Unit

\* The band a payout is counted in: the first that fits, or none.
PlaceInBucket(buckets, payout) ==
    LET fits == {i \in 2..Len(buckets) : InBand(i, payout)} IN
    IF WinRatio(payout) <= 0 THEN [buckets EXCEPT ![1] = @ + 1]
    ELSE IF fits = {} THEN buckets
    ELSE [buckets EXCEPT ![Min(fits)] = @ + 1]

\* Mutation: the sum wraps around.
SummedUnchecked(total, pay) == total + pay

\* A sum of payouts, Failed when it would leave the integers.
Summed(total, pay) ==
    IF pay = Failed \/ total > MaxInt - pay THEN Failed ELSE total + pay

Tick(n, event) == IF event THEN n + 1 ELSE n
Larger(m, n)   == IF n > m THEN n ELSE m

\* Mutation: the feature's share is settled on the whole multiplier.
FeatureShareOfTotal(r) == Settle(opts.bet, r.total)

\* The feature multiplier is settled by itself, and so is the base's.
FeatureShare(r) == Settle(opts.bet, r.feature)

PayoutSum(r)  == Summed(acc.payout, r.payout)
BaseSum(r)    == Summed(acc.base, Settle(opts.bet, r.base))
FeatureSum(r) == Summed(acc.feature, FeatureShare(r))

\* add fails; what it leaves in the accumulator is dropped with it.
Overflows(r) == Failed \in {PayoutSum(r), BaseSum(r), FeatureSum(r)}

Accumulated(r) ==
    [spins         |-> acc.spins + 1,
     payout        |-> PayoutSum(r),
     base          |-> BaseSum(r),
     feature       |-> FeatureSum(r),
     hits          |-> Tick(acc.hits, r.payout > 0),
     features      |-> Tick(acc.features, r.triggered),
     maxMultiplier |-> Larger(acc.maxMultiplier, r.total),
     maxPayout     |-> Larger(acc.maxPayout, r.payout),
     buckets       |-> PlaceInBucket(acc.buckets, r.payout)]

------------------------------------------------------------------------------
(* The loop.                                                                 *)

Init ==
    /\ opts \in Options /\ cancelled \in BOOLEAN
    /\ pc = "check" /\ nonce = 1 /\ res = None /\ acc = NewAccumulator
    /\ error = "nil" /\ report = None
    /\ played = <<>> /\ late = 0

Return(e, r) == pc' = "returned" /\ error' = e /\ report' = r

\* Another goroutine, or the deadline.
Cancel ==
    /\ ~cancelled /\ cancelled' = TRUE
    /\ UNCHANGED <<opts, pc, nonce, res, acc, error, report, played, late>>

CheckCancelled ==
    /\ pc = "check" /\ nonce <= opts.spins /\ cancelled
    /\ Return("context", None)
    /\ UNCHANGED <<opts, cancelled, nonce, res, acc, played, late>>

\* Mutation: the context is looked at before the first round only.
CheckOnce ==
    /\ pc = "check" /\ nonce <= opts.spins /\ (nonce = 1 => ~cancelled)
    /\ pc' = "spin"
    /\ UNCHANGED <<opts, cancelled, nonce, res, acc, error, report, played, late>>

Check ==
    /\ pc = "check" /\ nonce <= opts.spins /\ ~cancelled
    /\ pc' = "spin"
    /\ UNCHANGED <<opts, cancelled, nonce, res, acc, error, report, played, late>>

\* What the runner may return: the payout is settled on the total.
RoundsOf(bet) ==
    {[base |-> o.base, feature |-> o.feature, total |-> o.total,
      triggered |-> o.triggered, payout |-> Settle(bet, o.total)] :
        o \in {x \in Outcomes : Settle(bet, x.total) # Failed}}

Spin ==
    /\ pc = "spin"
    /\ res' \in RoundsOf(opts.bet) /\ pc' = "add"
    /\ UNCHANGED <<opts, cancelled, nonce, acc, error, report, played, late>>

RunnerError ==
    /\ pc = "spin"
    /\ Return("runner", None)
    /\ UNCHANGED <<opts, cancelled, nonce, res, acc, played, late>>

\* Mutation: a round that cannot be added is left out and the run goes on.
AddErrorSkipped ==
    /\ pc = "add" /\ Overflows(res)
    /\ nonce' = nonce + 1 /\ res' = None /\ pc' = "check"
    /\ UNCHANGED <<opts, cancelled, acc, error, report, played, late>>

AddError ==
    /\ pc = "add" /\ Overflows(res)
    /\ Return("accumulator", None)
    /\ UNCHANGED <<opts, cancelled, nonce, res, acc, played, late>>

Observe ==
    /\ pc = "add" /\ ~Overflows(res)
    /\ acc' = Accumulated(res) /\ played' = Append(played, res)
    /\ late' = IF cancelled THEN late + 1 ELSE late
    /\ nonce' = nonce + 1 /\ res' = None /\ pc' = "check"
    /\ UNCHANGED <<opts, cancelled, error, report>>

\* finish: the total bet is checked only now.
TotalBetFits == opts.bet <= MaxInt \div acc.spins

FinishError ==
    /\ pc = "check" /\ nonce > opts.spins /\ ~TotalBetFits
    /\ Return("total bet", None)
    /\ UNCHANGED <<opts, cancelled, nonce, res, acc, played, late>>

Finish ==
    /\ pc = "check" /\ nonce > opts.spins /\ TotalBetFits
    /\ Return("nil", [acc |-> acc, totalBet |-> opts.bet * acc.spins])
    /\ UNCHANGED <<opts, cancelled, nonce, res, acc, played, late>>

Step ==
    \/ CheckCancelled \/ Check \/ Spin \/ RunnerError \/ Observe \/ AddError
    \/ FinishError \/ Finish

Next == Step \/ Cancel

\* The caller's goroutine runs the loop, and every spin returns (SlotSpin's
\* Terminates); nothing makes anybody cancel.
Spec == Init /\ [][Next]_vars /\ WF_vars(Step)

------------------------------------------------------------------------------
(* Properties.                                                               *)

TypeOK ==
    /\ opts \in Options /\ cancelled \in BOOLEAN
    /\ pc \in {"check", "spin", "add", "returned"}
    /\ nonce \in 1..(opts.spins + 1)
    /\ res \in RoundsOf(opts.bet) \cup {None}
    /\ {acc.payout, acc.base, acc.feature, acc.maxPayout} \subseteq Multiplier
    /\ Len(acc.buckets) = Len(DefaultBuckets)
    /\ error \in {"nil", "context", "runner", "accumulator", "total bet"}
    /\ report # None => error = "nil" /\ report.totalBet \in Multiplier

Total(f) ==
    LET sum[i \in 0..Len(f)] == IF i = 0 THEN 0 ELSE sum[i - 1] + f[i]
    IN  sum[Len(f)]

\* Of every round: its payout, and what its two shares are settled on.
Payouts  == [i \in DOMAIN played |-> played[i].payout]
Bases    == [i \in DOMAIN played |-> Settle(opts.bet, played[i].base)]
Features == [i \in DOMAIN played |-> Settle(opts.bet, played[i].feature)]

\* Whatever was cancelled, refused or overflowed on the way: a report that is
\* returned tells of exactly the rounds asked for, each counted once in every
\* one of its figures.
ReportIsWhole ==
    report # None =>
        LET a == report.acc IN
        /\ Len(played) = opts.spins /\ a.spins = opts.spins
        /\ report.totalBet = opts.spins * opts.bet
        /\ a.payout   = Total(Payouts)
        /\ a.base     = Total(Bases)
        /\ a.feature  = Total(Features)
        /\ a.hits     = Cardinality({i \in DOMAIN played : played[i].payout > 0})
        /\ a.features = Cardinality({i \in DOMAIN played : played[i].triggered})
        /\ a.maxPayout = Max({r.payout : r \in ToSet(played)})
        /\ a.maxMultiplier = Max({r.total : r \in ToSet(played)})

\* The first band is for the rounds that paid nothing, the others for those that
\* paid more than min and at most max times the bet.
Holds(i, payout) ==
    LET b == DefaultBuckets[i] IN
    IF i = 1 THEN payout = 0
    ELSE /\ b.min * opts.bet < payout
         /\ i < Len(DefaultBuckets) => payout <= b.max * opts.bet

\* Whatever the bet, rounding takes no round out of the bands, puts none in two
\* of them and makes no win a loss; and as long as the bet and the payouts have
\* floats of their own, each band counts exactly the rounds it is for.
BandsHoldEveryRound ==
    /\ Total(acc.buckets) = Len(played)
    /\ acc.buckets[1] =
          Cardinality({j \in DOMAIN played : played[j].payout = 0})
    /\ (/\ opts.bet < Precision
        /\ \A j \in DOMAIN played : played[j].payout < Precision) =>
          \A i \in DOMAIN DefaultBuckets :
             acc.buckets[i] =
                Cardinality({j \in DOMAIN played : Holds(i, played[j].payout)})

\* Base and feature payouts, each rounded down by itself, miss at most one
\* minor unit of a round's payout; they exceed the total only if a round was
\* cut at the cap.
SharesAddUp ==
    LET shares == acc.base + acc.feature IN
    /\ acc.payout - shares <= acc.spins
    /\ (\A r \in ToSet(played) : r.total = r.base + r.feature)
           => shares <= acc.payout

\* The slot simulator has a loop of its own; it is the generic runner's, with
\* nonces from one and the accumulator as the observer.
Runner == INSTANCE SimulationRun WITH
    Results     <- UNION {RoundsOf(o.bet) : o \in Options},
    RoundCounts <- {o.spins : o \in Options},
    rounds      <- opts.spins,
    pc          <- CASE pc = "spin" -> "play" [] pc = "add" -> "observe"
                     [] OTHER -> pc,
    round       <- nonce - 1,
    result      <- res,
    observed    <- [i \in DOMAIN played |->
                       [round |-> i - 1, result |-> played[i]]],
    error       <- CASE error = "runner" -> "engine"
                     [] error = "accumulator" -> "observer"
                     [] error = "total bet" -> "nil"
                     [] OTHER -> error

ImplementsRun == Runner!Spec
==============================================================================
