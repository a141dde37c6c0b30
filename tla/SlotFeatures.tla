---------------------------- MODULE SlotFeatures ----------------------------
(****************************************************************************)
(* The feature context of core/slot/feature.go and the two built-in plugins *)
(* of engine/slotfeature/features.go, as functions from a context to the    *)
(* context after one hook.                                                  *)
(*                                                                          *)
(* A definition d is the part of slot.ValidatedDefinition that decides the  *)
(* course of a spin.  An evaluation is abstracted to its total multiplier,  *)
(* its scatter payout and the number of free spins its triggers award; the  *)
(* grid enters through the evaluation only.                                 *)
(****************************************************************************)
EXTENDS SlotMoney, Sequences

CONSTANT Evaluations   \* what Evaluator.Evaluate may return

ReelSetNames == {"base", "free"}

FeatureNames == {"cascade", "scatter_free_spins", "plugin"}

Evaluation == [total : Multiplier, scatter : Multiplier, award : Int]

\* WaysEvaluator adds the scatter payout last (evaluator.go:208-222), so it is
\* at most the total.
ASSUME EvaluationAssumption ==
    /\ Evaluations \subseteq Evaluation
    /\ \A ev \in Evaluations : ev.scatter <= ev.total

NoEvaluation == [total |-> 0, scatter |-> 0, award |-> 0]

\* What the symbol wins of an evaluation pay; it has wins iff this is positive.
Ways(ev) == ev.total - ev.scatter

Integer == MinInt..MaxInt

\* What ValidateDefinition lets through, defaults filled in.  It looks at the
\* parts of a feature only where the feature is enabled and its mode uses them;
\* the limits of a disabled one, which nothing reads, are 0.
Definition ==
    {d \in [features       : Seq(FeatureNames),  \* in hook order
            cap            : Multiplier,         \* MaxWinMultiplier, 0 for none
            policy         : {"cap_only", "terminate_feature",
                              "terminate_session"},
            cascadeEnabled : BOOLEAN,
            maxCascades    : Nat,
            cascadeMode    : {"fixed", "incremental", "table"},
            fixed          : Integer,
            step           : Integer,
            table          : Seq(Integer),
            freeEnabled    : BOOLEAN,
            maxSpins       : Nat,
            retrigger      : BOOLEAN,
            freeReels      : ReelSetNames \cup {""},
            persistent     : BOOLEAN] :          \* FreeSpins.MultiplierPolicy
        /\ d.freeEnabled => d.maxSpins > 0
        /\ d.cascadeEnabled =>
              /\ d.maxCascades > 0
              /\ d.cascadeMode = "fixed" => d.fixed > 0
              /\ d.cascadeMode = "incremental" => d.step >= 0
              /\ d.cascadeMode = "table" =>
                    d.table # <<>> /\ \A i \in DOMAIN d.table : d.table[i] > 0}

------------------------------------------------------------------------------
(* The context and the decisions a hook may record in it.                    *)

Context ==
    [isFreeSpin       : BOOLEAN,
     cascadeIndex     : Nat,
     eval             : Evaluation,
     reelSet          : ReelSetNames,
     cascadeRequested : BOOLEAN,
     cascadeMult      : Multiplier,
     awardSpins       : Nat,
     retriggerSpins   : Nat,
     endFeature       : BOOLEAN,    \* TerminateFeature
     endSession       : BOOLEAN]    \* TerminateSession

\* The context Game.Spin starts with.
NewContext ==
    [isFreeSpin |-> FALSE, cascadeIndex |-> 0, eval |-> NoEvaluation,
     reelSet |-> "base", cascadeRequested |-> FALSE, cascadeMult |-> 0,
     awardSpins |-> 0, retriggerSpins |-> 0,
     endFeature |-> FALSE, endSession |-> FALSE]

RequestCascade(c, m) == [c EXCEPT !.cascadeRequested = TRUE, !.cascadeMult = m]

\* Both ignore a count that is not positive: the awards of a trigger are not
\* validated.
AwardFreeSpins(c, n) ==
    IF n > 0 THEN [c EXCEPT !.awardSpins = @ + n] ELSE c

RetriggerFreeSpins(c, n) ==
    IF n > 0 THEN [c EXCEPT !.retriggerSpins = @ + n] ELSE c

\* Mutation: the selection is dropped.
SelectReelSetIgnored(c, name) == c

SelectReelSet(c, name) == [c EXCEPT !.reelSet = name]

Terminate(c, session) ==
    [c EXCEPT !.endFeature = TRUE, !.endSession = @ \/ session]

ResetRoundDecisions(c) ==
    [c EXCEPT !.cascadeRequested = FALSE, !.cascadeMult = 0]

------------------------------------------------------------------------------
(* Cascade.                                                                  *)

\* CascadeTableMultiplier: the last entry is used past the end of the table.
TableMultiplier(d, i) ==
    IF d.table = <<>> THEN Scale
    ELSE IF i < Len(d.table) THEN d.table[i + 1] ELSE d.table[Len(d.table)]

ModeMultiplier(d, i) ==
    CASE d.cascadeMode = "fixed" -> IF d.fixed <= 0 THEN Scale ELSE d.fixed
      [] d.cascadeMode = "incremental" ->
            IF MulInt(d.step, i) = Failed THEN Failed
                                          ELSE Add(Scale, MulInt(d.step, i))
      [] d.cascadeMode = "table" -> TableMultiplier(d, i)

\* The persistent multiplier applies in free spins once it exceeds 1x.
Boosted(d, c, global) == c.isFreeSpin /\ d.persistent /\ global > Scale

CascadeMultiplier(d, c, global) ==
    LET m == ModeMultiplier(d, c.cascadeIndex) IN
    IF m # Failed /\ Boosted(d, c, global) THEN Mul(m, global) ELSE m

\* Mutation: the last cascade allowed is not asked for.
WantsCascadeEarlyStop(d, c) ==
    d.cascadeEnabled /\ Ways(c.eval) > 0 /\ c.cascadeIndex + 1 < d.maxCascades

WantsCascade(d, c) ==
    d.cascadeEnabled /\ Ways(c.eval) > 0 /\ c.cascadeIndex < d.maxCascades

\* A hook's outcome: its error, or the context and the persistent multiplier
\* it leaves behind.
Ok(c, global)  == [ok |-> TRUE, ctx |-> c, global |-> global]
Err(c, global) == [ok |-> FALSE, ctx |-> c, global |-> global]

CascadeAfterEvaluation(d, c, global) ==
    LET m == CascadeMultiplier(d, c, global) IN
    IF ~WantsCascade(d, c) THEN Ok(c, global)
    ELSE IF m = Failed THEN Err(c, global)
    ELSE Ok(RequestCascade(c, m), global)

CascadeAfterCascade(d, c, global) ==
    LET sum == Add(global, IF d.step <= 0 THEN Scale ELSE d.step) IN
    IF ~(c.isFreeSpin /\ d.persistent) THEN Ok(c, global)
    ELSE IF sum = Failed THEN Err(c, global)
    ELSE Ok(c, sum)

------------------------------------------------------------------------------
(* ScatterFreeSpins.                                                         *)

ScatterBeforeSpin(d, c) ==
    IF c.isFreeSpin /\ d.freeReels # "" THEN SelectReelSet(c, d.freeReels)
                                        ELSE c

AtMost(n, limit) == IF n > limit THEN limit ELSE n

\* Mutation: the limit on the total is compared with the award alone.
RetriggerAwardIgnoresTotal(d, c, total) ==
    IF ~d.retrigger \/ total >= d.maxSpins THEN 0
    ELSE AtMost(c.eval.award, d.maxSpins)

\* The spins a free-spin grid adds, given the total awarded so far.
RetriggerAward(d, c, total) ==
    IF ~d.retrigger \/ total >= d.maxSpins THEN 0
    ELSE AtMost(c.eval.award, d.maxSpins - total)

\* The base game takes the first award only and switches the reel set at once.
ScatterAfterEvaluation(d, c, total) ==
    IF ~d.freeEnabled \/ c.eval.award = 0 THEN c
    ELSE IF c.isFreeSpin
         THEN RetriggerFreeSpins(c, RetriggerAward(d, c, total))
    ELSE IF c.awardSpins > 0 THEN c
    ELSE LET awarded == AwardFreeSpins(c, AtMost(c.eval.award, d.maxSpins)) IN
         IF d.freeReels # "" THEN SelectReelSet(awarded, d.freeReels)
                             ELSE awarded

------------------------------------------------------------------------------
(* One hook of one built-in; FeatureAdapter leaves every other hook empty.   *)
BuiltinHook(d, feature, h, c, total, global) ==
    CASE feature = "cascade" /\ h = "AfterEvaluation" ->
            CascadeAfterEvaluation(d, c, global)
      [] feature = "cascade" /\ h = "AfterCascade" ->
            CascadeAfterCascade(d, c, global)
      [] feature = "scatter_free_spins" /\ h = "BeforeSpin" ->
            Ok(ScatterBeforeSpin(d, c), global)
      [] feature = "scatter_free_spins" /\ h = "AfterEvaluation" ->
            Ok(ScatterAfterEvaluation(d, c, total), global)
      [] OTHER -> Ok(c, global)
==============================================================================
