--------------------------- MODULE SlotSpinProofs ----------------------------
(****************************************************************************)
(* A spin, for every game definition, evaluation and plugin the assumptions *)
(* admit and integers of every width: the built-in features keep their      *)
(* context well formed, every state is well typed, no transition is refused *)
(* and every free spin is accounted for; the cap is applied exactly and ends*)
(* the spin, which keeps the promise SlotRound states; and with the built-in*)
(* features only every award is played, every trigger reported, and no win  *)
(* is lost without a cause.                                                 *)
(****************************************************************************)
EXTENDS SlotSpin, TLAPS

------------------------------------------------------------------------------
(* The checked arithmetic, for every Scale and every MaxInt.                 *)

\* What the checked arithmetic returns: a multiplier or Failed, never a value out
\* of range.
Checked == Multiplier \cup {Failed}

(* The quotient guard used by Mul, MulInt and Settle is exact: it passes     *)
(* products that fit, and only those.                                        *)
LEMMA QuotientGuard ==
    ASSUME NEW a \in Nat, NEW b \in Nat \ {0}, NEW n \in Nat
    PROVE  /\ a <= n \div b <=> a * b <= n
           /\ n \div b \in Nat
  OBVIOUS

\* A quotient of naturals is a natural, and no larger.
LEMMA DivBound ==
    ASSUME NEW a \in Nat, NEW b \in Nat \ {0}
    PROVE  a \div b \in 0..a
  OBVIOUS

(* Add is exact, and fails exactly when the sum does not fit.                *)
LEMMA AddIsExact ==
    ASSUME NEW m \in Multiplier, NEW n \in Multiplier
    PROVE  /\ Add(m, n) \in Checked
           /\ Add(m, n) = Failed <=> m + n > MaxInt
           /\ Add(m, n) # Failed => Add(m, n) = m + n
  BY MoneyAssumption DEF Add, Checked, Multiplier, Failed, MinInt

(* A scaled product that passed the guard fits, and is the floor.            *)
LEMMA MulIsFloor ==
    ASSUME NEW m \in Multiplier, NEW n \in Multiplier
    PROVE  /\ Mul(m, n) \in Checked
           /\ Mul(m, n) # Failed => Mul(m, n) = (m * n) \div Scale
  <1>1. CASE m = 0 \/ n = 0
    <2>1. m * n = 0
      BY <1>1 DEF Multiplier
    <2>2. (m * n) \div Scale = 0
      BY <2>1, MoneyAssumption
    <2> QED BY <1>1, <2>2, MoneyAssumption DEF Mul, Checked, Multiplier, Failed
  <1>2. CASE m > 0 /\ n > 0
    <2>1. m > MaxInt \div n \/ m * n <= MaxInt
      BY <1>2, QuotientGuard, MoneyAssumption DEF Multiplier
    <2>2. m * n \in Nat
      BY DEF Multiplier
    <2>3. m * n <= MaxInt => (m * n) \div Scale \in Multiplier
      BY <2>2, DivBound, MoneyAssumption DEF Multiplier
    <2> QED BY <1>2, <2>1, <2>3, MoneyAssumption
            DEF Mul, Checked, Multiplier, Failed
  <1> QED BY <1>1, <1>2, MoneyAssumption DEF Multiplier

\* A multiplier times a count is exact, or reported as an overflow.
LEMMA MulIntIsExact ==
    ASSUME NEW m \in Multiplier, NEW n \in Nat
    PROVE  /\ MulInt(m, n) \in Checked
           /\ MulInt(m, n) # Failed => MulInt(m, n) = m * n
  <1>1. CASE m = 0 \/ n = 0
    <2>1. m * n = 0
      BY <1>1 DEF Multiplier
    <2> QED BY <1>1, <2>1, MoneyAssumption
            DEF MulInt, Checked, Multiplier, Failed
  <1>2. CASE m > 0 /\ n > 0
    <2>1. m > MaxInt \div n \/ m * n <= MaxInt
      BY <1>2, QuotientGuard, MoneyAssumption DEF Multiplier
    <2>2. m * n \in Nat
      BY DEF Multiplier
    <2> QED BY <1>2, <2>1, <2>2, MoneyAssumption
            DEF MulInt, Checked, Multiplier, Failed
  <1> QED BY <1>1, <1>2, MoneyAssumption DEF Multiplier

(* Settle pays the floor of the exact product and never a minor unit more.   *)
THEOREM SettleIsFloor ==
    ASSUME NEW bet \in 1..MaxInt, NEW m \in Multiplier
    PROVE  /\ Settle(bet, m) \in Checked
           /\ Settle(bet, m) # Failed =>
                 /\ Settle(bet, m) * Scale <= bet * m
                 /\ bet * m < (Settle(bet, m) + 1) * Scale
  <1> DEFINE p == bet * m
  <1>1. p \in Nat
    BY DEF Multiplier
  <1>2. /\ (p \div Scale) * Scale <= p
        /\ p < ((p \div Scale) + 1) * Scale
        /\ p \div Scale \in 0..p
    <2> HIDE DEF p
    <2> QED BY <1>1, MoneyAssumption, DivBound
  <1>3. CASE m = 0
    <2>1. p = 0
      BY <1>3
    <2> QED BY <1>3, <2>1, MoneyAssumption
            DEF Settle, Checked, Multiplier, Failed
  <1>4. CASE m > 0
    <2>1. bet > MaxInt \div m \/ p <= MaxInt
      BY <1>4, QuotientGuard, MoneyAssumption DEF Multiplier
    <2>2. Settle(bet, m) = IF bet > MaxInt \div m THEN Failed ELSE p \div Scale
      BY <1>4 DEF Settle, Multiplier
    <2> HIDE DEF p
    <2>3. Settle(bet, m) \in Checked
      BY <1>1, <1>2, <2>1, <2>2, MoneyAssumption
         DEF Checked, Multiplier, Failed
    <2> QED BY <1>2, <2>2, <2>3 DEF p
  <1> QED BY <1>3, <1>4 DEF Multiplier

------------------------------------------------------------------------------
(* What the hooks of the built-in features return: a well-formed context    *)
(* for every definition, and never more spins than the definition allows.   *)

\* An evaluation whose symbol wins are what its total leaves.
SoundContext == {c \in Context : c.eval.scatter <= c.eval.total}

\* The wins by ways are a multiplier.
LEMMA WaysTyped ==
    ASSUME NEW c \in SoundContext
    PROVE  Ways(c.eval) \in Multiplier
  <1>1. /\ c.eval.total \in 0..MaxInt /\ c.eval.scatter \in 0..MaxInt
        /\ c.eval.scatter <= c.eval.total
    BY DEF SoundContext, Context, Evaluation, Multiplier
  <1> QED BY <1>1, MoneyAssumption DEF Ways, Multiplier

\* One, as a multiplier, is within the integers.
LEMMA ScaleTyped == Scale \in Multiplier
  BY MoneyAssumption DEF Multiplier

(* The methods of FeatureContext.                                            *)
LEMMA DecisionsTyped ==
    ASSUME NEW c \in SoundContext
    PROVE  /\ \A m \in Multiplier : RequestCascade(c, m) \in SoundContext
           /\ \A n \in Int : AwardFreeSpins(c, n) \in SoundContext
           /\ \A n \in Int : RetriggerFreeSpins(c, n) \in SoundContext
           /\ \A r \in ReelSetNames : SelectReelSet(c, r) \in SoundContext
           /\ \A b \in BOOLEAN : Terminate(c, b) \in SoundContext
           /\ ResetRoundDecisions(c) \in SoundContext
  <1>1. \A m \in Multiplier : RequestCascade(c, m) \in SoundContext
    BY DEF RequestCascade, SoundContext, Context
  <1>2. \A r \in ReelSetNames : SelectReelSet(c, r) \in SoundContext
    BY DEF SelectReelSet, SoundContext, Context
  <1>3. \A n \in Int : /\ AwardFreeSpins(c, n) \in SoundContext
                      /\ RetriggerFreeSpins(c, n) \in SoundContext
    BY DEF AwardFreeSpins, RetriggerFreeSpins, SoundContext, Context
  <1>4. ResetRoundDecisions(c) \in SoundContext
    <2>1. 0 \in Multiplier
      BY MoneyAssumption DEF Multiplier
    <2> QED BY <2>1 DEF ResetRoundDecisions, SoundContext, Context
  <1>5. ASSUME NEW b \in BOOLEAN PROVE Terminate(c, b) \in SoundContext
    <2> DEFINE s == c.endSession \/ b
    <2>1. Terminate(c, b) =
            [[c EXCEPT !.endFeature = TRUE] EXCEPT !.endSession = s]
      BY DEF Terminate, SoundContext, Context
    <2>2. s \in BOOLEAN
      OBVIOUS
    <2> HIDE DEF s
    <2> QED BY <2>1, <2>2 DEF SoundContext, Context
  <1> QED BY <1>1, <1>2, <1>3, <1>4, <1>5

\* A definition's parts, field by field.
LEMMA DefinitionTyped ==
    ASSUME NEW d \in Definition
    PROVE  /\ d.features \in Seq(FeatureNames)
           /\ d.cap \in Multiplier
           /\ d.cascadeEnabled \in BOOLEAN
           /\ d.maxCascades \in Nat
           /\ d.cascadeMode \in {"fixed", "incremental", "table"}
           /\ d.fixed \in Int /\ d.fixed <= MaxInt
           /\ d.step \in Int /\ d.step <= MaxInt
           /\ d.table \in Seq(Integer)
           /\ d.maxSpins \in Nat
           /\ d.freeReels \in ReelSetNames \cup {""}
           /\ d.cascadeEnabled =>
                 /\ d.cascadeMode = "incremental" => d.step >= 0
                 /\ d.cascadeMode = "table" =>
                       d.table # <<>> /\ \A i \in DOMAIN d.table : d.table[i] > 0
  <1>1. d.fixed \in Integer /\ d.step \in Integer
    BY DEF Definition
  <1>2. /\ d.fixed \in Int /\ d.fixed <= MaxInt
        /\ d.step \in Int /\ d.step <= MaxInt
    BY <1>1, MoneyAssumption DEF Integer, MinInt
  <1>3. /\ d.features \in Seq(FeatureNames)
        /\ d.cap \in Multiplier
        /\ d.cascadeEnabled \in BOOLEAN
        /\ d.maxCascades \in Nat
        /\ d.cascadeMode \in {"fixed", "incremental", "table"}
        /\ d.table \in Seq(Integer)
        /\ d.maxSpins \in Nat
        /\ d.freeReels \in ReelSetNames \cup {""}
    BY DEF Definition
  <1>4. d.cascadeEnabled =>
           /\ d.cascadeMode = "incremental" => d.step >= 0
           /\ d.cascadeMode = "table" =>
                 d.table # <<>> /\ \A i \in DOMAIN d.table : d.table[i] > 0
    BY DEF Definition
  <1> QED BY <1>2, <1>3, <1>4

\* The multiplier of a cascade mode is one, or overflows.
LEMMA ModeMultiplierTyped ==
    ASSUME NEW d \in Definition, d.cascadeEnabled, NEW i \in Nat
    PROVE  ModeMultiplier(d, i) \in Checked
  <1> USE ScaleTyped
  <1>1. CASE d.cascadeMode = "fixed"
    <2>1. d.fixed \in Int /\ d.fixed <= MaxInt
      BY DefinitionTyped
    <2>2. d.fixed > 0 => d.fixed \in Multiplier
      BY <2>1, MoneyAssumption DEF Multiplier
    <2> QED BY <1>1, <2>1, <2>2 DEF ModeMultiplier, Checked
  <1>2. CASE d.cascadeMode = "incremental"
    <2>1. d.step \in Int /\ d.step <= MaxInt /\ d.step >= 0
      BY <1>2, DefinitionTyped
    <2>2. d.step \in Multiplier
      BY <2>1, MoneyAssumption DEF Multiplier
    <2>3. MulInt(d.step, i) \in Checked
      BY <2>2, MulIntIsExact
    <2>4. MulInt(d.step, i) # Failed => Add(Scale, MulInt(d.step, i)) \in Checked
      BY <2>3, AddIsExact DEF Checked
    <2> QED BY <1>2, <2>3, <2>4 DEF ModeMultiplier, Checked
  <1>3. CASE d.cascadeMode = "table"
    <2>1. /\ d.table \in Seq(Integer) /\ d.table # <<>>
          /\ \A j \in DOMAIN d.table : d.table[j] > 0
      BY <1>3, DefinitionTyped
    <2>2. \A j \in DOMAIN d.table : d.table[j] \in Multiplier
      BY <2>1, MoneyAssumption DEF Integer, MinInt, Multiplier
    <2>3. Len(d.table) \in DOMAIN d.table
      BY <2>1
    <2>4. i < Len(d.table) => i + 1 \in DOMAIN d.table
      BY <2>1
    <2>5. TableMultiplier(d, i) \in Multiplier
      BY <2>2, <2>3, <2>4 DEF TableMultiplier
    <2> QED BY <1>3, <2>5 DEF ModeMultiplier, Checked
  <1> QED BY <1>1, <1>2, <1>3, DefinitionTyped

\* The multiplier of a cascade is one, or overflows.
LEMMA CascadeMultiplierTyped ==
    ASSUME NEW d \in Definition, d.cascadeEnabled, NEW c \in SoundContext,
           NEW g \in Multiplier
    PROVE  CascadeMultiplier(d, c, g) \in Checked
  <1> DEFINE m == ModeMultiplier(d, c.cascadeIndex)
  <1>1. m \in Checked
    BY ModeMultiplierTyped DEF SoundContext, Context
  <1> HIDE DEF m
  <1>2. m # Failed => Mul(m, g) \in Checked
    BY <1>1, MulIsFloor DEF Checked
  <1> QED BY <1>1, <1>2 DEF CascadeMultiplier, m

\* A hook's outcome is well-formed and leaves the evaluation alone.
SoundOutcome(r, c) ==
    /\ r.ctx \in SoundContext
    /\ r.global \in Multiplier
    /\ r.ctx.eval = c.eval
    /\ r.ctx.isFreeSpin = c.isFreeSpin

\* The cascade feature returns a sound context.
LEMMA CascadeHooksTyped ==
    ASSUME NEW d \in Definition, NEW c \in SoundContext, NEW g \in Multiplier
    PROVE  /\ SoundOutcome(CascadeAfterEvaluation(d, c, g), c)
           /\ SoundOutcome(CascadeAfterCascade(d, c, g), c)
  <1>1. SoundOutcome(CascadeAfterEvaluation(d, c, g), c)
    <2> DEFINE m == CascadeMultiplier(d, c, g)
    <2>1. WantsCascade(d, c) => m \in Checked
      BY CascadeMultiplierTyped DEF WantsCascade
    <2> HIDE DEF m
    <2>2. WantsCascade(d, c) /\ m # Failed =>
            /\ RequestCascade(c, m) \in SoundContext
            /\ RequestCascade(c, m).eval = c.eval
            /\ RequestCascade(c, m).isFreeSpin = c.isFreeSpin
      BY <2>1 DEF Checked, RequestCascade, SoundContext, Context
    <2> QED BY <2>1, <2>2 DEF CascadeAfterEvaluation, Ok, Err, SoundOutcome, m
  <1>2. SoundOutcome(CascadeAfterCascade(d, c, g), c)
    <2> DEFINE step == IF d.step <= 0 THEN Scale ELSE d.step
               s    == Add(g, step)
    <2>1. d.step \in Int /\ d.step <= MaxInt
      BY DefinitionTyped
    <2>2. step \in Multiplier
      BY <2>1, ScaleTyped, MoneyAssumption DEF Multiplier
    <2>3. s \in Checked
      BY <2>2, AddIsExact
    <2> HIDE DEF s
    <2> QED BY <2>3 DEF CascadeAfterCascade, Ok, Err, SoundOutcome, Checked, s
  <1> QED BY <1>1, <1>2

\* The scatter feature returns a sound context.
LEMMA ScatterHooksTyped ==
    ASSUME NEW d \in Definition, NEW c \in SoundContext, NEW total \in Nat
    PROVE  /\ ScatterBeforeSpin(d, c) \in SoundContext
           /\ ScatterBeforeSpin(d, c).eval = c.eval
           /\ ScatterBeforeSpin(d, c).isFreeSpin = c.isFreeSpin
           /\ ScatterAfterEvaluation(d, c, total) \in SoundContext
           /\ ScatterAfterEvaluation(d, c, total).eval = c.eval
           /\ ScatterAfterEvaluation(d, c, total).isFreeSpin = c.isFreeSpin
  <1>1. d.freeReels # "" => d.freeReels \in ReelSetNames
    BY DefinitionTyped
  <1>2. c.eval.award \in Int /\ d.maxSpins \in Nat
    BY DefinitionTyped DEF SoundContext, Context, Evaluation
  <1>3. /\ RetriggerAward(d, c, total) \in Int
        /\ AtMost(c.eval.award, d.maxSpins) \in Int
    BY <1>2 DEF RetriggerAward, AtMost
  <1>4. ASSUME NEW e \in SoundContext, NEW r \in ReelSetNames
        PROVE  /\ SelectReelSet(e, r) \in SoundContext
               /\ SelectReelSet(e, r).eval = e.eval
               /\ SelectReelSet(e, r).isFreeSpin = e.isFreeSpin
    BY DEF SelectReelSet, SoundContext, Context
  <1>5. ASSUME NEW n \in Int
        PROVE  /\ AwardFreeSpins(c, n) \in SoundContext
               /\ AwardFreeSpins(c, n).eval = c.eval
               /\ AwardFreeSpins(c, n).isFreeSpin = c.isFreeSpin
               /\ RetriggerFreeSpins(c, n) \in SoundContext
               /\ RetriggerFreeSpins(c, n).eval = c.eval
               /\ RetriggerFreeSpins(c, n).isFreeSpin = c.isFreeSpin
    BY DEF AwardFreeSpins, RetriggerFreeSpins, SoundContext, Context
  <1>6. /\ ScatterBeforeSpin(d, c) \in SoundContext
        /\ ScatterBeforeSpin(d, c).eval = c.eval
        /\ ScatterBeforeSpin(d, c).isFreeSpin = c.isFreeSpin
    BY <1>1, <1>4 DEF ScatterBeforeSpin
  <1> DEFINE a == AwardFreeSpins(c, AtMost(c.eval.award, d.maxSpins))
             b == RetriggerFreeSpins(c, RetriggerAward(d, c, total))
  <1>7. /\ a \in SoundContext /\ a.eval = c.eval /\ a.isFreeSpin = c.isFreeSpin
        /\ b \in SoundContext /\ b.eval = c.eval /\ b.isFreeSpin = c.isFreeSpin
    BY <1>3, <1>5
  <1> HIDE DEF a, b
  <1>8. /\ ScatterAfterEvaluation(d, c, total) \in SoundContext
        /\ ScatterAfterEvaluation(d, c, total).eval = c.eval
        /\ ScatterAfterEvaluation(d, c, total).isFreeSpin = c.isFreeSpin
    BY <1>1, <1>4, <1>7 DEF ScatterAfterEvaluation, a, b
  <1> QED BY <1>6, <1>8

\* So does every hook of every built-in feature.
LEMMA BuiltinHookTyped ==
    ASSUME NEW d \in Definition, NEW c \in SoundContext, NEW total \in Nat,
           NEW g \in Multiplier, NEW f, NEW h
    PROVE  SoundOutcome(BuiltinHook(d, f, h, c, total, g), c)
  <1>1. ASSUME NEW e \in SoundContext, e.eval = c.eval,
               e.isFreeSpin = c.isFreeSpin
        PROVE  SoundOutcome(Ok(e, g), c)
    BY <1>1 DEF SoundOutcome, Ok
  <1>2. /\ SoundOutcome(Ok(c, g), c)
        /\ SoundOutcome(Ok(ScatterBeforeSpin(d, c), g), c)
        /\ SoundOutcome(Ok(ScatterAfterEvaluation(d, c, total), g), c)
    BY <1>1, ScatterHooksTyped
  <1>3. CASE f = "cascade" /\ h = "AfterEvaluation"
    BY <1>3, CascadeHooksTyped DEF BuiltinHook
  <1>4. CASE f = "cascade" /\ h = "AfterCascade"
    BY <1>4, CascadeHooksTyped DEF BuiltinHook
  <1>5. CASE f = "scatter_free_spins" /\ h = "BeforeSpin"
    BY <1>2, <1>5 DEF BuiltinHook
  <1>6. CASE f = "scatter_free_spins" /\ h = "AfterEvaluation"
    BY <1>2, <1>6 DEF BuiltinHook
  <1>7. CASE /\ ~(f = "cascade" /\ h \in {"AfterEvaluation", "AfterCascade"})
             /\ ~(f = "scatter_free_spins" /\ h \in {"BeforeSpin", "AfterEvaluation"})
    BY <1>2, <1>7 DEF BuiltinHook
  <1> QED BY <1>3, <1>4, <1>5, <1>6, <1>7

(* A retrigger never takes the total past MaxTotalSpins, an award never       *)
(* starts past it.                                                           *)
THEOREM AwardsWithinLimit ==
    ASSUME NEW d \in Definition, NEW c \in SoundContext, NEW total \in Nat
    PROVE  /\ AtMost(c.eval.award, d.maxSpins) <= d.maxSpins
           /\ total <= d.maxSpins =>
                 total + RetriggerAward(d, c, total) <= d.maxSpins
  <1>1. c.eval.award \in Int /\ d.maxSpins \in Nat
    BY DefinitionTyped DEF SoundContext, Context, Evaluation
  <1> QED BY <1>1 DEF RetriggerAward, AtMost

------------------------------------------------------------------------------
(* Type correctness of SlotSpin: no step of a spin stores a multiplier that *)
(* overflowed, a negative one, or a count below zero.                       *)

\* What the types rest on: the symbol wins of the evaluation at hand are not
\* negative.
TypeInv == TypeOK /\ ctx \in SoundContext

\* A sound context is a context.
LEMMA SoundIsContext == SoundContext \subseteq Context
  BY DEF SoundContext

------------------------------------------------------------------------------
(* The operators the actions are built from.                                 *)

\* What the assumptions say of the games and the evaluations.
LEMMA InputsTyped ==
    ASSUME TypeInv
    PROVE  /\ def \in Definition
           /\ def.cap \in Multiplier
           /\ def.features \in Seq(FeatureNames)
           /\ req.bet \in 1..MaxInt
           /\ 0 \in Multiplier
           /\ Scale \in Multiplier
           /\ Failed \notin Multiplier
  <1>1. def \in Definition /\ req.bet \in Bets
    BY SpinAssumption DEF TypeInv, TypeOK
  <1>2. def.cap \in Multiplier /\ def.features \in Seq(FeatureNames)
    BY <1>1, DefinitionTyped
  <1>3. req.bet \in 1..MaxInt
    BY <1>1, SpinAssumption
  <1>4. 0 \in Multiplier /\ Failed \notin Multiplier
    BY MoneyAssumption DEF Multiplier, Failed
  <1> QED BY <1>1, <1>2, <1>3, <1>4, ScaleTyped

\* An evaluation is well typed.
LEMMA EvaluationsTyped ==
    ASSUME NEW ev \in Evaluations
    PROVE  /\ ev \in Evaluation
           /\ ev.scatter <= ev.total
           /\ ev.scatter \in Multiplier
           /\ ev.award \in Int
           /\ Ways(ev) \in Multiplier
  <1>1. ev \in Evaluation /\ ev.scatter <= ev.total
    BY EvaluationAssumption
  <1>2. /\ ev.total \in 0..MaxInt /\ ev.scatter \in 0..MaxInt
        /\ ev.award \in Int
    BY <1>1 DEF Evaluation, Multiplier
  <1> QED BY <1>1, <1>2, MoneyAssumption DEF Ways, Multiplier

\* Adding multipliers gives one, or an overflow, which stays one.
LEMMA PlusTyped ==
    ASSUME NEW a \in Checked, NEW b \in Checked
    PROVE  /\ Plus(a, b) \in Checked
           /\ Plus(a, b) # Failed => Plus(a, b) \in Multiplier
           /\ a = Failed \/ b = Failed => Plus(a, b) = Failed
  BY AddIsExact DEF Plus, Checked

\* Clamping to the cap stays within the integers.
LEMMA ClampTyped ==
    ASSUME TypeInv, NEW m \in Checked
    PROVE  /\ Clamp(m) \in Checked
           /\ m \in Multiplier => Clamp(m) \in Multiplier
           /\ m = Failed => Clamp(m) = Failed
  <1>1. def.cap \in 0..MaxInt
    BY InputsTyped DEF Multiplier
  <1> QED BY <1>1, MoneyAssumption
          DEF Clamp, CapHit, Checked, Multiplier, Failed

\* The sums of a spin are multipliers, or overflows.
LEMMA SumsTyped ==
    ASSUME TypeInv
    PROVE  /\ win.base \in Multiplier
           /\ win.feature \in Multiplier
           /\ win.round \in Multiplier
           /\ BaseTotal \in Multiplier
           /\ RoundTotal \in Checked
           /\ CascadePays \in Checked
           /\ FreeWays \in Checked
           /\ ctx.eval.scatter \in Multiplier
           /\ Ways(ctx.eval) \in Multiplier
  <1>1. win.base \in Multiplier /\ win.feature \in Multiplier /\ win.round \in Multiplier
    BY DEF TypeInv, TypeOK, Sums
  <1>2. RoundTotal \in Checked
    <2>1. Plus(win.base, win.feature) \in Checked
      BY <1>1, PlusTyped DEF Checked
    <2> QED BY <1>1, <2>1, PlusTyped DEF RoundTotal, Checked
  <1>3. ctx \in SoundContext /\ Ways(ctx.eval) \in Multiplier
    BY WaysTyped DEF TypeInv
  <1>4. ctx.cascadeMult \in Multiplier /\ ctx.eval.scatter \in Multiplier
    BY <1>3 DEF SoundContext, Context, Evaluation
  <1>5. CascadePays \in Checked
    BY <1>3, <1>4, ScaleTyped, MulIsFloor DEF CascadePays
  <1>6. free.global \in Multiplier
    BY DEF TypeInv, TypeOK, FreeSpinState
  <1>7. FreeWays \in Checked
    BY <1>3, <1>6, MulIsFloor DEF FreeWays, Checked
  <1> QED BY <1>1, <1>2, <1>3, <1>4, <1>5, <1>7 DEF BaseTotal

\* Every kind of event that is emitted is one of the event kinds.
LEMMA KindsTyped ==
    /\ \A ev : WinKinds(ev) \subseteq EventKinds
    /\ \A ev : ScatterKinds(ev) \subseteq EventKinds
    /\ \A hit : CapKinds(hit) \subseteq EventKinds
    /\ RetriggerKinds \subseteq EventKinds
    /\ {"grid_reveal", "removal", "cascade", "free_spin_trigger", "complete"}
          \subseteq EventKinds
  BY DEF WinKinds, ScatterKinds, CapKinds, RetriggerKinds, EventKinds

\* Emitting and recording leave a log.
LEMMA LogTyped ==
    ASSUME NEW l \in Logs
    PROVE  /\ \A kinds \in SUBSET EventKinds : Emitted(l, kinds) \in Logs
           /\ \A ev : ev.award \in Int => Recorded(l, ev) \in Logs
  BY DEF Logs, Emitted, Recorded

\* What Spin does to the context leaves it sound.
LEMMA ContextTyped ==
    ASSUME NEW c \in SoundContext
    PROVE  /\ \A ev \in Evaluations : [c EXCEPT !.eval = ev] \in SoundContext
           /\ [c EXCEPT !.cascadeIndex = @ + 1] \in SoundContext
           /\ [c EXCEPT !.cascadeIndex = 0] \in SoundContext
           /\ [c EXCEPT !.isFreeSpin = TRUE, !.awardSpins = 0] \in SoundContext
           /\ [c EXCEPT !.retriggerSpins = 0] \in SoundContext
           /\ ResetRoundDecisions(c) \in SoundContext
           /\ c.reelSet \in ReelSetNames
           /\ c.awardSpins \in Nat
           /\ c.retriggerSpins \in Nat
  <1>1. \A ev \in Evaluations : [c EXCEPT !.eval = ev] \in SoundContext
    BY EvaluationsTyped DEF SoundContext, Context
  <1>2. ResetRoundDecisions(c) \in SoundContext
    <2>1. 0 \in Multiplier
      BY MoneyAssumption DEF Multiplier
    <2> QED BY <2>1 DEF ResetRoundDecisions, SoundContext, Context
  <1>3. /\ [c EXCEPT !.cascadeIndex = @ + 1] \in SoundContext
        /\ [c EXCEPT !.cascadeIndex = 0] \in SoundContext
        /\ [c EXCEPT !.retriggerSpins = 0] \in SoundContext
    BY DEF SoundContext, Context
  <1>4. [c EXCEPT !.isFreeSpin = TRUE, !.awardSpins = 0] \in SoundContext
    BY DEF SoundContext, Context
  <1>5. /\ c.reelSet \in ReelSetNames
        /\ c.awardSpins \in Nat
        /\ c.retriggerSpins \in Nat
    BY DEF SoundContext, Context
  <1> QED BY <1>1, <1>2, <1>3, <1>4, <1>5

\* What Spin notes for the history leaves a history.
LEMMA SeenTyped ==
    ASSUME NEW s \in History
    PROVE  /\ \A b \in BOOLEAN : [s EXCEPT !.unpaid = b] \in History
           /\ \A r \in SUBSET ReelSetNames : [s EXCEPT !.reels = r] \in History
           /\ [unpaid |-> FALSE, reels |-> {}] \in History
           /\ \A r \in ReelSetNames :
                 [s EXCEPT !.reels = @ \cup {r}] \in History
  BY DEF History

(* The two ways the history's flag is set.                                   *)
LEMMA UnpaidTyped ==
    ASSUME NEW s \in History
    PROVE  \A ev : [s EXCEPT !.unpaid = Ways(ev) > 0] \in History
  <1> TAKE ev
  <1> DEFINE b == Ways(ev) > 0
  <1>1. b \in BOOLEAN
    OBVIOUS
  <1> HIDE DEF b
  <1>2. [s EXCEPT !.unpaid = b] \in History
    BY <1>1, SeenTyped
  <1> QED BY <1>2 DEF b

\* Noting a granted cascade leaves a history.
LEMMA PaidTyped ==
    ASSUME NEW s \in History
    PROVE  [s EXCEPT !.unpaid = @ /\ ctx.cascadeRequested] \in History
  <1> DEFINE b == s.unpaid /\ ctx.cascadeRequested
  <1>1. b \in BOOLEAN
    OBVIOUS
  <1> HIDE DEF b
  <1>2. [s EXCEPT !.unpaid = b] \in History
    BY <1>1, SeenTyped
  <1> QED BY <1>2 DEF b

\* Every hook Spin calls, and every point it calls it from, is a known one.
LEMMA HooksTyped ==
    /\ \A h \in {"BeforeSpin", "AfterGridGenerated", "BeforeEvaluation",
                "AfterEvaluation", "AfterCascade", "AfterSpin"} : h \in Hooks
    /\ \A p \in {"begin", "generate", "revealed", "evaluate", "decide", "loop",
                "collapse", "refilled", "reevaluate", "again", "close", "enter", "spins",
                "round", "settle", "finish", "done", "failed"} : p \in Points
    /\ \A e \in {"transition", "arithmetic", "feature", "source", "evaluator",
                "event"} :
          e \in Errors
    /\ \A s \in {"SPINNING", "EVALUATING", "CASCADING", "FEATURE_TRIGGER",
                "FREE_SPINS", "SETTLING", "COMPLETED"} : s \in States
  BY DEF Hooks, Points, Errors, States

------------------------------------------------------------------------------
(* One step.                                                                 *)

\* A spin starts well typed.
LEMMA TypeInit == Init => TypeInv
  <1> SUFFICES ASSUME Init PROVE TypeInv
    OBVIOUS
  <1>1. 0 \in Multiplier /\ Scale \in Multiplier
    BY MoneyAssumption DEF Multiplier
  <1>2. ctx \in Context
    BY <1>1 DEF Init, NewContext, NoEvaluation, Context, Evaluation, ReelSetNames
  <1>3. ctx \in SoundContext
    BY <1>2 DEF Init, NewContext, NoEvaluation, SoundContext
  <1>4. free \in FreeSpinState /\ win \in Sums /\ tally \in Counts /\ log \in Logs
    BY <1>1 DEF Init, FreeSpinState, Sums, Counts, Logs
  <1>5. sm \in States /\ pc \in Points /\ err \in Errors /\ result \in Results
    BY DEF Init, States, Points, Errors, Results
  <1>6. pending \in Seq(FeatureNames) /\ seen \in History
    BY DEF Init, History
  <1>7. def \in Definitions /\ req \in [bet : Bets, mode : Modes]
        /\ hook = "none" /\ capReached = FALSE
    BY DEF Init
  <1> QED BY <1>2, <1>3, <1>4, <1>5, <1>6, <1>7 DEF TypeInv, TypeOK

(* An error returns from any point.                                          *)
LEMMA FailTyped ==
    ASSUME TypeInv, NEW reason \in Errors, Fail(reason)
    PROVE  TypeInv'
  BY HooksTyped DEF Fail, inputs, TypeInv, TypeOK

\* Every step of a spin is well typed.
LEMMA TypeNext == TypeInv /\ [Next]_vars => TypeInv'
  <1> SUFFICES ASSUME TypeInv, [Next]_vars PROVE TypeInv'
    OBVIOUS
  <1> USE InputsTyped, HooksTyped DEF TypeInv, TypeOK
  <1>1. CASE RunBuiltin
    <2> DEFINE r == BuiltinHook(def, Head(pending), hook, ctx, free.total,
                                free.global)
    <2>1. SoundOutcome(r, ctx)
      BY BuiltinHookTyped DEF FreeSpinState
    <2>2. CASE r.ok
      <3>1. [free EXCEPT !.global = r.global] \in FreeSpinState
        BY <2>1 DEF SoundOutcome, FreeSpinState
      <3>2. Tail(pending) \in Seq(FeatureNames)
        BY <1>1 DEF RunBuiltin
      <3> HIDE DEF r
      <3> QED BY <1>1, <2>1, <2>2, <3>1, <3>2
              DEF RunBuiltin, r, inputs, SoundOutcome, SoundContext
    <2>3. CASE ~r.ok
      BY <1>1, <2>3, FailTyped DEF RunBuiltin
    <2> QED BY <2>2, <2>3
  <1>2. CASE RunPlugin
    <2>1. ctx' \in SoundContext
      <3>1. PluginSpins \subseteq Int /\ PluginMultipliers \subseteq Multiplier
        BY SpinAssumption
      <3>2. \A m \in PluginMultipliers : RequestCascade(ctx, m) \in SoundContext
        BY <3>1, DecisionsTyped
      <3>3. \A n \in PluginSpins : /\ AwardFreeSpins(ctx, n) \in SoundContext
                                  /\ RetriggerFreeSpins(ctx, n) \in SoundContext
        BY <3>1, DecisionsTyped
      <3>4. \A r \in ReelSetNames : SelectReelSet(ctx, r) \in SoundContext
        BY DecisionsTyped
      <3>5. \A b \in BOOLEAN : Terminate(ctx, b) \in SoundContext
        BY DecisionsTyped
      <3> QED BY <1>2, <3>2, <3>3, <3>4, <3>5 DEF RunPlugin, PluginDecisions
    <2>2. Tail(pending) \in Seq(FeatureNames)
      BY <1>2 DEF RunPlugin
    <2> QED BY <1>2, <2>1, <2>2 DEF RunPlugin, inputs, SoundContext
  <1>3. CASE PluginFails
    BY <1>3, FailTyped DEF PluginFails
  <1>4. CASE Begin
    BY <1>4, FailTyped DEF Begin, Enter, Call, inputs
  <1>5. CASE BaseReveal \/ FreeReveal
    <2>1. Reveal
      BY <1>5 DEF BaseReveal, FreeReveal
    <2>2. Emitted(log, {"grid_reveal"}) \in Logs
      BY LogTyped, KindsTyped
    <2>3. [seen EXCEPT !.reels = {ctx.reelSet}] \in History
      BY ContextTyped, SeenTyped
    <2> QED BY <2>1, <2>2, <2>3, FailTyped DEF Reveal, Enter, Call, inputs
  <1>6. CASE Revealed
    BY <1>6 DEF Revealed, Call, Stay, inputs
  <1>7. CASE BaseEvaluate \/ FreeEvaluate
    <2>1. PICK ev \in Evaluations, kinds \in SUBSET EventKinds :
               Evaluate(ev, kinds)
      BY <1>7, KindsTyped DEF BaseEvaluate, FreeEvaluate
    <2>2. [ctx EXCEPT !.eval = ev] \in SoundContext
      BY ContextTyped
    <2>3. Emitted(log, kinds) \in Logs
      BY LogTyped
    <2>4. [seen EXCEPT !.unpaid = Ways(ev) > 0] \in History
      BY UnpaidTyped
    <2>5. ctx' \in SoundContext /\ log' \in Logs /\ seen' \in History
      BY <2>1, <2>2, <2>3, <2>4 DEF Evaluate
    <2> QED BY <2>1, <2>5 DEF Evaluate, Call, Stay, inputs, SoundContext
  <1>8. CASE BaseDecide
    <2> DEFINE sum == Add(ctx.eval.scatter, Ways(ctx.eval))
    <2>1. sum \in Checked
      BY SumsTyped, AddIsExact
    <2>2. CASE ~ctx.cascadeRequested /\ sum = Failed
      BY <1>8, <2>2, FailTyped DEF BaseDecide
    <2>3. CASE ctx.cascadeRequested \/ sum # Failed
      <3>1. win' \in Sums
        <4> DEFINE b == IF ctx.cascadeRequested THEN ctx.eval.scatter ELSE sum
        <4>1. b \in Multiplier
          BY <2>1, <2>3, SumsTyped DEF Checked
        <4>2. win' = [win EXCEPT !.base = b]
          BY <1>8, <2>3 DEF BaseDecide
        <4> HIDE DEF b
        <4> QED BY <4>1, <4>2 DEF Sums
      <3>2. seen' \in History
        BY <1>8, <2>3, PaidTyped DEF BaseDecide
      <3>3. log' \in Logs
        <4>1. Emitted(log, ScatterKinds(ctx.eval)) \in Logs
          BY KindsTyped, LogTyped
        <4>2. ctx.eval.award \in Int
          BY DEF Context, Evaluation
        <4>3. log' = Recorded(Emitted(log, ScatterKinds(ctx.eval)), ctx.eval)
          BY <1>8, <2>3 DEF BaseDecide
        <4> QED BY <4>1, <4>2, <4>3, LogTyped
      <3> QED BY <1>8, <2>3, <3>1, <3>2, <3>3 DEF BaseDecide, GoTo, Stay, inputs
    <2> QED BY <2>2, <2>3
  <1>9. CASE BaseLoopEnds \/ FreeLoopEnds \/ FreeSpinsEnd
    BY <1>9 DEF BaseLoopEnds, FreeLoopEnds, FreeSpinsEnd, GoTo, Stay, inputs
  <1>10. CASE BaseLoopStops
    <2>1. win' \in Sums
      <3>1. Clamp(win.base) \in Multiplier
        BY SumsTyped, ClampTyped DEF Checked
      <3>2. win' = [win EXCEPT !.base = Clamp(@)]
        BY <1>10 DEF BaseLoopStops
      <3> QED BY <3>1, <3>2 DEF Sums
    <2>2. log' \in Logs
      BY <1>10, KindsTyped, LogTyped DEF BaseLoopStops
    <2>3. capReached' \in BOOLEAN
      BY <1>10 DEF BaseLoopStops
    <2> QED BY <1>10, <2>1, <2>2, <2>3 DEF BaseLoopStops, GoTo, Stay, inputs
  <1>11. CASE FreeLoopStops
    <2>1. log' \in Logs
      BY <1>11, KindsTyped, LogTyped DEF FreeLoopStops
    <2>2. capReached' \in BOOLEAN
      BY <1>11 DEF FreeLoopStops
    <2> QED BY <1>11, <2>1, <2>2 DEF FreeLoopStops, GoTo, Stay, inputs
  <1>12. CASE Refill
    <2>1. tally' \in Counts
      BY <1>12 DEF Refill, Counts
    <2>2. ctx' \in SoundContext /\ seen' \in History
      BY <1>12, ContextTyped, SeenTyped DEF Refill
    <2>3. log' \in Logs
      BY <1>12, KindsTyped, LogTyped DEF Refill
    <2> QED BY <1>12, <2>1, <2>2, <2>3
            DEF Refill, Call, Stay, inputs, SoundContext
  <1>31. ASSUME NEW sums \in Sums, NEW hit \in BOOLEAN, Paid(sums, hit)
         PROVE  TypeInv'
    <2>1. CASE ~("CASCADING" \in LegalTransitions[sm])
      BY <1>31, <2>1, FailTyped DEF Paid, Enter
    <2>2. CASE "CASCADING" \in LegalTransitions[sm]
      <3>1. log' \in Logs
        <4>1. {"removal"} \cup CapKinds(hit) \in SUBSET EventKinds
          BY KindsTyped
        <4> QED BY <1>31, <2>2, <4>1, LogTyped DEF Paid, Enter
      <3>2. seen' \in History
        BY <1>31, <2>2, SeenTyped DEF Paid, Enter
      <3>3. capReached' \in BOOLEAN
        BY <1>31, <2>2 DEF Paid, Enter
      <3> QED BY <1>31, <2>2, <3>1, <3>2, <3>3
              DEF Paid, Enter, GoTo, inputs, SoundContext
    <2> QED BY <2>1, <2>2
  <1>13. CASE BaseCascade
    <2> DEFINE sum == Plus(Clamp(BaseTotal), CascadePays)
    <2>1. sum \in Checked
      BY SumsTyped, ClampTyped, PlusTyped DEF Checked
    <2>2. CASE sum = Failed
      BY <1>13, <2>2, FailTyped DEF BaseCascade
    <2>3. CASE sum # Failed
      <3>1. Clamp(sum) \in Multiplier
        BY <2>1, <2>3, ClampTyped DEF Checked
      <3>2. [win EXCEPT !.base = Clamp(sum)] \in Sums
        BY <3>1, Zenon DEF Sums
      <3>3. Paid([win EXCEPT !.base = Clamp(sum)],
                 CapHit(BaseTotal) \/ CapHit(sum))
        BY <1>13, <2>3 DEF BaseCascade
      <3> DEFINE sums == [win EXCEPT !.base = Clamp(sum)]
                 hit  == CapHit(BaseTotal) \/ CapHit(sum)
      <3>4. sums \in Sums /\ hit \in BOOLEAN /\ Paid(sums, hit)
        BY <3>2, <3>3
      <3> HIDE DEF sums, hit
      <3> QED BY <1>31, <3>4
    <2> QED BY <2>2, <2>3
  <1>14. CASE FreeCascade
    <2> DEFINE sum == Plus(win.round, CascadePays)
    <2>1. sum \in Checked
      BY SumsTyped, PlusTyped DEF Checked
    <2>2. CASE RoundTotal = Failed \/ sum = Failed
      BY <1>14, <2>2, FailTyped DEF FreeCascade
    <2>3. CASE ~(RoundTotal = Failed \/ sum = Failed)
      <3> DEFINE sums == [win EXCEPT !.round = sum]
                 hit  == CapHit(RoundTotal)
      <3>1. sum \in Multiplier
        BY <2>1, <2>3 DEF Checked
      <3>2. sums \in Sums
        <4> HIDE DEF sum
        <4> QED BY <3>1, Zenon DEF Sums
      <3>3. Paid(sums, hit) /\ hit \in BOOLEAN
        BY <1>14, <2>3 DEF FreeCascade, CapHit
      <3> HIDE DEF sums, hit
      <3> QED BY <1>31, <3>2, <3>3
    <2> QED BY <2>2, <2>3
  <1>15. CASE BaseRefilled
    BY <1>15, FailTyped DEF BaseRefilled, GoTo, Stay, Refilled, Enter, Call, inputs
  <1>16. CASE FreeRefilled
    BY <1>16, FailTyped DEF FreeRefilled, Refilled, Enter, Call, inputs
  <1>17. ASSUME NEW ev \in Evaluations, Reevaluated(ev)
         PROVE  /\ ctx' \in SoundContext /\ seen' \in History
                /\ UNCHANGED <<def, req, sm, err, free, capReached, tally, result>>
    <2>1. [ctx EXCEPT !.eval = ev] \in SoundContext
      BY ContextTyped
    <2>2. ResetRoundDecisions([ctx EXCEPT !.eval = ev]) \in SoundContext
      BY <2>1, ContextTyped
    <2> QED BY <1>17, <2>2, UnpaidTyped DEF Reevaluated, Stay, inputs
  <1>18. CASE BaseReevaluate
    <2>1. PICK ev \in Evaluations :
             IF WithScatter(win.base, ev) = Failed
             THEN Fail("arithmetic")
             ELSE /\ Reevaluated(ev) /\ Call("AfterEvaluation", "loop")
                  /\ win' = [win EXCEPT !.base = WithScatter(@, ev)]
                  /\ log' = Recorded(Emitted(log, ScatterKinds(ev) \cup WinKinds(ev)), ev)
      BY <1>18 DEF BaseReevaluate
    <2>2. WithScatter(win.base, ev) \in Checked
      BY SumsTyped, EvaluationsTyped, AddIsExact DEF WithScatter
    <2>3. CASE WithScatter(win.base, ev) = Failed
      BY <2>1, <2>3, FailTyped
    <2>4. CASE WithScatter(win.base, ev) # Failed
      <3>1. win' \in Sums
        BY <2>1, <2>2, <2>4 DEF Sums, Checked
      <3>2. log' \in Logs
        <4>1. Emitted(log, ScatterKinds(ev) \cup WinKinds(ev)) \in Logs
          BY KindsTyped, LogTyped
        <4> QED BY <2>1, <2>4, <4>1, LogTyped, EvaluationsTyped
      <3> QED BY <1>17, <2>1, <2>4, <3>1, <3>2 DEF Call, SoundContext
    <2> QED BY <2>3, <2>4
  <1>19. CASE FreeReevaluate
    <2>1. PICK ev \in Evaluations :
             IF WithScatter(win.round, ev) = Failed
             THEN Fail("arithmetic")
             ELSE /\ Reevaluated(ev) /\ Call("AfterEvaluation", "again")
                  /\ win' = [win EXCEPT !.round = WithScatter(@, ev)]
                  /\ log' = Emitted(log, ScatterKinds(ev) \cup WinKinds(ev))
      BY <1>19 DEF FreeReevaluate
    <2>2. WithScatter(win.round, ev) \in Checked
      BY SumsTyped, EvaluationsTyped, AddIsExact DEF WithScatter
    <2>3. CASE WithScatter(win.round, ev) = Failed
      BY <2>1, <2>3, FailTyped
    <2>4. CASE WithScatter(win.round, ev) # Failed
      <3>1. win' \in Sums
        BY <2>1, <2>2, <2>4 DEF Sums, Checked
      <3>2. log' \in Logs
        BY <2>1, <2>4, KindsTyped, LogTyped
      <3> QED BY <1>17, <2>1, <2>4, <3>1, <3>2 DEF Call, SoundContext
    <2> QED BY <2>3, <2>4
  <1>20. CASE CloseBase
    <2> DEFINE reached == capReached \/ CapHit(win.base)
               opens   == /\ ctx.awardSpins > 0
                          /\ ~(reached /\ EndsAtCap) /\ ~ctx.endSession
    <2>1. CASE opens /\ ~("FEATURE_TRIGGER" \in LegalTransitions[sm])
      BY <1>20, <2>1, FailTyped DEF CloseBase, Enter
    <2>2. CASE ~opens \/ "FEATURE_TRIGGER" \in LegalTransitions[sm]
      <3>1. /\ win' = [win EXCEPT !.base = Clamp(@)]
            /\ capReached' = reached
            /\ seen' = [unpaid |-> FALSE, reels |-> {}]
            /\ UNCHANGED <<inputs, ctx, free, tally, result>>
            /\ log' \in {Emitted(log, {"free_spin_trigger"}), Emitted(log, {})}
            /\ pc' \in {"enter", "settle"} /\ UNCHANGED <<hook, pending, err>>
            /\ sm' \in {sm, "FEATURE_TRIGGER"}
        BY <1>20, <2>2 DEF CloseBase, Enter, GoTo, Stay
      <3>2. win' \in Sums
        <4>1. Clamp(win.base) \in Multiplier
          BY SumsTyped, ClampTyped DEF Checked
        <4> QED BY <3>1, <4>1 DEF Sums
      <3>3. capReached' \in BOOLEAN
        BY <3>1
      <3>4. log' \in Logs
        BY <3>1, KindsTyped, LogTyped
      <3>5. seen' \in History
        BY <3>1, SeenTyped
      <3> HIDE DEF reached
      <3> QED BY <3>1, <3>2, <3>3, <3>4, <3>5 DEF inputs
    <2> QED BY <2>1, <2>2
  <1>21. CASE EnterFreeSpins
    <2>1. [remaining |-> ctx.awardSpins, total |-> ctx.awardSpins,
           global |-> Scale] \in FreeSpinState
      BY ContextTyped DEF FreeSpinState
    <2>2. [ctx EXCEPT !.isFreeSpin = TRUE, !.awardSpins = 0] \in SoundContext
      BY ContextTyped
    <2> QED BY <1>21, <2>1, <2>2, FailTyped
            DEF EnterFreeSpins, Enter, GoTo, inputs, SoundContext
  <1>22. CASE StartFreeSpin
    <2>1. CASE ~("SPINNING" \in LegalTransitions[sm])
      BY <1>22, <2>1, FailTyped DEF StartFreeSpin, Enter
    <2>2. CASE "SPINNING" \in LegalTransitions[sm]
      <3>1. [free EXCEPT !.remaining = @ - 1] \in FreeSpinState
        BY <1>22 DEF StartFreeSpin, NoMoreSpins, FreeSpinState
      <3>2. [tally EXCEPT !.spins = @ + 1] \in Counts
        BY DEF Counts
      <3>3. ResetRoundDecisions([ctx EXCEPT !.cascadeIndex = 0]) \in SoundContext
        <4>1. [ctx EXCEPT !.cascadeIndex = 0] \in SoundContext
          BY ContextTyped
        <4> QED BY <4>1, ContextTyped
      <3> QED BY <1>22, <2>2, <3>1, <3>2, <3>3, SoundIsContext
              DEF StartFreeSpin, Enter, Call, inputs
    <2> QED BY <2>1, <2>2
  <1>23. ASSUME NEW n \in Nat PROVE Retriggered(free, n) \in FreeSpinState
    <2>1. free.remaining + n \in Nat /\ free.total + n \in Nat
      BY DEF FreeSpinState
    <2>2. free \in FreeSpinState
      OBVIOUS
    <2> HIDE DEF TypeInv, TypeOK
    <2> QED BY <2>1, <2>2, Zenon DEF Retriggered, FreeSpinState
  <1>24. CASE FreeDecide
    <2> DEFINE sum == Plus(ctx.eval.scatter, FreeWays)
    <2>1. sum \in Checked
      BY SumsTyped, PlusTyped DEF Checked
    <2>2. CASE FreeWays = Failed \/ (~ctx.cascadeRequested /\ sum = Failed)
      BY <1>24, <2>2, FailTyped DEF FreeDecide
    <2>3. CASE ~(FreeWays = Failed \/ (~ctx.cascadeRequested /\ sum = Failed))
      <3>1. win' \in Sums
        <4> DEFINE b == IF ctx.cascadeRequested THEN ctx.eval.scatter ELSE sum
        <4>1. b \in Multiplier
          BY <2>1, <2>3, SumsTyped DEF Checked
        <4>2. win' = [win EXCEPT !.round = b]
          BY <1>24, <2>3 DEF FreeDecide
        <4> HIDE DEF b
        <4> QED BY <4>1, <4>2 DEF Sums
      <3>2. seen' \in History
        BY <1>24, <2>3, PaidTyped DEF FreeDecide
      <3>3. log' \in Logs
        BY <1>24, <2>3, KindsTyped, LogTyped DEF FreeDecide
      <3>4. free' \in FreeSpinState /\ ctx' \in SoundContext
        BY <1>23, <1>24, <2>3, ContextTyped DEF FreeDecide
      <3> QED BY <1>24, <2>3, <3>1, <3>2, <3>3, <3>4, SoundIsContext
              DEF FreeDecide, GoTo, Stay, inputs
    <2> QED BY <2>2, <2>3
  <1>25. CASE FreeRetrigger
    <2>1. free' \in FreeSpinState /\ ctx' \in SoundContext
      BY <1>23, <1>25, ContextTyped DEF FreeRetrigger
    <2>2. log' \in Logs
      BY <1>25, KindsTyped, LogTyped DEF FreeRetrigger
    <2> QED BY <1>25, <2>1, <2>2, SoundIsContext
            DEF FreeRetrigger, GoTo, Stay, inputs
  <1>26. CASE FreeRoundEnds
    <2> DEFINE feature == Add(win.feature, win.round)
               total   == Plus(win.base, feature)
               hit     == CapHit(total)
               fails   == Settle(req.bet, win.round) = Failed \/ total = Failed
    <2>1. feature \in Checked /\ (feature = Failed => total = Failed)
      BY SumsTyped, AddIsExact, PlusTyped DEF Checked
    <2>2. CASE \/ fails
               \/ /\ ~(hit /\ EndsAtCap)
                  /\ ~("FREE_SPINS" \in LegalTransitions[sm])
      BY <1>26, <2>2, FailTyped DEF FreeRoundEnds, Enter
    <2>3. CASE ~fails /\ ((hit /\ EndsAtCap) \/ "FREE_SPINS" \in LegalTransitions[sm])
      <3>1. /\ win' = [win EXCEPT !.feature = feature, !.round = 0]
            /\ capReached' = (capReached \/ hit)
            /\ log' = Emitted(log, CapKinds(hit))
            /\ seen' = [unpaid |-> FALSE, reels |-> {}]
            /\ UNCHANGED <<inputs, ctx, free, tally, result>>
            /\ pc' \in {"settle", "spins"} /\ UNCHANGED <<hook, pending, err>>
            /\ sm' \in {sm, "FREE_SPINS"}
        BY <1>26, <2>3 DEF FreeRoundEnds, Enter, GoTo, Stay
      <3>2. feature \in Multiplier
        BY <2>1, <2>3 DEF Checked
      <3> HIDE DEF feature, hit
      <3>3. win' \in Sums
        BY <3>1, <3>2 DEF Sums
      <3>4. capReached' \in BOOLEAN
        BY <3>1
      <3>5. log' \in Logs
        BY <3>1, KindsTyped, LogTyped
      <3>6. seen' \in History
        BY <3>1, SeenTyped
      <3> QED BY <3>1, <3>3, <3>4, <3>5, <3>6 DEF inputs
    <2> QED BY <2>2, <2>3
  <1>27. CASE BeginSettle
    BY <1>27, FailTyped DEF BeginSettle, Enter, Call, inputs
  <1>28. CASE Finish
    <2>1. FinalMultiplier \in Checked
      BY SumsTyped, AddIsExact, ClampTyped DEF FinalMultiplier
    <2> DEFINE payout == Settle(req.bet, FinalMultiplier)
    <2>2. CASE \/ FinalMultiplier = Failed \/ payout = Failed
               \/ ~("COMPLETED" \in LegalTransitions[sm])
      BY <1>28, <2>2, FailTyped DEF Finish, Enter
    <2>3. CASE /\ FinalMultiplier # Failed /\ payout # Failed
               /\ "COMPLETED" \in LegalTransitions[sm]
      <3>1. FinalMultiplier \in Multiplier
        BY <2>1, <2>3 DEF Checked
      <3>2. payout \in Multiplier
        BY <2>3, <3>1, SettleIsFloor DEF Checked
      <3>3. result' = [total |-> FinalMultiplier, payout |-> payout]
        BY <1>28, <2>3 DEF Finish, Enter
      <3>4. result' \in Results
        BY <3>1, <3>2, <3>3 DEF Results
      <3>5. log' \in Logs
        BY <1>28, <2>3, KindsTyped, LogTyped DEF Finish, Enter
      <3> QED BY <1>28, <2>3, <3>4, <3>5 DEF Finish, Enter, GoTo, inputs
    <2> QED BY <2>2, <2>3
  <1>29. CASE SourceFails \/ EvaluatorFails \/ PayloadFails
    BY <1>29, FailTyped DEF SourceFails, EvaluatorFails, PayloadFails
  <1>30. CASE Idle \/ UNCHANGED vars
    <2>1. UNCHANGED vars
      BY <1>30 DEF Idle
    <2> QED BY <2>1 DEF vars, inputs, control
  <1> QED
    BY <1>1, <1>2, <1>3, <1>4, <1>5, <1>6, <1>7, <1>8, <1>9, <1>10, <1>11,
       <1>12, <1>13, <1>14, <1>15, <1>16, <1>18, <1>19, <1>20, <1>21, <1>22, <1>24,
       <1>25, <1>26, <1>27, <1>28, <1>29, <1>30 DEF Next

(* For every set of games, evaluations and plugins and every integer width:  *)
(* a spin's state is well-formed; the sums Spin checks for overflow are the  *)
(* only ones that can.                                                       *)
THEOREM SpinTypeCorrect == Spec => []TypeOK
  <1>1. TypeInv => TypeOK
    BY DEF TypeInv
  <1> QED BY TypeInit, TypeNext, <1>1, PTL DEF Spec

------------------------------------------------------------------------------
(* Theorems about SlotSpin for every set of games, evaluations, plugin acts *)
(* and every width of the integers.                                         *)

(* The lifecycle.  The state machine's state is a function of the point      *)
(* Spin is at, up to the points several loops break to.                      *)

Expected ==
    [p \in Points |->
        CASE p = "begin"    -> {"IDLE"}
          [] p = "generate" -> {"SPINNING"}
          [] p \in {"revealed", "evaluate", "decide", "loop", "reevaluate",
                    "again", "round"} -> {"EVALUATING"}
          [] p \in {"collapse", "refilled"} -> {"CASCADING"}
          [] p = "close"    -> {"EVALUATING", "CASCADING"}
          [] p = "enter"    -> {"FEATURE_TRIGGER"}
          [] p = "spins"    -> {"FREE_SPINS"}
          [] p = "settle"   -> {"EVALUATING", "CASCADING", "FREE_SPINS"}
          [] p = "finish"   -> {"SETTLING"}
          [] p = "done"     -> {"COMPLETED"}
          [] p = "failed"   -> States]

LifecycleInv ==
    /\ pc \in Points
    /\ sm \in Expected[pc]
    /\ err # "transition"

(* Every transition Spin asks for, from wherever it may ask for it.          *)
LEMMA TransitionsAllowed ==
    /\ "SPINNING" \in LegalTransitions["IDLE"]
    /\ "SPINNING" \in LegalTransitions["FREE_SPINS"]
    /\ "EVALUATING" \in LegalTransitions["SPINNING"]
    /\ "EVALUATING" \in LegalTransitions["CASCADING"]
    /\ "CASCADING" \in LegalTransitions["EVALUATING"]
    /\ "FEATURE_TRIGGER" \in LegalTransitions["EVALUATING"]
    /\ "FEATURE_TRIGGER" \in LegalTransitions["CASCADING"]
    /\ "FREE_SPINS" \in LegalTransitions["FEATURE_TRIGGER"]
    /\ "FREE_SPINS" \in LegalTransitions["EVALUATING"]
    /\ "SETTLING" \in LegalTransitions["EVALUATING"]
    /\ "SETTLING" \in LegalTransitions["CASCADING"]
    /\ "SETTLING" \in LegalTransitions["FREE_SPINS"]
    /\ "COMPLETED" \in LegalTransitions["SETTLING"]
  BY DEF LegalTransitions, States

(* The states Spin may be in at a point, unfolded.                           *)
LEMMA ExpectedStates ==
    /\ Expected["begin"] = {"IDLE"}
    /\ Expected["generate"] = {"SPINNING"}
    /\ \A p \in {"revealed", "evaluate", "decide", "loop", "reevaluate",
                 "again", "round"} : Expected[p] = {"EVALUATING"}
    /\ \A p \in {"collapse", "refilled"} : Expected[p] = {"CASCADING"}
    /\ Expected["close"] = {"EVALUATING", "CASCADING"}
    /\ Expected["enter"] = {"FEATURE_TRIGGER"}
    /\ Expected["spins"] = {"FREE_SPINS"}
    /\ Expected["settle"] = {"EVALUATING", "CASCADING", "FREE_SPINS"}
    /\ Expected["finish"] = {"SETTLING"}
    /\ Expected["done"] = {"COMPLETED"}
    /\ Expected["failed"] = States
  BY DEF Expected, Points

\* A spin starts idle.
LEMMA LifecycleInit == Init => LifecycleInv
  BY ExpectedStates DEF Init, LifecycleInv, Points

(* Failing for any reason but a refused transition keeps the invariant.      *)
LEMMA FailKeepsLifecycle ==
    ASSUME LifecycleInv, NEW reason, Fail(reason), reason # "transition"
    PROVE  LifecycleInv'
  <1>1. sm \in States
    BY ExpectedStates DEF LifecycleInv, Points, States
  <1> QED BY <1>1, ExpectedStates DEF Fail, LifecycleInv, Points

\* Every step keeps the state machine where Spin expects it.
LEMMA LifecycleNext == LifecycleInv /\ [Next]_vars => LifecycleInv'
  <1> SUFFICES ASSUME LifecycleInv, [Next]_vars PROVE LifecycleInv'
    OBVIOUS
  <1> USE ExpectedStates, TransitionsAllowed DEF LifecycleInv
  <1>1. CASE RunBuiltin
    BY <1>1, FailKeepsLifecycle DEF RunBuiltin
  <1>2. CASE RunPlugin
    BY <1>2 DEF RunPlugin
  <1>3. CASE PluginFails
    BY <1>3, FailKeepsLifecycle DEF PluginFails
  <1>4. CASE Begin
    BY <1>4 DEF Begin, At, Enter, Call, Points
  <1>5. CASE BaseReveal \/ FreeReveal
    BY <1>5 DEF BaseReveal, FreeReveal, Reveal, At, Enter, Call, Points
  <1>6. CASE Revealed
    BY <1>6 DEF Revealed, At, Call, Stay, Points
  <1>7. CASE BaseEvaluate \/ FreeEvaluate
    <2>1. PICK ev, kinds : Evaluate(ev, kinds)
      BY <1>7 DEF BaseEvaluate, FreeEvaluate
    <2> QED BY <2>1 DEF Evaluate, At, Call, Stay, Points
  <1>8. CASE BaseDecide
    BY <1>8, FailKeepsLifecycle DEF BaseDecide, At, GoTo, Stay, Points
  <1>9. CASE BaseLoopEnds \/ BaseLoopStops
    BY <1>9 DEF BaseLoopEnds, BaseLoopStops, At, GoTo, Stay, Points
  <1>10. CASE BaseCascade
    BY <1>10, FailKeepsLifecycle
       DEF BaseCascade, At, Enter, Paid, GoTo, Points
  <1>11. CASE BaseRefilled
    BY <1>11 DEF BaseRefilled, At, GoTo, Stay, Refilled, Enter, Call, Points
  <1>12. CASE BaseReevaluate
    BY <1>12, FailKeepsLifecycle
       DEF BaseReevaluate, At, Reevaluated, Call, Stay, Points
  <1>13. CASE CloseBase
    BY <1>13 DEF CloseBase, At, Enter, GoTo, Stay, Points
  <1>14. CASE EnterFreeSpins
    BY <1>14 DEF EnterFreeSpins, At, Enter, GoTo, Points
  <1>15. CASE FreeSpinsEnd
    BY <1>15 DEF FreeSpinsEnd, At, GoTo, Stay, Points
  <1>16. CASE StartFreeSpin
    BY <1>16 DEF StartFreeSpin, At, Enter, Call, Points
  <1>17. CASE FreeDecide
    BY <1>17, FailKeepsLifecycle DEF FreeDecide, At, GoTo, Stay, Points
  <1>18. CASE FreeLoopEnds \/ FreeLoopStops
    BY <1>18 DEF FreeLoopEnds, FreeLoopStops, At, GoTo, Stay, Points
  <1>19. CASE FreeCascade
    BY <1>19, FailKeepsLifecycle
       DEF FreeCascade, At, Enter, Paid, GoTo, Points
  <1>20. CASE FreeRefilled
    BY <1>20 DEF FreeRefilled, At, Refilled, Enter, Call, Points
  <1>21. CASE FreeReevaluate
    BY <1>21, FailKeepsLifecycle
       DEF FreeReevaluate, At, Reevaluated, Call, Stay, Points
  <1>22. CASE FreeRetrigger
    BY <1>22 DEF FreeRetrigger, At, GoTo, Stay, Points
  <1>23. CASE FreeRoundEnds
    BY <1>23, FailKeepsLifecycle
       DEF FreeRoundEnds, At, Enter, GoTo, Stay, Points
  <1>24. CASE BeginSettle
    BY <1>24 DEF BeginSettle, At, Enter, Call, Points
  <1>25. CASE Finish
    BY <1>25, FailKeepsLifecycle DEF Finish, At, Enter, GoTo, Points
  <1>26. CASE SourceFails \/ EvaluatorFails \/ PayloadFails
    BY <1>26, FailKeepsLifecycle DEF SourceFails, EvaluatorFails, PayloadFails
  <1>27. CASE Idle \/ UNCHANGED vars
    BY <1>27 DEF Idle, vars, control
  <1>28. CASE Refill
    BY <1>28 DEF Refill, At, Call, Stay, Points
  <1> QED
    BY <1>1, <1>2, <1>3, <1>4, <1>5, <1>6, <1>7, <1>8, <1>9, <1>10, <1>11,
       <1>12, <1>13, <1>14, <1>15, <1>16, <1>17, <1>18, <1>19, <1>20, <1>21,
       <1>22, <1>23, <1>24, <1>25, <1>26, <1>27, <1>28 DEF Next

(* Whatever the features do and whichever loop Spin breaks out of, it never  *)
(* asks the state machine for a transition that state.go refuses.            *)
THEOREM LifecycleIsLegal == Spec => []NoIllegalTransition
  <1>1. LifecycleInv => NoIllegalTransition
    BY DEF LifecycleInv, NoIllegalTransition
  <1> QED BY LifecycleInit, LifecycleNext, <1>1, PTL DEF Spec

------------------------------------------------------------------------------
(* Every free spin is accounted for: what was awarded and retriggered is    *)
(* played or left to play, and the built-in features, in either order,      *)
(* never take the total past MaxTotalSpins.                                 *)

Scatter == "scatter_free_spins"

\* No feature occurs twice in what is left of a hook, and none is a plugin.
OncePending ==
    /\ \A i \in DOMAIN pending : pending[i] # "plugin"
    /\ \A i, j \in DOMAIN pending : i # j => pending[i] # pending[j]

ScatterPending == \E i \in DOMAIN pending : pending[i] = Scatter

\* The counters agree; which points belong to the base game, which to the
\* free spins.
Counted ==
    /\ free.remaining + tally.spins = free.total
    /\ ~ctx.isFreeSpin => free.remaining = 0 /\ free.total = 0
    /\ pc \in {"begin", "close", "enter"} => ~ctx.isFreeSpin
    /\ pc \in {"spins", "round", "again"} => ctx.isFreeSpin

\* A retrigger waits only between the hook that records it and the step that
\* adds it, and that hook has not been called on the scatter feature twice.
WithinLimit ==
    /\ OncePending
    /\ ctx.awardSpins <= def.maxSpins \/ ctx.isFreeSpin
    /\ free.total + ctx.retriggerSpins <= def.maxSpins
    /\ ~ctx.isFreeSpin => ctx.retriggerSpins = 0
    /\ ctx.retriggerSpins > 0 =>
          pc = "failed" \/ (pc \in {"decide", "again"} /\ ~ScatterPending)
    /\ pending # <<>> /\ hook = "AfterEvaluation" =>
          pc \in {"decide", "again"} \/ (pc = "loop" /\ ~ctx.isFreeSpin)

AccountInv == Counted /\ (Builtins => WithinLimit)

------------------------------------------------------------------------------
(* What a built-in's hook does to the awards: only the scatter feature's     *)
(* AfterEvaluation touches them, within the limit.                           *)
LEMMA ScatterAwards ==
    ASSUME NEW d \in Definition, NEW c \in SoundContext, NEW total \in Nat,
           c.awardSpins <= d.maxSpins \/ c.isFreeSpin
    PROVE  LET n == ScatterAfterEvaluation(d, c, total) IN
           /\ n.awardSpins <= d.maxSpins \/ c.isFreeSpin
           /\ ~c.isFreeSpin => n.retriggerSpins = c.retriggerSpins
           /\ c.retriggerSpins = 0 /\ total <= d.maxSpins =>
                 total + n.retriggerSpins <= d.maxSpins
  <1>1. /\ c.eval.award \in Int /\ d.maxSpins \in Nat
        /\ c.awardSpins \in Nat /\ c.retriggerSpins \in Nat
    BY DefinitionTyped DEF SoundContext, Context, Evaluation
  <1>2. ASSUME NEW e \in SoundContext, NEW r
        PROVE  /\ SelectReelSet(e, r).awardSpins = e.awardSpins
               /\ SelectReelSet(e, r).retriggerSpins = e.retriggerSpins
    BY DEF SelectReelSet, SoundContext, Context
  <1>3. ASSUME NEW n \in Int
        PROVE  /\ AwardFreeSpins(c, n) \in SoundContext
               /\ AwardFreeSpins(c, n).awardSpins =
                     c.awardSpins + (IF n > 0 THEN n ELSE 0)
               /\ AwardFreeSpins(c, n).retriggerSpins = c.retriggerSpins
               /\ RetriggerFreeSpins(c, n).awardSpins = c.awardSpins
               /\ RetriggerFreeSpins(c, n).retriggerSpins =
                     c.retriggerSpins + (IF n > 0 THEN n ELSE 0)
    BY <1>1 DEF AwardFreeSpins, RetriggerFreeSpins, SoundContext, Context
  <1> DEFINE n == AtMost(c.eval.award, d.maxSpins)
             m == RetriggerAward(d, c, total)
             a == AwardFreeSpins(c, n)
             b == RetriggerFreeSpins(c, m)
  <1>4. n \in Int /\ n <= d.maxSpins
    BY <1>1 DEF AtMost
  <1>5. m \in Int /\ (total <= d.maxSpins => total + m <= d.maxSpins)
    BY <1>1 DEF RetriggerAward, AtMost
  <1> HIDE DEF n, m
  <1>6. /\ a \in SoundContext /\ a.retriggerSpins = c.retriggerSpins
        /\ c.awardSpins = 0 => a.awardSpins <= d.maxSpins
        /\ c.retriggerSpins = 0 /\ total <= d.maxSpins =>
              total + b.retriggerSpins <= d.maxSpins
    <2>1. /\ a \in SoundContext /\ a.retriggerSpins = c.retriggerSpins
          /\ a.awardSpins = c.awardSpins + (IF n > 0 THEN n ELSE 0)
      BY <1>3, <1>4
    <2>2. b.retriggerSpins = c.retriggerSpins + (IF m > 0 THEN m ELSE 0)
      BY <1>3, <1>5
    <2> HIDE DEF a, b
    <2> QED BY <1>1, <1>4, <1>5, <2>1, <2>2
  <1> HIDE DEF a, b
  <1>7. CASE ~d.freeEnabled \/ c.eval.award = 0
    <2>1. ScatterAfterEvaluation(d, c, total) = c
      BY <1>7, Zenon DEF ScatterAfterEvaluation
    <2> QED BY <1>1, <2>1
  <1>8. CASE d.freeEnabled /\ c.eval.award # 0 /\ c.isFreeSpin
    <2>1. ScatterAfterEvaluation(d, c, total) = b
      BY <1>8, Zenon DEF ScatterAfterEvaluation, b, m
    <2> QED BY <1>6, <1>8, <2>1
  <1>9. CASE d.freeEnabled /\ c.eval.award # 0 /\ ~c.isFreeSpin
    <2>1. CASE c.awardSpins > 0
      <3>1. ScatterAfterEvaluation(d, c, total) = c
        BY <1>9, <2>1, Zenon DEF ScatterAfterEvaluation
      <3> QED BY <1>1, <1>9, <3>1
    <2>2. CASE c.awardSpins = 0
      <3>1. \/ ScatterAfterEvaluation(d, c, total) = a
            \/ ScatterAfterEvaluation(d, c, total) = SelectReelSet(a, d.freeReels)
        <4>1. ~(c.awardSpins > 0)
          BY <2>2
        <4> QED BY <1>9, <4>1, Zenon DEF ScatterAfterEvaluation, a, n
      <3>2. /\ SelectReelSet(a, d.freeReels).awardSpins = a.awardSpins
            /\ SelectReelSet(a, d.freeReels).retriggerSpins = a.retriggerSpins
        BY <1>2, <1>6
      <3> QED BY <1>1, <1>6, <1>9, <2>2, <3>1, <3>2
    <2> QED BY <1>1, <2>1, <2>2
  <1> QED BY <1>7, <1>8, <1>9

\* Only the scatter feature awards spins, and only after an evaluation.
LEMMA OtherHooksAwardNothing ==
    ASSUME NEW d \in Definition, NEW c \in SoundContext, NEW total \in Nat,
           NEW g \in Multiplier, NEW f, NEW h,
           ~(f = Scatter /\ h = "AfterEvaluation")
    PROVE  LET n == BuiltinHook(d, f, h, c, total, g).ctx IN
           /\ n.awardSpins = c.awardSpins
           /\ n.retriggerSpins = c.retriggerSpins
  <1>1. ASSUME NEW m
        PROVE  /\ RequestCascade(c, m).awardSpins = c.awardSpins
               /\ RequestCascade(c, m).retriggerSpins = c.retriggerSpins
               /\ SelectReelSet(c, m).awardSpins = c.awardSpins
               /\ SelectReelSet(c, m).retriggerSpins = c.retriggerSpins
    BY DEF RequestCascade, SelectReelSet, SoundContext, Context
  <1>2. CASE f = "cascade" /\ h = "AfterEvaluation"
    BY <1>1, <1>2 DEF BuiltinHook, CascadeAfterEvaluation, Ok, Err
  <1>3. CASE f = "cascade" /\ h = "AfterCascade"
    BY <1>3 DEF BuiltinHook, CascadeAfterCascade, Ok, Err
  <1>4. CASE f = Scatter /\ h = "BeforeSpin"
    BY <1>1, <1>4 DEF BuiltinHook, ScatterBeforeSpin, Ok, Scatter
  <1>5. CASE /\ ~(f = "cascade" /\ h \in {"AfterEvaluation", "AfterCascade"})
             /\ ~(f = Scatter /\ h = "BeforeSpin")
    BY <1>5 DEF BuiltinHook, Ok, Scatter
  <1> QED BY <1>2, <1>3, <1>4, <1>5

(* A built-in game's features may be called in their order, once each.       *)
LEMMA PendingOnce ==
    ASSUME Builtins, pending' = def.features
    PROVE  OncePending'
  BY DEF Builtins, OncePending

\* Calling a hook leaves no second call of it pending.
LEMMA TailOnce ==
    ASSUME TypeInv, OncePending, pending # <<>>, pending' = Tail(pending)
    PROVE  /\ OncePending'
           /\ Head(pending) # "plugin"
           /\ Head(pending) = Scatter => ~ScatterPending'
           /\ ScatterPending' => ScatterPending
           /\ Head(pending) = Scatter => ScatterPending
  <1>1. pending \in Seq(FeatureNames) /\ Len(pending) \in Nat \ {0}
    BY DEF TypeInv, TypeOK
  <1>2. /\ DOMAIN pending' = 1..(Len(pending) - 1)
        /\ \A i \in DOMAIN pending' : pending'[i] = pending[i + 1]
        /\ Head(pending) = pending[1]
        /\ DOMAIN pending = 1..Len(pending)
    BY <1>1
  <1>3. \A i \in DOMAIN pending' : i + 1 \in DOMAIN pending /\ i + 1 # 1
    BY <1>1, <1>2
  <1>4. 1 \in DOMAIN pending
    BY <1>1, <1>2
  <1>5. \A i, j \in DOMAIN pending' : i # j => i + 1 # j + 1
    BY <1>2
  <1> QED BY <1>2, <1>3, <1>4, <1>5 DEF OncePending, ScatterPending
------------------------------------------------------------------------------
(* One step.                                                                 *)

\* A spin starts with nothing awarded.
LEMMA AccountInit == Init => AccountInv
  <1> SUFFICES ASSUME Init PROVE AccountInv
    OBVIOUS
  <1>1. def \in Definition /\ def.maxSpins \in Nat
    BY SpinAssumption, DefinitionTyped DEF Init
  <1> QED BY <1>1
          DEF Init, NewContext, AccountInv, Counted, WithinLimit, OncePending

\* The parts of the state the counters are made of.
accounts == <<def, ctx, free, tally>>

\* An error keeps the counters.
LEMMA FailAccounted ==
    ASSUME TypeInv, AccountInv, NEW reason, Fail(reason)
    PROVE  AccountInv'
  BY DEF Fail, inputs, TypeInv, TypeOK, AccountInv, Counted, WithinLimit,
         OncePending, Builtins

\* A hook is called at a point that waits for no retrigger.
LEMMA CallAccounted ==
    ASSUME TypeInv, AccountInv, NEW h, NEW p, Call(h, p),
           UNCHANGED <<def, free>>, ctx' \in SoundContext,
           ctx'.isFreeSpin = ctx.isFreeSpin,
           ctx'.awardSpins = ctx.awardSpins,
           ctx'.retriggerSpins = ctx.retriggerSpins,
           tally'.spins = tally.spins,
           pc \notin {"decide", "again", "failed"},
           p \notin {"begin", "close", "enter", "spins", "round"},
           p = "again" => ctx.isFreeSpin,
           h = "AfterEvaluation" =>
              p \in {"decide", "again"} \/ (p = "loop" /\ ~ctx.isFreeSpin)
    PROVE  AccountInv'
  <1>1. Counted'
    BY DEF Call, AccountInv, Counted
  <1>2. ASSUME Builtins' PROVE WithinLimit'
    <2>1. Builtins
      BY <1>2 DEF Builtins
    <2>2. OncePending'
      BY <2>1, PendingOnce DEF Call
    <2>3. ctx.retriggerSpins = 0
      <3>1. ctx.retriggerSpins \in Nat
        BY ContextTyped DEF TypeInv
      <3> QED BY <2>1, <3>1 DEF AccountInv, WithinLimit
    <2>4. WithinLimit /\ ctx'.retriggerSpins = 0 /\ def' = def /\ free' = free
          /\ pc' = p /\ hook' = h
      BY <2>1, <2>3 DEF Call, AccountInv
    <2>5. /\ ctx'.awardSpins <= def'.maxSpins \/ ctx'.isFreeSpin
          /\ free'.total + ctx'.retriggerSpins <= def'.maxSpins
      BY <2>3, <2>4 DEF WithinLimit
    <2>6. ~(ctx'.retriggerSpins > 0)
      BY <2>4
    <2>7. hook' = "AfterEvaluation" =>
             pc' \in {"decide", "again"} \/ (pc' = "loop" /\ ~ctx'.isFreeSpin)
      BY <2>4
    <2> QED BY <2>2, <2>4, <2>5, <2>6, <2>7 DEF WithinLimit
  <1> QED BY <1>1, <1>2 DEF AccountInv

\* Spin goes on without a hook from a point that waits for no retrigger.
LEMMA GoToAccounted ==
    ASSUME TypeInv, AccountInv, NEW p, GoTo(p), pending = <<>>,
           UNCHANGED accounts,
           pc \notin {"decide", "again", "failed"} \/ ~ctx.isFreeSpin,
           p \in {"begin", "close", "enter"} => ~ctx.isFreeSpin,
           p \in {"spins", "round", "again"} => ctx.isFreeSpin,
           pc # "failed"
    PROVE  AccountInv'
  <1>1. Counted'
    BY DEF GoTo, accounts, AccountInv, Counted
  <1>2. ASSUME Builtins' PROVE WithinLimit'
    <2>1. Builtins /\ ctx.retriggerSpins \in Nat
      BY <1>2, ContextTyped DEF Builtins, accounts, TypeInv
    <2>2. ctx.retriggerSpins = 0
      BY <2>1 DEF AccountInv, WithinLimit
    <2> QED BY <2>1, <2>2
            DEF GoTo, accounts, AccountInv, WithinLimit, OncePending
  <1> QED BY <1>1, <1>2 DEF AccountInv

\* A hook of the built-in features keeps the spins accounted for.
LEMMA BuiltinAccounted ==
    ASSUME TypeInv, AccountInv, RunBuiltin
    PROVE  AccountInv'
  <1> DEFINE r == BuiltinHook(def, Head(pending), hook, ctx, free.total,
                              free.global)
  <1>1. CASE ~r.ok
    BY <1>1, FailAccounted DEF RunBuiltin
  <1>2. CASE r.ok
    <2>1. /\ ctx' = r.ctx /\ free' = [free EXCEPT !.global = r.global]
          /\ pending' = Tail(pending) /\ pending # <<>>
          /\ UNCHANGED <<def, pc, hook, tally>>
      BY <1>2 DEF RunBuiltin, inputs
    <2>2. /\ def \in Definition /\ ctx \in SoundContext
          /\ free.total \in Nat /\ free.global \in Multiplier
          /\ free'.total = free.total /\ free'.remaining = free.remaining
          /\ ctx.retriggerSpins \in Nat /\ def.maxSpins \in Nat
      BY <2>1, InputsTyped, ContextTyped, DefinitionTyped
         DEF TypeInv, TypeOK, FreeSpinState
    <2>3. ctx' \in SoundContext /\ ctx'.isFreeSpin = ctx.isFreeSpin
      BY <2>1, <2>2, BuiltinHookTyped DEF SoundOutcome
    <2>4. Counted'
      BY <2>1, <2>2, <2>3 DEF AccountInv, Counted
    <2>5. ASSUME Builtins' PROVE WithinLimit'
      <3>1. WithinLimit
        BY <2>1, <2>5 DEF Builtins, AccountInv
      <3>2. /\ OncePending' /\ (ScatterPending' => ScatterPending)
            /\ Head(pending) = Scatter => ScatterPending /\ ~ScatterPending'
        BY <2>1, <3>1, TailOnce DEF WithinLimit
      <3>3. CASE ~(Head(pending) = Scatter /\ hook = "AfterEvaluation")
        <4>1. /\ ctx'.awardSpins = ctx.awardSpins
              /\ ctx'.retriggerSpins = ctx.retriggerSpins
          BY <2>1, <2>2, <3>3, OtherHooksAwardNothing
        <4> HIDE DEF r
        <4>2. pending' # <<>> => pending # <<>>
          BY <2>1
        <4> QED BY <2>1, <2>2, <2>3, <3>1, <3>2, <4>1 DEF WithinLimit
      <3>4. CASE Head(pending) = Scatter /\ hook = "AfterEvaluation"
        <4>1. ctx' = ScatterAfterEvaluation(def, ctx, free.total)
          BY <2>1, <3>4, Zenon DEF BuiltinHook, Ok, Scatter
        <4> HIDE DEF r
        <4>2. ctx.retriggerSpins = 0 \/ pc = "failed"
          BY <2>2, <3>1, <3>2, <3>4 DEF WithinLimit
        <4>3. pc \in {"decide", "again"} \/ (pc = "loop" /\ ~ctx.isFreeSpin)
          BY <2>1, <3>1, <3>4 DEF WithinLimit
        <4>4. ctx.retriggerSpins = 0
          BY <4>2, <4>3
        <4>5. free.total <= def.maxSpins
          BY <2>2, <3>1, <4>4 DEF WithinLimit
        <4>6. /\ ctx'.awardSpins <= def.maxSpins \/ ctx.isFreeSpin
              /\ ~ctx.isFreeSpin => ctx'.retriggerSpins = ctx.retriggerSpins
              /\ free.total + ctx'.retriggerSpins <= def.maxSpins
          BY <2>2, <3>1, <4>1, <4>4, <4>5, ScatterAwards DEF WithinLimit
        <4> QED BY <2>1, <2>2, <2>3, <3>1, <3>2, <3>4, <4>3, <4>4, <4>6
                DEF WithinLimit
      <3> QED BY <3>3, <3>4
    <2> QED BY <2>4, <2>5 DEF AccountInv
  <1> QED BY <1>1, <1>2
(* The context's records, one decision at a time.                            *)
LEMMA ContextKeepsAwards ==
    ASSUME NEW c \in SoundContext
    PROVE  /\ \A ev : LET n == [c EXCEPT !.eval = ev] IN
                 /\ n.isFreeSpin = c.isFreeSpin
                 /\ n.awardSpins = c.awardSpins
                 /\ n.retriggerSpins = c.retriggerSpins
           /\ \A k : LET n == [c EXCEPT !.cascadeIndex = k] IN
                 /\ n.isFreeSpin = c.isFreeSpin
                 /\ n.awardSpins = c.awardSpins
                 /\ n.retriggerSpins = c.retriggerSpins
           /\ ResetRoundDecisions(c).isFreeSpin = c.isFreeSpin
           /\ ResetRoundDecisions(c).awardSpins = c.awardSpins
           /\ ResetRoundDecisions(c).retriggerSpins = c.retriggerSpins
  BY DEF ResetRoundDecisions, SoundContext, Context

(* A retrigger moves from the context to the counters.                       *)
LEMMA RetriggerAccounted ==
    ASSUME TypeInv, AccountInv, ctx.isFreeSpin, pc \in {"decide", "again"},
           pending = <<>>, NEW p, GoTo(p), p \in {"loop", "round"},
           free' = Retriggered(free, ctx.retriggerSpins),
           ctx' = [ctx EXCEPT !.retriggerSpins = 0],
           UNCHANGED <<def, tally>>
    PROVE  AccountInv'
  <1>1. /\ ctx.retriggerSpins \in Nat /\ ctx \in SoundContext
        /\ free.total \in Nat /\ free.remaining \in Nat
        /\ tally.spins \in Nat /\ def.maxSpins \in Nat
    <2>1. ctx \in SoundContext /\ free \in FreeSpinState /\ tally \in Counts
      BY DEF TypeInv, TypeOK
    <2> QED BY <2>1, InputsTyped, ContextTyped, DefinitionTyped
            DEF FreeSpinState, Counts
  <1>2. /\ free'.total = free.total + ctx.retriggerSpins
        /\ free'.remaining = free.remaining + ctx.retriggerSpins
    BY DEF Retriggered, TypeInv, TypeOK, FreeSpinState
  <1>3. ctx'.retriggerSpins = 0 /\ ctx'.isFreeSpin
    BY <1>1 DEF SoundContext, Context
  <1>4. Counted'
    BY <1>1, <1>2, <1>3 DEF GoTo, AccountInv, Counted
  <1>5. ASSUME Builtins' PROVE WithinLimit'
    <2>1. WithinLimit
      BY <1>5 DEF Builtins, AccountInv
    <2> QED BY <1>1, <1>2, <1>3, <2>1 DEF GoTo, WithinLimit, OncePending
  <1> QED BY <1>4, <1>5 DEF AccountInv

\* Every step keeps the spins accounted for.
LEMMA AccountNext == TypeInv /\ AccountInv /\ [Next]_vars => AccountInv'
  <1> SUFFICES ASSUME TypeInv, AccountInv, [Next]_vars PROVE AccountInv'
    OBVIOUS
  <1>0. /\ ctx \in SoundContext
        /\ pc \in {"begin", "close", "enter"} => ~ctx.isFreeSpin
        /\ pc \in {"spins", "round", "again"} => ctx.isFreeSpin
    BY DEF TypeInv, AccountInv, Counted
  <1>1. CASE RunBuiltin
    BY <1>1, BuiltinAccounted
  <1>2. CASE RunPlugin
    <2>1. ~Builtins
      <3>1. pending # <<>> /\ Head(pending) = "plugin"
        BY <1>2 DEF RunPlugin
      <3>2. pending \in Seq(FeatureNames) /\ 1 \in DOMAIN pending
        BY <3>1 DEF TypeInv, TypeOK
      <3> QED BY <3>1, <3>2 DEF AccountInv, WithinLimit, OncePending
    <2>2. ctx'.isFreeSpin = ctx.isFreeSpin
      BY <1>0, <1>2
         DEF RunPlugin, PluginDecisions, RequestCascade, AwardFreeSpins,
             RetriggerFreeSpins, SelectReelSet, Terminate, SoundContext, Context
    <2> QED BY <1>2, <2>1, <2>2
            DEF RunPlugin, inputs, AccountInv, Counted, Builtins
  <1>3. CASE PluginFails
    BY <1>3, FailAccounted DEF PluginFails
  <1>4. CASE Begin
    BY <1>0, <1>4, FailAccounted, CallAccounted
       DEF Begin, At, Enter, inputs
  <1>5. CASE BaseReveal \/ FreeReveal
    BY <1>0, <1>5, FailAccounted, CallAccounted
       DEF BaseReveal, FreeReveal, Reveal, At, Enter, inputs
  <1>6. CASE Revealed
    BY <1>0, <1>6, CallAccounted DEF Revealed, At, inputs
  <1>7. CASE BaseEvaluate \/ FreeEvaluate
    <2>1. PICK ev \in Evaluations : \E kinds : Evaluate(ev, kinds)
      BY <1>7 DEF BaseEvaluate, FreeEvaluate
    <2>2. PICK kinds : Evaluate(ev, kinds)
      BY <2>1
    <2>3. [ctx EXCEPT !.eval = ev] \in SoundContext
      BY <1>0, ContextTyped
    <2> QED BY <1>0, <2>2, <2>3, CallAccounted, ContextKeepsAwards
            DEF Evaluate, At, inputs
  <1>8. CASE BaseDecide
    BY <1>0, <1>8, FailAccounted, GoToAccounted
       DEF BaseDecide, At, inputs, accounts
  <1>9. CASE BaseLoopEnds \/ BaseLoopStops
    BY <1>9, GoToAccounted
       DEF BaseLoopEnds, BaseLoopStops, At, inputs, accounts
  <1>10. CASE FreeLoopEnds \/ FreeLoopStops
    BY <1>10, GoToAccounted
       DEF FreeLoopEnds, FreeLoopStops, At, inputs, accounts
  <1>11. CASE BaseCascade \/ FreeCascade
    BY <1>11, FailAccounted, GoToAccounted
       DEF BaseCascade, FreeCascade, At, Paid, Enter, inputs, accounts
  <1>26. CASE Refill
    <2>1. [ctx EXCEPT !.cascadeIndex = @ + 1] \in SoundContext
      BY <1>0, ContextTyped
    <2>2. tally'.spins = tally.spins
      BY <1>26 DEF Refill, TypeInv, TypeOK, Counts
    <2> QED BY <1>0, <1>26, <2>1, <2>2, CallAccounted, ContextKeepsAwards
            DEF Refill, At, inputs
  <1>12. CASE BaseRefilled
    BY <1>0, <1>12, FailAccounted, CallAccounted, GoToAccounted
       DEF BaseRefilled, At, Refilled, Enter, inputs, accounts
  <1>13. CASE FreeRefilled
    BY <1>0, <1>13, FailAccounted, CallAccounted
       DEF FreeRefilled, At, Refilled, Enter, inputs
  <1>14. CASE BaseReevaluate \/ FreeReevaluate
    <2>1. CASE Fail("arithmetic")
      BY <2>1, FailAccounted
    <2>2. CASE ~Fail("arithmetic")
      <3>1. PICK ev \in Evaluations :
               /\ pc = "reevaluate" /\ Reevaluated(ev)
               /\ \/ ~ctx.isFreeSpin /\ Call("AfterEvaluation", "loop")
                  \/ ctx.isFreeSpin /\ Call("AfterEvaluation", "again")
        BY <1>14, <2>2 DEF BaseReevaluate, FreeReevaluate, At
      <3>2. [ctx EXCEPT !.eval = ev] \in SoundContext
        BY <1>0, ContextTyped
      <3>3. /\ ctx' \in SoundContext
            /\ ctx'.isFreeSpin = ctx.isFreeSpin
            /\ ctx'.awardSpins = ctx.awardSpins
            /\ ctx'.retriggerSpins = ctx.retriggerSpins
        <4> DEFINE c == [ctx EXCEPT !.eval = ev]
        <4>1. ctx' = ResetRoundDecisions(c)
          BY <3>1 DEF Reevaluated
        <4>2. /\ c.isFreeSpin = ctx.isFreeSpin
              /\ c.awardSpins = ctx.awardSpins
              /\ c.retriggerSpins = ctx.retriggerSpins
          BY <1>0, ContextKeepsAwards
        <4>3. c \in SoundContext
          BY <3>2
        <4> HIDE DEF c
        <4> QED BY <4>1, <4>2, <4>3, ContextTyped, ContextKeepsAwards
      <3> QED BY <3>1, <3>3, CallAccounted DEF Reevaluated, inputs
    <2> QED BY <2>1, <2>2
  <1>15. CASE CloseBase
    BY <1>0, <1>15, FailAccounted, GoToAccounted
       DEF CloseBase, At, Enter, inputs, accounts
  <1>16. CASE EnterFreeSpins
    <2>1. CASE Fail("transition")
      BY <2>1, FailAccounted
    <2>2. CASE ~Fail("transition")
      <3>1. /\ pc = "enter" /\ pc' = "spins" /\ pending = <<>>
            /\ UNCHANGED <<def, hook, pending, tally>>
            /\ free' = [remaining |-> ctx.awardSpins, total |-> ctx.awardSpins,
                        global |-> Scale]
            /\ ctx' = [ctx EXCEPT !.isFreeSpin = TRUE, !.awardSpins = 0]
        BY <1>16, <2>2 DEF EnterFreeSpins, At, Enter, GoTo, inputs
      <3>2. /\ ctx'.isFreeSpin /\ ctx'.awardSpins = 0
            /\ ctx'.retriggerSpins = ctx.retriggerSpins
            /\ ctx.awardSpins \in Nat /\ ctx.retriggerSpins \in Nat
        BY <1>0, <3>1 DEF SoundContext, Context
      <3>3. tally.spins = 0
        <4>1. free.remaining + tally.spins = 0 /\ free.remaining = 0
          BY <1>0, <3>1 DEF AccountInv, Counted
        <4>2. tally.spins \in Nat
          BY DEF TypeInv, TypeOK, Counts
        <4> QED BY <4>1, <4>2
      <3>4. Counted'
        BY <3>1, <3>2, <3>3 DEF Counted
      <3>5. ASSUME Builtins' PROVE WithinLimit'
        <4>1. WithinLimit /\ ctx.retriggerSpins = 0 /\ ctx.awardSpins <= def.maxSpins
          BY <1>0, <3>1, <3>5 DEF Builtins, AccountInv, WithinLimit
        <4> QED BY <3>1, <3>2, <4>1 DEF WithinLimit, OncePending
      <3> QED BY <3>4, <3>5 DEF AccountInv
    <2> QED BY <2>1, <2>2
  <1>17. CASE FreeSpinsEnd
    BY <1>0, <1>17, GoToAccounted
       DEF FreeSpinsEnd, At, inputs, accounts
  <1>18. CASE StartFreeSpin
    <2>1. CASE Fail("transition")
      BY <2>1, FailAccounted
    <2>2. CASE ~Fail("transition")
      <3>1. /\ pc = "spins" /\ Call("BeforeSpin", "generate")
            /\ free' = [free EXCEPT !.remaining = @ - 1]
            /\ tally' = [tally EXCEPT !.spins = @ + 1]
            /\ ctx' = ResetRoundDecisions([ctx EXCEPT !.cascadeIndex = 0])
            /\ def' = def /\ free.remaining # 0
        BY <1>18, <2>2
           DEF StartFreeSpin, NoMoreSpins, At, Enter, inputs
      <3>2. /\ ctx'.isFreeSpin = ctx.isFreeSpin /\ ctx.isFreeSpin
            /\ ctx'.awardSpins = ctx.awardSpins
            /\ ctx'.retriggerSpins = ctx.retriggerSpins
        <4> DEFINE c == [ctx EXCEPT !.cascadeIndex = 0]
        <4>1. /\ c.isFreeSpin = ctx.isFreeSpin
              /\ c.awardSpins = ctx.awardSpins
              /\ c.retriggerSpins = ctx.retriggerSpins
          BY <1>0, ContextKeepsAwards
        <4>2. c \in SoundContext
          BY <1>0, ContextTyped
        <4>3. ctx' = ResetRoundDecisions(c)
          BY <3>1
        <4> HIDE DEF c
        <4> QED BY <1>0, <3>1, <4>1, <4>2, <4>3, ContextKeepsAwards
      <3>3. /\ free'.remaining = free.remaining - 1
            /\ free'.total = free.total
            /\ tally'.spins = tally.spins + 1
            /\ free.remaining \in Nat /\ tally.spins \in Nat
        BY <3>1 DEF TypeInv, TypeOK, FreeSpinState, Counts
      <3>4. Counted'
        <4>1. free.remaining + tally.spins = free.total
          BY DEF AccountInv, Counted
        <4>2. free'.remaining + tally'.spins = free'.total
          BY <3>3, <4>1
        <4>3. pc' = "generate" /\ ctx'.isFreeSpin
          BY <3>1, <3>2 DEF Call
        <4> QED BY <4>2, <4>3 DEF Counted
      <3>5. ASSUME Builtins' PROVE WithinLimit'
        <4>1. Builtins /\ WithinLimit
          BY <3>1, <3>5 DEF Builtins, AccountInv
        <4>2. OncePending'
          BY <3>1, <4>1, PendingOnce DEF Call
        <4>3. ~(ctx.retriggerSpins > 0)
          BY <3>1, <4>1 DEF WithinLimit
        <4> QED BY <3>1, <3>2, <3>3, <4>1, <4>2, <4>3 DEF Call, WithinLimit
      <3> QED BY <3>4, <3>5 DEF AccountInv
    <2> QED BY <2>1, <2>2
  <1>19. CASE FreeDecide
    BY <1>19, FailAccounted, RetriggerAccounted DEF FreeDecide, At, inputs
  <1>20. CASE FreeRetrigger
    BY <1>0, <1>20, RetriggerAccounted DEF FreeRetrigger, At, inputs
  <1>21. CASE FreeRoundEnds
    BY <1>0, <1>21, FailAccounted, GoToAccounted
       DEF FreeRoundEnds, At, Enter, inputs, accounts
  <1>22. CASE BeginSettle
    BY <1>0, <1>22, FailAccounted, CallAccounted
       DEF BeginSettle, At, Enter, inputs
  <1>23. CASE Finish
    BY <1>23, FailAccounted, GoToAccounted
       DEF Finish, At, Enter, inputs, accounts
  <1>24. CASE SourceFails \/ EvaluatorFails \/ PayloadFails
    BY <1>24, FailAccounted DEF SourceFails, EvaluatorFails, PayloadFails
  <1>25. CASE Idle \/ UNCHANGED vars
    <2>1. UNCHANGED vars
      BY <1>25 DEF Idle
    <2> QED BY <2>1
            DEF vars, inputs, control, AccountInv, Counted, WithinLimit,
                OncePending, ScatterPending, Builtins
  <1> QED
    BY <1>1, <1>2, <1>3, <1>4, <1>5, <1>6, <1>7, <1>8, <1>9, <1>10, <1>11,
       <1>12, <1>13, <1>14, <1>15, <1>16, <1>17, <1>18, <1>19, <1>20, <1>21,
       <1>22, <1>23, <1>24, <1>25, <1>26 DEF Next

(* Spins awarded are spins played or left, with any features; with the       *)
(* built-in ones, in any order, the total stays within MaxTotalSpins.        *)
THEOREM SpinsAccountedFor == Spec => []SpinAccounting
  <1>1. TypeInv /\ AccountInv => SpinAccounting
    BY DEF AccountInv, Counted, WithinLimit, SpinAccounting
  <1> QED BY TypeInit, TypeNext, AccountInit, AccountNext, <1>1, PTL DEF Spec

------------------------------------------------------------------------------
(* What a spin wins, and the cap on it.                                     *)

\* The hook each point waits for.
Awaited ==
    [generate   |-> "BeforeSpin",
     revealed   |-> "AfterGridGenerated",
     evaluate   |-> "BeforeEvaluation",
     decide     |-> "AfterEvaluation",
     loop       |-> "AfterEvaluation",
     refilled   |-> "AfterCascade",
     reevaluate |-> "BeforeEvaluation",
     again      |-> "AfterEvaluation",
     finish     |-> "AfterSpin"]

\* Features are called at the points that wait for a hook, on that hook; the
\* free spins' loop waits at "again" instead.
HookInv ==
    pending # <<>> =>
        /\ pc \in DOMAIN Awaited
        /\ hook = Awaited[pc]
        /\ pc = "loop" => ~ctx.isFreeSpin

\* The points before a round's first grid is paid.
Opening == {"generate", "revealed", "evaluate", "decide"}

Closing == {"settle", "finish", "done"}

Total == win.base + win.feature + win.round

\* Which of the three sums is still zero at which point.
SumsInv ==
    /\ ~ctx.isFreeSpin => win.feature = 0 /\ win.round = 0
    /\ ~ctx.isFreeSpin /\ pc \in Opening \cup {"begin"} => win.base = 0
    /\ ctx.isFreeSpin /\ pc \in Opening \cup {"spins"} => win.round = 0
    /\ pc \in Closing => win.round = 0

\* capReached is never set below the cap; and once the base game is closed it
\* is set as soon as the rounds that ended reach the cap.  A round under way
\* may have passed the cap unnoticed.
NoticedInv ==
    /\ capReached => CapHit(Total)
    /\ ctx.isFreeSpin \/ pc \in Closing \cup {"enter"} =>
          /\ def.cap > 0 => win.base <= def.cap
          /\ CapHit(win.base + win.feature) => capReached

\* What CloseBase and Finish leave behind.
OutcomeInv ==
    /\ pc = "enter" => ctx.awardSpins > 0 /\ ~(capReached /\ EndsAtCap)
    /\ pc = "done" => /\ result.total = Due
                      /\ result.payout = (req.bet * Due) \div Scale

WinInv == SumsInv /\ NoticedInv /\ OutcomeInv

------------------------------------------------------------------------------
(* Hooks.                                                                    *)

\* No hook is pending at first.
LEMMA HookInit == Init => HookInv
  BY DEF Init, HookInv

\* Only entering the free spins changes the mode of the context.
LEMMA ContextKeepsMode ==
    ASSUME TypeInv, [Next]_vars, ~EnterFreeSpins
    PROVE  ctx'.isFreeSpin = ctx.isFreeSpin
  <1>0. ctx \in SoundContext
    BY DEF TypeInv
  <1>1. CASE RunBuiltin
    <2> DEFINE r == BuiltinHook(def, Head(pending), hook, ctx, free.total,
                                free.global)
    <2>1. SoundOutcome(r, ctx)
      BY <1>0, InputsTyped, BuiltinHookTyped DEF TypeInv, TypeOK, FreeSpinState
    <2>2. ctx' = r.ctx \/ ctx' = ctx
      BY <1>1 DEF RunBuiltin, Fail
    <2> HIDE DEF r
    <2> QED BY <2>1, <2>2 DEF SoundOutcome
  <1>2. CASE RunPlugin
    BY <1>0, <1>2
       DEF RunPlugin, PluginDecisions, RequestCascade, AwardFreeSpins,
           RetriggerFreeSpins, SelectReelSet, Terminate, SoundContext, Context
  <1>3. CASE UNCHANGED ctx
    BY <1>3
  <1>4. ASSUME NEW ev
        PROVE  /\ [ctx EXCEPT !.eval = ev].isFreeSpin = ctx.isFreeSpin
               /\ ResetRoundDecisions([ctx EXCEPT !.eval = ev]).isFreeSpin
                     = ctx.isFreeSpin
    BY <1>0 DEF ResetRoundDecisions, SoundContext, Context
  <1>5. /\ [ctx EXCEPT !.cascadeIndex = @ + 1].isFreeSpin = ctx.isFreeSpin
        /\ [ctx EXCEPT !.retriggerSpins = 0].isFreeSpin = ctx.isFreeSpin
        /\ ResetRoundDecisions([ctx EXCEPT !.cascadeIndex = 0]).isFreeSpin
              = ctx.isFreeSpin
    BY <1>0 DEF ResetRoundDecisions, SoundContext, Context
  <1>6. CASE BaseEvaluate \/ FreeEvaluate \/ BaseReevaluate \/ FreeReevaluate
    <2>1. PICK ev : \/ ctx' = [ctx EXCEPT !.eval = ev]
                    \/ ctx' = ResetRoundDecisions([ctx EXCEPT !.eval = ev])
                    \/ ctx' = ctx
      <3>1. CASE BaseEvaluate \/ FreeEvaluate
        <4>1. PICK ev, kinds : Evaluate(ev, kinds)
          BY <3>1 DEF BaseEvaluate, FreeEvaluate
        <4> QED BY <4>1 DEF Evaluate
      <3>2. CASE BaseReevaluate \/ FreeReevaluate
        BY <3>2 DEF BaseReevaluate, FreeReevaluate, Reevaluated, Fail
      <3> QED BY <1>6, <3>1, <3>2
    <2>2. /\ [ctx EXCEPT !.eval = ev].isFreeSpin = ctx.isFreeSpin
          /\ ResetRoundDecisions([ctx EXCEPT !.eval = ev]).isFreeSpin
                = ctx.isFreeSpin
      BY <1>4
    <2> QED BY <2>1, <2>2, Zenon
  <1>7. CASE BaseCascade \/ FreeCascade \/ Refill
    BY <1>5, <1>7 DEF BaseCascade, FreeCascade, Paid, Enter, Refill, Fail
  <1>8. CASE StartFreeSpin \/ FreeDecide \/ FreeRetrigger
    BY <1>5, <1>8 DEF StartFreeSpin, FreeDecide, FreeRetrigger, Enter, Fail
  <1>9. CASE \/ PluginFails \/ Begin \/ BaseReveal \/ FreeReveal \/ Revealed
             \/ BaseDecide \/ BaseLoopEnds \/ BaseLoopStops \/ BaseRefilled
             \/ CloseBase \/ FreeSpinsEnd \/ FreeLoopEnds \/ FreeLoopStops
             \/ FreeRefilled \/ FreeRoundEnds \/ BeginSettle \/ Finish
             \/ SourceFails \/ EvaluatorFails \/ PayloadFails
    BY <1>9 DEF PluginFails, Begin, BaseReveal, FreeReveal, Reveal, Revealed,
                BaseDecide, BaseLoopEnds, BaseLoopStops, BaseRefilled, Refilled,
                CloseBase, FreeSpinsEnd, FreeLoopEnds, FreeLoopStops,
                FreeRefilled, FreeRoundEnds, BeginSettle, Finish, SourceFails,
                EvaluatorFails, PayloadFails, Enter, Fail
  <1> QED BY <1>1, <1>2, <1>3, <1>6, <1>7, <1>8, <1>9 DEF Next, Idle, vars

\* Every step keeps the hooks pending those of the point Spin is at.
LEMMA HookNext ==
    TypeInv /\ AccountInv /\ HookInv /\ [Next]_vars => HookInv'
  <1> SUFFICES ASSUME TypeInv, AccountInv, HookInv, [Next]_vars,
                      pending' # <<>>
               PROVE  /\ pc' \in DOMAIN Awaited
                      /\ hook' = Awaited[pc']
                      /\ pc' = "loop" => ~ctx'.isFreeSpin
    BY DEF HookInv
  <1>0. /\ DOMAIN Awaited = {"generate", "revealed", "evaluate", "decide",
               "loop", "refilled", "reevaluate", "again", "finish"}
        /\ Awaited["generate"] = "BeforeSpin"
        /\ Awaited["revealed"] = "AfterGridGenerated"
        /\ Awaited["evaluate"] = "BeforeEvaluation"
        /\ Awaited["decide"] = "AfterEvaluation"
        /\ Awaited["loop"] = "AfterEvaluation"
        /\ Awaited["refilled"] = "AfterCascade"
        /\ Awaited["reevaluate"] = "BeforeEvaluation"
        /\ Awaited["again"] = "AfterEvaluation"
        /\ Awaited["finish"] = "AfterSpin"
    BY DEF Awaited
  <1>1. CASE UNCHANGED <<pending, pc, hook>>
    <2>1. pc # "enter"
      BY <1>0, <1>1 DEF HookInv
    <2>2. ~EnterFreeSpins
      BY <1>1, <2>1 DEF EnterFreeSpins, At, Enter, GoTo, Fail
    <2> QED BY <1>1, <2>2, ContextKeepsMode DEF HookInv
  <1>2. CASE pending # <<>> /\ UNCHANGED <<pc, hook>>
    <2>1. pc # "enter"
      BY <1>0, <1>2 DEF HookInv
    <2>2. ~EnterFreeSpins
      BY <2>1 DEF EnterFreeSpins, At
    <2> QED BY <1>2, <2>2, ContextKeepsMode DEF HookInv
  <1>3. CASE \E h, p : /\ Call(h, p) /\ p \in DOMAIN Awaited /\ h = Awaited[p]
                       /\ p = "loop" => ~ctx'.isFreeSpin
    BY <1>3 DEF Call
  <1>4. CASE pending = <<>> /\ (\E p : GoTo(p))
    BY <1>4 DEF GoTo
  <1>5. CASE \E reason : Fail(reason)
    BY <1>5 DEF Fail
  <1>6. CASE RunBuiltin \/ RunPlugin \/ PluginFails
    BY <1>2, <1>5, <1>6 DEF RunBuiltin, RunPlugin, PluginFails
  <1>7. CASE \/ BaseLoopEnds \/ BaseLoopStops \/ BaseDecide \/ CloseBase
             \/ EnterFreeSpins \/ FreeSpinsEnd \/ FreeDecide \/ FreeLoopEnds
             \/ FreeLoopStops \/ FreeRetrigger \/ FreeRoundEnds \/ Finish
             \/ SourceFails \/ EvaluatorFails \/ PayloadFails
    BY <1>4, <1>5, <1>7
       DEF BaseLoopEnds, BaseLoopStops, BaseDecide, CloseBase, EnterFreeSpins,
           FreeSpinsEnd, FreeDecide, FreeLoopEnds, FreeLoopStops, FreeRetrigger,
           FreeRoundEnds, Finish, SourceFails, EvaluatorFails,
           PayloadFails, At, Enter
  <1>8. CASE \/ Begin \/ BaseReveal \/ FreeReveal \/ Revealed \/ StartFreeSpin
             \/ FreeRefilled \/ BeginSettle
    BY <1>0, <1>3, <1>5, <1>8
       DEF Begin, BaseReveal, FreeReveal, Reveal, Revealed, StartFreeSpin,
           FreeRefilled, Refilled, BeginSettle, Enter
  <1>9. CASE BaseRefilled
    BY <1>0, <1>3, <1>4, <1>5, <1>9 DEF BaseRefilled, At, Refilled, Enter
  <1>10. CASE BaseEvaluate \/ FreeEvaluate
    <2>1. PICK ev, kinds : Evaluate(ev, kinds)
      BY <1>10 DEF BaseEvaluate, FreeEvaluate
    <2> QED BY <1>0, <1>3, <2>1 DEF Evaluate
  <1>11. CASE BaseCascade \/ FreeCascade \/ Refill
    BY <1>0, <1>3, <1>4, <1>5, <1>11
       DEF BaseCascade, FreeCascade, Paid, Enter, Refill, At
  <1>12. CASE BaseReevaluate
    <2>1. ~ctx.isFreeSpin /\ pc # "enter"
      BY <1>12 DEF BaseReevaluate, At
    <2>2. ~ctx'.isFreeSpin
      BY <2>1, ContextKeepsMode DEF EnterFreeSpins, At
    <2> QED BY <1>0, <1>3, <1>5, <1>12, <2>2 DEF BaseReevaluate
  <1>13. CASE FreeReevaluate
    BY <1>0, <1>3, <1>5, <1>13 DEF FreeReevaluate
  <1>14. CASE Idle \/ UNCHANGED vars
    BY <1>1, <1>14 DEF Idle, vars, control
  <1> QED BY <1>6, <1>7, <1>8, <1>9, <1>10, <1>11, <1>12, <1>13, <1>14 DEF Next

------------------------------------------------------------------------------
(* Sums and the cap.                                                         *)

\* CapHit and Clamp are about the game's cap only.
LEMMA ClampIs ==
    ASSUME TypeInv
    PROVE  /\ def.cap \in Nat
           /\ \A m \in Nat :
                 /\ Clamp(m) \in Nat
                 /\ Clamp(m) <= m
                 /\ def.cap > 0 => Clamp(m) <= def.cap
                 /\ CapHit(m) <=> def.cap > 0 /\ m >= def.cap
                 /\ CapHit(m) => Clamp(m) = def.cap
                 /\ ~CapHit(m) => Clamp(m) = m
           /\ \A m, n \in Nat : m <= n => Clamp(m) <= Clamp(n)
  <1>1. def.cap \in Nat
    BY InputsTyped, MoneyAssumption DEF Multiplier
  <1> QED BY <1>1 DEF Clamp, CapHit

\* What is won and due is a natural number.
LEMMA WinTyped ==
    ASSUME TypeInv
    PROVE  /\ win.base \in Nat /\ win.feature \in Nat /\ win.round \in Nat
           /\ Total \in Nat
           /\ Due = Clamp(Total)
           /\ Due \in Nat
  <1>1. /\ win.base \in Multiplier /\ win.feature \in Multiplier
        /\ win.round \in Multiplier
    BY SumsTyped
  <1>2. win.base \in Nat /\ win.feature \in Nat /\ win.round \in Nat
    BY <1>1, MoneyAssumption DEF Multiplier
  <1>3. Total \in Nat /\ Due = Clamp(Total)
    BY <1>2 DEF Total, Due
  <1> QED BY <1>2, <1>3, ClampIs

\* The sums of multipliers, when they do not overflow.
LEMMA PlusIs ==
    ASSUME NEW a \in Checked, NEW b \in Checked, Plus(a, b) # Failed
    PROVE  /\ a \in Nat /\ b \in Nat
           /\ Plus(a, b) = a + b
  BY AddIsExact, MoneyAssumption DEF Plus, Checked, Multiplier

\* Where the sums go, the amount due follows.
LEMMA DueFollows ==
    ASSUME TypeInv, UNCHANGED def,
           NEW t \in Nat, Total' = t,
           Total <= t \/ Clamp(Total) <= Clamp(t)
    PROVE  Due' = Clamp(t) /\ Due <= Due'
  <1>1. Due' = Clamp(t)
    BY DEF Due, Total, Clamp, CapHit
  <1> QED BY <1>1, WinTyped, ClampIs

\* A spin that fails keeps what was won.
LEMMA FailKeepsWin ==
    ASSUME TypeInv, WinInv, NEW reason, Fail(reason)
    PROVE  WinInv' /\ Due <= Due'
  <1>1. UNCHANGED <<def, req, ctx, win, capReached, result>> /\ pc' = "failed"
    BY DEF Fail, inputs
  <1>2. Due' = Due
    BY <1>1 DEF Due, Clamp, CapHit
  <1>3. WinInv'
    BY <1>1 DEF WinInv, SumsInv, NoticedInv, OutcomeInv, Opening, Closing,
                Total, CapHit
  <1> QED BY <1>2, <1>3, WinTyped

\* A step that moves no money, to a point the sums allow.
LEMMA QuietKeepsWin ==
    ASSUME TypeInv, WinInv,
           UNCHANGED <<def, req, win, capReached, result>>,
           ctx'.isFreeSpin = ctx.isFreeSpin,
           pc' \notin {"enter", "done"},
           ctx.isFreeSpin /\ pc' \in Opening \cup {"spins"} =>
              pc \in Opening \cup {"spins"},
           ~ctx.isFreeSpin /\ pc' \in Opening \cup {"begin"} =>
              pc \in Opening \cup {"begin"},
           pc' \in Closing => pc \in Closing \/ (pc = "spins" /\ ctx.isFreeSpin)
    PROVE  WinInv' /\ Due <= Due'
  <1>1. Due' = Due
    BY DEF Due, Clamp, CapHit
  <1>2. SumsInv'
    BY DEF WinInv, SumsInv
  <1>3. NoticedInv'
    <2>1. /\ CapHit(Total)' <=> CapHit(Total)
          /\ CapHit(win.base + win.feature)' <=> CapHit(win.base + win.feature)
      BY DEF CapHit, Total
    <2> QED BY <2>1 DEF WinInv, NoticedInv
  <1>4. OutcomeInv'
    BY DEF OutcomeInv
  <1> QED BY <1>1, <1>2, <1>3, <1>4, WinTyped DEF WinInv

\* A step that moves money from an open round, given where it leaves the sums.
LEMMA PaidKeepsWin ==
    ASSUME TypeInv, WinInv, UNCHANGED <<def, req>>,
           ctx'.isFreeSpin = ctx.isFreeSpin,
           NEW b \in Nat, NEW f \in Nat, NEW r \in Nat,
           win'.base = b, win'.feature = f, win'.round = r,
           Clamp(Total) <= Clamp(b + f + r),
           capReached' => CapHit(b + f + r),
           ~ctx.isFreeSpin => f = 0 /\ r = 0,
           pc' \notin Opening \cup {"begin", "done"},
           pc' \in {"spins"} \cup Closing => r = 0,
           ctx.isFreeSpin \/ pc' \in Closing \cup {"enter"} =>
              /\ def.cap > 0 => b <= def.cap
              /\ CapHit(b + f) => capReached',
           pc' = "enter" => ctx'.awardSpins > 0 /\ ~(capReached' /\ EndsAtCap)
    PROVE  WinInv' /\ Due <= Due'
  <1>1. Total' = b + f + r /\ b + f + r \in Nat
    BY DEF Total
  <1>2. Due <= Due'
    <2> HIDE DEF Total
    <2> QED BY <1>1, DueFollows
  <1>3. SumsInv' /\ OutcomeInv'
    BY DEF SumsInv, OutcomeInv, EndsAtCap
  <1>4. NoticedInv'
    BY <1>1 DEF NoticedInv, CapHit
  <1> QED BY <1>2, <1>3, <1>4 DEF WinInv

\* Changing one of the sums leaves the others.
LEMMA SumSet ==
    ASSUME TypeInv
    PROVE  /\ \A x : LET n == [win EXCEPT !.base = x] IN
                 /\ n.base = x
                 /\ n.feature = win.feature
                 /\ n.round = win.round
           /\ \A x : LET n == [win EXCEPT !.round = x] IN
                 /\ n.base = win.base
                 /\ n.feature = win.feature
                 /\ n.round = x
           /\ \A x, y : LET n == [win EXCEPT !.feature = x, !.round = y] IN
                 /\ n.base = win.base
                 /\ n.feature = x
                 /\ n.round = y
  BY DEF TypeInv, TypeOK, Sums

\* Nothing won yet.
LEMMA WinInit == Init => WinInv
  <1> SUFFICES ASSUME Init PROVE WinInv
    OBVIOUS
  <1>1. /\ win = [base |-> 0, feature |-> 0, round |-> 0]
        /\ pc = "begin" /\ ~capReached /\ ~ctx.isFreeSpin
    BY DEF Init, NewContext
  <1> QED BY <1>1
          DEF WinInv, SumsInv, NoticedInv, OutcomeInv, Opening, Closing

\* Deciding on the base evaluation loses nothing of what is due.
LEMMA BaseDecideWins ==
    ASSUME TypeInv, WinInv, BaseDecide
    PROVE  WinInv' /\ Due <= Due'
  <1> DEFINE sum == Add(ctx.eval.scatter, Ways(ctx.eval))
  <1>1. CASE ~ctx.cascadeRequested /\ sum = Failed
    BY <1>1, FailKeepsWin DEF BaseDecide
  <1>2. CASE ctx.cascadeRequested \/ sum # Failed
    <2> DEFINE b == IF ctx.cascadeRequested THEN ctx.eval.scatter ELSE sum
    <2>1. b \in Nat
      BY <1>2, SumsTyped, AddIsExact, MoneyAssumption DEF Multiplier, Checked
    <2>2. /\ pc = "decide" /\ ~ctx.isFreeSpin /\ pc' \in {"loop", "close"}
          /\ win' = [win EXCEPT !.base = b]
          /\ UNCHANGED <<def, req, ctx, capReached>>
      BY <1>2 DEF BaseDecide, At, GoTo, inputs
    <2> HIDE DEF b
    <2>3. win'.base = b /\ win'.feature = win.feature /\ win'.round = win.round
      BY <2>2, SumSet
    <2>4. /\ win.base = 0 /\ win.feature = 0 /\ win.round = 0
          /\ ~capReached
      <3>1. win.base = 0 /\ win.feature = 0 /\ win.round = 0
        BY <2>2 DEF WinInv, SumsInv, Opening
      <3>2. Total = 0 /\ ~CapHit(0)
        BY <3>1, ClampIs DEF Total, CapHit
      <3> QED BY <3>1, <3>2 DEF WinInv, NoticedInv
    <2>5. Clamp(Total) <= Clamp(b + 0 + 0)
      BY <2>1, <2>4, WinTyped, ClampIs DEF Total
    <2> QED BY <2>1, <2>2, <2>3, <2>4, <2>5, PaidKeepsWin DEF Opening, Closing
  <1> QED BY <1>1, <1>2

\* Stopping the base cascades loses nothing of what is due.
LEMMA BaseLoopStopsWins ==
    ASSUME TypeInv, WinInv, BaseLoopStops
    PROVE  WinInv' /\ Due <= Due'
  <1>1. /\ pc' = "close" /\ ~ctx.isFreeSpin
        /\ win' = [win EXCEPT !.base = Clamp(win.base)]
        /\ capReached' = (capReached \/ CapHit(win.base))
        /\ UNCHANGED <<def, req, ctx>>
    BY DEF BaseLoopStops, GoTo, inputs, BaseTotal
  <1>2. win.base \in Nat /\ win.feature = 0 /\ win.round = 0 /\ Total = win.base
    BY <1>1, WinTyped DEF WinInv, SumsInv, Total
  <1> DEFINE b == Clamp(win.base)
  <1>3. b \in Nat /\ (CapHit(win.base) <=> CapHit(b)) /\ Clamp(b) = b
    BY <1>2, ClampIs
  <1>4. win'.base = b /\ win'.feature = 0 /\ win'.round = 0
    BY <1>1, <1>2, SumSet
  <1>5. capReached' => CapHit(b + 0 + 0)
    <2>1. capReached => CapHit(win.base)
      BY <1>2 DEF WinInv, NoticedInv
    <2>2. CapHit(b + 0 + 0) <=> CapHit(b)
      BY <1>3
    <2> QED BY <1>1, <1>3, <2>1, <2>2
  <1>6. Clamp(Total) <= Clamp(b + 0 + 0)
    BY <1>2, <1>3
  <1> HIDE DEF b
  <1> QED BY <1>1, <1>3, <1>4, <1>5, <1>6, PaidKeepsWin DEF Opening, Closing

\* A base cascade that is granted loses nothing of what is due.
LEMMA BaseCascadeWins ==
    ASSUME TypeInv, WinInv, BaseCascade
    PROVE  WinInv' /\ Due <= Due'
  <1> DEFINE sum == Plus(Clamp(BaseTotal), CascadePays)
  <1>1. CASE Fail("arithmetic") \/ Fail("transition")
    BY <1>1, FailKeepsWin
  <1>2. CASE ~(Fail("arithmetic") \/ Fail("transition"))
    <2>1. /\ sum # Failed /\ pc' = "collapse" /\ ~ctx.isFreeSpin
          /\ win' = [win EXCEPT !.base = Clamp(sum)]
          /\ capReached' = (capReached \/ CapHit(win.base) \/ CapHit(sum))
          /\ UNCHANGED <<def, req, ctx>>
      BY <1>2 DEF BaseCascade, Paid, Enter, GoTo, inputs, BaseTotal
    <2>2. /\ win.base \in Nat /\ win.feature = 0 /\ win.round = 0
          /\ Total = win.base
      BY <2>1, WinTyped DEF WinInv, SumsInv, Total
    <2>3. /\ sum \in Nat /\ CascadePays \in Nat
          /\ sum = Clamp(win.base) + CascadePays
      BY <2>1, SumsTyped, ClampTyped, PlusIs DEF BaseTotal, Checked
    <2> DEFINE b == Clamp(sum)
    <2> HIDE DEF sum
    <2>4. b \in Nat /\ (CapHit(b) <=> CapHit(sum)) /\ Clamp(b) = b
      BY <2>3, ClampIs
    <2>5. Clamp(win.base) <= sum /\ (CapHit(win.base) => CapHit(sum))
      BY <2>2, <2>3, ClampIs
    <2>6. Clamp(Clamp(win.base)) = Clamp(win.base)
      BY <2>2, ClampIs
    <2>7. Clamp(Total) <= Clamp(b + 0 + 0)
      BY <2>2, <2>3, <2>4, <2>5, <2>6, ClampIs
    <2>8. win'.base = b /\ win'.feature = 0 /\ win'.round = 0
      BY <2>1, <2>2, SumSet
    <2>9. capReached' => CapHit(b + 0 + 0)
      <3>1. capReached => CapHit(win.base)
        BY <2>2 DEF WinInv, NoticedInv
      <3>2. b + 0 + 0 = b
        BY <2>4
      <3> QED BY <2>1, <2>4, <2>5, <3>1, <3>2
    <2>10. ctx'.isFreeSpin = ctx.isFreeSpin
      BY <2>1
    <2> HIDE DEF b
    <2> QED BY <2>1, <2>4, <2>7, <2>8, <2>9, <2>10, PaidKeepsWin
            DEF Opening, Closing
  <1> QED BY <1>1, <1>2

\* A base cascade pays at least what was due before it.
LEMMA BaseReevaluateWins ==
    ASSUME TypeInv, WinInv, BaseReevaluate
    PROVE  WinInv' /\ Due <= Due'
  <1>1. CASE Fail("arithmetic")
    BY <1>1, FailKeepsWin
  <1>2. CASE ~Fail("arithmetic")
    <2>1. PICK ev \in Evaluations :
             /\ WithScatter(win.base, ev) # Failed /\ Reevaluated(ev)
             /\ Call("AfterEvaluation", "loop")
             /\ win' = [win EXCEPT !.base = WithScatter(@, ev)]
      BY <1>2 DEF BaseReevaluate
    <2>2. /\ win.base \in Nat /\ win.feature = 0 /\ win.round = 0
          /\ Total = win.base /\ ~ctx.isFreeSpin
      BY WinTyped DEF WinInv, SumsInv, Total, BaseReevaluate
    <2> DEFINE b == WithScatter(win.base, ev)
    <2>3. b \in Nat /\ win.base <= b
      <3>1. win.base \in Multiplier /\ ev.scatter \in Multiplier
        BY SumsTyped, EvaluationsTyped
      <3>2. b = win.base + ev.scatter
        BY <2>1, <3>1, AddIsExact DEF WithScatter
      <3> QED BY <2>2, <3>1, <3>2, MoneyAssumption DEF Multiplier
    <2>4. win'.base = b /\ win'.feature = 0 /\ win'.round = 0
      BY <2>1, <2>2, SumSet
    <2>5. /\ pc' = "loop" /\ UNCHANGED <<def, req, capReached>>
          /\ ctx' = ResetRoundDecisions([ctx EXCEPT !.eval = ev])
      BY <2>1 DEF Reevaluated, Call, inputs
    <2>6. ctx'.isFreeSpin = ctx.isFreeSpin
      <3>1. BaseReevaluate => [Next]_vars /\ ~EnterFreeSpins
        BY DEF Next, BaseReevaluate, EnterFreeSpins, At
      <3> QED BY <3>1, ContextKeepsMode
    <2> HIDE DEF b
    <2>7. Clamp(Total) <= Clamp(b + 0 + 0)
      BY <2>2, <2>3, ClampIs
    <2>8. capReached' => CapHit(b + 0 + 0)
      BY <2>2, <2>3, <2>5, ClampIs DEF WinInv, NoticedInv
    <2> QED BY <2>2, <2>3, <2>4, <2>5, <2>6, <2>7, <2>8, PaidKeepsWin
            DEF Opening, Closing
  <1> QED BY <1>1, <1>2

\* Closing the base round keeps what is due.
LEMMA CloseBaseWins ==
    ASSUME TypeInv, AccountInv, WinInv, CloseBase
    PROVE  WinInv' /\ Due <= Due'
  <1> DEFINE reached == capReached \/ CapHit(win.base)
  <1>1. CASE Fail("transition")
    BY <1>1, FailKeepsWin
  <1>2. CASE ~Fail("transition")
    <2>1. /\ win' = [win EXCEPT !.base = Clamp(win.base)]
          /\ capReached' = reached
          /\ UNCHANGED <<def, req, ctx>>
          /\ \/ pc' = "settle"
             \/ pc' = "enter" /\ ctx.awardSpins > 0 /\ ~(reached /\ EndsAtCap)
      BY <1>2 DEF CloseBase, Enter, GoTo, inputs
    <2>2. ~ctx.isFreeSpin
      BY DEF AccountInv, Counted, CloseBase, At
    <2>3. /\ win.base \in Nat /\ win.feature = 0 /\ win.round = 0
          /\ Total = win.base
      BY <2>2, WinTyped DEF WinInv, SumsInv, Total
    <2> DEFINE b == Clamp(win.base)
    <2>4. /\ b \in Nat /\ (CapHit(win.base) <=> CapHit(b)) /\ Clamp(b) = b
          /\ def.cap > 0 => b <= def.cap
      BY <2>3, ClampIs
    <2>5. win'.base = b /\ win'.feature = 0 /\ win'.round = 0
      BY <2>1, <2>3, SumSet
    <2>6. capReached => CapHit(win.base)
      BY <2>3 DEF WinInv, NoticedInv
    <2> HIDE DEF b
    <2>7. b + 0 + 0 = b /\ b + 0 = b
      BY <2>4
    <2>8. Clamp(Total) <= Clamp(b + 0 + 0)
      BY <2>3, <2>4, <2>7 DEF b
    <2> QED BY <2>1, <2>2, <2>4, <2>5, <2>6, <2>7, <2>8, PaidKeepsWin
            DEF Opening, Closing
  <1> QED BY <1>1, <1>2

\* Entering the free spins keeps what is due.
LEMMA EnterFreeSpinsWins ==
    ASSUME TypeInv, AccountInv, WinInv, EnterFreeSpins
    PROVE  WinInv' /\ Due <= Due'
  <1>1. CASE Fail("transition")
    BY <1>1, FailKeepsWin
  <1>2. CASE ~Fail("transition")
    <2>1. /\ pc = "enter" /\ pc' = "spins"
          /\ UNCHANGED <<def, req, win, capReached>>
      BY <1>2 DEF EnterFreeSpins, At, Enter, GoTo, inputs
    <2>2. ~ctx.isFreeSpin
      BY <2>1 DEF AccountInv, Counted
    <2>3. Due' = Due
      BY <2>1 DEF Due, Clamp, CapHit
    <2>4. SumsInv' /\ OutcomeInv'
      BY <2>1, <2>2 DEF WinInv, SumsInv, OutcomeInv, Opening, Closing
    <2>5. NoticedInv'
      <3>1. /\ CapHit(Total)' <=> CapHit(Total)
            /\ CapHit(win.base + win.feature)' <=> CapHit(win.base + win.feature)
        BY <2>1 DEF CapHit, Total
      <3> QED BY <2>1, <3>1 DEF WinInv, NoticedInv
    <2> QED BY <2>3, <2>4, <2>5, WinTyped DEF WinInv
  <1> QED BY <1>1, <1>2

\* In the free spins the base game is closed and only the round's sum moves.
LEMMA RoundKeepsWin ==
    ASSUME TypeInv, WinInv, ctx.isFreeSpin, ctx'.isFreeSpin = ctx.isFreeSpin,
           UNCHANGED <<def, req>>,
           NEW r \in Nat, win.round <= r,
           win' = [win EXCEPT !.round = r] \/ (win' = win /\ r = win.round),
           pc' \in {"loop", "collapse", "again", "round"},
           capReached => capReached',
           capReached' => capReached \/ CapHit(Total)
    PROVE  WinInv' /\ Due <= Due'
  <1>1. /\ win.base \in Nat /\ win.feature \in Nat /\ win.round \in Nat
        /\ Total \in Nat
    BY WinTyped
  <1>2. win'.base = win.base /\ win'.feature = win.feature /\ win'.round = r
    <2>1. CASE win' = [win EXCEPT !.round = r]
      BY <2>1, SumSet
    <2>2. CASE win' = win /\ r = win.round
      BY <2>2
    <2> QED BY <2>1, <2>2
  <1> DEFINE t == win.base + win.feature + r
  <1>3. t \in Nat /\ Total <= t
    BY <1>1 DEF Total
  <1> HIDE DEF t
  <1>4. Clamp(Total) <= Clamp(t) /\ (CapHit(Total) => CapHit(t))
    BY <1>1, <1>3, ClampIs
  <1>5. capReached' => CapHit(t)
    BY <1>4 DEF WinInv, NoticedInv
  <1>6. /\ def.cap > 0 => win.base <= def.cap
        /\ CapHit(win.base + win.feature) => capReached'
    BY DEF WinInv, NoticedInv
  <1> QED BY <1>1, <1>2, <1>4, <1>5, <1>6, PaidKeepsWin DEF t, Opening, Closing

\* Deciding on a free spin loses nothing of what is due.
LEMMA FreeDecideWins ==
    ASSUME TypeInv, WinInv, FreeDecide
    PROVE  WinInv' /\ Due <= Due'
  <1> DEFINE sum == Plus(ctx.eval.scatter, FreeWays)
  <1>1. CASE FreeWays = Failed \/ (~ctx.cascadeRequested /\ sum = Failed)
    BY <1>1, FailKeepsWin DEF FreeDecide
  <1>2. CASE ~(FreeWays = Failed \/ (~ctx.cascadeRequested /\ sum = Failed))
    <2> DEFINE r == IF ctx.cascadeRequested THEN ctx.eval.scatter ELSE sum
    <2>1. r \in Nat
      BY <1>2, SumsTyped, PlusTyped, MoneyAssumption DEF Multiplier, Checked
    <2>2. /\ pc = "decide" /\ ctx.isFreeSpin /\ pc' \in {"loop", "round"}
          /\ win' = [win EXCEPT !.round = r]
          /\ UNCHANGED <<def, req, capReached>>
          /\ ctx' = [ctx EXCEPT !.retriggerSpins = 0]
      BY <1>2 DEF FreeDecide, At, GoTo, inputs
    <2>3. ctx'.isFreeSpin = ctx.isFreeSpin
      BY <2>2 DEF TypeInv, SoundContext, Context
    <2> HIDE DEF r
    <2>4. win.round <= r
      BY <2>1, <2>2 DEF WinInv, SumsInv, Opening
    <2> QED BY <2>1, <2>2, <2>3, <2>4, RoundKeepsWin
  <1> QED BY <1>1, <1>2

\* The total of the round under way is what the spin has won.
LEMMA RoundTotalIs ==
    ASSUME TypeInv, RoundTotal # Failed
    PROVE  RoundTotal = Total
  <1>1. Plus(win.base, win.feature) # Failed
    BY DEF RoundTotal, Plus
  <1>2. /\ Plus(win.base, win.feature) = win.base + win.feature
        /\ Plus(win.base, win.feature) \in Checked
    BY <1>1, SumsTyped, PlusIs, PlusTyped DEF Checked
  <1>3. win.round \in Checked
    BY SumsTyped DEF Checked
  <1>4. RoundTotal = Plus(win.base, win.feature) + win.round
    BY <1>2, <1>3, PlusIs DEF RoundTotal
  <1> QED BY <1>2, <1>4 DEF Total

\* Stopping the cascades of a free spin loses nothing of what is due.
LEMMA FreeLoopStopsWins ==
    ASSUME TypeInv, WinInv, FreeLoopStops
    PROVE  WinInv' /\ Due <= Due'
  <1>1. /\ pc' = "round" /\ ctx.isFreeSpin
        /\ capReached' = (capReached \/ CapHit(RoundTotal))
        /\ UNCHANGED <<def, req, ctx, win>>
        /\ RoundTotal = Total
    BY RoundTotalIs DEF FreeLoopStops, GoTo, inputs
  <1>2. win.round \in Nat /\ win.round <= win.round
    BY WinTyped
  <1>3. /\ capReached => capReached'
        /\ capReached' => capReached \/ CapHit(Total)
        /\ ctx'.isFreeSpin = ctx.isFreeSpin
    BY <1>1
  <1> QED BY <1>1, <1>2, <1>3, RoundKeepsWin

\* A free cascade that is granted loses nothing of what is due.
LEMMA FreeCascadeWins ==
    ASSUME TypeInv, WinInv, FreeCascade
    PROVE  WinInv' /\ Due <= Due'
  <1> DEFINE sum == Plus(win.round, CascadePays)
  <1>1. CASE Fail("arithmetic") \/ Fail("transition")
    BY <1>1, FailKeepsWin
  <1>2. CASE ~(Fail("arithmetic") \/ Fail("transition"))
    <2>1. /\ sum # Failed /\ pc' = "collapse" /\ ctx.isFreeSpin
          /\ win' = [win EXCEPT !.round = sum] /\ RoundTotal # Failed
          /\ capReached' = (capReached \/ CapHit(RoundTotal))
          /\ UNCHANGED <<def, req, ctx>>
      BY <1>2 DEF FreeCascade, Paid, Enter, GoTo, inputs
    <2>2. sum \in Nat /\ win.round <= sum
      BY <2>1, SumsTyped, PlusIs, PlusTyped DEF Checked
    <2>3. RoundTotal = Total
      BY <2>1, RoundTotalIs
    <2>4. ctx'.isFreeSpin = ctx.isFreeSpin
      BY <2>1
    <2> HIDE DEF sum
    <2> QED BY <2>1, <2>2, <2>3, <2>4, RoundKeepsWin
  <1> QED BY <1>1, <1>2

\* A free cascade pays at least what was due before it.
LEMMA FreeReevaluateWins ==
    ASSUME TypeInv, WinInv, FreeReevaluate
    PROVE  WinInv' /\ Due <= Due'
  <1>1. CASE Fail("arithmetic")
    BY <1>1, FailKeepsWin
  <1>2. CASE ~Fail("arithmetic")
    <2>1. PICK ev \in Evaluations :
             /\ WithScatter(win.round, ev) # Failed /\ Reevaluated(ev)
             /\ Call("AfterEvaluation", "again")
             /\ win' = [win EXCEPT !.round = WithScatter(@, ev)]
      BY <1>2 DEF FreeReevaluate
    <2> DEFINE r == WithScatter(win.round, ev)
    <2>2. r \in Nat /\ win.round <= r
      <3>1. win.round \in Multiplier /\ ev.scatter \in Multiplier
        BY SumsTyped, EvaluationsTyped
      <3>2. r = win.round + ev.scatter
        BY <2>1, <3>1, AddIsExact DEF WithScatter
      <3> QED BY <3>1, <3>2, MoneyAssumption DEF Multiplier
    <2>3. pc' = "again" /\ UNCHANGED <<def, req, capReached>> /\ ctx.isFreeSpin
      BY <2>1 DEF Reevaluated, Call, inputs, FreeReevaluate
    <2>4. ctx'.isFreeSpin = ctx.isFreeSpin
      <3>1. FreeReevaluate => [Next]_vars /\ ~EnterFreeSpins
        BY DEF Next, FreeReevaluate, EnterFreeSpins, At
      <3> QED BY <3>1, ContextKeepsMode
    <2>5. win' = [win EXCEPT !.round = r]
      BY <2>1
    <2> HIDE DEF r
    <2> QED BY <2>2, <2>3, <2>4, <2>5, RoundKeepsWin
  <1> QED BY <1>1, <1>2

\* Ending a free spin loses nothing of what is due.
LEMMA FreeRoundEndsWins ==
    ASSUME TypeInv, AccountInv, WinInv, FreeRoundEnds
    PROVE  WinInv' /\ Due <= Due'
  <1> DEFINE feature == Add(win.feature, win.round)
             total   == Plus(win.base, feature)
  <1>1. CASE Fail("arithmetic") \/ Fail("transition")
    BY <1>1, FailKeepsWin
  <1>2. CASE ~(Fail("arithmetic") \/ Fail("transition"))
    <2>1. /\ total # Failed /\ pc' \in {"settle", "spins"}
          /\ win' = [win EXCEPT !.feature = feature, !.round = 0]
          /\ capReached' = (capReached \/ CapHit(total))
          /\ UNCHANGED <<def, req, ctx>>
      BY <1>2 DEF FreeRoundEnds, Enter, GoTo, inputs
    <2>2. ctx.isFreeSpin
      BY DEF AccountInv, Counted, FreeRoundEnds, At
    <2>3. /\ feature # Failed /\ feature \in Checked
      BY <2>1, SumsTyped, AddIsExact DEF Plus
    <2>4. /\ feature \in Nat /\ total = win.base + feature
          /\ feature = win.feature + win.round
      BY <2>1, <2>3, SumsTyped, AddIsExact, PlusIs DEF Checked
    <2>5. /\ win'.base = win.base /\ win'.feature = feature /\ win'.round = 0
      BY <2>1, SumSet
    <2> HIDE DEF feature, total
    <2>6. win.base + feature + 0 = Total /\ win.base + feature = Total
      BY <2>4, WinTyped DEF Total
    <2>7. /\ capReached' => CapHit(win.base + feature + 0)
          /\ CapHit(win.base + feature) => capReached'
          /\ def.cap > 0 => win.base <= def.cap
      BY <2>1, <2>2, <2>4, <2>6 DEF WinInv, NoticedInv
    <2>8. Clamp(Total) <= Clamp(win.base + feature + 0)
      BY <2>6, WinTyped
    <2> QED BY <2>1, <2>2, <2>4, <2>5, <2>7, <2>8, WinTyped, PaidKeepsWin
            DEF Opening, Closing
  <1> QED BY <1>1, <1>2

\* A payout is its quotient, where it does not overflow.
LEMMA SettleIs ==
    ASSUME NEW bet \in 1..MaxInt, NEW m \in Multiplier,
           Settle(bet, m) # Failed
    PROVE  Settle(bet, m) = (bet * m) \div Scale
  <1>1. CASE m = 0
    <2>1. bet * m = 0 /\ 0 \div Scale = 0
      BY <1>1, MoneyAssumption
    <2> QED BY <1>1, <2>1 DEF Settle
  <1>2. CASE m # 0
    BY <1>2, MoneyAssumption DEF Settle, Multiplier
  <1> QED BY <1>1, <1>2

\* Settling the spin loses nothing of what is due.
LEMMA FinishWins ==
    ASSUME TypeInv, WinInv, Finish
    PROVE  WinInv' /\ Due <= Due'
  <1> DEFINE total  == FinalMultiplier
             payout == Settle(req.bet, total)
  <1>1. CASE Fail("arithmetic") \/ Fail("transition")
    BY <1>1, FailKeepsWin
  <1>2. CASE ~(Fail("arithmetic") \/ Fail("transition"))
    <2>1. /\ pc = "finish" /\ pc' = "done"
          /\ total # Failed /\ payout # Failed
          /\ result' = [total |-> total, payout |-> payout]
          /\ UNCHANGED <<def, req, ctx, win, capReached>>
      BY <1>2 DEF Finish, At, Enter, GoTo, inputs
    <2>2. win.round = 0 /\ win.base \in Nat /\ win.feature \in Nat
      BY <2>1, WinTyped DEF WinInv, SumsInv, Closing
    <2>3. Add(win.base, win.feature) = Total
      <3>1. Add(win.base, win.feature) # Failed
        BY <2>1, ClampTyped DEF FinalMultiplier, Checked
      <3>2. Add(win.base, win.feature) = win.base + win.feature
        BY <3>1, SumsTyped, AddIsExact
      <3> QED BY <2>2, <3>2 DEF Total
    <2>4. total = Due /\ total \in Multiplier
      <3>1. Total \in Multiplier
        <4>1. Add(win.base, win.feature) \in Checked
          BY SumsTyped, AddIsExact
        <4>2. Total # Failed
          BY WinTyped DEF Failed
        <4> QED BY <2>3, <4>1, <4>2 DEF Checked
      <3> QED BY <2>3, <3>1, WinTyped, ClampTyped DEF FinalMultiplier, Checked
    <2>5. payout = (req.bet * total) \div Scale
      <3>1. req.bet \in 1..MaxInt
        BY InputsTyped
      <3> HIDE DEF total
      <3> QED BY <2>1, <2>4, <3>1, SettleIs
    <2>6. Due' = Due
      BY <2>1 DEF Due, Clamp, CapHit
    <2>7. result'.total = Due' /\ result'.payout = (req'.bet * Due') \div Scale
      BY <2>1, <2>4, <2>5, <2>6
    <2>8. SumsInv' /\ OutcomeInv'
      BY <2>1, <2>7 DEF WinInv, SumsInv, OutcomeInv, Opening, Closing
    <2>9. NoticedInv'
      <3>1. /\ CapHit(Total)' <=> CapHit(Total)
            /\ CapHit(win.base + win.feature)' <=> CapHit(win.base + win.feature)
        BY <2>1 DEF CapHit, Total
      <3> QED BY <2>1, <3>1 DEF WinInv, NoticedInv, Closing
    <2> QED BY <2>6, <2>8, <2>9, WinTyped DEF WinInv
  <1> QED BY <1>1, <1>2

\* Hooks record decisions; they move no money.
LEMMA HookKeepsWin ==
    ASSUME TypeInv, HookInv, WinInv, pending # <<>>,
           RunBuiltin \/ RunPlugin \/ PluginFails
    PROVE  WinInv' /\ Due <= Due'
  <1>1. CASE Fail("feature")
    BY <1>1, FailKeepsWin
  <1>2. CASE ~Fail("feature")
    <2>1. /\ pc' = pc /\ UNCHANGED <<def, req, win, capReached, result>>
      BY <1>2 DEF RunBuiltin, RunPlugin, PluginFails, inputs
    <2>2. pc \notin {"enter", "done"}
      BY DEF HookInv, Awaited
    <2>3. ctx'.isFreeSpin = ctx.isFreeSpin
      <3>1. ~EnterFreeSpins
        BY DEF EnterFreeSpins, At
      <3> QED BY <3>1, ContextKeepsMode DEF Next
    <2> QED BY <2>1, <2>2, <2>3, QuietKeepsWin
  <1> QED BY <1>1, <1>2

\* Every step keeps the sums in order, and what is due never falls.
LEMMA WinNext ==
    TypeInv /\ AccountInv /\ HookInv /\ WinInv /\ [Next]_vars =>
        WinInv' /\ Due <= Due'
  <1> SUFFICES ASSUME TypeInv, AccountInv, HookInv, WinInv, [Next]_vars
               PROVE  WinInv' /\ Due <= Due'
    OBVIOUS
  <1>1. CASE \E reason : Fail(reason)
    BY <1>1, FailKeepsWin
  <1>2. CASE RunBuiltin \/ RunPlugin \/ PluginFails
    BY <1>2, HookKeepsWin DEF RunBuiltin, RunPlugin, PluginFails
  <1>3. ASSUME ~EnterFreeSpins PROVE ctx'.isFreeSpin = ctx.isFreeSpin
    BY <1>3, ContextKeepsMode
  <1>4. /\ pc \in {"begin", "close", "enter"} => ~ctx.isFreeSpin
        /\ pc \in {"spins", "round", "again"} => ctx.isFreeSpin
    BY DEF AccountInv, Counted
  <1>5. CASE \/ Begin \/ BaseReveal \/ FreeReveal \/ Revealed
             \/ BaseEvaluate \/ FreeEvaluate \/ BaseLoopEnds \/ FreeLoopEnds
             \/ BaseRefilled \/ FreeRefilled \/ FreeSpinsEnd \/ StartFreeSpin
             \/ FreeRetrigger \/ BeginSettle \/ Refill
    <2>1. CASE \E reason : Fail(reason)
      BY <1>1, <2>1
    <2>2. CASE ~\E reason : Fail(reason)
      <3>1. /\ UNCHANGED <<def, req, win, capReached, result>>
            /\ <<pc, pc'>> \in
                  {<<"begin", "generate">>, <<"generate", "revealed">>,
                   <<"revealed", "evaluate">>, <<"evaluate", "decide">>,
                   <<"loop", "close">>, <<"loop", "round">>,
                   <<"refilled", "close">>, <<"refilled", "reevaluate">>,
                   <<"spins", "settle">>, <<"spins", "generate">>,
                   <<"again", "loop">>, <<"settle", "finish">>,
                   <<"collapse", "refilled">>}
        <4>1. CASE BaseEvaluate \/ FreeEvaluate
          <5>1. PICK ev, kinds : Evaluate(ev, kinds)
            BY <4>1 DEF BaseEvaluate, FreeEvaluate
          <5> QED BY <5>1 DEF Evaluate, At, Call, inputs
        <4>2. CASE \/ Begin \/ BaseReveal \/ FreeReveal \/ Revealed
                   \/ BaseLoopEnds \/ FreeLoopEnds \/ BaseRefilled
                   \/ FreeRefilled \/ FreeSpinsEnd \/ StartFreeSpin
                   \/ FreeRetrigger \/ BeginSettle \/ Refill
          BY <2>2, <4>2
             DEF Begin, BaseReveal, FreeReveal, Reveal, Revealed, BaseLoopEnds,
                 FreeLoopEnds, BaseRefilled, FreeRefilled, Refilled,
                 FreeSpinsEnd, StartFreeSpin, FreeRetrigger, BeginSettle,
                 Refill, At, Enter, Call, GoTo, inputs
        <4> QED BY <1>5, <4>1, <4>2
      <3>2. ctx'.isFreeSpin = ctx.isFreeSpin
        <4>1. pc # "enter"
          BY <3>1
        <4>2. ~EnterFreeSpins
          BY <4>1 DEF EnterFreeSpins, At
        <4> QED BY <1>3, <4>2
      <3> QED BY <1>4, <3>1, <3>2, QuietKeepsWin DEF Opening, Closing
    <2> QED BY <2>1, <2>2
  <1>6. CASE Idle \/ UNCHANGED vars
    <2>1. UNCHANGED vars
      BY <1>6 DEF Idle
    <2>2. WinInv' /\ Due' = Due
      BY <2>1 DEF vars, inputs, control, WinInv, SumsInv, NoticedInv,
                  OutcomeInv, Total, CapHit, Clamp, Due, EndsAtCap
    <2> QED BY <2>2, WinTyped
  <1> QED
    BY <1>1, <1>2, <1>5, <1>6, BaseDecideWins, BaseLoopStopsWins,
       BaseCascadeWins, BaseReevaluateWins, CloseBaseWins, EnterFreeSpinsWins,
       FreeDecideWins, FreeLoopStopsWins, FreeCascadeWins, FreeReevaluateWins,
       FreeRoundEndsWins, FinishWins
    DEF Next, SourceFails, EvaluatorFails, PayloadFails

------------------------------------------------------------------------------
(* The theorems.                                                             *)

SpinInv == TypeInv /\ AccountInv /\ HookInv /\ WinInv

\* The invariant of the payment holds in every state.
LEMMA SpinInvHolds == Spec => []SpinInv
  <1>1. Init => SpinInv
    BY TypeInit, AccountInit, HookInit, WinInit DEF SpinInv
  <1>2. SpinInv /\ [Next]_vars => SpinInv'
    BY TypeNext, AccountNext, HookNext, WinNext DEF SpinInv
  <1> QED BY <1>1, <1>2, PTL DEF Spec

(* A completed spin pays at most the cap, and Spin has noticed the cap on    *)
(* one of its tests exactly when it pays the cap: no loop passes it          *)
(* unnoticed for good, none notices it too early.                            *)
THEOREM CapPaidExactly == Spec => []CapIsExact
  <1>1. SpinInv => CapIsExact
    <2> SUFFICES ASSUME SpinInv, pc = "done", def.cap > 0
                 PROVE  /\ result.total <= def.cap
                        /\ capReached <=> result.total = def.cap
      BY DEF CapIsExact
    <2>1. result.total = Clamp(Total) /\ Total \in Nat
      BY WinTyped DEF SpinInv, WinInv, OutcomeInv
    <2>2. Total = win.base + win.feature
      BY WinTyped DEF SpinInv, WinInv, SumsInv, Closing, Total
    <2>3. capReached <=> CapHit(Total)
      BY <2>2 DEF SpinInv, WinInv, NoticedInv, Closing
    <2>4. capReached <=> Clamp(Total) = def.cap
      BY <2>1, <2>3, ClampIs DEF SpinInv
    <2> QED BY <2>1, <2>4, ClampIs DEF SpinInv
  <1> QED BY SpinInvHolds, <1>1, PTL

\* Where a spin may be once it noticed that its cap ends it: on the way out of
\* its loops, by way of the refill of the base game's cascade under way.
StoppedInv ==
    capReached /\ EndsAtCap =>
        \/ pc \in Closing \cup {"round", "failed"}
        \/ ~ctx.isFreeSpin /\ pc \in {"collapse", "refilled", "close"}

\* A step that notices nothing and stays off the points where play goes on.
LEMMA StoppedStays ==
    ASSUME StoppedInv, UNCHANGED <<def, capReached>>,
           ctx'.isFreeSpin = ctx.isFreeSpin,
           \/ pc' = pc
           \/ pc' = "failed"
           \/ <<pc, pc'>> \in {<<"collapse", "refilled">>, <<"refilled", "close">>,
                               <<"settle", "finish">>, <<"finish", "done">>}
           \/ pc \in {"begin", "generate", "revealed", "evaluate", "decide",
                      "loop", "reevaluate", "again", "enter", "spins"}
    PROVE  StoppedInv'
  <1>1. EndsAtCap' <=> EndsAtCap
    BY DEF EndsAtCap
  <1> QED BY <1>1 DEF StoppedInv, Closing

\* The steps that may notice the cap.
LEMMA StoppedPays ==
    ASSUME SpinInv, StoppedInv,
           \/ BaseLoopStops \/ BaseCascade \/ CloseBase
           \/ FreeLoopStops \/ FreeCascade \/ FreeRoundEnds
    PROVE  StoppedInv'
  <1>0. /\ capReached => CapHit(Total)
        /\ TypeInv /\ WinInv
        /\ pc \in {"begin", "close", "enter"} => ~ctx.isFreeSpin
    BY DEF SpinInv, WinInv, NoticedInv, AccountInv, Counted
  <1>1. CASE \E reason : Fail(reason)
    BY <1>1 DEF Fail, StoppedInv, inputs
  <1>2. CASE ~\E reason : Fail(reason)
    <2>1. CASE BaseLoopStops \/ FreeLoopStops
      BY <2>1 DEF BaseLoopStops, FreeLoopStops, GoTo, StoppedInv, Closing
    <2>2. CASE BaseCascade
      BY <1>2, <2>2
         DEF BaseCascade, Paid, Enter, GoTo, StoppedInv, Closing
    <2>3. CASE CloseBase
      <3>1. pc = "close" /\ UNCHANGED <<def, ctx>> /\ pc' \in {"enter", "settle"}
        BY <1>2, <2>3 DEF CloseBase, At, Enter, GoTo, inputs
      <3>2. pc' = "enter" => ~(capReached' /\ EndsAtCap)
        BY <1>2, <2>3 DEF CloseBase, Enter, GoTo
      <3>3. EndsAtCap' <=> EndsAtCap
        BY <3>1 DEF EndsAtCap
      <3> QED BY <3>1, <3>2, <3>3 DEF StoppedInv, Closing
    <2>4. CASE FreeCascade
      <3>1. /\ RoundTotal # Failed /\ ~StopsAt(RoundTotal)
            /\ capReached' = (capReached \/ CapHit(RoundTotal))
            /\ UNCHANGED def
        BY <1>2, <2>4 DEF FreeCascade, Paid, Enter, inputs
      <3>2. ~(CapHit(Total) /\ EndsAtCap)
        BY <1>0, <3>1, RoundTotalIs DEF StopsAt
      <3>3. EndsAtCap' <=> EndsAtCap
        BY <3>1 DEF EndsAtCap
      <3>4. RoundTotal = Total
        BY <1>0, <3>1, RoundTotalIs
      <3>5. ~(capReached' /\ EndsAtCap)
        BY <1>0, <3>1, <3>2, <3>4
      <3> QED BY <3>3, <3>5 DEF StoppedInv
    <2>5. CASE FreeRoundEnds
      <3> DEFINE feature == Add(win.feature, win.round)
                 total   == Plus(win.base, feature)
      <3>1. /\ total # Failed
            /\ capReached' = (capReached \/ CapHit(total))
            /\ UNCHANGED def
            /\ pc' = "settle" \/ ~(CapHit(total) /\ EndsAtCap)
        BY <1>2, <2>5 DEF FreeRoundEnds, Enter, GoTo, inputs
      <3>2. total = Total
        <4>1. feature \in Checked
          BY <1>0, SumsTyped, AddIsExact
        <4>2. win.base \in Checked
          BY <1>0, SumsTyped DEF Checked
        <4>3. total = win.base + feature /\ feature # Failed
          BY <3>1, <4>1, <4>2, PlusIs, MoneyAssumption DEF Plus
        <4>4. feature = win.feature + win.round
          BY <1>0, <4>3, SumsTyped, AddIsExact
        <4> QED BY <1>0, <4>3, <4>4, WinTyped DEF Total
      <3>3. EndsAtCap' <=> EndsAtCap
        BY <3>1 DEF EndsAtCap
      <3> HIDE DEF total
      <3> QED BY <1>0, <3>1, <3>2, <3>3 DEF StoppedInv, Closing
    <2> QED BY <2>1, <2>2, <2>3, <2>4, <2>5
  <1> QED BY <1>1, <1>2

\* No step leaves the way out.
LEMMA StoppedNext == SpinInv /\ StoppedInv /\ [Next]_vars => StoppedInv'
  <1> SUFFICES ASSUME SpinInv, StoppedInv, [Next]_vars PROVE StoppedInv'
    OBVIOUS
  <1>0. /\ TypeInv
        /\ pc \in {"begin", "close", "enter"} => ~ctx.isFreeSpin
        /\ pc \in {"spins", "round", "again"} => ctx.isFreeSpin
    BY DEF SpinInv, AccountInv, Counted
  <1>1. CASE \/ BaseLoopStops \/ BaseCascade \/ CloseBase
             \/ FreeLoopStops \/ FreeCascade \/ FreeRoundEnds
    BY <1>1, StoppedPays
  <1>2. CASE EnterFreeSpins
    <2>1. CASE Fail("transition")
      BY <2>1 DEF Fail, StoppedInv
    <2>2. ~(capReached /\ EndsAtCap)
      BY <1>2 DEF EnterFreeSpins, At, SpinInv, WinInv, OutcomeInv
    <2>3. CASE UNCHANGED <<def, capReached>>
      BY <2>2, <2>3 DEF StoppedInv, EndsAtCap
    <2> QED BY <1>2, <2>1, <2>3 DEF EnterFreeSpins, Enter, inputs
  <1>3. CASE /\ ~BaseLoopStops /\ ~BaseCascade /\ ~CloseBase /\ ~FreeLoopStops
             /\ ~FreeCascade /\ ~FreeRoundEnds /\ ~EnterFreeSpins
    <2>1. ctx'.isFreeSpin = ctx.isFreeSpin
      BY <1>0, <1>3, ContextKeepsMode
    <2>2. /\ UNCHANGED <<def, capReached>>
          /\ \/ pc' = pc
             \/ pc' = "failed"
             \/ <<pc, pc'>> \in
                   {<<"collapse", "refilled">>, <<"refilled", "close">>,
                    <<"settle", "finish">>, <<"finish", "done">>}
             \/ pc \in {"begin", "generate", "revealed", "evaluate", "decide",
                        "loop", "reevaluate", "again", "enter", "spins"}
             \/ ~(capReached /\ EndsAtCap)
      <3>1. CASE BaseEvaluate \/ FreeEvaluate
        <4>1. PICK ev, kinds : Evaluate(ev, kinds)
          BY <3>1 DEF BaseEvaluate, FreeEvaluate
        <4> QED BY <4>1 DEF Evaluate, At, inputs
      <3>2. CASE BaseReevaluate \/ FreeReevaluate
        BY <3>2 DEF BaseReevaluate, FreeReevaluate, Reevaluated, At, Fail, inputs
      <3>3. CASE FreeRefilled \/ BaseRefilled
        <4>1. CASE FreeRefilled
          <5>1. ~(capReached /\ EndsAtCap)
            BY <4>1 DEF FreeRefilled, At, StoppedInv, Closing
          <5> QED BY <4>1, <5>1
                  DEF FreeRefilled, Refilled, Enter, Call, Fail, inputs
        <4>2. CASE BaseRefilled
          BY <4>2 DEF BaseRefilled, Refilled, At, GoTo, Enter, Call, Fail, inputs
        <4> QED BY <3>3, <4>1, <4>2
      <3> QED
        BY <1>3, <3>1, <3>2, <3>3
           DEF Next, vars, control, inputs, Idle, RunBuiltin, RunPlugin,
               PluginFails, Begin, BaseReveal, FreeReveal, Reveal, Revealed,
               BaseDecide, BaseLoopEnds, Refill, FreeSpinsEnd, StartFreeSpin,
               FreeDecide, FreeLoopEnds, FreeRetrigger, BeginSettle, Finish,
               SourceFails, EvaluatorFails,
               PayloadFails, At, Enter, Call, GoTo,
               Fail
    <2>3. CASE ~(capReached /\ EndsAtCap)
      BY <2>2, <2>3 DEF StoppedInv, EndsAtCap
    <2> QED BY <2>1, <2>2, <2>3, StoppedStays
  <1> QED BY <1>1, <1>2, <1>3

\* The steps that spin, evaluate or refill a grid, and what the others keep.
LEMMA PlaySteps ==
    ASSUME TypeInv, [Next]_vars
    PROVE  /\ tally'.spins = tally.spins \/ (pc = "spins" /\ ~NoMoreSpins)
           /\ tally'.cascades = tally.cascades \/ pc = "collapse"
           /\ ctx'.eval = ctx.eval \/ pc \in {"evaluate", "reevaluate"}
           /\ pc' = "collapse" => pc \in {"loop", "collapse"}
  <1>0. ctx \in Context /\ tally \in Counts
    BY DEF TypeInv, TypeOK
  <1>1. CASE RunBuiltin
    <2>1. ctx'.eval = ctx.eval
      <3> DEFINE g == BuiltinHook(def, Head(pending), hook, ctx, free.total,
                                  free.global)
      <3>1. SoundOutcome(g, ctx)
        BY InputsTyped, BuiltinHookTyped DEF TypeInv, TypeOK, FreeSpinState
      <3>2. ctx' = g.ctx \/ ctx' = ctx
        BY <1>1 DEF RunBuiltin, Fail
      <3> HIDE DEF g
      <3> QED BY <3>1, <3>2 DEF SoundOutcome
    <2> QED BY <1>1, <2>1 DEF RunBuiltin, Fail
  <1>2. CASE RunPlugin
    BY <1>0, <1>2
       DEF RunPlugin, PluginDecisions, RequestCascade, AwardFreeSpins,
           RetriggerFreeSpins, SelectReelSet, Terminate, Context
  <1>3. CASE BaseEvaluate \/ FreeEvaluate
    <2>1. PICK ev, kinds : Evaluate(ev, kinds)
      BY <1>3 DEF BaseEvaluate, FreeEvaluate
    <2> QED BY <2>1 DEF Evaluate, At, Call
  <1>4. CASE BaseReevaluate \/ FreeReevaluate
    BY <1>4 DEF BaseReevaluate, FreeReevaluate, Reevaluated, At, Call, Fail
  <1>5. CASE Refill
    BY <1>0, <1>5 DEF Refill, At, Call, Context, Counts
  <1>6. CASE StartFreeSpin
    <2>1. ResetRoundDecisions([ctx EXCEPT !.cascadeIndex = 0]).eval = ctx.eval
      BY <1>0 DEF ResetRoundDecisions, Context
    <2>2. [tally EXCEPT !.spins = @ + 1].cascades = tally.cascades
      BY <1>0 DEF Counts
    <2> QED BY <1>6, <2>1, <2>2 DEF StartFreeSpin, At, Enter, Call, Fail
  <1>7. CASE EnterFreeSpins \/ FreeDecide \/ FreeRetrigger
    BY <1>0, <1>7
       DEF EnterFreeSpins, FreeDecide, FreeRetrigger, At, Enter, GoTo, Fail,
           Context
  <1>8. CASE BaseCascade \/ FreeCascade
    BY <1>8 DEF BaseCascade, FreeCascade, Paid, At, Enter, Fail
  <1> QED
    BY <1>1, <1>2, <1>3, <1>4, <1>5, <1>6, <1>7, <1>8
       DEF Next, vars, control, Idle, PluginFails, Begin, BaseReveal, FreeReveal,
           Reveal, Revealed, BaseDecide, BaseLoopEnds, BaseLoopStops,
           BaseRefilled, Refilled, CloseBase, FreeSpinsEnd, FreeLoopEnds,
           FreeLoopStops, FreeRefilled, FreeRoundEnds, BeginSettle, Finish,
           SourceFails, EvaluatorFails, PayloadFails, Enter, Call, GoTo, Fail

(* Under a terminating policy no free spin begins once the cap is due,       *)
(* noticed or not; and once it was noticed, no cascade begins and no grid is *)
(* evaluated, on any of the paths to the two loops.  The refill of a grid    *)
(* already paid is all that is left.                                         *)
THEOREM NothingAfterCap == Spec => NothingPlayedAfterCap
  <1>1. SpinInv /\ StoppedInv /\ [Next]_vars =>
           [EndsAtCap =>
              /\ CapHit(Due) => tally'.spins = tally.spins
              /\ capReached =>
                   /\ ctx'.eval = ctx.eval
                   /\ pc' = "collapse" => pc = "collapse"
                   /\ tally'.cascades # tally.cascades => pc = "collapse"]_vars
    <2> SUFFICES ASSUME SpinInv, StoppedInv, [Next]_vars, EndsAtCap
                 PROVE  /\ CapHit(Due) => tally'.spins = tally.spins
                        /\ capReached =>
                             /\ ctx'.eval = ctx.eval
                             /\ pc' = "collapse" => pc = "collapse"
                             /\ tally'.cascades # tally.cascades
                                   => pc = "collapse"
      OBVIOUS
    <2>0. TypeInv /\ WinInv
      BY DEF SpinInv
    <2>1. pc = "spins" /\ CapHit(Due) => NoMoreSpins
      <3> SUFFICES ASSUME pc = "spins", CapHit(Due) PROVE capReached
        BY DEF NoMoreSpins
      <3>1. ctx.isFreeSpin
        BY DEF SpinInv, AccountInv, Counted
      <3>2. Total = win.base + win.feature /\ Total \in Nat /\ Due = Clamp(Total)
        BY <2>0, <3>1, WinTyped DEF WinInv, SumsInv, Total
      <3>3. CapHit(Total)
        BY <2>0, <3>2, ClampIs
      <3> QED BY <3>1, <3>2, <3>3 DEF SpinInv, WinInv, NoticedInv
    <2>2. capReached => pc \notin {"evaluate", "reevaluate", "loop"}
      BY DEF StoppedInv, Closing
    <2> QED BY <2>0, <2>1, <2>2, PlaySteps
  <1>2. Init => StoppedInv
    BY DEF Init, StoppedInv
  <1>3. Spec => []StoppedInv
    BY <1>2, StoppedNext, SpinInvHolds, PTL DEF Spec
  <1> QED BY SpinInvHolds, <1>1, <1>3, PTL DEF Spec, NothingPlayedAfterCap

------------------------------------------------------------------------------
(* SlotRound's promise.                                                      *)

Phase == CASE pc = "done"   -> "settled"
           [] pc = "failed" -> "failed"
           [] OTHER         -> IF ctx.isFreeSpin THEN "free" ELSE "base"

Terms == [bet |-> req.bet, cap |-> def.cap, stop |-> EndsAtCap]

\* A spin that returned does nothing more.
LEMMA ReturnedStays ==
    ASSUME SpinInv, Returned, [Next]_vars
    PROVE  UNCHANGED vars
  <1>1. pending = <<>>
    BY DEF SpinInv, HookInv, Awaited, Returned
  <1> QED BY <1>1
          DEF Returned, Next, Idle, RunBuiltin, RunPlugin, PluginFails, Begin,
              BaseReveal, FreeReveal, Reveal, Revealed, BaseEvaluate,
              FreeEvaluate, Evaluate, BaseDecide, BaseLoopEnds, BaseLoopStops,
              BaseCascade, Refill, BaseRefilled, BaseReevaluate, CloseBase,
              EnterFreeSpins, FreeSpinsEnd, StartFreeSpin, FreeDecide,
              FreeLoopEnds, FreeLoopStops, FreeCascade, FreeRefilled,
              FreeReevaluate, FreeRetrigger, FreeRoundEnds, BeginSettle, Finish,
              SourceFails, EvaluatorFails, PayloadFails, At

\* A retrigger adds to the spins left.
LEMMA RetriggerAdds ==
    ASSUME TypeInv
    PROVE  /\ Retriggered(free, ctx.retriggerSpins).remaining
                 = free.remaining + ctx.retriggerSpins
           /\ ctx.retriggerSpins \in Nat /\ free.remaining \in Nat
  <1>1. ctx.retriggerSpins \in Nat /\ free \in FreeSpinState
    BY ContextTyped DEF TypeInv, TypeOK
  <1> QED BY <1>1 DEF Retriggered, FreeSpinState

\* The steps between the promise's own: the spins left grow at most, and in
\* the free spins only.
LEMMA RoundGoesOn ==
    ASSUME SpinInv, [Next]_vars, ~Returned, \A reason : ~Fail(reason),
           ~EnterFreeSpins, ~StartFreeSpin, ~Finish
    PROVE  /\ pc' \notin {"done", "failed"}
           /\ UNCHANGED <<def, req, result>>
           /\ ctx'.isFreeSpin = ctx.isFreeSpin
           /\ tally'.spins = tally.spins
           /\ free.remaining \in Nat /\ free'.remaining \in Nat
           /\ free.remaining <= free'.remaining
           /\ ~ctx.isFreeSpin => free'.remaining = free.remaining
  <1>1. TypeInv /\ free.remaining \in Nat
    BY DEF SpinInv, TypeInv, TypeOK, FreeSpinState
  <1>2. ctx'.isFreeSpin = ctx.isFreeSpin
    BY <1>1, ContextKeepsMode
  <1>3. CASE RunBuiltin
    <2>1. /\ UNCHANGED <<pc, def, req, result, tally>>
          /\ \E g : free' = [free EXCEPT !.global = g]
      BY <1>3 DEF RunBuiltin, inputs
    <2>2. free'.remaining = free.remaining
      BY <2>1 DEF SpinInv, TypeInv, TypeOK, FreeSpinState
    <2> QED BY <1>1, <1>2, <2>1, <2>2 DEF Returned
  <1>4. CASE RunPlugin
    BY <1>1, <1>2, <1>4 DEF RunPlugin, Returned, inputs
  <1>5. CASE BaseEvaluate \/ FreeEvaluate
    <2>1. PICK ev, kinds : Evaluate(ev, kinds)
      BY <1>5 DEF BaseEvaluate, FreeEvaluate
    <2> QED BY <1>1, <1>2, <2>1 DEF Evaluate, Call, inputs
  <1>6. CASE Refill
    <2>1. tally'.spins = tally.spins
      BY <1>6 DEF Refill, SpinInv, TypeInv, TypeOK, Counts
    <2> QED BY <1>1, <1>2, <1>6, <2>1 DEF Refill, Call, inputs
  <1>7. CASE BaseReevaluate \/ FreeReevaluate
    <2>1. PICK ev : /\ Reevaluated(ev)
                    /\ \/ Call("AfterEvaluation", "loop")
                       \/ Call("AfterEvaluation", "again")
      BY <1>7 DEF BaseReevaluate, FreeReevaluate
    <2> QED BY <1>1, <1>2, <2>1 DEF Reevaluated, Call, inputs
  <1>8. CASE FreeDecide \/ FreeRetrigger
    <2>1. /\ free' = Retriggered(free, ctx.retriggerSpins)
          /\ UNCHANGED <<def, req, result, tally>> /\ ctx.isFreeSpin
          /\ pc' \in {"loop", "round"}
      BY <1>8 DEF FreeDecide, FreeRetrigger, GoTo, inputs, At, SpinInv,
                  AccountInv, Counted
    <2> QED BY <1>1, <1>2, <2>1, RetriggerAdds
  <1>9. CASE \/ Begin \/ BaseReveal \/ FreeReveal \/ Revealed \/ BaseDecide
             \/ BaseLoopEnds \/ BaseLoopStops \/ BaseRefilled \/ CloseBase
             \/ FreeSpinsEnd \/ FreeLoopEnds \/ FreeLoopStops \/ FreeRefilled
             \/ FreeRoundEnds \/ BeginSettle \/ BaseCascade \/ FreeCascade
    <2>1. /\ pc' \notin {"done", "failed"}
          /\ UNCHANGED <<def, req, result, tally, free>>
      BY <1>9
         DEF Begin, BaseReveal, FreeReveal, Reveal, Revealed, BaseDecide,
             BaseLoopEnds, BaseLoopStops, BaseRefilled, Refilled, CloseBase,
             FreeSpinsEnd, FreeLoopEnds, FreeLoopStops, FreeRefilled,
             FreeRoundEnds, BeginSettle, BaseCascade, FreeCascade, Paid, Enter,
             Call, GoTo, inputs
    <2> QED BY <1>1, <1>2, <2>1
  <1>10. CASE UNCHANGED vars
    BY <1>1, <1>10 DEF vars, inputs, control, Returned
  <1> QED
    BY <1>3, <1>4, <1>5, <1>6, <1>7, <1>8, <1>9, <1>10
    DEF Next, Idle, PluginFails, SourceFails, EvaluatorFails, PayloadFails

\* A spin starts as the abstract round does.
LEMMA PromiseInit == Init => Round!Init
  <1> SUFFICES ASSUME Init PROVE Round!Init
    OBVIOUS
  <1>1. /\ pc = "begin" /\ ~ctx.isFreeSpin /\ free.remaining = 0
        /\ tally.spins = 0 /\ result.payout = -1
        /\ win.base = 0 /\ win.feature = 0 /\ win.round = 0
    BY DEF Init, NewContext, NoResult, Failed
  <1>2. TypeInv
    BY TypeInit
  <1>3. Terms \in [bet : Nat \ {0}, cap : Nat, stop : BOOLEAN]
    <2>1. req.bet \in Nat \ {0} /\ def.cap \in Nat
      <3>1. req.bet \in 1..MaxInt
        BY <1>2, InputsTyped
      <3>2. 1..MaxInt \subseteq Nat \ {0}
        BY MoneyAssumption
      <3> QED BY <1>2, <3>1, <3>2, ClampIs
    <2>2. EndsAtCap \in BOOLEAN
      BY DEF EndsAtCap
    <2> QED BY <2>1, <2>2 DEF Terms
  <1>4. Phase = "base"
    BY <1>1 DEF Phase
  <1>5. Due = 0
    BY <1>1, <1>2, ClampIs DEF Due, Clamp
  <1> QED BY <1>1, <1>3, <1>4, <1>5 DEF Round!Init, Terms, Phase

\* What is due stays within the cap.
LEMMA DueNext ==
    ASSUME TypeInv, TypeInv', UNCHANGED def
    PROVE  /\ Due' \in Nat
           /\ def.cap > 0 => Due' <= def.cap
  <1> DEFINE t == win'.base + win'.feature + win'.round
  <1>1. win'.base \in Nat /\ win'.feature \in Nat /\ win'.round \in Nat
    BY MoneyAssumption DEF TypeInv, TypeOK, Sums, Multiplier
  <1>2. t \in Nat
    BY <1>1
  <1>3. Due' = Clamp(t)
    BY DEF Due, Clamp, CapHit
  <1> HIDE DEF t
  <1> QED BY <1>2, <1>3, ClampIs

\* What the promise's variables say of a spin under way.
LEMMA PhaseIs ==
    /\ pc \notin {"done", "failed"} => Phase = IF ctx.isFreeSpin THEN "free"
                                                                 ELSE "base"
    /\ pc = "done" => Phase = "settled"
    /\ pc = "failed" => Phase = "failed"
  BY DEF Phase

\* The abstract round is maxed out when the cap is hit.
LEMMA MaxedOutIs ==
    ASSUME TypeInv
    PROVE  (Terms.cap > 0 /\ Due = Terms.cap) <=> CapHit(Total)
  BY WinTyped, ClampIs DEF Terms

\* Every step of a spin is a step of the abstract round, or none.
LEMMA PromiseNext ==
    ASSUME SpinInv, SpinInv', [Next]_vars
    PROVE  [Round!Next]_(Round!vars)
  <1> USE DEF Phase, Terms
  <1>1. CASE UNCHANGED vars
    BY <1>1 DEF vars, inputs, control, Round!vars, Due, Clamp, CapHit, EndsAtCap
  <1>2. CASE Returned
    BY <1>1, <1>2, ReturnedStays
  <1> SUFFICES ASSUME ~Returned PROVE Round!Next \/ UNCHANGED vars
    BY <1>1, <1>2
  <1>3. /\ Phase = IF ctx.isFreeSpin THEN "free" ELSE "base"
        /\ Phase \in {"base", "free"}
    BY DEF Returned
  <1> HIDE DEF Phase, Terms
  <1>4. TypeInv /\ TypeInv' /\ WinInv /\ AccountInv
    BY DEF SpinInv
  <1>5. Due <= Due' /\ Due \in Nat
    BY WinNext, WinTyped DEF SpinInv
  <1>6. ASSUME UNCHANGED <<def, req>> PROVE Terms' = Terms
    BY <1>6 DEF Terms, EndsAtCap
  <1>7. ASSUME NEW reason, Fail(reason) PROVE Round!FailSpin
    <2>1. /\ pc' = "failed"
          /\ UNCHANGED <<def, req, win, free, tally, result>>
      BY <1>7 DEF Fail, inputs
    <2>2. Phase' = "failed" /\ Due' = Due
      BY <2>1 DEF Phase, Due, Clamp, CapHit
    <2> QED BY <1>3, <1>6, <2>1, <2>2 DEF Round!FailSpin, Phase, Terms
  <1>8. CASE EnterFreeSpins /\ ~Fail("transition")
    <2>1. /\ pc = "enter" /\ pc' = "spins"
          /\ UNCHANGED <<def, req, win, tally, result>>
          /\ free'.remaining = ctx.awardSpins
          /\ ctx' = [ctx EXCEPT !.isFreeSpin = TRUE, !.awardSpins = 0]
      BY <1>8 DEF EnterFreeSpins, At, Enter, GoTo, inputs
    <2>2. ~ctx.isFreeSpin /\ ctx'.isFreeSpin
      BY <1>4, <2>1 DEF AccountInv, Counted, TypeInv, SoundContext, Context
    <2>3. free'.remaining \in Nat \ {0}
      <3>1. ctx.awardSpins \in Nat
        BY <1>4, ContextTyped DEF TypeInv
      <3>2. ctx.awardSpins > 0
        BY <1>4, <2>1 DEF WinInv, OutcomeInv
      <3> QED BY <2>1, <3>1, <3>2
    <2>4. Phase = "base" /\ Phase' = "free" /\ Due' = Due
      BY <1>3, <2>1, <2>2 DEF Phase, Due, Clamp, CapHit
    <2>5. ~((Terms.cap > 0 /\ Due = Terms.cap) /\ Terms.stop)
      <3>1. ~(capReached /\ EndsAtCap)
        BY <1>4, <2>1 DEF WinInv, OutcomeInv
      <3>2. win.feature = 0 /\ win.round = 0
        BY <1>4, <2>2 DEF WinInv, SumsInv
      <3>3. CapHit(Total) => capReached
        <4>1. Total = win.base + win.feature
          BY <1>4, <3>2, WinTyped DEF Total
        <4> QED BY <1>4, <2>1, <4>1 DEF WinInv, NoticedInv
      <3>4. Terms.stop = EndsAtCap
        BY DEF Terms
      <3> QED BY <1>4, <3>1, <3>3, <3>4, MaxedOutIs
    <2>6. Round!AwardFreeSpins
      BY <1>6, <2>1, <2>3, <2>4, <2>5
         DEF Round!AwardFreeSpins, Round!MaxedOut, Phase, Terms
    <2> QED BY <2>6 DEF Round!Next
  <1>9. CASE StartFreeSpin /\ ~Fail("transition")
    <2>1. /\ pc = "spins" /\ pc' = "generate"
          /\ UNCHANGED <<def, req, win, result>>
          /\ free' = [free EXCEPT !.remaining = @ - 1]
          /\ tally' = [tally EXCEPT !.spins = @ + 1]
          /\ free.remaining # 0 /\ ~(capReached /\ EndsAtCap)
      BY <1>9 DEF StartFreeSpin, NoMoreSpins, At, Enter, Call, inputs
    <2>2. ctx.isFreeSpin
      BY <1>4, <2>1 DEF AccountInv, Counted
    <2>3. ctx'.isFreeSpin
      <3>1. ~EnterFreeSpins
        BY <2>1 DEF EnterFreeSpins, At
      <3> QED BY <1>4, <2>2, <3>1, ContextKeepsMode
    <2>4. /\ free'.remaining = free.remaining - 1 /\ free.remaining > 0
          /\ tally'.spins = tally.spins + 1
      BY <1>4, <2>1 DEF TypeInv, TypeOK, FreeSpinState, Counts
    <2>5. Phase = "free" /\ Phase' = "free" /\ Due' = Due
      BY <1>3, <2>1, <2>2, <2>3 DEF Phase, Due, Clamp, CapHit
    <2>6. ~((Terms.cap > 0 /\ Due = Terms.cap) /\ Terms.stop)
      <3>1. CapHit(Total) => capReached
        <4>1. win.round = 0
          BY <1>4, <2>1, <2>2 DEF WinInv, SumsInv
        <4>2. Total = win.base + win.feature
          BY <1>4, <4>1, WinTyped DEF Total
        <4> QED BY <1>4, <2>2, <4>2 DEF WinInv, NoticedInv
      <3>2. Terms.stop = EndsAtCap
        BY DEF Terms
      <3> QED BY <1>4, <2>1, <3>1, <3>2, MaxedOutIs
    <2>7. Round!PlayFreeSpin
      BY <1>6, <2>1, <2>4, <2>5, <2>6
         DEF Round!PlayFreeSpin, Round!MaxedOut, Phase, Terms
    <2> QED BY <2>7 DEF Round!Next
  <1>10. CASE Finish /\ ~Fail("arithmetic") /\ ~Fail("transition")
    <2>1. pc' = "done" /\ UNCHANGED <<def, req, win, free, tally>>
      BY <1>10 DEF Finish, Enter, GoTo, inputs
    <2>2. Phase' = "settled" /\ Due' = Due
      BY <2>1 DEF Phase, Due, Clamp, CapHit
    <2>3. result'.payout = (req.bet * Due) \div Scale
      BY <2>1, <2>2 DEF SpinInv, WinInv, OutcomeInv
    <2>4. Round!SettleSpin
      BY <1>3, <1>6, <2>1, <2>2, <2>3 DEF Round!SettleSpin, Phase, Terms
    <2> QED BY <2>4 DEF Round!Next
  <1>11. CASE /\ \A reason : ~Fail(reason)
              /\ ~EnterFreeSpins /\ ~StartFreeSpin /\ ~Finish
    <2>1. /\ pc' \notin {"done", "failed"}
          /\ UNCHANGED <<def, req, result>>
          /\ ctx'.isFreeSpin = ctx.isFreeSpin
          /\ tally'.spins = tally.spins
          /\ free'.remaining \in Nat /\ free.remaining <= free'.remaining
          /\ ~ctx.isFreeSpin => free'.remaining = free.remaining
      BY <1>11, RoundGoesOn
    <2>2. Phase' = Phase
      BY <1>3, <2>1 DEF Phase
    <2>3. Due' \in Nat /\ (def.cap > 0 => Due' <= def.cap)
      BY <1>4, <2>1, DueNext
    <2>4. Phase = "base" => ~ctx.isFreeSpin
      BY <1>3
    <2>5. Terms.cap = def.cap
      BY DEF Terms
    <2>6. Round!Progress
      BY <1>3, <1>5, <1>6, <2>1, <2>2, <2>3, <2>4, <2>5
         DEF Round!Progress, Phase, Terms
    <2> QED BY <2>6 DEF Round!Next
  <1> QED BY <1>7, <1>8, <1>9, <1>10, <1>11 DEF Round!Next

(* A spin is a round as SlotRound promises it, with any features: what is    *)
(* due never shrinks nor passes the cap, nothing is awarded or played past a *)
(* terminating cap, and the spin settles on what is due or fails.            *)
THEOREM PromiseKept == Spec => KeepsPromise
  <1>1. SpinInv /\ SpinInv' /\ [Next]_vars => [Round!Next]_(Round!vars)
    BY PromiseNext
  <1> QED BY SpinInvHolds, PromiseInit, <1>1, PTL
          DEF Spec, KeepsPromise, Round!Spec

------------------------------------------------------------------------------
(* What a spin of a game with the built-in features only plays, reports and *)
(* leaves unpaid, whatever order they are called in.                        *)

Triggered == log.triggers # {}

\* No built-in terminates a feature.
EndInv == ~ctx.endFeature /\ ~ctx.endSession

\* An award waits for the free spins to begin, and a spin settles with awards
\* or spins left only at its cap.
AwardInv ==
    /\ ctx.isFreeSpin => ctx.awardSpins = 0
    /\ pc \in Closing => \/ capReached /\ EndsAtCap
                         \/ free.remaining = 0 /\ ctx.awardSpins = 0

\* The trigger of an award is recorded when the grid that won it is decided
\* on; a refilled grid's is recorded before the hook that awards.
TriggerInv ==
    /\ ctx.isFreeSpin => Triggered
    /\ ctx.awardSpins > 0 =>
          Triggered \/ (pc \in {"decide", "failed"} /\ ctx.eval.award # 0)
    /\ pc = "loop" /\ ~ctx.isFreeSpin /\ ctx.eval.award # 0 => Triggered

\* The base game's award has selected the free spins' reel set already.
FreeReelInv ==
    def.freeReels # "" =>
        /\ ctx.isFreeSpin \/ ctx.awardSpins > 0 => ctx.reelSet = def.freeReels
        /\ ctx.isFreeSpin \/ pc = "enter" => seen.reels \subseteq {def.freeReels}

\* Until a trigger is recorded the base reels are spun; an award not recorded
\* yet may have selected others.
BaseReelInv ==
    ~ctx.isFreeSpin /\ ~Triggered =>
        /\ seen.reels \subseteq {"base"}
        /\ \/ ctx.reelSet = "base"
           \/ pc \in {"decide", "failed"} /\ ctx.eval.award # 0

ReelInv == FreeReelInv /\ BaseReelInv

HasCascade ==
    /\ def.cascadeEnabled
    /\ \E i \in DOMAIN def.features : def.features[i] = "cascade"

CascadePending == \E i \in DOMAIN pending : pending[i] = "cascade"

\* A grid's wins are left unpaid by the cascade feature's decision only, once
\* it has been called on the grid.
UnpaidInv ==
    /\ \A i \in DOMAIN pending :
          \E j \in DOMAIN def.features : pending[i] = def.features[j]
    /\ ctx.cascadeRequested => HasCascade
    /\ pc \in {"loop", "collapse", "refilled", "reevaluate", "again"}
          => HasCascade
    /\ pc \in {"collapse", "refilled"} => ~seen.unpaid
    /\ pc \in {"decide", "loop", "again"} /\ seen.unpaid =>
          /\ Ways(ctx.eval) > 0
          /\ HasCascade /\ ~CascadePending =>
                ctx.cascadeRequested \/ ctx.cascadeIndex >= def.maxCascades

BuiltinInv ==
    Builtins => EndInv /\ AwardInv /\ TriggerInv /\ ReelInv /\ UnpaidInv

------------------------------------------------------------------------------
(* What the built-ins do to the context.                                     *)

\* What no built-in changes.
Kept(n, c) ==
    /\ n.isFreeSpin = c.isFreeSpin
    /\ n.cascadeIndex = c.cascadeIndex
    /\ n.eval = c.eval
    /\ n.endFeature = c.endFeature
    /\ n.endSession = c.endSession

\* The methods of FeatureContext change nothing but the decision they record.
LEMMA DecisionsKeep ==
    ASSUME NEW c \in SoundContext
    PROVE  /\ Kept(c, c)
           /\ \A m : LET n == RequestCascade(c, m) IN
                 /\ Kept(n, c) /\ n.awardSpins = c.awardSpins
                 /\ n.reelSet = c.reelSet /\ n.cascadeRequested
           /\ \A r : LET n == SelectReelSet(c, r) IN
                 /\ Kept(n, c) /\ n.awardSpins = c.awardSpins
                 /\ n.reelSet = r
                 /\ n.cascadeRequested = c.cascadeRequested
           /\ \A m : LET n == AwardFreeSpins(c, m) IN
                 /\ Kept(n, c) /\ n.reelSet = c.reelSet
                 /\ n.cascadeRequested = c.cascadeRequested
           /\ \A m : LET n == RetriggerFreeSpins(c, m) IN
                 /\ Kept(n, c) /\ n.awardSpins = c.awardSpins
                 /\ n.reelSet = c.reelSet
                 /\ n.cascadeRequested = c.cascadeRequested
  BY DEF Kept, RequestCascade, SelectReelSet, AwardFreeSpins,
         RetriggerFreeSpins, SoundContext, Context

\* The scatter feature's decision on a grid.
LEMMA ScatterDecides ==
    ASSUME NEW d \in Definition, NEW c \in SoundContext, NEW total \in Nat
    PROVE  LET n == ScatterAfterEvaluation(d, c, total) IN
           /\ Kept(n, c)
           /\ n.cascadeRequested = c.cascadeRequested
           /\ \/ n.awardSpins = c.awardSpins /\ n.reelSet = c.reelSet
              \/ /\ ~c.isFreeSpin /\ c.eval.award # 0
                 /\ n.reelSet = IF d.freeReels # "" THEN d.freeReels
                                                    ELSE c.reelSet
  <1>0. d.maxSpins \in Nat /\ c.eval.award \in Int
    BY DefinitionTyped DEF SoundContext, Context, Evaluation
  <1> DEFINE k == AtMost(c.eval.award, d.maxSpins)
             a == AwardFreeSpins(c, k)
             b == RetriggerFreeSpins(c, RetriggerAward(d, c, total))
  <1>1. a \in SoundContext
    <2>1. k \in Int
      BY <1>0 DEF AtMost
    <2> QED BY <2>1, DecisionsTyped
  <1>2. /\ Kept(a, c) /\ a.reelSet = c.reelSet
        /\ a.cascadeRequested = c.cascadeRequested
        /\ Kept(b, c) /\ b.reelSet = c.reelSet /\ b.awardSpins = c.awardSpins
        /\ b.cascadeRequested = c.cascadeRequested
        /\ Kept(c, c)
    BY DecisionsKeep
  <1>3. /\ Kept(SelectReelSet(a, d.freeReels), a)
        /\ SelectReelSet(a, d.freeReels).reelSet = d.freeReels
        /\ SelectReelSet(a, d.freeReels).cascadeRequested = a.cascadeRequested
    BY <1>1, DecisionsKeep
  <1>4. \/ ScatterAfterEvaluation(d, c, total) = c
        \/ ScatterAfterEvaluation(d, c, total) = b
        \/ /\ ~c.isFreeSpin /\ c.eval.award # 0
           /\ ScatterAfterEvaluation(d, c, total) =
                 IF d.freeReels # "" THEN SelectReelSet(a, d.freeReels) ELSE a
    BY Zenon DEF ScatterAfterEvaluation
  <1> HIDE DEF a, b
  <1> QED BY <1>2, <1>3, <1>4, Zenon DEF Kept

\* What calling built-in f in hook h may make of context c.
Effects(d, f, h, c, n) ==
    /\ Kept(n, c)
    /\ \/ n.awardSpins = c.awardSpins
       \/ /\ f = Scatter /\ h = "AfterEvaluation"
          /\ ~c.isFreeSpin /\ c.eval.award # 0
          /\ d.freeReels # "" => n.reelSet = d.freeReels
    /\ n.reelSet = c.reelSet \/ n.reelSet = d.freeReels
    /\ \/ n.reelSet = c.reelSet
       \/ c.isFreeSpin
       \/ h = "AfterEvaluation" /\ c.eval.award # 0
    /\ \/ n.cascadeRequested = c.cascadeRequested
       \/ /\ f = "cascade" /\ h = "AfterEvaluation"
          /\ d.cascadeEnabled /\ n.cascadeRequested

\* What a hook of the built-in features may change in the context.
LEMMA HookEffects ==
    ASSUME NEW d \in Definition, NEW c \in SoundContext, NEW total \in Nat,
           NEW g \in Multiplier, NEW f, NEW h
    PROVE  Effects(d, f, h, c, BuiltinHook(d, f, h, c, total, g).ctx)
  <1> USE DEF Effects
  <1> DEFINE n == BuiltinHook(d, f, h, c, total, g).ctx
  <1>1. CASE f = "cascade" /\ h = "AfterEvaluation"
    <2>1. \/ n = c
          \/ d.cascadeEnabled /\ \E m : n = RequestCascade(c, m)
      BY <1>1 DEF BuiltinHook, CascadeAfterEvaluation, WantsCascade, Ok, Err
    <2> HIDE DEF n
    <2>2. CASE n = c
      BY <2>2, DecisionsKeep, Zenon DEF n
    <2>3. CASE d.cascadeEnabled /\ \E m : n = RequestCascade(c, m)
      <3>1. PICK m : n = RequestCascade(c, m)
        BY <2>3
      <3>2. /\ Kept(n, c) /\ n.awardSpins = c.awardSpins
            /\ n.reelSet = c.reelSet /\ n.cascadeRequested
        BY <3>1, DecisionsKeep
      <3> QED BY <1>1, <2>3, <3>2 DEF n
    <2> QED BY <2>1, <2>2, <2>3
  <1>2. CASE f = "cascade" /\ h = "AfterCascade"
    <2>1. n = c
      BY <1>2 DEF BuiltinHook, CascadeAfterCascade, Ok, Err
    <2> HIDE DEF n
    <2> QED BY <2>1, DecisionsKeep, Zenon DEF n
  <1>3. CASE f = Scatter /\ h = "BeforeSpin"
    <2>1. n = c \/ (n = SelectReelSet(c, d.freeReels) /\ c.isFreeSpin)
      BY <1>3 DEF BuiltinHook, ScatterBeforeSpin, Ok, Scatter
    <2> HIDE DEF n
    <2>2. /\ Kept(n, c) /\ n.awardSpins = c.awardSpins
          /\ \/ n.reelSet = c.reelSet
             \/ n.reelSet = d.freeReels /\ c.isFreeSpin
          /\ n.cascadeRequested = c.cascadeRequested
      BY <2>1, DecisionsKeep
    <2> QED BY <2>2 DEF n
  <1>4. CASE f = Scatter /\ h = "AfterEvaluation"
    <2>1. n = ScatterAfterEvaluation(d, c, total)
      BY <1>4 DEF BuiltinHook, Ok, Scatter
    <2> HIDE DEF n
    <2>2. /\ Kept(n, c)
          /\ n.cascadeRequested = c.cascadeRequested
          /\ \/ n.awardSpins = c.awardSpins /\ n.reelSet = c.reelSet
             \/ /\ ~c.isFreeSpin /\ c.eval.award # 0
                /\ n.reelSet = IF d.freeReels # "" THEN d.freeReels
                                                   ELSE c.reelSet
      BY <2>1, ScatterDecides
    <2> QED BY <1>4, <2>2 DEF n
  <1>5. CASE /\ ~(f = "cascade" /\ h \in {"AfterEvaluation", "AfterCascade"})
             /\ ~(f = Scatter /\ h \in {"BeforeSpin", "AfterEvaluation"})
    <2>1. n = c
      BY <1>5 DEF BuiltinHook, Ok, Scatter
    <2> HIDE DEF n
    <2> QED BY <2>1, DecisionsKeep, Zenon DEF n
  <1> QED BY <1>1, <1>2, <1>3, <1>4, <1>5

\* Called on a grid it wants to cascade, the cascade feature asks for it.
LEMMA CascadeAsks ==
    ASSUME NEW d \in Definition, NEW c \in SoundContext, NEW total \in Nat,
           NEW g \in Multiplier, WantsCascade(d, c),
           BuiltinHook(d, "cascade", "AfterEvaluation", c, total, g).ok
    PROVE  BuiltinHook(d, "cascade", "AfterEvaluation", c, total, g).ctx
              .cascadeRequested
  <1> DEFINE r == BuiltinHook(d, "cascade", "AfterEvaluation", c, total, g)
  <1>1. \E m : r.ctx = RequestCascade(c, m)
    <2>1. r = CascadeAfterEvaluation(d, c, g)
      BY DEF BuiltinHook
    <2> QED BY <2>1 DEF CascadeAfterEvaluation, Ok, Err
  <1> HIDE DEF r
  <1>2. r.ctx.cascadeRequested
    BY <1>1, DecisionsKeep
  <1> QED BY <1>2 DEF r

------------------------------------------------------------------------------
(* What a step outside the hooks does to the context and the log.            *)

\* Every step changes the context as Spin does between hooks, or as a hook does.
LEMMA ContextMoves ==
    ASSUME TypeInv, [Next]_vars, ~RunBuiltin, ~RunPlugin
    PROVE  /\ UNCHANGED <<ctx.endFeature, ctx.endSession, ctx.reelSet>>
           /\ \/ UNCHANGED <<ctx.awardSpins, ctx.isFreeSpin>>
              \/ EnterFreeSpins /\ ctx'.awardSpins = 0
           /\ UNCHANGED ctx.cascadeRequested \/ ~ctx'.cascadeRequested
           /\ \/ UNCHANGED <<ctx.eval, ctx.cascadeIndex, ctx.cascadeRequested>>
              \/ pc' \in {"refilled", "generate"}
              \/ pc' = "decide" /\ pc = "evaluate"
              \/ pc' \in {"loop", "again"} /\ pc = "reevaluate"
  <1>0. ctx \in SoundContext
    BY DEF TypeInv
  <1>1. CASE UNCHANGED ctx
    BY <1>1
  <1>2. CASE BaseEvaluate \/ FreeEvaluate
    <2>1. PICK ev, kinds : Evaluate(ev, kinds)
      BY <1>2 DEF BaseEvaluate, FreeEvaluate
    <2>2. ctx' = [ctx EXCEPT !.eval = ev] /\ pc = "evaluate" /\ pc' = "decide"
      BY <2>1 DEF Evaluate, At, Call
    <2> QED BY <1>0, <2>2 DEF SoundContext, Context
  <1>3. CASE BaseReevaluate \/ FreeReevaluate
    <2>1. CASE UNCHANGED ctx
      BY <1>1, <2>1
    <2>2. CASE ctx' # ctx
      <3>1. PICK ev : /\ ctx' = ResetRoundDecisions([ctx EXCEPT !.eval = ev])
                      /\ pc = "reevaluate" /\ pc' \in {"loop", "again"}
        BY <1>3, <2>2
           DEF BaseReevaluate, FreeReevaluate, Reevaluated, At, Call, Fail
      <3> QED BY <1>0, <3>1 DEF ResetRoundDecisions, SoundContext, Context
    <2> QED BY <2>1, <2>2
  <1>4. CASE BaseCascade \/ FreeCascade \/ Refill
    <2>1. \/ UNCHANGED ctx
          \/ ctx' = [ctx EXCEPT !.cascadeIndex = @ + 1] /\ pc' = "refilled"
      BY <1>4 DEF BaseCascade, FreeCascade, Paid, Refill, Enter, Call, Fail
    <2> QED BY <1>0, <1>1, <2>1 DEF SoundContext, Context
  <1>5. CASE EnterFreeSpins
    <2>1. \/ UNCHANGED ctx
          \/ ctx' = [ctx EXCEPT !.isFreeSpin = TRUE, !.awardSpins = 0]
      BY <1>5 DEF EnterFreeSpins, Enter, Fail
    <2> QED BY <1>0, <1>1, <1>5, <2>1 DEF SoundContext, Context
  <1>6. CASE StartFreeSpin
    <2>1. \/ UNCHANGED ctx
          \/ /\ ctx' = ResetRoundDecisions([ctx EXCEPT !.cascadeIndex = 0])
             /\ pc' = "generate"
      BY <1>6 DEF StartFreeSpin, Enter, Call, Fail
    <2> QED BY <1>0, <1>1, <2>1 DEF ResetRoundDecisions, SoundContext, Context
  <1>7. CASE FreeDecide \/ FreeRetrigger
    <2>1. UNCHANGED ctx \/ ctx' = [ctx EXCEPT !.retriggerSpins = 0]
      BY <1>7 DEF FreeDecide, FreeRetrigger, Fail
    <2> QED BY <1>0, <1>1, <2>1 DEF SoundContext, Context
  <1>8. CASE \/ PluginFails \/ Begin \/ BaseReveal \/ FreeReveal \/ Revealed
             \/ BaseDecide \/ BaseLoopEnds \/ BaseLoopStops \/ BaseRefilled
             \/ CloseBase \/ FreeSpinsEnd \/ FreeLoopEnds \/ FreeLoopStops
             \/ FreeRefilled \/ FreeRoundEnds \/ BeginSettle \/ Finish
             \/ SourceFails \/ EvaluatorFails \/ PayloadFails
    BY <1>1, <1>8
       DEF PluginFails, Begin, BaseReveal, FreeReveal, Reveal, Revealed,
           BaseDecide, BaseLoopEnds, BaseLoopStops, BaseRefilled, Refilled,
           CloseBase, FreeSpinsEnd, FreeLoopEnds, FreeLoopStops, FreeRefilled,
           FreeRoundEnds, BeginSettle, Finish, SourceFails, EvaluatorFails,
           PayloadFails,
           Enter, Fail
  <1> QED
    BY <1>1, <1>2, <1>3, <1>4, <1>5, <1>6, <1>7, <1>8 DEF Next, Idle, vars

\* No step changes the definition.
LEMMA InputsStay ==
    ASSUME [Next]_vars
    PROVE  UNCHANGED def
  <1>1. CASE BaseEvaluate \/ FreeEvaluate
    <2>1. PICK ev, kinds : Evaluate(ev, kinds)
      BY <1>1 DEF BaseEvaluate, FreeEvaluate
    <2> QED BY <2>1 DEF Evaluate, inputs
  <1> QED BY <1>1
          DEF Next, Idle, vars, inputs, RunBuiltin, RunPlugin, PluginFails,
              Begin, BaseReveal, FreeReveal, Reveal, Revealed, BaseDecide,
              BaseLoopEnds, BaseLoopStops, BaseCascade, Paid, Refill,
              BaseRefilled, Refilled, BaseReevaluate, Reevaluated, CloseBase,
              EnterFreeSpins, FreeSpinsEnd, StartFreeSpin, FreeDecide,
              FreeLoopEnds, FreeLoopStops, FreeCascade, FreeRefilled,
              FreeReevaluate, FreeRetrigger, FreeRoundEnds, BeginSettle,
              Finish, SourceFails, EvaluatorFails, PayloadFails, Enter, Fail

\* The game's features are never called on a plugin.
LEMMA NoPlugin ==
    ASSUME TypeInv, AccountInv, Builtins, [Next]_vars
    PROVE  ~RunPlugin /\ UNCHANGED def /\ Builtins'
  <1>1. ASSUME pending # <<>> PROVE Head(pending) # "plugin"
    <2>1. pending \in Seq(FeatureNames) /\ 1 \in DOMAIN pending
      BY <1>1 DEF TypeInv, TypeOK
    <2> QED BY <1>1, <2>1 DEF AccountInv, WithinLimit, OncePending
  <1>2. UNCHANGED def
    BY InputsStay
  <1> QED BY <1>1, <1>2 DEF RunPlugin, Builtins

\* A trigger that was recorded stays recorded.
LEMMA LogGrows ==
    ASSUME TypeInv, [Next]_vars
    PROVE  log.triggers \subseteq log'.triggers
  <1>1. log \in Logs
    BY DEF TypeInv, TypeOK
  <1>2. ASSUME NEW kinds
        PROVE  Emitted(log, kinds).triggers = log.triggers
    BY <1>1 DEF Emitted, Logs
  <1>3. ASSUME NEW kinds, NEW ev
        PROVE  log.triggers \subseteq Recorded(Emitted(log, kinds), ev).triggers
    BY <1>1 DEF Emitted, Recorded, Logs
  <1>4. \/ UNCHANGED log
        \/ \E kinds : log' = Emitted(log, kinds)
        \/ \E kinds, ev : log' = Recorded(Emitted(log, kinds), ev)
    <2>1. CASE BaseEvaluate \/ FreeEvaluate
      <3>1. PICK ev, kinds : Evaluate(ev, kinds)
        BY <2>1 DEF BaseEvaluate, FreeEvaluate
      <3> QED BY <3>1 DEF Evaluate
    <2>2. CASE BaseDecide \/ BaseReevaluate
      BY <2>2 DEF BaseDecide, BaseReevaluate, Fail
    <2>3. CASE FreeReevaluate
      BY <2>3 DEF FreeReevaluate, Fail
    <2>4. CASE BaseCascade \/ FreeCascade \/ Refill
      BY <2>4 DEF BaseCascade, FreeCascade, Paid, Refill, Enter, Fail
    <2>5. CASE CloseBase \/ FreeRoundEnds
      BY <2>5 DEF CloseBase, FreeRoundEnds, Enter, Fail
    <2>6. CASE \/ RunBuiltin \/ RunPlugin \/ PluginFails \/ Begin
               \/ BaseReveal \/ FreeReveal \/ Revealed \/ BaseLoopEnds
               \/ BaseLoopStops \/ BaseRefilled \/ EnterFreeSpins
               \/ FreeSpinsEnd \/ StartFreeSpin \/ FreeDecide \/ FreeLoopEnds
               \/ FreeLoopStops \/ FreeRefilled \/ FreeRetrigger
               \/ BeginSettle \/ Finish \/ SourceFails \/ EvaluatorFails
               \/ PayloadFails
      BY <2>6
         DEF RunBuiltin, RunPlugin, PluginFails, Begin, BaseReveal, FreeReveal,
             Reveal, Revealed, BaseLoopEnds, BaseLoopStops, BaseRefilled,
             Refilled, EnterFreeSpins, FreeSpinsEnd, StartFreeSpin, FreeDecide,
             FreeLoopEnds, FreeLoopStops, FreeRefilled, FreeRetrigger,
             BeginSettle, Finish, SourceFails, EvaluatorFails,
             PayloadFails, Enter, Fail
    <2> QED BY <2>1, <2>2, <2>3, <2>4, <2>5, <2>6 DEF Next, Idle, vars
  <1> QED BY <1>2, <1>3, <1>4

------------------------------------------------------------------------------
(* The invariants, one by one.  A hook first: what calling the next built-in *)
(* does to the context.                                                      *)

\* Without plugins every hook called is one of a built-in feature.
LEMMA BuiltinCalled ==
    ASSUME TypeInv, HookInv, RunBuiltin, ~Fail("feature")
    PROVE  /\ Effects(def, Head(pending), hook, ctx, ctx')
           /\ /\ Head(pending) = "cascade" /\ hook = "AfterEvaluation"
              /\ WantsCascade(def, ctx)
              => ctx'.cascadeRequested
           /\ pending # <<>> /\ pending' = Tail(pending)
           /\ free'.remaining = free.remaining
           /\ UNCHANGED <<def, pc, hook, capReached, log, seen>>
           /\ pc \in DOMAIN Awaited /\ hook = Awaited[pc]
           /\ pc = "loop" => ~ctx.isFreeSpin
  <1> DEFINE r == BuiltinHook(def, Head(pending), hook, ctx, free.total,
                              free.global)
  <1>1. /\ r.ok /\ ctx' = r.ctx /\ pending # <<>> /\ pending' = Tail(pending)
        /\ free' = [free EXCEPT !.global = r.global]
        /\ UNCHANGED <<def, pc, hook, capReached, log, seen>>
    BY DEF RunBuiltin, inputs
  <1>2. /\ def \in Definition /\ ctx \in SoundContext
        /\ free.total \in Nat /\ free.global \in Multiplier
    BY InputsTyped DEF TypeInv, TypeOK, FreeSpinState
  <1>3. /\ Head(pending) = "cascade" /\ hook = "AfterEvaluation"
        /\ WantsCascade(def, ctx)
        => ctx'.cascadeRequested
    BY <1>1, <1>2, CascadeAsks
  <1>4. free'.remaining = free.remaining
    <2> HIDE DEF r
    <2> QED BY <1>1 DEF TypeInv, TypeOK, FreeSpinState
  <1>5. Effects(def, Head(pending), hook, ctx, r.ctx)
    BY <1>2, HookEffects
  <1> HIDE DEF r
  <1>6. ctx' = r.ctx
    BY <1>1
  <1> QED BY <1>1, <1>3, <1>4, <1>5, <1>6 DEF HookInv

\* The hooks awaited at the points Spin goes through.
LEMMA AwaitedHooks ==
    /\ \A p \in DOMAIN Awaited :
          Awaited[p] = "AfterEvaluation" => p \in {"decide", "loop", "again"}
    /\ \A p \in {"decide", "loop", "again"} : Awaited[p] = "AfterEvaluation"
    /\ {"begin", "spins", "round", "close", "enter", "settle", "done", "failed"}
          \cap DOMAIN Awaited = {}
  BY DEF Awaited

\* The base facts every proof below starts from.
Premises ==
    /\ SpinInv
    /\ Builtins
    /\ BuiltinInv
    /\ [Next]_vars

\* No step of the built-in features ends a feature or the session.
LEMMA EndNext == Premises => EndInv'
  <1> SUFFICES ASSUME Premises PROVE EndInv'
    OBVIOUS
  <1>1. ~RunPlugin /\ EndInv /\ TypeInv
    BY NoPlugin DEF Premises, SpinInv, BuiltinInv
  <1>2. CASE RunBuiltin /\ ~Fail("feature")
    BY <1>1, <1>2, BuiltinCalled
       DEF Premises, SpinInv, Effects, Kept, EndInv
  <1>3. CASE RunBuiltin /\ Fail("feature")
    BY <1>1, <1>3 DEF Fail, EndInv
  <1>4. CASE ~RunBuiltin
    BY <1>1, <1>4, ContextMoves DEF Premises, EndInv
  <1> QED BY <1>2, <1>3, <1>4

\* How Spin comes to settle.
LEMMA ClosingSteps ==
    ASSUME [Next]_vars, ~RunBuiltin, ~RunPlugin, pc' \in Closing
    PROVE  \/ UNCHANGED vars
           \/ FreeSpinsEnd
           \/ CloseBase
           \/ FreeRoundEnds
           \/ pc \in Closing /\ UNCHANGED <<def, free, ctx, capReached>>
  <1>1. CASE BaseEvaluate \/ FreeEvaluate
    <2>1. PICK ev, kinds : Evaluate(ev, kinds)
      BY <1>1 DEF BaseEvaluate, FreeEvaluate
    <2> QED BY <2>1 DEF Evaluate, Call, Closing
  <1>2. CASE BeginSettle \/ Finish
    BY <1>2 DEF BeginSettle, Finish, At, Enter, Call, GoTo, Fail, inputs, Closing
  <1> QED BY <1>1, <1>2
          DEF Next, Idle, PluginFails, Begin, BaseReveal, FreeReveal, Reveal,
              Revealed, BaseDecide, BaseLoopEnds, BaseLoopStops, BaseCascade,
              Paid, Refill, BaseRefilled, Refilled, BaseReevaluate,
              EnterFreeSpins,
              StartFreeSpin, FreeDecide, FreeLoopEnds, FreeLoopStops,
              FreeCascade, FreeRefilled, FreeReevaluate, FreeRetrigger,
              SourceFails, EvaluatorFails,
              PayloadFails, Enter, Call, GoTo, Fail, Closing

\* Every step keeps awards waiting for the free spins they are for.
LEMMA AwardNext == Premises => AwardInv'
  <1> SUFFICES ASSUME Premises PROVE AwardInv'
    OBVIOUS
  <1>0. /\ ~RunPlugin /\ UNCHANGED def
        /\ TypeInv /\ AccountInv /\ HookInv /\ WinInv /\ AwardInv /\ EndInv
        /\ [Next]_vars
    BY NoPlugin DEF Premises, SpinInv, BuiltinInv
  <1>1. CASE RunBuiltin /\ Fail("feature")
    BY <1>0, <1>1 DEF Fail, AwardInv, Closing
  <1>2. CASE RunBuiltin /\ ~Fail("feature")
    <2>1. pc \in Closing => hook # "AfterEvaluation"
      BY <1>0, <1>2, BuiltinCalled, AwaitedHooks DEF Closing
    <2>2. /\ Kept(ctx', ctx)
          /\ \/ ctx'.awardSpins = ctx.awardSpins
             \/ hook = "AfterEvaluation" /\ ~ctx.isFreeSpin
          /\ free'.remaining = free.remaining
          /\ UNCHANGED <<def, pc, capReached>>
      BY <1>0, <1>2, BuiltinCalled DEF Effects
    <2> QED BY <1>0, <2>1, <2>2 DEF AwardInv, Kept, EndsAtCap
  <1>3. CASE ~RunBuiltin
    <2>1. ctx'.isFreeSpin => ctx'.awardSpins = 0
      BY <1>0, <1>3, ContextMoves DEF AwardInv
    <2>2. ASSUME pc' \in Closing
          PROVE  \/ capReached' /\ EndsAtCap'
                 \/ free'.remaining = 0 /\ ctx'.awardSpins = 0
      <3>1. CASE UNCHANGED vars
        BY <1>0, <2>2, <3>1 DEF vars, inputs, control, AwardInv, EndsAtCap
      <3>2. CASE FreeSpinsEnd
        <4>1. /\ UNCHANGED <<def, free, ctx, capReached>>
              /\ NoMoreSpins /\ pc = "spins"
          BY <3>2 DEF FreeSpinsEnd, At, inputs
        <4>2. ctx.awardSpins = 0
          BY <1>0, <4>1 DEF AwardInv, AccountInv, Counted
        <4> QED BY <1>0, <4>1, <4>2
                DEF NoMoreSpins, Terminated, EndInv, EndsAtCap
      <3>3. CASE CloseBase
        <4>1. /\ pc = "close" /\ UNCHANGED <<def, ctx, free>>
              /\ ~(/\ ctx.awardSpins > 0
                   /\ ~(capReached' /\ EndsAtCap) /\ ~ctx.endSession)
          BY <2>2, <3>3
             DEF CloseBase, At, Enter, GoTo, Fail, inputs, Closing
        <4>2. ctx.awardSpins \in Nat
          BY <1>0, ContextTyped DEF TypeInv
        <4>3. free.remaining = 0
          BY <1>0, <4>1 DEF AccountInv, Counted
        <4> QED BY <1>0, <4>1, <4>2, <4>3 DEF EndInv, EndsAtCap
      <3>4. CASE FreeRoundEnds
        <4>1. capReached' /\ EndsAtCap /\ def' = def
          BY <2>2, <3>4
             DEF FreeRoundEnds, Enter, GoTo, Fail, inputs, Closing
        <4> QED BY <4>1 DEF EndsAtCap
      <3>5. CASE pc \in Closing /\ UNCHANGED <<def, free, ctx, capReached>>
        BY <1>0, <3>5 DEF AwardInv, EndsAtCap
      <3> QED BY <1>0, <1>3, <2>2, <3>1, <3>2, <3>3, <3>4, <3>5, ClosingSteps
    <2> QED BY <2>1, <2>2 DEF AwardInv
  <1> QED BY <1>1, <1>2, <1>3

\* What RunBuiltin leaves alone when the feature fails.
LEMMA FailedHook ==
    Fail("feature") => /\ pc' = "failed" /\ pending' = <<>>
                       /\ UNCHANGED <<def, ctx, free, log, seen, capReached>>
  BY DEF Fail, inputs

\* Outside the hooks and the evaluations of the base game, no trigger turns
\* up and no award waits at a later point.
LEMMA TriggerSteps ==
    ASSUME [Next]_vars, ~RunBuiltin, ~RunPlugin, ~ctx.isFreeSpin,
           ~BaseDecide, ~BaseReevaluate, ~BaseEvaluate,
           pc = "again" => ctx.isFreeSpin
    PROVE  \/ UNCHANGED <<pc, ctx, log>>
           \/ /\ pc' # "loop"
              /\ pc = "decide" => pc' = "failed" /\ UNCHANGED ctx
              /\ pc # "failed"
  BY DEF Next, Idle, vars, control, PluginFails, Begin, BaseReveal, FreeReveal,
         Reveal, Revealed, BaseLoopEnds, BaseLoopStops, BaseCascade, Paid,
         Refill, BaseRefilled, Refilled, CloseBase, EnterFreeSpins, FreeSpinsEnd,
         StartFreeSpin, FreeDecide, FreeLoopEnds, FreeLoopStops, FreeCascade,
         FreeRefilled, FreeReevaluate, FreeRetrigger, FreeRoundEnds,
         FreeEvaluate, BeginSettle, Finish, SourceFails, EvaluatorFails,
         PayloadFails,
         At, Enter, Call, GoTo, Fail

\* Every step keeps a trigger recorded with the award it made.
LEMMA TriggerNext == Premises => TriggerInv'
  <1> SUFFICES ASSUME Premises PROVE TriggerInv'
    OBVIOUS
  <1>0. /\ ~RunPlugin /\ UNCHANGED def
        /\ TypeInv /\ AccountInv /\ HookInv /\ WinInv /\ TriggerInv
        /\ [Next]_vars
    BY NoPlugin DEF Premises, SpinInv, BuiltinInv
  <1>1. CASE Triggered
    <2>1. Triggered'
      BY <1>0, <1>1, LogGrows DEF Triggered
    <2> QED BY <2>1 DEF TriggerInv
  <1>2. CASE ~Triggered /\ RunBuiltin /\ Fail("feature")
    BY <1>0, <1>2, FailedHook DEF TriggerInv, Triggered
  <1>3. CASE ~Triggered /\ RunBuiltin /\ ~Fail("feature")
    <2>1. /\ Effects(def, Head(pending), hook, ctx, ctx')
          /\ UNCHANGED <<pc, log>>
          /\ pc \in DOMAIN Awaited /\ hook = Awaited[pc]
      BY <1>0, <1>3, BuiltinCalled
    <2>2. hook = "AfterEvaluation" => pc \in {"decide", "loop", "again"}
      BY <2>1, AwaitedHooks
    <2>3. pc = "again" => ctx.isFreeSpin
      BY <1>0 DEF AccountInv, Counted
    <2>4. /\ ctx'.isFreeSpin = ctx.isFreeSpin
          /\ ctx'.eval = ctx.eval
          /\ \/ ctx'.awardSpins = ctx.awardSpins
             \/ /\ pc \in {"decide", "loop"} /\ ctx.eval.award # 0
                /\ ~ctx.isFreeSpin
      BY <2>1, <2>2, <2>3 DEF Effects, Kept
    <2> QED BY <1>0, <1>3, <2>1, <2>4 DEF TriggerInv, Triggered
  <1>4. CASE ~Triggered /\ ~RunBuiltin
    <2>0. /\ ~ctx.isFreeSpin
          /\ ctx.awardSpins > 0 =>
                pc \in {"decide", "failed"} /\ ctx.eval.award # 0
      BY <1>0, <1>4 DEF TriggerInv
    <2>1. \/ UNCHANGED <<ctx.awardSpins, ctx.isFreeSpin>>
          \/ EnterFreeSpins /\ ctx'.awardSpins = 0
      BY <1>0, <1>4, ContextMoves
    <2>2. CASE EnterFreeSpins
      <3>1. ctx.awardSpins > 0 /\ pc = "enter"
        BY <1>0, <2>2 DEF EnterFreeSpins, At, WinInv, OutcomeInv
      <3> QED BY <2>0, <3>1
    <2>3. CASE ~EnterFreeSpins /\ BaseDecide
      <3>1. CASE Fail("arithmetic")
        BY <1>0, <2>0, <3>1 DEF Fail, TriggerInv, Triggered
      <3>2. CASE ~Fail("arithmetic")
        <4>1. /\ UNCHANGED ctx
              /\ \E kinds : log' = Recorded(Emitted(log, kinds), ctx.eval)
          BY <2>3, <3>2 DEF BaseDecide
        <4>2. ctx.eval.award # 0 => Triggered'
          <5>1. log \in Logs
            BY <1>0 DEF TypeInv, TypeOK
          <5> QED BY <4>1, <5>1 DEF Recorded, Emitted, Triggered, Logs
        <4> QED BY <2>0, <4>1, <4>2 DEF TriggerInv
      <3> QED BY <3>1, <3>2
    <2>4. CASE ~EnterFreeSpins /\ BaseReevaluate
      <3>0. pc = "reevaluate"
        BY <2>4 DEF BaseReevaluate, At
      <3>1. CASE Fail("arithmetic")
        BY <2>0, <3>0, <3>1 DEF Fail, TriggerInv, Triggered
      <3>2. CASE ~Fail("arithmetic")
        <4>1. PICK ev \in Evaluations :
                 /\ ctx' = ResetRoundDecisions([ctx EXCEPT !.eval = ev])
                 /\ \E kinds : log' = Recorded(Emitted(log, kinds), ev)
          BY <2>4, <3>2 DEF BaseReevaluate, Reevaluated
        <4>2. ctx'.eval = ev
          BY <1>0, <4>1
             DEF ResetRoundDecisions, TypeInv, SoundContext, Context
        <4>3. ctx'.eval.award # 0 => Triggered'
          <5>1. log \in Logs
            BY <1>0 DEF TypeInv, TypeOK
          <5> QED BY <4>1, <4>2, <5>1 DEF Recorded, Emitted, Triggered, Logs
        <4> QED BY <2>0, <2>1, <2>4, <3>0, <4>3 DEF TriggerInv
      <3> QED BY <3>1, <3>2
    <2>5. CASE ~EnterFreeSpins /\ BaseEvaluate
      <3>1. PICK ev, kinds : Evaluate(ev, kinds)
        BY <2>5 DEF BaseEvaluate
      <3>2. pc = "evaluate" /\ pc' = "decide"
        BY <3>1 DEF Evaluate, At, Call
      <3> QED BY <2>0, <2>1, <2>5, <3>2 DEF TriggerInv
    <2>6. CASE ~EnterFreeSpins /\ ~BaseDecide /\ ~BaseReevaluate
               /\ ~BaseEvaluate
      <3>1. pc = "again" => ctx.isFreeSpin
        BY <1>0 DEF AccountInv, Counted
      <3>2. \/ UNCHANGED <<pc, ctx, log>>
            \/ /\ pc' # "loop"
               /\ pc = "decide" => pc' = "failed" /\ UNCHANGED ctx
               /\ pc # "failed"
        BY <1>0, <1>4, <2>0, <2>6, <3>1, TriggerSteps
      <3>3. CASE UNCHANGED <<pc, ctx, log>>
        BY <1>0, <3>3 DEF TriggerInv, Triggered
      <3> QED BY <2>0, <2>1, <2>6, <3>2, <3>3 DEF TriggerInv
    <2> QED BY <2>2, <2>3, <2>4, <2>5, <2>6
  <1> QED BY <1>1, <1>2, <1>3, <1>4

\* Only a reveal and a refill put a grid on the reels, from the reel set
\* selected by then.
LEMMA ReelSteps ==
    ASSUME TypeInv, [Next]_vars, ~RunBuiltin, ~RunPlugin
    PROVE  /\ seen'.reels \subseteq seen.reels \cup {ctx.reelSet}
           /\ \/ seen'.reels \subseteq seen.reels
              \/ pc \in {"generate", "collapse"}
           /\ pc' = "enter" => seen'.reels = {} \/ UNCHANGED vars
  <1>0. seen \in History
    BY DEF TypeInv, TypeOK
  <1>1. CASE BaseEvaluate \/ FreeEvaluate
    <2>1. PICK ev, kinds : Evaluate(ev, kinds)
      BY <1>1 DEF BaseEvaluate, FreeEvaluate
    <2> QED BY <1>0, <2>1 DEF Evaluate, Call, History
  <1>2. CASE BaseDecide \/ FreeDecide \/ BaseReevaluate \/ FreeReevaluate
    <2>1. /\ pc' # "enter"
          /\ \E b : \/ seen' = [seen EXCEPT !.unpaid = b]
                    \/ UNCHANGED seen
      BY <1>2 DEF BaseDecide, FreeDecide, BaseReevaluate, FreeReevaluate,
                  Reevaluated, Call, GoTo, Fail
    <2> QED BY <1>0, <2>1 DEF History
  <1>3. CASE BaseReveal \/ FreeReveal \/ BaseCascade \/ FreeCascade \/ Refill
    <2>1. /\ pc' # "enter"
          /\ \/ /\ pc \in {"generate", "collapse"}
                /\ \/ seen' = [seen EXCEPT !.reels = {ctx.reelSet}]
                   \/ seen' = [seen EXCEPT !.reels = @ \cup {ctx.reelSet}]
             \/ seen' = [seen EXCEPT !.unpaid = FALSE]
             \/ UNCHANGED seen
      BY <1>3 DEF BaseReveal, FreeReveal, Reveal, BaseCascade, FreeCascade,
                  Paid, Refill, At, Enter, Call, GoTo, Fail
    <2> QED BY <1>0, <2>1 DEF History
  <1>4. CASE CloseBase \/ FreeRoundEnds
    <2>1. \/ seen' = [unpaid |-> FALSE, reels |-> {}]
          \/ UNCHANGED seen /\ pc' # "enter"
      BY <1>4 DEF CloseBase, FreeRoundEnds, Enter, Fail
    <2> QED BY <1>0, <2>1 DEF History
  <1>5. CASE /\ ~BaseEvaluate /\ ~FreeEvaluate /\ ~BaseDecide /\ ~FreeDecide
             /\ ~BaseReevaluate /\ ~FreeReevaluate /\ ~BaseReveal
             /\ ~FreeReveal /\ ~BaseCascade /\ ~FreeCascade /\ ~Refill
             /\ ~CloseBase /\ ~FreeRoundEnds
    <2>1. UNCHANGED seen /\ (pc' # "enter" \/ UNCHANGED vars)
      BY <1>5
         DEF Next, Idle, vars, PluginFails, Begin, Revealed, BaseLoopEnds,
             BaseLoopStops, BaseRefilled, Refilled, EnterFreeSpins,
             FreeSpinsEnd, StartFreeSpin, FreeLoopEnds, FreeLoopStops,
             FreeRefilled, FreeRetrigger, BeginSettle, Finish, SourceFails,
             EvaluatorFails, PayloadFails, Enter, Call, GoTo, Fail
    <2> QED BY <2>1
  <1> QED BY <1>1, <1>2, <1>3, <1>4, <1>5

\* Every step keeps the free spins on the reel set chosen for them.
LEMMA FreeReelNext == Premises => FreeReelInv'
  <1> SUFFICES ASSUME Premises PROVE FreeReelInv'
    OBVIOUS
  <1>0. /\ ~RunPlugin /\ def' = def
        /\ TypeInv /\ AccountInv /\ HookInv /\ WinInv /\ FreeReelInv
        /\ [Next]_vars
    BY NoPlugin DEF Premises, SpinInv, BuiltinInv, ReelInv
  <1>1. CASE RunBuiltin /\ Fail("feature")
    BY <1>0, <1>1, FailedHook DEF FreeReelInv
  <1>2. CASE RunBuiltin /\ ~Fail("feature")
    <2>1. Effects(def, Head(pending), hook, ctx, ctx') /\ UNCHANGED <<pc, seen>>
      BY <1>0, <1>2, BuiltinCalled
    <2> QED BY <1>0, <2>1 DEF FreeReelInv, Effects, Kept
  <1>3. CASE ~RunBuiltin
    <2>1. /\ ctx'.reelSet = ctx.reelSet
          /\ \/ UNCHANGED <<ctx.awardSpins, ctx.isFreeSpin>>
             \/ EnterFreeSpins /\ ctx'.awardSpins = 0
          /\ seen'.reels \subseteq seen.reels \cup {ctx.reelSet}
          /\ pc' = "enter" => seen'.reels = {} \/ UNCHANGED vars
      BY <1>0, <1>3, ContextMoves, ReelSteps
    <2>2. EnterFreeSpins => ctx.awardSpins > 0 /\ pc = "enter"
      BY <1>0 DEF EnterFreeSpins, At, WinInv, OutcomeInv
    <2>3. CASE UNCHANGED vars
      BY <1>0, <2>3 DEF vars, inputs, control, FreeReelInv
    <2>4. CASE ~UNCHANGED vars
      BY <1>0, <2>1, <2>2, <2>4 DEF FreeReelInv
    <2> QED BY <2>3, <2>4
  <1> QED BY <1>1, <1>2, <1>3

\* Every step keeps the base game on the base reels.
LEMMA BaseReelNext == Premises => BaseReelInv'
  <1> SUFFICES ASSUME Premises, ~ctx'.isFreeSpin, ~Triggered'
               PROVE  /\ seen'.reels \subseteq {"base"}
                      /\ \/ ctx'.reelSet = "base"
                         \/ pc' \in {"decide", "failed"} /\ ctx'.eval.award # 0
    BY DEF BaseReelInv
  <1>0. /\ ~RunPlugin /\ UNCHANGED def
        /\ TypeInv /\ AccountInv /\ HookInv /\ WinInv
        /\ TriggerInv /\ BaseReelInv
        /\ [Next]_vars /\ ~Triggered
    BY NoPlugin, LogGrows
       DEF Premises, SpinInv, BuiltinInv, ReelInv, Triggered
  <1>1. CASE RunBuiltin /\ Fail("feature")
    BY <1>0, <1>1, FailedHook DEF BaseReelInv
  <1>2. CASE RunBuiltin /\ ~Fail("feature")
    <2>1. /\ Effects(def, Head(pending), hook, ctx, ctx')
          /\ UNCHANGED <<pc, seen>>
          /\ pc \in DOMAIN Awaited /\ hook = Awaited[pc]
      BY <1>0, <1>2, BuiltinCalled
    <2>2. hook = "AfterEvaluation" => pc \in {"decide", "loop", "again"}
      BY <2>1, AwaitedHooks
    <2>3. pc = "again" => ctx.isFreeSpin
      BY <1>0 DEF AccountInv, Counted
    <2>4. ~ctx.isFreeSpin /\ ctx'.eval = ctx.eval
      BY <2>1 DEF Effects, Kept
    <2>5. /\ seen.reels \subseteq {"base"}
          /\ \/ ctx.reelSet = "base"
             \/ pc \in {"decide", "failed"} /\ ctx.eval.award # 0
      BY <1>0, <2>4 DEF BaseReelInv
    <2>6. \/ ctx'.reelSet = ctx.reelSet
          \/ hook = "AfterEvaluation" /\ ctx.eval.award # 0
      BY <2>1, <2>4 DEF Effects
    <2>7. pc = "loop" => ctx.eval.award = 0
      BY <1>0, <2>4 DEF TriggerInv
    <2> QED BY <2>1, <2>2, <2>3, <2>4, <2>5, <2>6, <2>7
  <1>3. CASE ~RunBuiltin
    <2>0. EnterFreeSpins => pc = "enter" /\ ctx.awardSpins > 0
      BY <1>0 DEF EnterFreeSpins, At, WinInv, OutcomeInv
    <2>1. /\ ctx'.reelSet = ctx.reelSet
          /\ ~ctx.isFreeSpin
      BY <1>0, <1>3, <2>0, ContextMoves DEF TriggerInv
    <2>2. /\ seen.reels \subseteq {"base"}
          /\ \/ ctx.reelSet = "base"
             \/ pc \in {"decide", "failed"} /\ ctx.eval.award # 0
      BY <1>0, <2>1 DEF BaseReelInv
    <2>3. seen'.reels \subseteq {"base"}
      BY <1>0, <1>3, <2>2, ReelSteps
    <2>4. CASE ctx.reelSet = "base"
      BY <2>1, <2>3, <2>4
    <2>5. CASE pc \in {"decide", "failed"} /\ ctx.eval.award # 0
      <3>1. \/ UNCHANGED <<pc, ctx>>
            \/ pc' = "failed" /\ UNCHANGED ctx
        <4>1. ~BaseDecide \/ Fail("arithmetic")
          <5>1. SUFFICES ASSUME BaseDecide, ~Fail("arithmetic")
                         PROVE  FALSE
            OBVIOUS
          <5>2. \E kinds : log' = Recorded(Emitted(log, kinds), ctx.eval)
            BY <5>1 DEF BaseDecide
          <5>3. log \in Logs
            BY <1>0 DEF TypeInv, TypeOK
          <5>4. Triggered'
            BY <2>5, <5>2, <5>3 DEF Recorded, Emitted, Triggered, Logs
          <5> QED BY <5>4
        <4>2. CASE BaseDecide
          BY <4>1, <4>2 DEF Fail
        <4>3. ~BaseReevaluate /\ ~BaseEvaluate
          BY <2>5 DEF BaseReevaluate, BaseEvaluate, Evaluate, At
        <4>4. CASE ~BaseDecide
          <5>1. pc = "again" => ctx.isFreeSpin
            BY <1>0 DEF AccountInv, Counted
          <5> QED BY <1>0, <1>3, <2>1, <2>5, <4>3, <4>4, <5>1, TriggerSteps
        <4> QED BY <4>2, <4>4
      <3> QED BY <2>1, <2>3, <2>5, <3>1
    <2> QED BY <2>2, <2>4, <2>5
  <1> QED BY <1>1, <1>2, <1>3

\* The features a step leaves a hook to be called on.
LEMMA PendingSteps ==
    ASSUME [Next]_vars, ~RunBuiltin, ~RunPlugin
    PROVE  \/ pending' = pending
           \/ pending' = <<>>
           \/ pending' = def.features
  <1>1. CASE BaseEvaluate \/ FreeEvaluate
    <2>1. PICK ev, kinds : Evaluate(ev, kinds)
      BY <1>1 DEF BaseEvaluate, FreeEvaluate
    <2> QED BY <2>1 DEF Evaluate, Call
  <1> QED BY <1>1
          DEF Next, Idle, vars, control, PluginFails, Begin, BaseReveal,
              FreeReveal, Reveal, Revealed, BaseDecide, BaseLoopEnds,
              BaseLoopStops, BaseCascade, Paid, Refill, BaseRefilled, Refilled,
              BaseReevaluate, CloseBase, EnterFreeSpins, FreeSpinsEnd,
              StartFreeSpin, FreeDecide, FreeLoopEnds, FreeLoopStops,
              FreeCascade, FreeRefilled, FreeReevaluate, FreeRetrigger,
              FreeRoundEnds, BeginSettle, Finish, SourceFails, EvaluatorFails,
              PayloadFails,
              Enter, Call, GoTo, Fail

\* Calling the first of the pending features.
LEMMA TailPending ==
    ASSUME TypeInv, pending # <<>>, pending' = Tail(pending)
    PROVE  /\ \A i \in DOMAIN pending' :
                 \E j \in DOMAIN pending : pending'[i] = pending[j]
           /\ \E j \in DOMAIN pending : Head(pending) = pending[j]
           /\ Head(pending) # "cascade" /\ CascadePending => CascadePending'
  <1>1. pending \in Seq(FeatureNames) /\ Len(pending) \in Nat \ {0}
    BY DEF TypeInv, TypeOK
  <1>2. /\ DOMAIN pending' = 1..(Len(pending) - 1)
        /\ \A i \in DOMAIN pending' : pending'[i] = pending[i + 1]
        /\ Head(pending) = pending[1]
        /\ DOMAIN pending = 1..Len(pending)
    BY <1>1
  <1>3. \A i \in DOMAIN pending' : i + 1 \in DOMAIN pending
    BY <1>1, <1>2
  <1>4. ASSUME NEW j \in DOMAIN pending, j # 1
        PROVE  /\ j - 1 \in DOMAIN pending'
               /\ pending'[j - 1] = pending[j]
    BY <1>1, <1>2, <1>4
  <1>5. 1 \in DOMAIN pending
    BY <1>1, <1>2
  <1> QED BY <1>2, <1>3, <1>4, <1>5 DEF CascadePending

\* The steps by which a grid's wins come to wait, or stop waiting, for a
\* cascade to pay them.
LEMMA UnpaidSteps ==
    ASSUME TypeInv, [Next]_vars, ~RunBuiltin, ~RunPlugin
    PROVE  \/ UNCHANGED vars
           \/ pc' \notin {"decide", "loop", "again", "collapse", "refilled",
                          "reevaluate"}
           \/ /\ pc' = "decide" /\ pending' = def.features
              /\ seen'.unpaid => Ways(ctx'.eval) > 0
           \/ /\ pc' \in {"loop", "again"} /\ pending' = def.features
              /\ pc = "reevaluate"
              /\ seen'.unpaid => Ways(ctx'.eval) > 0
           \/ /\ pc' = "loop" /\ pc = "decide" /\ ctx.cascadeRequested
              /\ seen'.unpaid => seen.unpaid
              /\ ctx'.eval = ctx.eval /\ ctx'.cascadeRequested
           \/ /\ pc' = "loop" /\ pc = "again" /\ UNCHANGED <<pending, seen>>
              /\ ctx'.eval = ctx.eval
              /\ ctx'.cascadeRequested = ctx.cascadeRequested
              /\ ctx'.cascadeIndex = ctx.cascadeIndex
           \/ pc' = "collapse" /\ pc = "loop" /\ ~seen'.unpaid
           \/ /\ pc' = "refilled" /\ pc = "collapse"
              /\ seen'.unpaid = seen.unpaid
           \/ pc' = "reevaluate" /\ pc = "refilled"
  <1>0. seen \in History /\ ctx \in SoundContext
    BY DEF TypeInv, TypeOK
  <1>1. CASE BaseEvaluate \/ FreeEvaluate
    <2>1. PICK ev, kinds : Evaluate(ev, kinds)
      BY <1>1 DEF BaseEvaluate, FreeEvaluate
    <2>2. /\ pc' = "decide" /\ pending' = def.features
          /\ ctx' = [ctx EXCEPT !.eval = ev]
          /\ seen' = [seen EXCEPT !.unpaid = Ways(ev) > 0]
      BY <2>1 DEF Evaluate, Call
    <2>3. ctx'.eval = ev
      BY <1>0, <2>2 DEF SoundContext, Context
    <2>4. seen'.unpaid = (Ways(ev) > 0)
      BY <1>0, <2>2 DEF History
    <2> QED BY <2>2, <2>3, <2>4
  <1>2. CASE BaseReevaluate \/ FreeReevaluate
    <2>1. CASE Fail("arithmetic")
      BY <2>1 DEF Fail
    <2>2. CASE ~Fail("arithmetic")
      <3>1. PICK ev : /\ ctx' = ResetRoundDecisions([ctx EXCEPT !.eval = ev])
                      /\ seen' = [seen EXCEPT !.unpaid = Ways(ev) > 0]
                      /\ pc = "reevaluate" /\ pc' \in {"loop", "again"}
                      /\ pending' = def.features
        BY <1>2, <2>2
           DEF BaseReevaluate, FreeReevaluate, Reevaluated, At, Call
      <3>2. ctx'.eval = ev
        BY <1>0, <3>1 DEF ResetRoundDecisions, SoundContext, Context
      <3>3. seen'.unpaid = (Ways(ev) > 0)
        BY <1>0, <3>1 DEF History
      <3> QED BY <3>1, <3>2, <3>3
    <2> QED BY <2>1, <2>2
  <1>3. CASE BaseDecide \/ FreeDecide
    <2>1. CASE pc' # "loop"
      BY <1>3, <2>1 DEF BaseDecide, FreeDecide, GoTo, Fail
    <2>2. CASE pc' = "loop"
      <3>1. /\ pc = "decide" /\ ctx.cascadeRequested
            /\ seen' = [seen EXCEPT !.unpaid = @ /\ ctx.cascadeRequested]
            /\ UNCHANGED ctx \/ ctx' = [ctx EXCEPT !.retriggerSpins = 0]
        BY <1>3, <2>2 DEF BaseDecide, FreeDecide, At, GoTo, Fail
      <3>2. ctx'.eval = ctx.eval /\ ctx'.cascadeRequested
        BY <1>0, <3>1 DEF SoundContext, Context
      <3>3. seen'.unpaid => seen.unpaid
        BY <1>0, <3>1 DEF History
      <3> QED BY <2>2, <3>1, <3>2, <3>3
    <2> QED BY <2>1, <2>2
  <1>4. CASE FreeRetrigger
    <2>1. /\ pc' = "loop" /\ pc = "again" /\ UNCHANGED <<pending, seen>>
          /\ ctx' = [ctx EXCEPT !.retriggerSpins = 0]
      BY <1>4 DEF FreeRetrigger, At, GoTo
    <2> QED BY <1>0, <2>1 DEF SoundContext, Context
  <1>5. CASE BaseCascade \/ FreeCascade
    <2>1. \/ pc' = "failed"
          \/ /\ pc' = "collapse" /\ pc = "loop"
             /\ seen' = [seen EXCEPT !.unpaid = FALSE]
      BY <1>5 DEF BaseCascade, FreeCascade, Paid, Enter, GoTo, Fail, At
    <2> QED BY <1>0, <2>1 DEF History
  <1>6. CASE Refill
    <2>1. /\ pc' = "refilled" /\ pc = "collapse"
          /\ seen' = [seen EXCEPT !.reels = @ \cup {ctx.reelSet}]
      BY <1>6 DEF Refill, Call, At
    <2> QED BY <1>0, <2>1 DEF History
  <1>7. CASE /\ ~BaseEvaluate /\ ~FreeEvaluate /\ ~BaseDecide /\ ~FreeDecide
             /\ ~BaseReevaluate /\ ~FreeReevaluate /\ ~FreeRetrigger
             /\ ~BaseCascade /\ ~FreeCascade /\ ~Refill
    BY <1>7
       DEF Next, Idle, PluginFails, Begin, BaseReveal, FreeReveal, Reveal,
           Revealed, BaseLoopEnds, BaseLoopStops, BaseRefilled, Refilled,
           CloseBase, EnterFreeSpins, FreeSpinsEnd, StartFreeSpin,
           FreeLoopEnds, FreeLoopStops, FreeRefilled, FreeRoundEnds,
           BeginSettle, Finish, SourceFails, EvaluatorFails,
           PayloadFails, At, Enter, Call,
           GoTo, Fail
  <1> QED BY <1>1, <1>2, <1>3, <1>4, <1>5, <1>6, <1>7

\* Every step keeps a win unpaid only for the reasons there are.
LEMMA UnpaidNext == Premises => UnpaidInv'
  <1> SUFFICES ASSUME Premises PROVE UnpaidInv'
    OBVIOUS
  <1>0. /\ ~RunPlugin /\ def' = def
        /\ TypeInv /\ AccountInv /\ HookInv /\ UnpaidInv
        /\ [Next]_vars
    BY NoPlugin DEF Premises, SpinInv, BuiltinInv
  <1>1. HasCascade' = HasCascade
    BY <1>0 DEF HasCascade
  <1>2. CASE RunBuiltin /\ Fail("feature")
    BY <1>0, <1>1, <1>2, FailedHook DEF UnpaidInv
  <1>3. CASE RunBuiltin /\ ~Fail("feature")
    <2>1. /\ Effects(def, Head(pending), hook, ctx, ctx')
          /\ UNCHANGED <<pc, seen>>
          /\ Head(pending) = "cascade" /\ hook = "AfterEvaluation"
             /\ WantsCascade(def, ctx) => ctx'.cascadeRequested
          /\ pending # <<>> /\ pending' = Tail(pending)
          /\ pc \in DOMAIN Awaited /\ hook = Awaited[pc]
      BY <1>0, <1>3, BuiltinCalled
    <2>2. /\ \A i \in DOMAIN pending' :
                \E j \in DOMAIN pending : pending'[i] = pending[j]
          /\ \E j \in DOMAIN pending : Head(pending) = pending[j]
          /\ Head(pending) # "cascade" /\ CascadePending => CascadePending'
      BY <1>0, <2>1, TailPending
    <2>3. /\ ctx'.eval = ctx.eval
          /\ ctx'.cascadeIndex = ctx.cascadeIndex
          /\ \/ ctx'.cascadeRequested = ctx.cascadeRequested
             \/ /\ Head(pending) = "cascade" /\ def.cascadeEnabled
                /\ ctx'.cascadeRequested
      BY <2>1 DEF Effects, Kept
    <2>4. \A i \in DOMAIN pending' :
             \E j \in DOMAIN def'.features : pending'[i] = def'.features[j]
      BY <1>0, <2>2 DEF UnpaidInv
    <2>5. ctx'.cascadeRequested => HasCascade'
      <3>1. CASE Head(pending) = "cascade" /\ def.cascadeEnabled
        BY <1>0, <1>1, <2>2, <3>1 DEF UnpaidInv, HasCascade
      <3> QED BY <1>0, <1>1, <2>3, <3>1 DEF UnpaidInv
    <2>6. ASSUME pc' \in {"decide", "loop", "again"}, seen'.unpaid
          PROVE  /\ Ways(ctx'.eval) > 0
                 /\ HasCascade' /\ ~CascadePending' =>
                       \/ ctx'.cascadeRequested
                       \/ ctx'.cascadeIndex >= def'.maxCascades
      <3>1. /\ Ways(ctx.eval) > 0
            /\ HasCascade /\ ~CascadePending =>
                  ctx.cascadeRequested \/ ctx.cascadeIndex >= def.maxCascades
        BY <1>0, <2>1, <2>6 DEF UnpaidInv
      <3>2. CASE Head(pending) # "cascade"
        BY <1>0, <1>1, <2>2, <2>3, <3>1, <3>2
      <3>3. CASE Head(pending) = "cascade"
        <4>1. hook = "AfterEvaluation"
          BY <2>1, <2>6, AwaitedHooks
        <4>2. ctx.cascadeIndex \in Nat /\ def.maxCascades \in Nat
          BY <1>0, InputsTyped, DefinitionTyped
             DEF TypeInv, SoundContext, Context
        <4>3. HasCascade /\ ~WantsCascade(def, ctx)
              => ctx.cascadeIndex >= def.maxCascades
          BY <3>1, <4>2 DEF HasCascade, WantsCascade
        <4> QED BY <1>0, <1>1, <2>1, <2>3, <3>1, <3>3, <4>1, <4>3
      <3> QED BY <3>2, <3>3
    <2>7. /\ pc' \in {"loop", "collapse", "refilled", "reevaluate", "again"}
                => HasCascade'
          /\ pc' \in {"collapse", "refilled"} => ~seen'.unpaid
      BY <1>0, <1>1, <2>1 DEF UnpaidInv
    <2> QED BY <2>4, <2>5, <2>6, <2>7 DEF UnpaidInv
  <1>4. CASE ~RunBuiltin
    <2>1. \A i \in DOMAIN pending' :
             \E j \in DOMAIN def'.features : pending'[i] = def'.features[j]
      <3>1. \/ pending' = pending \/ pending' = <<>> \/ pending' = def.features
        BY <1>0, <1>4, PendingSteps
      <3> QED BY <1>0, <3>1 DEF UnpaidInv
    <2>2. ctx'.cascadeRequested => HasCascade'
      <3>1. UNCHANGED ctx.cascadeRequested \/ ~ctx'.cascadeRequested
        BY <1>0, <1>4, ContextMoves
      <3> QED BY <1>0, <1>1, <3>1 DEF UnpaidInv
    <2>3. HasCascade => \E i \in DOMAIN def.features :
                           def.features[i] = "cascade"
      BY DEF HasCascade
    <2>4. pending' = def.features /\ HasCascade => CascadePending'
      BY <2>3 DEF CascadePending
    <2>5. CASE UNCHANGED vars
      BY <1>0, <2>5
         DEF vars, inputs, control, UnpaidInv, HasCascade, CascadePending
    <2>6. CASE ~UNCHANGED vars
      <3>1. \/ pc' \notin {"decide", "loop", "again", "collapse", "refilled",
                           "reevaluate"}
            \/ /\ pc' = "decide" /\ pending' = def.features
               /\ seen'.unpaid => Ways(ctx'.eval) > 0
            \/ /\ pc' \in {"loop", "again"} /\ pending' = def.features
               /\ pc = "reevaluate"
               /\ seen'.unpaid => Ways(ctx'.eval) > 0
            \/ /\ pc' = "loop" /\ pc = "decide" /\ ctx.cascadeRequested
               /\ seen'.unpaid => seen.unpaid
               /\ ctx'.eval = ctx.eval /\ ctx'.cascadeRequested
            \/ /\ pc' = "loop" /\ pc = "again" /\ UNCHANGED <<pending, seen>>
               /\ ctx'.eval = ctx.eval
               /\ ctx'.cascadeRequested = ctx.cascadeRequested
               /\ ctx'.cascadeIndex = ctx.cascadeIndex
            \/ pc' = "collapse" /\ pc = "loop" /\ ~seen'.unpaid
            \/ /\ pc' = "refilled" /\ pc = "collapse"
               /\ seen'.unpaid = seen.unpaid
            \/ pc' = "reevaluate" /\ pc = "refilled"
        BY <1>0, <1>4, <2>6, UnpaidSteps
      <3>2. CASE pc' \notin {"decide", "loop", "again", "collapse", "refilled",
                             "reevaluate"}
        BY <2>1, <2>2, <3>2 DEF UnpaidInv
      <3> QED
        BY <1>0, <1>1, <2>1, <2>2, <2>4, <3>1, <3>2
           DEF UnpaidInv, CascadePending
    <2> QED BY <2>5, <2>6
  <1> QED BY <1>2, <1>3, <1>4

\* The invariant of the built-in features holds at first.
LEMMA BuiltinInvInit == Init => BuiltinInv
  BY DEF Init, NewContext, BuiltinInv, EndInv, AwardInv, TriggerInv, ReelInv,
         FreeReelInv, BaseReelInv, UnpaidInv, Closing

\* It holds in every state of a spin without plugins.
LEMMA BuiltinInvHolds == Spec => [](SpinInv /\ BuiltinInv)
  <1>1. BuiltinInv /\ SpinInv /\ [Next]_vars => BuiltinInv'
    <2> SUFFICES ASSUME BuiltinInv, SpinInv, [Next]_vars, Builtins'
                 PROVE  EndInv' /\ AwardInv' /\ TriggerInv' /\ ReelInv'
                        /\ UnpaidInv'
      BY DEF BuiltinInv
    <2>1. Builtins
      <3>1. UNCHANGED def
        BY InputsStay
      <3> QED BY <3>1 DEF Builtins
    <2> QED BY <2>1, EndNext, AwardNext, TriggerNext, FreeReelNext,
               BaseReelNext, UnpaidNext
            DEF Premises, ReelInv
  <1> QED BY <1>1, BuiltinInvInit, SpinInvHolds, PTL DEF Spec

------------------------------------------------------------------------------
(* Theorems.                                                                 *)

\* A game with the built-in features, whatever its definition, leaves no free
\* spin it awarded unplayed, except at its cap.
THEOREM AwardsPlayed == Spec => []AwardsArePlayed
  <1>1. SpinInv /\ BuiltinInv => AwardsArePlayed
    <2> SUFFICES ASSUME SpinInv, BuiltinInv, Builtins, pc = "done"
                 PROVE  \/ capReached /\ EndsAtCap
                        \/ /\ free.remaining = 0 /\ ctx.awardSpins = 0
                           /\ ctx.retriggerSpins = 0
      BY DEF AwardsArePlayed
    <2>1. AwardInv /\ TypeInv /\ WithinLimit
      BY DEF BuiltinInv, SpinInv, AccountInv
    <2>2. ctx.retriggerSpins \in Nat
      BY <2>1, ContextTyped DEF TypeInv
    <2>3. ctx.retriggerSpins = 0
      BY <2>1, <2>2 DEF WithinLimit
    <2> QED BY <2>1, <2>3 DEF AwardInv, Closing
  <1> QED BY <1>1, BuiltinInvHolds, PTL

\* Every grid of every free spin of such a game, a refilled one too, comes
\* from the free spins' reel set.
THEOREM FreeReelsOnly == Spec => []GridsOnTheirReels
  <1>1. BuiltinInv => GridsOnTheirReels
    BY DEF BuiltinInv, ReelInv, FreeReelInv, BaseReelInv, Triggered,
           GridsOnTheirReels
  <1> QED BY <1>1, BuiltinInvHolds, PTL

\* No result of such a game reports free spins without the trigger that won
\* them.
THEOREM TriggersAreReported == Spec => []TriggersReported
  <1>1. SpinInv /\ BuiltinInv => TriggersReported
    <2> SUFFICES ASSUME SpinInv, BuiltinInv, Builtins, tally.spins > 0
                 PROVE  Triggered
      BY DEF TriggersReported, Triggered
    <2>1. TriggerInv /\ TypeInv /\ Counted
      BY DEF BuiltinInv, SpinInv, AccountInv
    <2>2. free.remaining \in Nat /\ free.total \in Nat /\ tally.spins \in Nat
      BY <2>1 DEF TypeInv, TypeOK, FreeSpinState, Counts
    <2>3. ctx.isFreeSpin
      BY <2>1, <2>2 DEF Counted
    <2> QED BY <2>1, <2>3 DEF TriggerInv
  <1> QED BY <1>1, BuiltinInvHolds, PTL

\* What is due changes only where a grid is credited.
LEMMA DueStays ==
    ASSUME SpinInv, [Next]_vars, pc \notin {"decide", "loop", "reevaluate"}
    PROVE  Due' = Due
  <1>0. TypeInv /\ (pc = "close" => ~ctx.isFreeSpin)
    BY DEF SpinInv, AccountInv, Counted
  <1>1. CASE UNCHANGED <<def, win>>
    BY <1>1 DEF Due, Clamp, CapHit
  <1>2. CASE CloseBase /\ ~UNCHANGED <<def, win>>
    <2>1. pc = "close" /\ def' = def /\ win' = [win EXCEPT !.base = Clamp(@)]
      BY <1>2 DEF CloseBase, At, Enter, Fail, inputs
    <2>2. win.feature = 0 /\ win.round = 0
      BY <1>0, <2>1 DEF SpinInv, WinInv, SumsInv
    <2>3. win'.base = Clamp(win.base) /\ win'.feature = 0 /\ win'.round = 0
      BY <1>0, <2>1, <2>2 DEF TypeInv, TypeOK, Sums
    <2>4. Due = Clamp(win.base) /\ win.base \in Nat
      BY <1>0, <2>2, WinTyped DEF Total
    <2>5. Due' = Clamp(Clamp(win.base))
      <3>1. Clamp(win.base) + 0 + 0 = Clamp(win.base)
        BY <1>0, <2>4, ClampIs
      <3> QED BY <2>1, <2>3, <3>1 DEF Due, Clamp, CapHit
    <2>6. Clamp(Clamp(win.base)) = Clamp(win.base)
      BY <1>0, <2>4, ClampIs
    <2> QED BY <2>4, <2>5, <2>6
  <1>3. CASE FreeRoundEnds /\ ~UNCHANGED <<def, win>>
    <2> DEFINE feature == Add(win.feature, win.round)
               total   == Plus(win.base, feature)
    <2>1. /\ total # Failed /\ def' = def
          /\ win' = [win EXCEPT !.feature = feature, !.round = 0]
      BY <1>3 DEF FreeRoundEnds, Enter, Fail, inputs
    <2>2. feature \in Checked /\ win.base \in Checked
      BY <1>0, SumsTyped, AddIsExact DEF Checked
    <2>3. feature # Failed
      BY <2>1, <2>2, PlusIs, MoneyAssumption DEF Plus
    <2>4. feature = win.feature + win.round
      BY <1>0, <2>3, SumsTyped, AddIsExact
    <2>5. /\ win'.base = win.base /\ win'.feature = win.feature + win.round
          /\ win'.round = 0
      BY <1>0, <2>1, <2>4 DEF TypeInv, TypeOK, Sums
    <2>6. win'.base + win'.feature + win'.round
             = win.base + win.feature + win.round
      BY <1>0, <2>5, WinTyped
    <2> HIDE DEF feature, total
    <2> QED BY <2>1, <2>6 DEF Due, Clamp, CapHit
  <1>4. CASE ~CloseBase /\ ~FreeRoundEnds
    <2>1. CASE BaseEvaluate \/ FreeEvaluate
      <3>1. PICK ev, kinds : Evaluate(ev, kinds)
        BY <2>1 DEF BaseEvaluate, FreeEvaluate
      <3> QED BY <1>1, <3>1 DEF Evaluate, inputs
    <2> QED
      BY <1>1, <1>4, <2>1
         DEF Next, vars, inputs, Idle, RunBuiltin, RunPlugin, PluginFails,
             Begin, BaseReveal, FreeReveal, Reveal, Revealed, BaseDecide,
             BaseLoopEnds, BaseLoopStops, BaseCascade, Refill, BaseRefilled,
             Refilled, BaseReevaluate, EnterFreeSpins, FreeSpinsEnd,
             StartFreeSpin, FreeDecide, FreeLoopEnds, FreeLoopStops,
             FreeCascade, FreeRefilled, FreeReevaluate, FreeRetrigger,
             BeginSettle, Finish, SourceFails, EvaluatorFails,
             PayloadFails, At,
             Enter, Fail
  <1> QED BY <1>1, <1>2, <1>3, <1>4

\* What is due, in any game, changes where a grid is credited and nowhere else:
\* no win is paid twice or dropped afterwards.  And the symbol win a game of the
\* built-in features leaves unpaid at the end of a round is lost to the cap or
\* to the limit on cascades, whatever the order of its features.
THEOREM LostForCause == Spec => WinsArePaidOnce
  <1> DEFINE Cause == Builtins /\ pc' \in {"close", "round"} /\ pc' # pc
                      /\ seen'.unpaid
                      => capReached' \/ ctx'.cascadeIndex >= def.maxCascades
  <1>1. SpinInv /\ BuiltinInv /\ [Next]_vars => Cause
    <2> SUFFICES ASSUME SpinInv, BuiltinInv, [Next]_vars, Builtins,
                        pc' \in {"close", "round"}, pc' # pc, seen'.unpaid
                 PROVE  capReached' \/ ctx'.cascadeIndex >= def.maxCascades
      OBVIOUS
    <2>0. TypeInv /\ UnpaidInv /\ EndInv /\ ~RunPlugin /\ seen \in History
      BY NoPlugin DEF SpinInv, BuiltinInv, TypeInv, TypeOK
    <2>1. CASE RunBuiltin
      BY <2>1 DEF RunBuiltin, Fail
    <2>2. CASE BaseEvaluate \/ FreeEvaluate
      <3>1. PICK ev, kinds : Evaluate(ev, kinds)
        BY <2>2 DEF BaseEvaluate, FreeEvaluate
      <3> QED BY <3>1 DEF Evaluate, Call
    <2>3. CASE BaseDecide \/ FreeDecide
      <3>1. /\ ~ctx.cascadeRequested
            /\ seen' = [seen EXCEPT !.unpaid = @ /\ ctx.cascadeRequested]
        BY <2>3 DEF BaseDecide, FreeDecide, GoTo, Fail
      <3> QED BY <2>0, <3>1 DEF History
    <2>4. CASE BaseLoopEnds \/ FreeLoopEnds
      <3>1. /\ pc = "loop" /\ pending = <<>> /\ ~ctx.cascadeRequested
            /\ UNCHANGED <<ctx, seen>>
        BY <2>4 DEF BaseLoopEnds, FreeLoopEnds, At
      <3>2. HasCascade /\ ~CascadePending
        BY <2>0, <3>1 DEF UnpaidInv, CascadePending
      <3> QED BY <2>0, <3>1, <3>2 DEF UnpaidInv
    <2>5. CASE BaseLoopStops \/ FreeLoopStops
      BY <2>0, <2>5
         DEF BaseLoopStops, FreeLoopStops, StopsAt, Terminated, EndInv
    <2>6. CASE BaseRefilled
      <3>1. pc = "refilled" /\ UNCHANGED seen
        BY <2>6 DEF BaseRefilled, Refilled, At, Enter, Call, Fail
      <3> QED BY <2>0, <3>1 DEF UnpaidInv
    <2> QED
      BY <2>0, <2>1, <2>2, <2>3, <2>4, <2>5, <2>6
         DEF Next, Idle, vars, control, PluginFails, Begin, BaseReveal,
             FreeReveal, Reveal, Revealed, BaseCascade, Paid, Refill, Refilled,
             BaseReevaluate, CloseBase, EnterFreeSpins, FreeSpinsEnd,
             StartFreeSpin, FreeCascade, FreeRefilled, FreeReevaluate,
             FreeRetrigger, FreeRoundEnds, BeginSettle, Finish, SourceFails,
             EvaluatorFails, PayloadFails, Enter, Call, GoTo, Fail
  <1>2. SpinInv /\ [Next]_vars =>
           (Due' # Due => pc \in {"decide", "loop", "reevaluate"})
    BY DueStays
  <1> QED BY <1>1, <1>2, BuiltinInvHolds, PTL DEF Spec, WinsArePaidOnce
==============================================================================
