------------------------------ MODULE SlotSpin ------------------------------
(****************************************************************************)
(* Game.Spin of engine/slot/engine.go: one spin, from the request to the    *)
(* SpinResult, with the feature plugins called at every hook.               *)
(*                                                                          *)
(* The function is cut where it calls out: into the features' hooks, the    *)
(* entropy source (GenerateGrid, CollapseAndRefill) and the evaluator.  pc  *)
(* names the point where Spin goes on, hook and pending the hook it waits   *)
(* for and the features that hook has not been called on yet.  What the     *)
(* evaluator answers is any member of Evaluations; what a plugin does in a  *)
(* hook is any decision PluginActs allows.                                  *)
(****************************************************************************)
EXTENDS SlotFeatures, SlotState

CONSTANTS Definitions,         \* the compiled games a spin may be played on
          Bets,                \* the bets requested, minor units
          Modes,               \* the play modes requested
          PluginActs,          \* <<hook, act>>: what the plugin may do where
          PluginMultipliers,   \* the cascade multipliers the plugin asks for
          PluginSpins,         \* the numbers of spins it awards
          PluginCascadeBound,  \* it asks for no cascade past this index
          PluginSpinBound      \* nor for spins past this total

ASSUME SpinAssumption ==
    /\ Definitions \subseteq Definition
    /\ Bets \subseteq (1..MaxInt)
    /\ Modes \subseteq {"normal", "simulation"}
    /\ PluginMultipliers \subseteq Multiplier
    /\ PluginSpins \subseteq Nat

VARIABLES
    def,        \* the game's validated definition, never written
    req,        \* the request: bet and mode, never written
    sm,         \* the state machine's current state
    pc,         \* where Spin goes on once the pending hook is through
    hook,       \* the hook being run, or the last one
    pending,    \* the features the hook has still to be called on
    ctx,        \* the FeatureContext shared with the features
    free,       \* FreeSpinState: remaining, total, global multiplier
    win,        \* accumulated base and feature, and the free spin's round
    capReached, \* capReached
    tally,      \* totalCascades, totalFreeSpins
    log,        \* the kinds of the events, the awards in allTriggers
    result,     \* what Spin returns: total multiplier and payout
    err,        \* why Spin failed
    seen        \* history: nothing in Spin reads it

inputs  == <<def, req>>
control == <<sm, pc, hook, pending, err>>
vars    == <<inputs, control, ctx, free, win, capReached, tally, log, result,
             seen>>

Hooks == {"BeforeSpin", "AfterGridGenerated", "BeforeEvaluation",
          "AfterEvaluation", "AfterCascade", "AfterSpin"}

Points == {"begin", "generate", "revealed", "evaluate", "decide", "loop",
           "collapse", "refilled", "reevaluate", "again", "close", "enter",
           "spins", "round", "settle", "finish", "done", "failed"}

EventKinds == {"grid_reveal", "wins", "removal", "cascade", "scatter_trigger",
               "free_spin_trigger", "max_win_reached", "complete"}

Errors == {"none", "transition", "arithmetic", "feature", "source", "evaluator",
           "event"}

NoResult == [total |-> Failed, payout |-> Failed]

\* The history: is the symbol win of the current grid still uncredited, and
\* which reel sets fed the grids of the current round.
History == [unpaid : BOOLEAN, reels : SUBSET ReelSetNames]

\* The values of the records a spin keeps.
FreeSpinState == [remaining : Nat, total : Nat, global : Multiplier]

Sums == [base : Multiplier, feature : Multiplier, round : Multiplier]

Counts == [cascades : Nat, spins : Nat]

Logs == [events : SUBSET EventKinds, triggers : SUBSET Int]

Results == [total : Multiplier, payout : Multiplier] \cup {NoResult}

TypeOK ==
    /\ def \in Definitions
    /\ req \in [bet : Bets, mode : Modes]
    /\ sm \in States
    /\ pc \in Points
    /\ hook \in Hooks \cup {"none"}
    /\ pending \in Seq(FeatureNames)
    /\ ctx \in Context
    /\ free \in FreeSpinState
    /\ win \in Sums
    /\ capReached \in BOOLEAN
    /\ tally \in Counts
    /\ log \in Logs
    /\ result \in Results
    /\ err \in Errors
    /\ seen \in History

Init ==
    /\ def \in Definitions
    /\ req \in [bet : Bets, mode : Modes]
    /\ sm = "IDLE" /\ pc = "begin" /\ hook = "none" /\ pending = <<>>
    /\ ctx = NewContext
    /\ free = [remaining |-> 0, total |-> 0, global |-> Scale]
    /\ win = [base |-> 0, feature |-> 0, round |-> 0]
    /\ capReached = FALSE
    /\ tally = [cascades |-> 0, spins |-> 0]
    /\ log = [events |-> {}, triggers |-> {}]
    /\ result = NoResult
    /\ err = "none"
    /\ seen = [unpaid |-> FALSE, reels |-> {}]

------------------------------------------------------------------------------
(* Control: calling hooks, moving the state machine, returning an error.     *)

At(point) == pc = point /\ pending = <<>>

GoTo(point) == pc' = point /\ UNCHANGED <<hook, pending>>

\* runHook(h): every feature of the game in order, then on to point.
Call(h, point) == pc' = point /\ hook' = h /\ pending' = def.features

\* Every error path returns the zero SpinResult.
Fail(reason) ==
    /\ pc' = "failed" /\ err' = reason /\ pending' = <<>>
    /\ UNCHANGED <<inputs, sm, hook, ctx, free, win, capReached, tally, log,
                   result, seen>>

\* sm.Transition(target), then the rest of the step.
Enter(target, rest) ==
    IF target \in LegalTransitions[sm]
    THEN sm' = target /\ err' = err /\ rest
    ELSE Fail("transition")

Stay == UNCHANGED <<sm, err>>

\* emitEvent: nothing is recorded in simulation mode.
Emitted(l, kinds) ==
    IF req.mode = "simulation" THEN l
                               ELSE [l EXCEPT !.events = @ \cup kinds]

WinKinds(ev) == IF Ways(ev) > 0 THEN {"wins"} ELSE {}

ScatterKinds(ev) ==
    IF ev.scatter > 0 \/ ev.award # 0 THEN {"scatter_trigger"} ELSE {}

\* Mutation: the triggers of an evaluation are forgotten.
RecordedNothing(l, ev) == l

\* addTriggers: the distinct triggers, known here by their award.
Recorded(l, ev) ==
    IF ev.award = 0 THEN l ELSE [l EXCEPT !.triggers = @ \cup {ev.award}]

------------------------------------------------------------------------------
(* The maximum win.                                                          *)

\* Mutation: the cap is noticed only once it is exceeded.
CapHitStrict(m) == def.cap > 0 /\ m > def.cap

CapHit(m) == def.cap > 0 /\ m >= def.cap

Clamp(m) == IF CapHit(m) THEN def.cap ELSE m

CapKinds(hit) == IF hit THEN {"max_win_reached"} ELSE {}

EndsAtCap == def.policy # "cap_only"

Terminated == ctx.endSession \/ ctx.endFeature

\* A sum whose parts may have overflowed already.
Plus(a, b) == IF a = Failed \/ b = Failed THEN Failed ELSE Add(a, b)

\* What the base game and the free-spin loop compare with the cap.
BaseTotal  == win.base
RoundTotal == Plus(Plus(win.base, win.feature), win.round)

\* Mutation: the policy's break is missing at the head of the cascade loop.
StopsAtTerminationOnly(m) == Terminated

\* Does a cascade loop whose running total is m stop at its head?
StopsAt(m) == (CapHit(m) /\ EndsAtCap) \/ Terminated

\* The multiplier a cascade pays at: a request for none or less means 1x.
CascadePays ==
    Mul(Ways(ctx.eval), IF ctx.cascadeMult = 0 THEN Scale ELSE ctx.cascadeMult)

------------------------------------------------------------------------------
(* The features.                                                             *)

\* The next feature of a pending hook is a built-in.
RunBuiltin ==
    /\ pending # <<>> /\ Head(pending) # "plugin"
    /\ LET r == BuiltinHook(def, Head(pending), hook, ctx, free.total,
                            free.global) IN
       IF r.ok
       THEN /\ ctx' = r.ctx
            /\ free' = [free EXCEPT !.global = r.global]
            /\ pending' = Tail(pending)
            /\ UNCHANGED <<inputs, sm, pc, hook, err, win, capReached, tally,
                           log, result, seen>>
       ELSE Fail("feature")

Allowed(act) == <<hook, act>> \in PluginActs

\* What a plugin of the game's own may record in one hook: the methods of
\* FeatureContext, each at most once.
PluginDecisions ==
    {ctx}
    \cup {RequestCascade(ctx, m) : m \in
            {n \in PluginMultipliers : /\ Allowed("cascade")
                                       /\ ctx.cascadeIndex < PluginCascadeBound}}
    \cup {AwardFreeSpins(ctx, m) : m \in
            {n \in PluginSpins : /\ Allowed("award")
                                 /\ ctx.awardSpins < PluginSpinBound}}
    \cup {RetriggerFreeSpins(ctx, m) : m \in
            {n \in PluginSpins :
                /\ Allowed("retrigger")
                /\ free.total + ctx.retriggerSpins < PluginSpinBound}}
    \cup {SelectReelSet(ctx, r) : r \in
            {n \in ReelSetNames : Allowed("reels")}}
    \cup {Terminate(ctx, FALSE) : x \in {y \in {0} : Allowed("end_feature")}}
    \cup {Terminate(ctx, TRUE) : x \in {y \in {0} : Allowed("end_session")}}

RunPlugin ==
    /\ pending # <<>> /\ Head(pending) = "plugin"
    /\ ctx' \in PluginDecisions
    /\ pending' = Tail(pending)
    /\ UNCHANGED <<inputs, sm, pc, hook, err, free, win, capReached, tally, log,
                   result, seen>>

PluginFails ==
    /\ pending # <<>> /\ Head(pending) = "plugin" /\ Allowed("fail")
    /\ Fail("feature")

------------------------------------------------------------------------------
(* A round's grid, in the base game and in a free spin.                      *)

\* 1. Begin spin.
Begin ==
    /\ At("begin")
    /\ Enter("SPINNING",
             /\ Call("BeforeSpin", "generate")
             /\ UNCHANGED <<inputs, ctx, free, win, capReached, tally, log,
                            result, seen>>)

\* GenerateGrid draws from the reel set the context names by now.
Reveal ==
    /\ At("generate")
    /\ Enter("EVALUATING",
             /\ Call("AfterGridGenerated", "revealed")
             /\ log' = Emitted(log, {"grid_reveal"})
             /\ seen' = [seen EXCEPT !.reels = {ctx.reelSet}]
             /\ UNCHANGED <<inputs, ctx, free, win, capReached, tally, result>>)

\* 2. The initial grid.
BaseReveal == ~ctx.isFreeSpin /\ Reveal

FreeReveal == ctx.isFreeSpin /\ Reveal

Revealed ==
    /\ At("revealed")
    /\ Call("BeforeEvaluation", "evaluate") /\ Stay
    /\ UNCHANGED <<inputs, ctx, free, win, capReached, tally, log, result, seen>>

Evaluate(ev, kinds) ==
    /\ At("evaluate")
    /\ Call("AfterEvaluation", "decide") /\ Stay
    /\ ctx' = [ctx EXCEPT !.eval = ev]
    /\ log' = Emitted(log, kinds)
    /\ seen' = [seen EXCEPT !.unpaid = Ways(ev) > 0]
    /\ UNCHANGED <<inputs, free, win, capReached, tally, result>>

\* 3. Initial evaluation.
BaseEvaluate ==
    /\ ~ctx.isFreeSpin
    /\ \E ev \in Evaluations : Evaluate(ev, WinKinds(ev))

\* A free spin announces its scatters before the hooks run.
FreeEvaluate ==
    /\ ctx.isFreeSpin
    /\ \E ev \in Evaluations : Evaluate(ev, WinKinds(ev) \cup ScatterKinds(ev))

\* The current grid was paid, its wins are removed; sums and hit are what the
\* loop makes of the payment and of the cap.
Paid(sums, hit) ==
    Enter("CASCADING",
          /\ GoTo("collapse")
          /\ win' = sums
          /\ capReached' = (capReached \/ hit)
          /\ log' = Emitted(log, {"removal"} \cup CapKinds(hit))
          /\ seen' = [seen EXCEPT !.unpaid = FALSE]
          /\ UNCHANGED <<inputs, ctx, free, tally, result>>)

\* The collapsed grid is refilled, whatever was noticed while it was paid, and
\* the features hear of it.
Refill ==
    /\ At("collapse")
    /\ Call("AfterCascade", "refilled") /\ Stay
    /\ tally' = [tally EXCEPT !.cascades = @ + 1]
    /\ ctx' = [ctx EXCEPT !.cascadeIndex = @ + 1]
    /\ seen' = [seen EXCEPT !.reels = @ \cup {ctx.reelSet}]
    /\ log' = Emitted(log, {"cascade"})
    /\ UNCHANGED <<inputs, free, win, capReached, result>>

\* A refilled grid's scatter payout counts at once, unmultiplied.
WithScatter(m, ev) == Add(m, ev.scatter)

\* The refilled grid is handed to BeforeEvaluation and on to the evaluator.
Refilled ==
    Enter("EVALUATING",
          /\ Call("BeforeEvaluation", "reevaluate")
          /\ UNCHANGED <<inputs, ctx, free, win, capReached, tally, log, result,
                         seen>>)

Reevaluated(ev) ==
    /\ ctx' = ResetRoundDecisions([ctx EXCEPT !.eval = ev])
    /\ seen' = [seen EXCEPT !.unpaid = Ways(ev) > 0]
    /\ Stay
    /\ UNCHANGED <<inputs, free, capReached, tally, result>>

------------------------------------------------------------------------------
(* The base game.                                                            *)

\* The scatter payout counts at once, the symbol wins only without a cascade.
BaseDecide ==
    /\ At("decide") /\ ~ctx.isFreeSpin
    /\ LET ev  == ctx.eval
           sum == Add(ev.scatter, Ways(ev)) IN
       IF ~ctx.cascadeRequested /\ sum = Failed
       THEN Fail("arithmetic")
       ELSE /\ GoTo(IF ctx.cascadeRequested THEN "loop" ELSE "close") /\ Stay
            /\ win' = [win EXCEPT !.base = IF ctx.cascadeRequested
                                           THEN ev.scatter ELSE sum]
            /\ seen' = [seen EXCEPT !.unpaid = @ /\ ctx.cascadeRequested]
            /\ log' = Recorded(Emitted(log, ScatterKinds(ev)), ev)
            /\ UNCHANGED <<inputs, ctx, free, capReached, tally, result>>

\* 4. Cascades loop: no feature asked for another cascade.
BaseLoopEnds ==
    /\ At("loop") /\ ~ctx.isFreeSpin /\ ~ctx.cascadeRequested
    /\ GoTo("close") /\ Stay
    /\ UNCHANGED <<inputs, ctx, free, win, capReached, tally, log, result, seen>>

\* Mutation: continue where the code breaks.
BaseLoopStopsContinues ==
    /\ At("loop") /\ ~ctx.isFreeSpin /\ ctx.cascadeRequested
    /\ StopsAt(BaseTotal)
    /\ GoTo("loop") /\ Stay
    /\ win' = [win EXCEPT !.base = Clamp(@)]
    /\ capReached' = (capReached \/ CapHit(BaseTotal))
    /\ log' = Emitted(log, CapKinds(CapHit(BaseTotal)))
    /\ UNCHANGED <<inputs, ctx, free, tally, result, seen>>

\* The head of the loop breaks: cap reached, or a feature terminated.
BaseLoopStops ==
    /\ At("loop") /\ ~ctx.isFreeSpin /\ ctx.cascadeRequested
    /\ StopsAt(BaseTotal)
    /\ GoTo("close") /\ Stay
    /\ win' = [win EXCEPT !.base = Clamp(@)]
    /\ capReached' = (capReached \/ CapHit(BaseTotal))
    /\ log' = Emitted(log, CapKinds(CapHit(BaseTotal)))
    /\ UNCHANGED <<inputs, ctx, free, tally, result, seen>>

\* The current grid is paid and its wins are removed.  Reaching the cap here is
\* announced, and does not keep the grid from being refilled.
BaseCascade ==
    /\ At("loop") /\ ~ctx.isFreeSpin /\ ctx.cascadeRequested
    /\ ~StopsAt(BaseTotal)
    /\ LET sum == Plus(Clamp(BaseTotal), CascadePays)
           hit == CapHit(BaseTotal) \/ CapHit(sum) IN
       IF sum = Failed
       THEN Fail("arithmetic")
       ELSE Paid([win EXCEPT !.base = Clamp(sum)], hit)

BaseRefilled ==
    /\ At("refilled") /\ ~ctx.isFreeSpin
    /\ IF (capReached /\ EndsAtCap) \/ Terminated
       THEN /\ GoTo("close") /\ Stay
            /\ UNCHANGED <<inputs, ctx, free, win, capReached, tally, log,
                           result, seen>>
       ELSE Refilled

BaseReevaluate ==
    /\ At("reevaluate") /\ ~ctx.isFreeSpin
    /\ \E ev \in Evaluations :
          IF WithScatter(win.base, ev) = Failed
          THEN Fail("arithmetic")
          ELSE /\ Reevaluated(ev) /\ Call("AfterEvaluation", "loop")
               /\ win' = [win EXCEPT !.base = WithScatter(@, ev)]
               /\ log' = Recorded(Emitted(log, ScatterKinds(ev) \cup WinKinds(ev)), ev)

\* The base game is over: its sum is clamped once more, without an event, and
\* the free spins it was awarded are announced.
CloseBase ==
    /\ At("close")
    /\ LET reached == capReached \/ CapHit(win.base)
           rest(kinds) ==
              /\ win' = [win EXCEPT !.base = Clamp(@)]
              /\ capReached' = reached
              /\ log' = Emitted(log, kinds)
              /\ seen' = [unpaid |-> FALSE, reels |-> {}]
              /\ UNCHANGED <<inputs, ctx, free, tally, result>>
       IN  IF ctx.awardSpins > 0 /\ ~(reached /\ EndsAtCap) /\ ~ctx.endSession
           THEN Enter("FEATURE_TRIGGER",
                      GoTo("enter") /\ rest({"free_spin_trigger"}))
           ELSE GoTo("settle") /\ Stay /\ rest({})

------------------------------------------------------------------------------
(* 5. Free spins mode.                                                       *)

EnterFreeSpins ==
    /\ At("enter")
    /\ Enter("FREE_SPINS",
             /\ GoTo("spins")
             /\ free' = [remaining |-> ctx.awardSpins, total |-> ctx.awardSpins,
                         global |-> Scale]
             /\ ctx' = [ctx EXCEPT !.isFreeSpin = TRUE, !.awardSpins = 0]
             /\ UNCHANGED <<inputs, win, capReached, tally, log, result, seen>>)

\* Mutation: the free-spin loop does not count down to an end.
NoMoreSpinsUncounted == (capReached /\ EndsAtCap) \/ Terminated

\* Mutation: the last spin awarded is never played.
NoMoreSpinsOffByOne ==
    free.remaining <= 1 \/ (capReached /\ EndsAtCap) \/ Terminated

NoMoreSpins ==
    free.remaining = 0 \/ (capReached /\ EndsAtCap) \/ Terminated

FreeSpinsEnd ==
    /\ At("spins") /\ NoMoreSpins
    /\ GoTo("settle") /\ Stay
    /\ UNCHANGED <<inputs, ctx, free, win, capReached, tally, log, result, seen>>

StartFreeSpin ==
    /\ At("spins") /\ ~NoMoreSpins
    /\ Enter("SPINNING",
             /\ Call("BeforeSpin", "generate")
             /\ free' = [free EXCEPT !.remaining = @ - 1]
             /\ tally' = [tally EXCEPT !.spins = @ + 1]
             /\ ctx' = ResetRoundDecisions([ctx EXCEPT !.cascadeIndex = 0])
             /\ UNCHANGED <<inputs, win, capReached, log, result, seen>>)

\* Mutation: a retrigger is announced in the total but not played.
RetriggeredTotalOnly(f, n) == [f EXCEPT !.total = @ + n]

\* AwardedSpins and TotalSpins are assigned together on every path: total
\* stands for both.
Retriggered(f, n) == [f EXCEPT !.remaining = @ + n, !.total = @ + n]

RetriggerKinds == IF ctx.retriggerSpins > 0 THEN {"free_spin_trigger"} ELSE {}

\* The persistent multiplier is applied, and may overflow, whether or not the
\* product is used: a cascading grid is paid by the loop instead.
FreeWays ==
    IF def.persistent /\ free.global > Scale
    THEN Mul(Ways(ctx.eval), free.global)
    ELSE Ways(ctx.eval)

FreeDecide ==
    /\ At("decide") /\ ctx.isFreeSpin
    /\ LET sum == Plus(ctx.eval.scatter, FreeWays) IN
       IF FreeWays = Failed \/ (~ctx.cascadeRequested /\ sum = Failed)
       THEN Fail("arithmetic")
       ELSE /\ GoTo(IF ctx.cascadeRequested THEN "loop" ELSE "round") /\ Stay
            /\ win' = [win EXCEPT !.round = IF ctx.cascadeRequested
                                            THEN ctx.eval.scatter ELSE sum]
            /\ free' = Retriggered(free, ctx.retriggerSpins)
            /\ ctx' = [ctx EXCEPT !.retriggerSpins = 0]
            /\ seen' = [seen EXCEPT !.unpaid = @ /\ ctx.cascadeRequested]
            /\ log' = Emitted(log, RetriggerKinds)
            /\ UNCHANGED <<inputs, capReached, tally, result>>

FreeLoopEnds ==
    /\ At("loop") /\ ctx.isFreeSpin /\ ~ctx.cascadeRequested
    /\ GoTo("round") /\ Stay
    /\ UNCHANGED <<inputs, ctx, free, win, capReached, tally, log, result, seen>>

FreeLoopStops ==
    /\ At("loop") /\ ctx.isFreeSpin /\ ctx.cascadeRequested
    /\ RoundTotal # Failed /\ StopsAt(RoundTotal)
    /\ GoTo("round") /\ Stay
    /\ capReached' = (capReached \/ CapHit(RoundTotal))
    /\ log' = Emitted(log, CapKinds(CapHit(RoundTotal)))
    /\ UNCHANGED <<inputs, ctx, free, win, tally, result, seen>>

\* Unlike the base game, nothing is clamped and the cap is looked at before
\* the grid is paid only.
FreeCascade ==
    /\ At("loop") /\ ctx.isFreeSpin /\ ctx.cascadeRequested
    /\ RoundTotal = Failed \/ ~StopsAt(RoundTotal)
    /\ LET sum == Plus(win.round, CascadePays) IN
       IF RoundTotal = Failed \/ sum = Failed
       THEN Fail("arithmetic")
       ELSE Paid([win EXCEPT !.round = sum], CapHit(RoundTotal))

\* Neither the cap nor a termination is looked at here.
FreeRefilled == At("refilled") /\ ctx.isFreeSpin /\ Refilled

FreeReevaluate ==
    /\ At("reevaluate") /\ ctx.isFreeSpin
    /\ \E ev \in Evaluations :
          IF WithScatter(win.round, ev) = Failed
          THEN Fail("arithmetic")
          ELSE /\ Reevaluated(ev) /\ Call("AfterEvaluation", "again")
               /\ win' = [win EXCEPT !.round = WithScatter(@, ev)]
               /\ log' = Emitted(log, ScatterKinds(ev) \cup WinKinds(ev))

\* A retrigger on a refilled grid, before the loop looks at its head again.
FreeRetrigger ==
    /\ At("again")
    /\ GoTo("loop") /\ Stay
    /\ free' = Retriggered(free, ctx.retriggerSpins)
    /\ ctx' = [ctx EXCEPT !.retriggerSpins = 0]
    /\ log' = Emitted(log, RetriggerKinds)
    /\ UNCHANGED <<inputs, win, capReached, tally, result, seen>>

\* The round joins the feature's sum.  The round's own payout is computed on
\* its uncapped multiplier, and its overflow fails the whole spin.
FreeRoundEnds ==
    /\ At("round")
    /\ LET feature == Add(win.feature, win.round)
           total   == Plus(win.base, feature)
           hit     == CapHit(total)
           rest    ==
              /\ win' = [win EXCEPT !.feature = feature, !.round = 0]
              /\ capReached' = (capReached \/ hit)
              /\ log' = Emitted(log, CapKinds(hit))
              /\ seen' = [unpaid |-> FALSE, reels |-> {}]
              /\ UNCHANGED <<inputs, ctx, free, tally, result>>
       IN  IF Settle(req.bet, win.round) = Failed \/ total = Failed
           THEN Fail("arithmetic")
           ELSE IF hit /\ EndsAtCap
           THEN GoTo("settle") /\ Stay /\ rest
           ELSE Enter("FREE_SPINS", GoTo("spins") /\ rest)

------------------------------------------------------------------------------
(* 6. Settle.                                                                *)

BeginSettle ==
    /\ At("settle")
    /\ Enter("SETTLING",
             /\ Call("AfterSpin", "finish")
             /\ UNCHANGED <<inputs, ctx, free, win, capReached, tally, log,
                            result, seen>>)

\* Mutation: the sum of base game and feature is settled as it is.
FinalMultiplierUncapped == Add(win.base, win.feature)

FinalMultiplier == Clamp(Add(win.base, win.feature))

Finish ==
    /\ At("finish")
    /\ LET total  == FinalMultiplier
           payout == Settle(req.bet, total) IN
       IF total = Failed \/ payout = Failed
       THEN Fail("arithmetic")
       ELSE Enter("COMPLETED",
                  /\ GoTo("done")
                  /\ result' = [total |-> total, payout |-> payout]
                  /\ log' = Emitted(log, {"complete"})
                  /\ UNCHANGED <<inputs, ctx, free, win, capReached, tally, seen>>)

------------------------------------------------------------------------------
(* What Spin calls may fail too: the entropy source, while a grid is drawn   *)
(* or refilled, the evaluator, and the recording of an event.                *)

SourceFails ==
    /\ At("generate") \/ At("collapse")
    /\ Fail("source")

EvaluatorFails ==
    /\ At("evaluate") \/ At("reevaluate")
    /\ Fail("evaluator")

\* Recording the scatters marshals their triggers, and a trigger brings JSON of
\* its evaluator's own, which may be invalid.
PayloadFails ==
    /\ req.mode = "normal"
    /\ \/ At("evaluate") /\ ctx.isFreeSpin
       \/ At("reevaluate")
       \/ At("decide") /\ ~ctx.isFreeSpin
    /\ \E ev \in IF pc = "decide" THEN {ctx.eval} ELSE Evaluations : ev.award # 0
    /\ Fail("event")

Returned == pc \in {"done", "failed"}

Idle == Returned /\ UNCHANGED vars

Next ==
    \/ RunBuiltin \/ RunPlugin \/ PluginFails
    \/ Begin \/ BaseReveal \/ FreeReveal \/ Revealed
    \/ BaseEvaluate \/ FreeEvaluate
    \/ BaseDecide \/ BaseLoopEnds \/ BaseLoopStops \/ BaseCascade
    \/ Refill
    \/ BaseRefilled \/ BaseReevaluate \/ CloseBase
    \/ EnterFreeSpins \/ FreeSpinsEnd \/ StartFreeSpin
    \/ FreeDecide \/ FreeLoopEnds \/ FreeLoopStops \/ FreeCascade
    \/ FreeRefilled \/ FreeReevaluate \/ FreeRetrigger \/ FreeRoundEnds
    \/ BeginSettle \/ Finish \/ SourceFails \/ EvaluatorFails
    \/ PayloadFails \/ Idle

\* Spin runs on its caller's goroutine and blocks on nothing: as long as it
\* can go on, it does.
Spec == Init /\ [][Next]_vars /\ WF_vars(Next)

------------------------------------------------------------------------------
(* Properties.                                                               *)

\* The features are those NewBuiltins makes, in some order.
Builtins ==
    \A i \in DOMAIN def.features :
        /\ def.features[i] # "plugin"
        /\ \A j \in DOMAIN def.features \ {i} : def.features[j] # def.features[i]

\* The multiplier due so far: never more than the cap.
Due == Clamp(win.base + win.feature + win.round)

\* Whatever breaks out of which loop, Spin itself never asks its state machine
\* for a transition the table refuses: the table and the engine's control
\* flow, kept in two files, agree.
NoIllegalTransition == err # "transition"

\* Every free spin awarded or retriggered is played or still to be played,
\* and the built-ins never take the total past MaxTotalSpins.
SpinAccounting ==
    /\ free.remaining + tally.spins = free.total
    /\ Builtins => free.total + ctx.retriggerSpins <= def.maxSpins

\* The awards of a completed spin were all played, unless the cap ended it.
AwardsArePlayed ==
    Builtins /\ pc = "done" =>
        \/ capReached /\ EndsAtCap
        \/ free.remaining = 0 /\ ctx.awardSpins = 0 /\ ctx.retriggerSpins = 0

\* A completed spin never pays more than the cap, and the engine has noticed
\* the cap on one of its seven tests exactly when the spin pays the cap.
CapIsExact ==
    pc = "done" /\ def.cap > 0 =>
        /\ result.total <= def.cap
        /\ capReached <=> result.total = def.cap

\* Under a terminating policy no free spin starts once what is due reached the
\* cap, noticed or not; and once it was noticed no cascade begins and no
\* further grid is evaluated: the one already paid is refilled, no more.
NothingPlayedAfterCap ==
    [][EndsAtCap =>
        /\ CapHit(Due) => tally'.spins = tally.spins
        /\ capReached =>
             /\ ctx'.eval = ctx.eval
             /\ pc' = "collapse" => pc = "collapse"
             /\ tally'.cascades # tally.cascades => pc = "collapse"]_vars

\* What is due changes only where a grid is credited: closing the base game,
\* moving a round's sum into the feature's and settling pay nothing again and
\* lose nothing.  And the symbol win of an evaluated grid is left unpaid at the
\* end of a round only because the cap was reached or the cascade limit was.
WinsArePaidOnce ==
    [][/\ Due' # Due => pc \in {"decide", "loop", "reevaluate"}
       /\ Builtins /\ pc' \in {"close", "round"} /\ pc' # pc /\ seen'.unpaid
            => capReached' \/ ctx'.cascadeIndex >= def.maxCascades]_vars

\* Every grid of a free spin, refilled ones too, comes from the free spins' reel
\* set, and every grid of the base game from the base reels until a trigger was
\* recorded: the award selects the free spins' reels at once.
GridsOnTheirReels ==
    Builtins =>
        /\ ctx.isFreeSpin /\ def.freeReels # ""
              => seen.reels \subseteq {def.freeReels}
        /\ ~ctx.isFreeSpin /\ log.triggers = {} => seen.reels \subseteq {"base"}

\* A result that reports free spins reports the trigger that awarded them.
TriggersReported == Builtins /\ tally.spins > 0 => log.triggers # {}

\* Every spin returns.
Terminates == <>Returned

\* SlotRound's promise, kept by the engine with any features.
Round == INSTANCE SlotRound WITH
    Unit   <- Scale,
    terms  <- [bet |-> req.bet, cap |-> def.cap, stop |-> EndsAtCap],
    phase  <- CASE pc = "done"   -> "settled"
                [] pc = "failed" -> "failed"
                [] OTHER         -> IF ctx.isFreeSpin THEN "free" ELSE "base",
    win    <- Due,
    left   <- free.remaining,
    played <- tally.spins,
    payout <- result.payout

KeepsPromise == Round!Spec

------------------------------------------------------------------------------
(* What comments and documents say, and the code does not do.                *)

\* "EventMaxWinReached is emitted when payout reaches the configured cap"
\* (types.go): the cap is also reached where no event is emitted.
CapAnnounced ==
    pc = "done" /\ req.mode = "normal" /\ capReached
        => "max_win_reached" \in log.events

\* "MaxWinTerminateSession terminates all further cascades and spins
\* immediately" (config.go): a session at its cap plays and wins no more.
TerminatesImmediately ==
    [][def.policy = "terminate_session" /\ CapHit(Due)
        => tally' = tally /\ free'.total = free.total]_vars

\* "WinMechanicWays pays for matching symbols" (types.go): below the cap, every
\* symbol win a built-in game evaluates is paid.
EveryWinPaid ==
    [][Builtins /\ pc' \in {"close", "round"} /\ pc' # pc /\ seen'.unpaid
        => capReached']_vars
==============================================================================
