----------------------------- MODULE MCSlotSpin -----------------------------
(****************************************************************************)
(* Small games for SlotSpin.  Scale 2 makes 1x two units, so that halves    *)
(* exist and products are floored; MaxInt is small enough for a long lucky  *)
(* spin to overflow.                                                        *)
(****************************************************************************)
EXTENDS SlotSpin

Game == [features |-> <<"cascade", "scatter_free_spins">>,
         cap |-> 0, policy |-> "cap_only",
         cascadeEnabled |-> TRUE, maxCascades |-> 2,
         cascadeMode |-> "incremental", fixed |-> 2, step |-> 1, table |-> <<>>,
         freeEnabled |-> TRUE, maxSpins |-> 3, retrigger |-> TRUE,
         freeReels |-> "free", persistent |-> FALSE]

Capped(cap, policy) == [Game EXCEPT !.cap = cap, !.policy = policy]

Uncapped == [Game EXCEPT !.maxCascades = 1, !.maxSpins = 2]

BuiltinGames ==
    {Uncapped,
     [Uncapped EXCEPT !.persistent = TRUE, !.cascadeMode = "fixed"],
     [Uncapped EXCEPT !.features = <<"scatter_free_spins", "cascade">>,
                      !.cascadeMode = "table", !.table = <<2, 3>>,
                      !.freeReels = "", !.retrigger = FALSE],
     [Uncapped EXCEPT !.features = <<"scatter_free_spins">>,
                      !.cascadeEnabled = FALSE, !.persistent = TRUE],
     Capped(9, "cap_only"), Capped(5, "terminate_feature"),
     [Capped(9, "terminate_session") EXCEPT !.persistent = TRUE]}

\* No win; a symbol win; a scatter award alone; both.
FourGrids ==
    {[total |-> 0, scatter |-> 0, award |-> 0],
     [total |-> 3, scatter |-> 0, award |-> 0],
     [total |-> 1, scatter |-> 1, award |-> 2],
     [total |-> 4, scatter |-> 1, award |-> 2]}

------------------------------------------------------------------------------
(* Games with a feature of their own.                                        *)

\* Last in the hooks, so that it may undo what the built-ins decided; and first,
\* without free spins of the game's own.
PluginGames ==
    {[Capped(7, "terminate_session") EXCEPT
         !.features = <<"cascade", "scatter_free_spins", "plugin">>,
         !.maxCascades = 1, !.maxSpins = 1],
     [Capped(7, "cap_only") EXCEPT
         !.features = <<"plugin", "cascade">>,
         !.maxCascades = 1, !.maxSpins = 2, !.freeEnabled = FALSE]}

NoActs == {}

AllGames == BuiltinGames \cup PluginGames

\* The plugin decides on cascades, spins and the end of the game after an
\* evaluation, and may do something in each other hook.
AnyActs ==
    ({"AfterEvaluation"} \X {"cascade", "award", "retrigger", "end_feature",
                             "end_session"})
    \cup {<<"BeforeSpin", "reels">>, <<"AfterGridGenerated", "cascade">>,
          <<"BeforeEvaluation", "fail">>, <<"AfterCascade", "end_feature">>,
          <<"AfterSpin", "award">>}
==============================================================================
