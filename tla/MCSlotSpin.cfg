SPECIFICATION Spec
CONSTANTS
    Scale = 2
    MaxInt = 60
    Evaluations <- FourGrids
    Definitions <- AllGames
    Bets = {3}
    Modes = {"normal"}
    PluginActs <- AnyActs
    PluginMultipliers = {0}
    PluginSpins = {1}
    PluginCascadeBound = 1
    PluginSpinBound = 2
INVARIANTS
    TypeOK
    NoIllegalTransition
    SpinAccounting
    AwardsArePlayed
    CapIsExact
    GridsOnTheirReels
    TriggersReported
PROPERTIES
    NothingPlayedAfterCap
    WinsArePaidOnce
    Terminates
    KeepsPromise
