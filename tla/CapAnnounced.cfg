SPECIFICATION Spec
CONSTANTS
    Scale = 2
    MaxInt = 60
    Evaluations <- FourGrids
    Definitions <- BuiltinGames
    Bets = {3}
    Modes = {"normal"}
    PluginActs <- NoActs
    PluginMultipliers = {}
    PluginSpins = {}
    PluginCascadeBound = 0
    PluginSpinBound = 0
INVARIANT
    CapAnnounced
