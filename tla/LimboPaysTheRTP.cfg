SPECIFICATION GamesSpec
CONSTANTS
    Results <- AllOutcomes
    None = None
    RoundCounts <- UpToTwo
    Unit = 64
    Precision = 16
    Spacings <- MCSpacings
    Hundred = 20
    Grains <- MCGrains
    Inputs <- LeastTarget
    PickLists <- MCPickLists
    StoredBoards <- MCStoredBoards
    DefaultBoardSize = 4
    MaxBoardSize = 5
    MinRows = 3
    MaxRows = 4
    RiskAlphas <- MCRiskAlphas
    DefaultRTP = 60
    DefaultBase = 16
    DefaultGap = 10
CHECK_DEADLOCK FALSE
INVARIANT
    LimboPaysTheRTP
