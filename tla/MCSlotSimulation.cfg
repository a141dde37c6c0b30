SPECIFICATION Spec
CONSTANTS
    Scale = 2
    MaxInt = 12000
    Precision = 1024
    Spacings <- MCSpacings
    Unit = 16384
    None = None
    Outcomes <- MCOutcomes
    Options <- MCOptions
CHECK_DEADLOCK FALSE
INVARIANTS
    TypeOK
    ReportIsWhole
    BandsHoldEveryRound
    SharesAddUp
PROPERTIES
    ImplementsRun
