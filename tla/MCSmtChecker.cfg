CONSTANTS
    Contracts <- MCContracts
    MaxValue = 2
    Symbols = 4
SPECIFICATION Spec
INVARIANTS
    TypeOK
    FailuresFound
    OverflowsFound
    AlarmsReal
    ConstantsRight
    CrashesExplained
