SPECIFICATION FairSpec
CONSTANTS
    Inputs <- MCInputs
    Functions <- MCFunctions
    Programs <- MCPrograms
    Keys = {0, 1, 2}
    Bidders = {1, 2}
    Honest <- MCHonest
    Deviations <- MCDeviations
INVARIANTS
    TypeOK
    ViolationsReal
    NothingMissed
    PatternsRight
    Clean
PROPERTY
    Terminates
