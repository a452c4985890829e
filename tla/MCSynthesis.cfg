CONSTANTS
    Inputs <- MCInputs
    Values <- MCValues
    Results <- MCResults
SPECIFICATION Spec
INVARIANTS
    TypeOK
    OutcomeOfItsPath
