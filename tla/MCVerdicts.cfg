CONSTANTS
    Mechs <- MCMechs
    Design <- MCDesign
    Amounts <- MCAmounts
    Requests <- MCRequests
    GivesUp = FALSE
SPECIFICATION Spec
INVARIANTS
    Balanced
    VerdictsRight
    EachAnswered
