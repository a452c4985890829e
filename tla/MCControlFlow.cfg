SPECIFICATION FairSpec
CONSTANTS
    Flows <- MCFlows
INVARIANTS
    Settled
    Connected
    AlarmsReal
    MissedOnlyAsleep
PROPERTY
    Terminates
