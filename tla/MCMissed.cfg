SPECIFICATION FairSpec
CONSTANTS
    Flows <- MCFlows
INVARIANTS
    AllPathsWalked
