CONSTANTS
    NoVar = NoVar
    NoFunc = NoFunc
    Vars <- MCVars
    StateVars <- MCStateVars
    EnvVars <- MCEnvVars
    Funcs <- MCFuncs
    Stmt <- MCStmt
    Ast <- MCAst
    Fun <- MCFun
    Outside <- MCOutside
    Tags <- MCTags
    Inputs <- MCInputs
    Entries <- MCEntries
    Bounded <- MCBounded
    StackLimit = 40
SPECIFICATION FairSpec
INVARIANTS
    TypeOK
    DisjointPaths
    SignalsStayInLoop
    FramesMatch
PROPERTY Completes
