CONSTANTS
    NoVar = NoVar
    NoFunc = NoFunc
    Vars <- MCVars
    StateVars <- MCStateVars
    EnvVars <- MCEnvVars
    Funcs <- MCFuncs
    Stmt <- MCStmt
    Ast <- MCAst
    Fun <- MCFun
    Outside <- MCOutside
    Tags <- MCTags
    Inputs <- MCInputs
    Entries <- MCFollowed
    Bounded <- MCBounded
    StackLimit = 40
    MaxDepth = 3
SPECIFICATION RSpec
PROPERTY FollowsRun
