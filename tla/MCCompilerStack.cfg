SPECIFICATION FairSpec
CONSTANTS
    Projects <- MCProjects
    PathOrder <- MCPathOrder
INVARIANTS
    TypeOK
    OrderRight
    ScopesRight
    RightFile
    LinearRight
    NoErrorLeft
    NothingEscapes
    DeclarationsKept
PROPERTY
    Terminates
