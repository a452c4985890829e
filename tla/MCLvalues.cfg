SPECIFICATION Spec
CONSTANTS
    Vars <- MCVars
    Initials <- MCInitials
    Statements <- MCStatements
    Limit = 3
INVARIANTS
    Agrees
    Supported
