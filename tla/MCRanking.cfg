CONSTANT Profiles <- MCProfiles
SPECIFICATION Spec
INVARIANTS
    FirstMaximum
CHECK_DEADLOCK FALSE
