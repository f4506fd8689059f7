SPECIFICATION Spec
CONSTANTS
    MaxPolls = 2
    MaxKills = 2
INVARIANTS
    TimeoutIsReported
CHECK_DEADLOCK FALSE
