SPECIFICATION RunsSpec
CONSTANTS
    MaxRuns = 3
    Kills = TRUE
    Faults = FALSE
INVARIANT ResultsOfFinished
CHECK_DEADLOCK FALSE
