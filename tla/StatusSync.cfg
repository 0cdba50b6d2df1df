SPECIFICATION FairSpec
CONSTANTS
    Resource = {r1}
    Report = {A, B}
    MaxAttempts = 2
    MaxChanges = 2
    MaxForeign = 1
    MaxDeletes = 2
    MaxFailures = 1
    MaxRestarts = 1
INVARIANTS NeverForgotten
PROPERTIES NeverClearedWhileWanted Converges
CHECK_DEADLOCK FALSE
