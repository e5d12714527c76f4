SPECIFICATION FairSpec
CONSTANTS
    Workers = {w1, w2}
    None = None
    MaxIssues = 2
    MaxAttempts = 2
    MaxFaults = 1
    MaxClosings = 1
PROPERTIES
    AttemptsSettle
CHECK_DEADLOCK FALSE
