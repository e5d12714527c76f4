SPECIFICATION FairSpec
CONSTANTS
    Alerts = {a1}
    Replies = {}
    Instances = {w1, w2}
    None = None
    MaxAttempts = 2
    MaxFaults = 2
    MaxNights = 1
PROPERTIES
    EverythingSettles
