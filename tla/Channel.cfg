SPECIFICATION Spec
CONSTANTS
    Alerts = {a1}
    Replies = {r1}
    Instances = {w1, w2}
    None = None
    MaxAttempts = 2
    MaxFaults = 2
    MaxNights = 0
SYMMETRY Symmetry
INVARIANTS
    NotificationFollows
    SendsAreBounded
