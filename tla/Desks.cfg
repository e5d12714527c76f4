SPECIFICATION Spec
CONSTANTS
    None = None
    Web = Web
    User = {ann, bob}
    ReceiptId = {r1}
    Entry = {l1, l2, l3, l4, l5}
    Seeded = {l1, l2}
    Session = {s1, s2}
    Messages = {"e1", "e2", "e3"}
    Proposals = {p1, p2}
    Instances = {i1, i2}
    Scripts <- FewScripts
    MaxCodes = 1
    MaxChanges = 1
    MaxPosts = 4
    MaxFaults = 1
    Outbound = {d1, d2}
    Payloads = {y1, y2}
    MaxAttempts = 2
    PerRun = 1
    MaxTries = 7
    Clients = {k1, k2, k3}
    Roots = {k1}
    EventKeys = {w1}
    Window = 1
    MaxTime = 4
    Sources = {x1}
    Incidents = {t1}
    Resources = {o1}
    Workers = {u1, u2}
    Calls = {c1, c2}
    MaxDay = 2
    MaxSteps = 3
    Roles = {"LEAD", "FINANCE"}
    RolesOf <- AllRoles
    Requests = {"q1", "q2"}
    Snapshots = {"s1", "s2"}
    PolicySteps <- FewPolicies
    MaxPolicies = 1
    Papers = {"f1", "f2"}
    Attachments = {"a1"}
    Tokens = {"t1"}
    MaxVersions = 2
    PerScan = 2
    MaxEdits = 3
    Values = {"x", "y"}
    MaxVersion = 3
    MaxOpen = 2
SYMMETRY Symmetry
INVARIANTS
    ReceiptsAreSound
    OneLogicalEffect
    NothingIsOverlooked
    ChangesAreGoverned
    VerdictsFollowVersions
CHECK_DEADLOCK FALSE
