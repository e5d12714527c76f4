SPECIFICATION MCSpec
CONSTANTS
    Nodes = {n0, n1, n2, n3}
    Root = n0
    Tenant = Tenant
    None = None
    MaxGeneric = 2
    MaxUpdates = 1
    MaxClosed = 1
    Crew = {"m1", "m2", "m3"}
    First = "m1"
    Places = {"s1", "s2"}
    Invitees = {"m1"}
    Covers <- FewCovers
    Assignments = {"a3"}
    MaxUnlocked = 1
    Files = {"f1", "f2", "f3", "f4"}
    Rows <- FewRows
    Headless = {"f4"}
    Financial = {"f3"}
    InsertOnly = {"f3"}
    Attachments = {"a1", "a2"}
    FileOf <- FileOfAll
    Codes = {"c1", "c2"}
    Values = {"v1", "v2"}
    Users = {ann, bob}
    Sender = ann
    Sessions = {t1, t2}
    Keys = {1}
    MaxEdits = 1
    Tenants = {"t1", "t2"}
    Home = "t1"
    Links = {"l1", "l2"}
    Requests = {"r1", "r2"}
    ResetKeys = {"k1"}
    Window = 2
    PerSource = 2
    PerUser = 1
    PerOperator = 1
    Life = 2
    MaxTime = 2
    MaxChanges = 2
    Workers = {w1, w2}
    MaxIssues = 2
    MaxAttempts = 2
    MaxFaults = 1
    MaxClosings = 1
SYMMETRY Symmetry
INVARIANTS
    ClosureIsAncestry
    ScopesFollowHierarchy
    NoOrphans
    StaffIsLedAndPlaced
    ImportsAreAccounted
    PasswordsAreReset
    LinksAreMailedOnce
    InvitationsAgree
CHECK_DEADLOCK FALSE
