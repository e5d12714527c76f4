SPECIFICATION MCSpec
CONSTANTS
    Indent = {i1}
    Allocation = {a1, a2}
    Vehicle = {v1, v2}
    Trip = {t1}
    MaxVehicles = 2
    MaxReplaced = 1
    Null = Null
    Lanes = {"l1", "l2", "l3"}
    Windows = {{1}, {1, 2}}
    Days = {1, 2}
    Indents = {"i1"}
    MaxVersions = 3
    Users = {"u1", "u2"}
    Nobody = "nobody"
    Requirements = {"r1", "r2"}
    Batches = {"b1"}
    Decisions = {"d1"}
    MaxPapers = 2
    MaxAccounts = 3
    RuleKeys = {"k1", "k2"}
    RuleRequests = {"p1", "p2"}
    Vendors = {"v1"}
    AnyVendor = "any"
    Demand = 2
    MaxEdits = 2
    MaxAllocations = 2
    Posts = {"p1", "p2"}
    Tenants = {"t1", "t2"}
    Keys = {1, 2}
    Inputs = {1, 2}
    Anybody = "anybody"
    MaxRows = 2
SYMMETRY Symmetry
INVARIANTS
    VehiclesDifferWithinIndent
    TripVehicleWasAssigned
    RatesAreAgreed
    VendorsAreVetted
    RequestsRunOnce
PROPERTIES
    OnlyEditsOverallot
CHECK_DEADLOCK FALSE
