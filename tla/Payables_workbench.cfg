SPECIFICATION WorkbenchSpec
CONSTANTS
    User = {ann, bob, cat}
    Bill = {b1}
    Batch = {p1, p2, p3}
    Payable = {2}
    MaxAmount = 2
    MaxItems = 0
    Nobody = Nobody
SYMMETRY Symmetry
INVARIANTS
    NoOverpayment
PROPERTIES
    AccountIsKept
CHECK_DEADLOCK FALSE
