SPECIFICATION Spec
CONSTANTS
    User = {ann, bob, cat}
    Bill = {b1, b2}
    Batch = {p1, p2}
    Payable = {2}
    MaxAmount = 2
    MaxItems = 1
    Nobody = Nobody
SYMMETRY Symmetry
INVARIANTS
    MoneyMovedIsApproved
    ReversalsMirrorClaims
    ClaimedBillsPayable
CHECK_DEADLOCK FALSE
