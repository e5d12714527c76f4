SPECIFICATION Spec
CONSTANTS
    Invoice = {i1, i2, i3}
    Trip = {t1, t2}
    User = {ann, bob}
    Session = {s1, s2}
    Null = Null
SYMMETRY Symmetry
INVARIANTS
    BilledOnce
    OneInvoicePerTrip
    PostedWasApproved
CHECK_DEADLOCK FALSE
