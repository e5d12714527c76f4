SPECIFICATION Spec
CONSTANTS
    Trip = {t1}
    User = {ann, bob}
    Key = {k1, k2, k3}
    Null = Null
SYMMETRY Symmetry
INVARIANTS
    DeliveryIsAccountedFor
    AcceptedOnce
PROPERTIES
    AcceptedPodStays
CHECK_DEADLOCK FALSE
