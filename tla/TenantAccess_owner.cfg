SPECIFICATION Spec
CONSTANTS
    Members = {ann, bob}
    Founder = ann
    Sessions = {s1}
    None = None
    MaxLinks = 1
SYMMETRY Symmetry
INVARIANTS
    LastOwnerIsKept
CHECK_DEADLOCK FALSE
