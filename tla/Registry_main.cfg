SPECIFICATION Spec
CONSTANTS
    None = None
    Urns = {alice}
    Past = 1
    Future = 1
    Stall = 1
    Ttls = {4}
    Legacy <- MCLegacy
    Calls = {c1, c2}
    Resolves = {q1}
    MaxTime = 6
INVARIANTS NeverRolledBack LeaseKept ReadsNeverGoBack
PROPERTIES OwnerRecovers ImplementsDirectory
SYMMETRY CallSymmetry
CONSTRAINT Forwarding
