SPECIFICATION Spec
CONSTANTS
    None = None
    Urns = {alice}
    Past = 1
    Future = 1
    Stall = 1
    Ttls = {4}
    Legacy <- MCLegacy
    Calls = {c1}
    Resolves = {q1}
    MaxTime = 3
INVARIANTS NoStoringPlatformResolved
