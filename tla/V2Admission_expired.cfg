SPECIFICATION Spec
CONSTANTS
    alice = alice  bob = bob  m1 = m1  m2 = m2
    None = None
    Ids = {m1}
    Urns = {alice}
    Policies <- MCPolicies
    Envs <- MCOne
    Lifetimes = {1}
    Ops = {o1, o2}
    RetentionDays = {0}
    MaxPerURN = 1
    MaxTime = 3
PROPERTIES NotAdmittedAgain
