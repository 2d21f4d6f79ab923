SPECIFICATION Spec
CONSTANTS
    alice = alice  bob = bob  m1 = m1  m2 = m2
    None = None
    Ids = {m1, m2}
    Urns = {alice}
    Policies <- MCPolicies
    Envs <- MCEnvelopes
    Lifetimes = {1}
    Ops = {o1, o2}
    RetentionDays = {0, 1, 2}
    MaxPerURN = 1
    MaxTime = 4
INVARIANTS TypeOK TablesAgree QuotaHolds RetryGetsTheSameReceipt ZeroRetentionKeepsNothing
PROPERTIES NoRevival ImplementsMessageIds
SYMMETRY OpSymmetry
CONSTRAINT OneThing
