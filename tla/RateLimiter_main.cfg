SPECIFICATION Spec
CONSTANTS
    None = None
    Overflow = Overflow
    Ips = {ip1, ip2}
    Requests = {q1, q2}
    Burst = 2
    Rate = 2
    Cost = 2
    MaxTracked = 1
    Idle = 3
    Period = 2
    Stall = 1
    MaxTime = 6
SYMMETRY Symmetry
INVARIANTS TableBounded WithinRate
PROPERTIES ImplementsTokenBuckets
