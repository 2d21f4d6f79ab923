SPECIFICATION Spec
CONSTANTS
    console = console  agent = agent  peer = peer
    m1 = m1  m2 = m2
    s1 = s1  s2 = s2  s3 = s3
    i1 = i1  i2 = i2
    h1 = h1  h2 = h2  h3 = h3  h4 = h4
    None = None
    Urns = {console, agent, peer}
    Ids = {m1}
    Serials = {s1, s2, s3}
    Issuers = {i1, i2}
    Hashes = {h1, h2, h3, h4}
    Policies <- MCTwoPolicies
    Certs <- MCCerts
    Routes <- MCRoutes
    Legacy <- MCLegacy
    Lifetimes = {3}
    Stores = {c1}
    Acks = {a1}
    LiveSwitch = FALSE
    MaxTime = 5
PROPERTIES EnrolledBeforeStored
