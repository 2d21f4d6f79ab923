SPECIFICATION Spec
CONSTANTS
  u1 = u1
  i1 = i1
  s1 = s1
  s2 = s2
  s3 = s3
  c1 = c1
  c2 = c2
  None = None
  Urns <- OneUrn
  Ids <- OneId
  Streams <- ThreeStreams
  Stores <- TwoStores
  Strict = TRUE
  Buffer = 1
  MaxPerUrn = 2
  MaxTotal = 3
  Heartbeat = 1
  WriteTimeout = 1
  MaxStamp = 2
  MaxEra = 2
  MaxAge = 1
SYMMETRY Symmetry
CONSTRAINT Bound
INVARIANTS
  TypeOK
  SlotsAgree
  PushedOnce
  NoPushAfterRevocation
  NoGap
