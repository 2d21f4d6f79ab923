SPECIFICATION Spec
CONSTANTS
  u1 = u1
  i1 = i1
  s1 = s1
  s2 = s2
  s3 = s3
  c1 = c1
  c2 = c2
  None = None
  Urns <- OneUrn
  Ids <- OneId
  Streams <- OneStream
  Stores <- OneStore
  Strict = FALSE
  Buffer = 4
  MaxPerUrn = 4
  MaxTotal = 4
  Heartbeat = 1
  WriteTimeout = 1
  MaxStamp = 1
  MaxEra = 0
  MaxAge = 2
INVARIANT
  KeptAlive
