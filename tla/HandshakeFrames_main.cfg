SPECIFICATION Spec
CONSTANTS
  f1 = f1
  f2 = f2
  f3 = f3
  u1 = u1
  b1 = b1
  b2 = b2
  c1 = c1
  c2 = c2
  None = None
  Frames <- ThreeFrames
  Urns <- OneUrn
  Posted <- TwoBytes
  Calls <- TwoCalls
  To <- ToU1
  Under <- OfEpoch
  Deadline <- Ends
  PolicyExpiry <- Policies
  Quota = 1
  Batch = 1
  Day = 2
  HistoryDays <- Days
  MaxEpoch = 2
  MaxTime = 4
SYMMETRY Symmetry
INVARIANTS
  TypeOK
  OneBatch
  NoneOutlivesItsPolicy
  AckIsFinal
PROPERTIES
  RetryChangesNothing
