SPECIFICATION FairDispatchSpec
CONSTANTS
  m1 = m1
  m2 = m2
  a = a
  b = b
  Ids = {m1}
  Contents = {c1, c2, c3}
  OutOfBandContents = {c3}
  Callers = {a, b}
  Autonomous = Autonomous
  Nobody = Nobody
  NoContent = NoContent
  NoId = NoId
  MaxTurns = 1
  MaxCrashes = 1
INVARIANTS OneContent HandoffProof
PROPERTIES OnceImpl 
