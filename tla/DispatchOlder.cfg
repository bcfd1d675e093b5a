SPECIFICATION DispatchSpec
CONSTANTS
  m1 = m1
  m2 = m2
  a = a
  b = b
  Ids = {m1, m2}
  Contents = {c1}
  OutOfBandContents = {}
  Callers = {a, b}
  Autonomous = Autonomous
  Nobody = Nobody
  NoContent = NoContent
  NoId = NoId
  MaxTurns = 1
  MaxCrashes = 0
PROPERTIES StaysRunning
