SPECIFICATION FairQueueSpec
CONSTANTS
  m1 = m1
  m2 = m2
  a = a
  b = b
  p = p
  q = q
  Ids = {m1, m2}
  Contents = {c1}
  OutOfBandContents = {}
  Callers = {a}
  Drain = Drain
  Cmds = {p}
  Ops = {"enqueue", "send_now"}
  DirectModes = {}
  MaxItems = 2
  MaxTurns = 1
  MaxCrashes = 0
  MaxFaults = 0
  Autonomous = Autonomous
  Nobody = Nobody
  NoContent = NoContent
  NoId = NoId
CHECK_DEADLOCK FALSE
PROPERTIES NeverStuck
