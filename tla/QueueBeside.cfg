SPECIFICATION QueueSpec
CONSTANTS
  m1 = m1
  m2 = m2
  a = a
  b = b
  p = p
  q = q
  Ids = {m1}
  Contents = {c1}
  OutOfBandContents = {}
  Callers = {a, b}
  Drain = Drain
  Cmds = {p}
  Ops = {"enqueue", "discard"}
  DirectModes = {"interrupt"}
  MaxItems = 2
  MaxTurns = 1
  MaxCrashes = 1
  MaxFaults = 1
  Autonomous = Autonomous
  Nobody = Nobody
  NoContent = NoContent
  NoId = NoId
CHECK_DEADLOCK FALSE
SYMMETRY Symmetry
INVARIANTS AtMostOnce CleanStop
PROPERTIES KeptUntilHandedOff ForwardOnly
