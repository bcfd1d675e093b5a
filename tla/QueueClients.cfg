SPECIFICATION QueueSpec
CONSTANTS
  m1 = m1
  m2 = m2
  a = a
  b = b
  p = p
  q = q
  Ids = {m1, m2}
  Contents = {c1, c2}
  OutOfBandContents = {}
  Callers = {a}
  Drain = Drain
  Cmds = {p, q}
  Ops = {"enqueue", "update", "delete"}
  DirectModes = {}
  MaxItems = 1
  MaxTurns = 1
  MaxCrashes = 0
  MaxFaults = 0
  Autonomous = Autonomous
  Nobody = Nobody
  NoContent = NoContent
  NoId = NoId
CHECK_DEADLOCK FALSE
SYMMETRY Symmetry
INVARIANTS QueueTypeOK UniqueIds HandOwnsItem
