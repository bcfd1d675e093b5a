SPECIFICATION ServicesSpec
CONSTANTS
  MaxRows = 2
  MaxEvents = 3
  BatchRows = 2
  MaxEnds = 1
  MaxReads = 1
  MaxBreaks = 2
  Modes = {ask}
  NoMode = NoMode
  MaxOthers = 3
  MaxRegs = 2
  Owned = {1}
  RemoteTries = 1
  MaxTroubles = 2
  Cadences = {1}
  Limits = {1, 2}
  Expiries = {0, 2}
  Ticks = {t, u}
  MaxTime = 3
  MaxRuns = 3
  MaxEdits = 1
  MaxMishaps = 1
  Entities = {e, f}
  Projections = {p}
  Gone = Gone
  Apps = {a}
  MaxTombstones = 1
  MaxHead = 5
  MaxRestarts = 1
CHECK_DEADLOCK FALSE
INVARIANTS ServicesTypeOK  InCallOrder LogIsPrefix HandedInOrder WaitCovers IntentKept ReportedOnce
INVARIANTS NextSlot SlotOnce WithinLimit 
PROPERTIES EventsSettle NoticeArrives
