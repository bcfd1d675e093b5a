SPECIFICATION FairDeliverySpec
CONSTANTS
  t1 = t1
  e1 = e1
  e2 = e2
  NumMessages = 1
  Parts <- TwoParts
  Steers = {1}
  Turns = {t1}
  NoTurn = NoTurn
  Encodings = {e1, e2}
  NoEncoding = NoEncoding
  MaxAsks = 3
  MaxFaults = 2
CHECK_DEADLOCK FALSE
INVARIANTS DeliveryTypeOK   
PROPERTIES AttemptsEnd Resent
