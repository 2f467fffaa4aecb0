SPECIFICATION ProgramSpec
CONSTANTS
  p = p
  NameOrder <- MCNameOrder
  Values <- MCValues
  Callers = {c1}
  MaxRequests = 3
  Contents <- MCContents
  QueueDepth = 2
  None = None
  Threw = Threw
INVARIANT InSendingOrder
INVARIANT ServedNextSpin
PROPERTY ImplementsHandlers
