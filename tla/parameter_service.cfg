SPECIFICATION Spec
CONSTANTS
  p = p
  q = q
  NameOrder <- MCNameOrder
  Values <- MCValues
  Callers = {c1, c2}
  MaxRequests = 1
  Contents <- MCContents
  QueueDepth = 1
  None = None
  Threw = Threw
INVARIANT TypeOK
PROPERTY GettersStable
PROPERTY ImplementsParameterServer
PROPERTY AnsweredPromptly
