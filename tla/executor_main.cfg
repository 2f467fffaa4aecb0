SPECIFICATION Spec
CONSTANTS
  Nodes = {n1, n2}
  Subscriptions = {s1, s2}
  Services = {v1}
  Clients = {c1}
  NULL = NULL
  QueueDepth = 1
  AppCatches = FALSE
  MaxRegistered = 3
INVARIANT TypeOK
INVARIANT NoOutOfBoundsRead
PROPERTY ImplementsEventDispatch
PROPERTY NoEntityStarves
