SPECIFICATION Spec
CONSTANTS
  Nodes = {n1, n2}
  Subscriptions = {s1, s2}
  Services = {v1}
  Clients = {}
  NULL = NULL
  QueueDepth = 1
  AppCatches = TRUE
  MaxRegistered = 3
INVARIANT HandleMatchesEntry
PROPERTY WatchedServed
