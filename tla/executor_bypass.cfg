SPECIFICATION SpecB
CONSTANTS
  Nodes = {n1}
  Subscriptions = {s1, s2}
  Services = {v1}
  Clients = {c1}
  NULL = NULL
  QueueDepth = 2
  AppCatches = FALSE
  MaxRegistered = 2
SYMMETRY Symmetry
INVARIANT BoundedBypass
