SPECIFICATION OldSpec
CONSTANTS
  Clients = {c1, c2}
  OldClients = {c2}
  Questions <- MCQuestions
  Width = 2
  MaxRequests = 2
  MaxCrashes = 1
  ServiceDepth = 2
  ClientDepth = 1
  None = None
INVARIANT HeardSumIsAsked
INVARIANT HeardInOrder
INVARIANT LostNeverHeard
INVARIANT OwnAnswer
INVARIANT OneUnderWay
PROPERTY EveryFateDecided
PROPERTY CallReturns
CHECK_DEADLOCK FALSE
