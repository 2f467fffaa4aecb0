SPECIFICATION Spec
CONSTANTS
  Publishers = {p1, p2}
  Subscribers = {s1}
  MaxMessages = 3
  QueueDepth = 2
INVARIANT ReceivedInOrder
INVARIANT OnlyOldMessagesLost
PROPERTY NewestReceived
CHECK_DEADLOCK FALSE
