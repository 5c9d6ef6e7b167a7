\* Two connections, queues of two messages, three messages.
CONSTANTS
  c1 = c1
  c2 = c2
  lan = lan
  Clients <- MCClients
  Addresses <- MCAddresses
  QueueSize = 2
  SockBuf = 1
  MaxMessages = 3
  None = None
SPECIFICATION CasterSpec
INVARIANTS
  CasterTypeOK
  DeliveredInOrder
  NothingMissed
  RefusedOnlyWhenBehind
  SubscribersAreServed
PROPERTIES
  ImplementsLossyFeed
  PublishReturns
  GoneClientLeaves
  StopEndsAll
CHECK_DEADLOCK FALSE
