\* Two services, three clients: a service is offered twice, a client waits
\* behind another, a client is killed, descriptors run out, the server is
\* started again on the queue it left.
SPECIFICATION Spec
CONSTANTS
  Clients = {c1, c2, c3}
  Messages = {m1, m2}
  ServicesAmount = 2
  Backlog = 0
  QueueSlots = 2
  FdLimit = 4
  MaxKills = 1
  MaxBoots = 2
  Occupied = Occupied
  Half = Half
  None = None
SYMMETRY PoolSymmetry
CHECK_DEADLOCK FALSE
INVARIANTS TypeOK OneConversation RecordsFollowFirstBoot
PROPERTIES ScanIsSnapshot EchoRefinement ConversationRefinement
