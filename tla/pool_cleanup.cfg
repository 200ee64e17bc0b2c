\* A client is killed with an unread reply: its service calls exit().
SPECIFICATION FairSpec
CONSTANTS
  Clients = {c1}
  Messages = {m1}
  ServicesAmount = 1
  Backlog = 0
  QueueSlots = 2
  FdLimit = 4
  MaxKills = 1
  MaxBoots = 1
  Occupied = Occupied
  Half = Half
  None = None
CHECK_DEADLOCK FALSE
PROPERTY CleanupEnds
