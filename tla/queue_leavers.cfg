\* A client connects and leaves: its slot is never free again.
SPECIFICATION FairSpec
CONSTANTS
  Clients = {c1}
  Messages = {m1}
  ServicesAmount = 1
  ClientsAmount = 1
  Backlog = 1
  QueueSlots = 1
  FdLimit = 4
  MaxKills = 0
  MaxBoots = 1
  Half = Half
  None = None
CHECK_DEADLOCK FALSE
PROPERTY LeaversAreRemoved
