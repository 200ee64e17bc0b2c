\* Nobody is killed and descriptors last; one client of three finds no slot.
SPECIFICATION FairSpec
CONSTANTS
  Clients = {c1, c2, c3}
  Messages = {m1}
  ServicesAmount = 2
  ClientsAmount = 2
  Backlog = 1
  QueueSlots = 1
  FdLimit = 4
  MaxKills = 0
  MaxBoots = 1
  Half = Half
  None = None
CHECK_DEADLOCK FALSE
PROPERTIES RequestServed ConnectionAccepted
