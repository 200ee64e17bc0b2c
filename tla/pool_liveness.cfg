\* Nobody is killed and descriptors last: what every visitor is owed.  Two
\* clients may be sent to one service, and one of them waits for the other.
SPECIFICATION PatientSpec
CONSTANTS
  Clients = {c1, c2, c3}
  Messages = {m1}
  ServicesAmount = 2
  Backlog = 1
  QueueSlots = 1
  FdLimit = 9
  MaxKills = 0
  MaxBoots = 1
  Occupied = Occupied
  Half = Half
  None = None
CHECK_DEADLOCK FALSE
PROPERTIES VisitorAnswered RequestServed ServiceReturns
