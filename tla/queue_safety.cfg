\* Two services, a registry of two slots for four clients, a full queue, a
\* client that is killed, descriptors that run out, a server started twice.
SPECIFICATION Spec
CONSTANTS
  Clients = {c1, c2, c3, c4}
  Messages = {m1, m2}
  ServicesAmount = 2
  ClientsAmount = 2
  Backlog = 0
  QueueSlots = 1
  FdLimit = 4
  MaxKills = 1
  MaxBoots = 2
  Half = Half
  None = None
SYMMETRY QueueSymmetry
CHECK_DEADLOCK FALSE
INVARIANTS TypeOK SlotsAreKept OnePlace
PROPERTIES DownHasACause EchoRefinement ConversationRefinement
