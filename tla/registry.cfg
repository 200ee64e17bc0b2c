\* Three clients for two entries: clients leave while others arrive, the
\* registry fills up, a client is killed, descriptors run out.
SPECIFICATION FairSpec
CONSTANTS
  Clients = {c1, c2, c3}
  Messages = {m1}
  ClientsAmount = 2
  Backlog = 0
  FdLimit = 3
  MaxKills = 1
  Half = Half
  Null = Null
  Foreign = Foreign
  None = None
CHECK_DEADLOCK FALSE
INVARIANTS TypeOK StoresStayBelow
PROPERTIES FirstLeaverIsDeleted DownHasACause EchoRefinement ConversationRefinement ClientServed
