\* One client leaves, another comes and gets the id of the one that stayed.
SPECIFICATION Spec
CONSTANTS
  Clients = {c1, c2, c3}
  Messages = {m1}
  ClientsAmount = 5
  Backlog = 0
  FdLimit = 4
  MaxKills = 0
  Half = Half
  Null = Null
  Foreign = Foreign
  None = None
CHECK_DEADLOCK FALSE
PROPERTY DeletesItself
