\* A UDP client gets a long reply and then a shorter one.
SPECIFICATION Spec
CONSTANTS
  TcpClients = {t1}
  UdpClients = {u1}
  Messages = {10, 20}
  BufferSize = 128
  Monitors = {"select"}
  Backlog = 0
  UdpSlots = 2
  MaxKills = 0
  MaxBoots = 1
  Half = Half
  None = None
PROPERTIES RepliesArePrinted
CHECK_DEADLOCK FALSE
