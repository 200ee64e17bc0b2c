\* What clients of both protocols are owed by each monitor, when users
\* leave after a while and one of them is killed.
SPECIFICATION PatientSpec
CONSTANTS
  TcpClients = {t1, t2}
  UdpClients = {u1, u2}
  Messages = {0, 5}
  BufferSize = 128
  Monitors = {"select", "poll", "epoll"}
  Backlog = 0
  UdpSlots = 2
  MaxKills = 1
  MaxBoots = 1
  Half = Half
  None = None
PROPERTIES DatagramAnswered ConnectionAccepted
CHECK_DEADLOCK FALSE
