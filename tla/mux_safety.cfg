\* Two clients of each protocol and all three monitors; an empty line, the
\* longest line whose reply fits the UDP client's buffer and one beyond; a
\* full receive buffer; a client is killed; the server is started again.
SPECIFICATION Spec
CONSTANTS
  TcpClients = {t1, t2}
  UdpClients = {u1, u2}
  Messages = {0, 121, 122}
  BufferSize = 128
  Monitors = {"select", "poll", "epoll"}
  Backlog = 0
  UdpSlots = 1
  MaxKills = 1
  MaxBoots = 2
  Half = Half
  None = None
SYMMETRY MuxSymmetry
INVARIANTS TypeOK ReportStaysTrue OneDescriptor
PROPERTIES DownHasACause EchoRefinement ConversationRefinement
CHECK_DEADLOCK FALSE
