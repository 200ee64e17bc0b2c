\* Lines of no byte, of one and of two, cut anywhere; either process is
\* killed anywhere.
SPECIFICATION FairSpec
CONSTANTS
  Tags = {a, b}
  Sizes = {0, 1, 2}
  PrefixSize = 2
  Header = Header
  Server = Server
  Half = Half
  None = None
CHECK_DEADLOCK FALSE
INVARIANTS TypeOK InStep MessagesAreWhole OnePlace
PROPERTIES ConversationRefinement EchoRefinement LineAnswered ThreadEnds
