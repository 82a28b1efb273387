SPECIFICATION Spec
CONSTANTS
  Connections = {c1, c2}
INVARIANTS
  TypeOK
  NothingForgotten
  StopIsFinal
PROPERTIES
  ReplyWrittenOnce
  ImplementsSessions
  SignalStopsServer
  GoneClientsReleased
\* The server stops when run() has returned.
CHECK_DEADLOCK FALSE
