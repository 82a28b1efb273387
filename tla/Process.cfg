SPECIFICATION Spec
CONSTANTS
  Connections = {c1, c2}
INVARIANTS GoneBySignalOnly
PROPERTIES ClientsAreSafe CaughtSignalEndsServer SwallowsForAWhile ImplementsHttpServer
\* The process may end.
CHECK_DEADLOCK FALSE
