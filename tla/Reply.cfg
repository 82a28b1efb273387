SPECIFICATION Spec
CONSTANTS
  Files <- MCFiles
  BufSize = 2
  Types = {"text/plain"}
INVARIANTS WholeFile CutIsNoticed ReceivedIsReply
\* All has been sent, or the client has gone.
CHECK_DEADLOCK FALSE
