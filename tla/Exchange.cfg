SPECIFICATION Spec
CONSTANTS
  Inputs <- MCInputs
  BufferSize = 3
  Words <- MCWords
INVARIANTS HandledIsSent AnswerFits
PROPERTY Answered
\* An exchange ends with its answer, or waits for more of a request.
CHECK_DEADLOCK FALSE
