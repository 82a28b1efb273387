SPECIFICATION Spec
CONSTANTS
  Inputs <- MCInputs
  BufferSize <- MCBufferSize
  Words <- MCWords
INVARIANTS TypeOK BackIsDefined GoodIsMeaning VerdictIsPrompt
CHECK_DEADLOCK FALSE
