SPECIFICATION InfoSpec
CONSTANTS
  Letters <- MCLetters
  Marks <- MCMarks
  Values <- MCValues
  Symbols <- MCSymbols
  Answers <- MCAnswers
INVARIANTS FieldsFollowAnswer NothingMisfiled
