SPECIFICATION RangeSpec
CONSTANTS
  Trees <- MCTrees
  IndentChoices <- MCIndents
  IndentStyle = "Space"
  IndentSize = 4
  TabWidth = 4
  MayStop = TRUE
  Requests <- MCRequests
  Client = "command"
  MaxLine = 4
INVARIANTS EditKeepsTokens
\* The request is answered.
CHECK_DEADLOCK FALSE
