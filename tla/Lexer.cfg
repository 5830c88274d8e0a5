SPECIFICATION Spec
CONSTANTS
  Files <- MCFiles
  Extra = 1
INVARIANTS TokensCover LinesFound LineIsRight
PROPERTY Ends
\* The lexer is done and the line was found.
CHECK_DEADLOCK FALSE
