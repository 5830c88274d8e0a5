SPECIFICATION Spec
CONSTANTS
  MaxSize = 1
  Kinds = {"word"}
  Trees <- MCNestedRanges
  IndentChoices <- MCIndentNone
  IndentStyle = "Space"
  IndentSize = 4
  TabWidth = 4
  MayStop = FALSE
INVARIANTS WrittenOnce
\* The walk ends.
CHECK_DEADLOCK FALSE
