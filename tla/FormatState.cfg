SPECIFICATION Spec
CONSTANTS
  MaxSize = 5
  Kinds = {"word", "disable", "disable-next", "disable-next-line"}
  Trees <- MCTrees
  IndentChoices <- MCIndents
  IndentStyle = "Tab"
  IndentSize = 4
  TabWidth = 2
  MayStop = TRUE
INVARIANTS TypeOK FramesAreOpen SourceComplete
PROPERTIES PreorderStep SourceInOrder Terminates
\* The walk ends.
CHECK_DEADLOCK FALSE
