SPECIFICATION Spec
CONSTANTS
  Sources <- MCGlobalFunctions
  MaxErrors = 0
  Styles = {}
  LaidOut = {}
  LayoutStyles = {}
INVARIANTS TokensKept
