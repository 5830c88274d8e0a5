SPECIFICATION Spec
CONSTANTS
  Sources <- MCSources
  MaxErrors = 0
  Styles <- MCTightStyles
  LaidOut = {}
  LayoutStyles = {}
INVARIANTS TokensApart
