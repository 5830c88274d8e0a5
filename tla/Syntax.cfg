SPECIFICATION Spec
CONSTANTS
  Sources <- MCSources
  MaxErrors = 1
  Styles <- MCStyles
  LaidOut <- MCLaidOut
  LayoutStyles <- MCLayoutStyles
INVARIANTS
  TypeOK EventsLinked InStep TokensThere
  TokensKept OperatorsNest CommentsOutside
  TokensApart
  LayoutReadsBack LayoutKeepsCode LayoutKeepsStatements LayoutSettles
