SPECIFICATION Spec
CONSTANTS
  MaxLength = 2
  Alphabet = {"a", "nl", "e"}
  Uris = {"u", "v"}
  Texts <- MCTexts
  NewTexts <- MCNewTexts
  ChangeKinds = {"range"}
  MaxFiles = 2
  MaxChanges = 2
INVARIANTS InStep NoOrphans EditReplacesAll DiagnosticsPlaced
