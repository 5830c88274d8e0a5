SPECIFICATION Spec
CONSTANTS
  MaxLength = 2
  Alphabet = {"a", "nl", "e"}
  Uris = {"u", "v"}
  Texts <- MCTexts
  NewTexts <- MCNewTexts
  ChangeKinds = {"range", "full"}
  MaxFiles = 2
  MaxChanges = 0
INVARIANTS InStep
