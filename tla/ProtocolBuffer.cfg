SPECIFICATION Spec
CONSTANTS
  MaxFrames = 3
  Lengths = {1, 9}
  Heads = {"plain", "before", "after"}
  NormalCapacity = 13
  Streams <- MCStreams
INVARIANTS WrittenFits NeverSpins HandsOnWhole
PROPERTIES Delivers AllArrive
\* The reader waits when the client has nothing more to send.
CHECK_DEADLOCK FALSE
