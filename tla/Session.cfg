SPECIFICATION Spec
CONSTANTS MaxMessages = 3
INVARIANTS TypeOK PostedAreRun NoCrashInService
PROPERTIES TakesTurns EveryRequestAnswered Ends
\* The process ends.
CHECK_DEADLOCK FALSE
