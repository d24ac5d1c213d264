SPECIFICATION FairSpec
CONSTANT Eager = FALSE
INVARIANTS CompletesOnce StopsOnlyStarted
PROPERTY StopCompletesOperation
CHECK_DEADLOCK FALSE
