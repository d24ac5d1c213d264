SPECIFICATION FutureFairSpec
CONSTANT
  Uses = {{}, {"throw"}, {"discard"}, {"throw", "discard"}}
CHECK_DEADLOCK FALSE
INVARIANTS DeletedByTheLastUser AssertionsHoldInPlainUse DeliversWhatWasProduced
PROPERTIES EventuallyDeleted
