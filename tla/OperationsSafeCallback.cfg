CONSTANTS
  Kinds = {"create_basic_sender_stopping"}
  Throwing = {}
  ByReference = {}
  Strict = {}
  StopInStart = {}
  Claiming = {}
  InlineStop = {}
  Threads = {1, 2, 3}
  MaxStarts = 4
SPECIFICATION Spec
INVARIANT NoDanglingAccess
CHECK_DEADLOCK FALSE
