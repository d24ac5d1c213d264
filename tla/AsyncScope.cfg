SPECIFICATION FairSpec
CONSTANTS
  Handles = {h1, h2}
  Closers = {j1, j2}
  Kinds = {"join", "cleanup", "request_stop"}
CHECK_DEADLOCK FALSE
INVARIANTS CountsReferences EventMeansDrained JoinOutlivesSetters
PROPERTIES JoinCompletes
