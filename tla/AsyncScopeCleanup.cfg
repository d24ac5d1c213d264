SPECIFICATION Spec
CONSTANTS
  Handles = {h1}
  Closers = {j1}
  Kinds = {"cleanup"}
CHECK_DEADLOCK FALSE
INVARIANTS EventOutlivesSetters
