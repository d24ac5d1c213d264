CONSTANTS
  Ops = {o1, o2, o3}
  StopOps = {o1}
  Setters = {o1, o2}
  HopStops = FALSE
  Selected = {"atomic_intrusive_list"}
  Items = {o1, o2}
  Reuse = 1
SPECIFICATION Spec
INVARIANT Chained
CHECK_DEADLOCK FALSE
