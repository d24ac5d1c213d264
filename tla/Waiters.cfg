CONSTANTS
  Ops = {o1, o2, o3}
  StopOps = {o1}
  Setters = {o1, o2}
  HopStops = FALSE
  Selected = {"async_manual_reset_event_v1", "async_manual_reset_event_v2", "async_auto_reset_event",
              "async_mutex_v2", "async_pass", "atomic_intrusive_list"}
  Items = {o1, o2}
  Reuse = 0
SPECIFICATION FairSpec
INVARIANTS WaitsInOnePlace LockIsRight EventIsRight Paired Chained
PROPERTIES WaitersWake
CHECK_DEADLOCK FALSE
