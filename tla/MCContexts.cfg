CONSTANTS
  Ops = {o1, o2, o3}
  StopOps = {o1}
  Workers <- MCWorkers
  MaxTime = 2
  Selected = {"manual_event_loop", "static_thread_pool", "timed_single_thread_context",
              "thread_unsafe_event_loop", "new_thread_context", "trampoline_scheduler",
              "io_uring_context", "io_epoll_context", "windows_thread_pool"}
  IoOps = {o1, o2}
  IoMaxTime = 1
  Rings <- MCRings
  StopRings <- MCStopRings
  EarlyStop = FALSE
  AddFails = FALSE
SPECIFICATION FairSpec
INVARIANTS HeldOnce SignalIsRight WithinBounds
PROPERTIES StartedCompletes StoppedLeaves
CHECK_DEADLOCK FALSE
