SPECIFICATION FairSpec
CONSTANTS
  MaxChildren = 3
  Kinds = {"when_all", "when_all_range", "stop_when"}
INVARIANTS DeliversOnce CompletesLast ResultIsRight
PROPERTIES StopCompletes
