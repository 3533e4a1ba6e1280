SPECIFICATION Spec
CONSTANTS
  Keys = {k1}
  MaxDepth = 0
  MaxFeeds = 2
  MaxWaiting = 2
INVARIANTS
  TrueMeansDrained
CHECK_DEADLOCK FALSE
