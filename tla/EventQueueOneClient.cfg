\* One client thread and two window loopers: the arrangement of the test programs.
SPECIFICATION FairSpec
CONSTANTS
  Clients = {c1}
  Loopers = {l1, l2}
  expose = expose
  key = key
  Types <- MCTypes
  Wants <- MCWants
  PipeCap = 3
  Chunk = 2
  MaxRequest = 4
INVARIANTS NoLostWakeup FlushNeverBlocks
PROPERTY WakesUp
\* A client may rightly block for ever: nothing more is queued.
CHECK_DEADLOCK FALSE
