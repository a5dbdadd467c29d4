\* A client that draws in a loop and reads no events.
SPECIFICATION FairSpec
CONSTANTS
  Clients = {c1}
  Loopers = {}
  expose = expose
  key = key
  Types <- MCTypes
  Wants <- MCWants
  PipeCap = 3
  Chunk = 2
  MaxRequest = 6
PROPERTY PutReturns
\* A write to the full pipe blocks for ever.
CHECK_DEADLOCK FALSE
