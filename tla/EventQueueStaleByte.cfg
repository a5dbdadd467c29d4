\* A looper between unlock and write.
SPECIFICATION Spec
CONSTANTS
  Clients = {c1}
  Loopers = {l1}
  expose = expose
  key = key
  Types <- MCTypes
  Wants <- MCWants
  PipeCap = 2
  Chunk = 2
  MaxRequest = 4
INVARIANT FrontIsAnEvent
\* The model stops where the behaviour of the code is undefined.
CHECK_DEADLOCK FALSE
