\* Two client threads on one display, against a looper.
SPECIFICATION Spec
CONSTANTS
  Clients = {c1, c2}
  Loopers = {l1}
  expose = expose
  key = key
  Types <- MCTypes
  Wants <- MCWants
  PipeCap = 2
  Chunk = 2
  MaxRequest = 4
INVARIANTS ExactlyOnce DeliveryOrder
PROPERTY IsAMailbox
SYMMETRY Symmetry
\* With two readers of one pipe a client may block for ever.
CHECK_DEADLOCK FALSE
