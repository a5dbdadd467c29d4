\* Three windows that are hidden twice and have masks to tell receivers apart; four without.
SPECIFICATION Spec
CONSTANTS
  MaxWindows = 4
  MaxHides = 2
  MaxDetailed = 3
  Masks <- AllOrNone
  None = None
INVARIANTS TreeOK InSomeBWindow
PROPERTIES DestroyIsTold VisibilityIsTold ReparentKeepsMapped RestackMovesOne
CHECK_DEADLOCK FALSE
