\* Three sizes and a border of one; two windows and four calls; five presses;
\* a claimant of each kind and three events; two
\* BWindows and a child.
SPECIFICATION Spec
CONSTANTS
  Sizes = {3, 4, 5}
  Borders = {0, 1}
  MaxMessages = 4
  MaxSize = 5
  HintWindows = {m, n}
  NoWindow = none
  Functions = {"close", "resize"}
  Titles = {t}
  MaxHints = 4
  MaxPresses = 5
  Bytes <- MCBytes
  u = u
  v = v
  x = x
  Claimants = {u, v, x}
  Offers <- MCOffers
  Other = Other
  Properties = {p, q}
  Targets = {"TARGETS", "STRING", "text/plain;charset=utf-8", "image/png"}
  MaxEvents = 3
  Nothing = Nothing
  a = a
  b = b
  c = c
  d1 = d1
  d2 = d2
  Windows <- MCWindows
  Top <- MCTop
  Displays = {d1, d2}
  DisplayOf <- MCDisplayOf
  Masks <- MCMasks
  Chosen = {b, c}
  MaxPending = 2
  None = None
INVARIANTS FocusIsFocus WordsSettle GrabLives MaskIsGivenBack
INVARIANTS SizesSettle HintsAreKept ReleaseNamesPress KeysAreKept
INVARIANTS ClaimArrives ConversionAnswers OwnerIsClaiming
CHECK_DEADLOCK FALSE
