\* Two displays, with a window and an extension each.
SPECIFICATION Spec
CONSTANTS
  d1 = d1
  d2 = d2
  a = a
  b = b
  x = x
  y = y
  Displays = {d1, d2}
  Windows = {a, b}
  DisplayOf <- MCDisplayOf
  Extensions = {x, y}
  ExtensionOf <- MCExtensionOf
  Capacity = 2
  None = None
INVARIANTS UndisturbedKeepTheirs WhatIsLeft
PROPERTIES CallsReturn
CHECK_DEADLOCK FALSE
