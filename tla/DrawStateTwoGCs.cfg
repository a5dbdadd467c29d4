\* Two graphics contexts take turns on a pixmap, as in test/xlib-4-2.c.
SPECIFICATION Spec
CONSTANTS
  GCs = {g1, g2}
  Drawables = {d1, d2}
  Windows = {}
  Fields = {"foreground"}
  Values = {0, 1}
  Regions = {r}
  NoGC = NoGC
  NoDrawable = NoDrawable
  GarbageIds <- NoId
INVARIANTS ColoursAreTheGCs

