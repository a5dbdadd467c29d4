\* Two graphics contexts, two windows.
SPECIFICATION Spec
CONSTANTS
  GCs = {g1, g2}
  Drawables = {d1, d2}
  Windows = {d1, d2}
  Fields = {"background"}
  Values = {0, 1}
  Regions = {r}
  NoGC = NoGC
  NoDrawable = NoDrawable
  GarbageIds <- AnyId
INVARIANTS ClipIsTheGCs LastGCIsOwned
SYMMETRY Symmetry
