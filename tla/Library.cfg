\* Databases of three puts and their merges; tables of contexts, of six keys;
\* regions of a grid of three by two; quarks of two strings, made by three
\* threads; and the conversions on small inputs.
SPECIFICATION Spec
CONSTANTS
  NoValue = NoValue
  XrmQANY = 4
  Specs <- MCSpecs
  Queries <- MCQueries
  Loads <- MCLoads
  Files <- MCFiles
  MaxDepth = 3
  MaxQuarks = 4
  Values <- MCValues
  Specifiers <- MCSpecifiers
  Keys <- MCKeys
  Pointers = {p, q}
  NoPointer = NoPointer
  INITHASHMASK = 1
  Own = {mine, yours}
  NoDatabase = NoDatabase
  RegionNames = {r, s}
  Wide = 3
  High = 2
  Lists <- MCLists
  Texts <- MCTexts
  Depths = {1, 8, 15, 16, 24, 32}
  Widths = {1, 3, 9}
  Heights = {1, 2}
  Pads = {0, 8, 32}
  Bits <- MCBits
  Memories <- MCMemories
  Tables <- MCTables
  Commands <- MCCommands
  Geometries <- MCGeometries
  SizeHints <- MCSizeHints
  DisplaySize = 100
  Installed <- MCInstalled
  FontNames <- MCFontNames
  FontIds = 6
  MaxOpens = 2
  SettingLists <- MCSettings
  PointLists <- MCPoints
  CopyRects <- MCCopies
  ViewSize = 3
  PutSizes = {1, 2, 3}
  Trees <- MCTrees
  Pointers_ <- MCPointers
  Threads = {t1, t2, t3}
  Strings = {a, b}
  MaxQuark = 5
INVARIANTS DatabasesAreKept QueriesAgree OwnEntriesStay RegionsAreSets FontsStayTheirs
INVARIANTS TextsAreKept ImagesAreKept NamesAreParsed DrawnAsTold QuarkHasOneString
CHECK_DEADLOCK FALSE
