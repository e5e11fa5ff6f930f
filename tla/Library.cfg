CONSTANTS
  Positions = {0, 31, 32, 63}
  Shifts = {0, 1, 31, 33}
  MaxSteps = 2
  Values <- MCValues
  Fds = {63, 64, 191}
  FDSETWORDS = 3
  Chars = {0, 1, 2}
  BufferSize = 3
  SourceSize = 3
  Texts <- MCTexts
  Delims = {9}
  IntBits = 8
  Procs = {0, 1}
  CounterBits <- MCCounterBits
  Words = 2
  MaxRefs = 2
  MaxDue = 3
  FracBits = 6
  HistoryMax = 2
  Params <- MCParams
  Requests = {5, 100}
  DefaultRequest = 100
  Weights = {6, 1024}
  DefaultWeight = 1024
  NodeCounts = {64, 67}
  MaxTime = 2
  MaxUpdates = 3
  MaxSystem = 1
  AddressBits = 12
  PageShift = 2
  FrameBits = 7
  IntWidth = 6
  TypeShift = 9
  UserEnd = 255
  KernelBase = 4064
  Types = {0, 1, 2, 4, 7}
  AskedSizes <- MCSizes
  Places <- MCPlaces
  MaxWrites = 2
  CrcBits = 32
  Poly <- MCPoly
  SumBits = 32
  ByteValues <- MCByteValues
  DataSize = 2
  EdgeLevels = 1
  EevdfLevels = {0}
  Shapes <- MCShapes
  Height = 3
  Deadlines = {0, 10, 20}
  MaxGroups = 2
  Classes = {e1, e2}
  MaxDepth = 3
  MaxFailures = 1
  NoException = NoException
  NoFrame = NoFrame
SPECIFICATION LibrarySpec
INVARIANTS
  LibraryTypeOK
  WordsExact
  FdWalk
  StringsExact
  CountersExact
  LagHistory
  NumbersTold
  FlagsTold
  BooleansTold
  VerdictsRight
  DeadlinesHeld
  FramesUnwound
PROPERTIES
  FieldsMove
  CopiesExact
  FixedPointExact
CHECK_DEADLOCK FALSE
