SPECIFICATION Spec
CONSTANTS
  Mnemonics = {"jal", "slli"}
  Patterns = {"I", "R"}
  SPEC <- AllAreI
  MAX_LINES = 4
  NodeNames = {"uart", "clint", "plic"}
  Bases = {0, 1, 2, 3}
  Sizes = {1, 2}
  MapBases = {1, 2}
  MAX_NODES = 3
  LineIds = {1, 2}
  Regs = {r1, r2, r3}
  DocTable <- OneLine
  MAX_STMTS = 5
  MODES = {"SCK", "GPIO"}
  Pins = {r1, r2}
  SDC_LINES = 3
  Corners = {"ss", "tt"}
  MACRO_BOXES <- OneMacro
  PAD = 1
  Xs = {0, 1, 2, 4, 5, 6}
  Ys = {1, 3}
  MAX_ITEMS = 2
  Layers = {1, 2}
  Types = {0, 1}
  Xys <- Outlines
  MAX_ELEMENTS = 2
  MAX_TOKENS = 5
  WordBits = 3
  FieldBits = {0}
  SpecCubes <- AllCubes
  DecoderCubes <- SixCubes
  AdrBits = 4
  PageBits = 1
  BankBits = 1
  RegionNames = {"csr", "vexriscv_debug"}
  CsrRegion = "csr"
  DebugRegion = "vexriscv_debug"
  MemMaps <- ThreeMaps
  PadWidth = 2
  FIELDS <- TwoFields
  PadNumbers = {0, 1}
  PadModes = {r1, r2}
  ModeWords = {1, 3}
  Literals = {0, 2}
CHECK_DEADLOCK FALSE
INVARIANTS
  PartitionExact ValidatedByInstructions MemmapPassIsDisjoint ChainsAreTheRtls ReportIsDecode
  PowersUpAsReported ConflictsAreReported SignoffIsEarned VerdictsAreOnCode
