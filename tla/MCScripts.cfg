SPECIFICATION ScriptsSpec
CONSTANTS
  Releases = {r1, r2}
  Script <- RiscvFlow
  NamedArchives = {"cad", "riscv"}
  NamedTrees = {"riscv"}
  Parts = {"gcc", "lib"}
  Tested = "gcc"
  MaxInterrupts = 1
  MaxCuts = 1
  MaxBumps = 1
  Corners <- TwoCorners
  MAX_CHANGES = 2
  MAX_RUNS = 3
  Emits <- EmitsLate
  Committed <- CommitsEarly
  Tags = {"v0", "v1"}
  Emitted <- OldIsDropped
  Ext = {"mem_ext"}
  Archives <- OneIsReplaced
  Pins = {"p0", "p1"}
  Files = {"netlist", "spef"}
  MAX_HEAD = 3
  MAX_BUMPS = 2
INVARIANTS OnlyVerifiedBits NamedFollowsPin UndisturbedIsPinned DerivedHasCause
PROPERTIES OldReleaseStays
CHECK_DEADLOCK FALSE
