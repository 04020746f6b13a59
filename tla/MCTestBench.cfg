SPECIFICATION BenchSpec
CONSTANTS
  Ports = {"i", "d"}
  MEM_LAT = 1
  MAX_CYCLES = 6
  Timeout = 1
  FLASH_BASE = 2
  RAM_WORDS = 1
  Adrs = {1, 2}
  Lanes = {lane}
  Values = {x, y}
  Manners <- BothOrFetch
  GapCycles = 11
  Last = 3
CHECK_DEADLOCK FALSE
INVARIANTS NoFalseAlarm WritesCounted ReadsCurrent ChangesCaught AnswerInTime MeasuresGaps
