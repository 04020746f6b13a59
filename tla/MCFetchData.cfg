SPECIFICATION Spec
CONSTANTS
  Commits = {c1, c2}
  Script <- Big
  Archive <- BigArchive
  MaxInterrupts = 2
  MaxBumps = 2
INVARIANTS UndisturbedIsPinned HarmHasCause
PROPERTY RunsEnd
