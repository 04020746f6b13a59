SPECIFICATION Spec
CONSTANTS
  Commits = {c1, c2}
  Script <- Small
  Archive <- NoArchive
  MaxInterrupts = 0
  MaxBumps = 1
INVARIANTS SuccessIsPinned
