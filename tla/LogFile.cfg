SPECIFICATION Spec

CONSTANTS
  Main = main
  Threads = {main, thread}
  mMaxSize = 1
  mMaxStartupSize = 0
  Garbage <- AnyGarbage
  MaxLines = 4
  MaxStarts = 2

INVARIANTS
  TypeOK
  Kept
  Bounded

\* The bounds stop it.
CHECK_DEADLOCK FALSE
