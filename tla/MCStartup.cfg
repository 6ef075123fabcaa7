CONSTANTS
  t1 = t1
  t2 = t2
  Library = Library
  Program = Program
  NULL = NULL
  MainThreads <- MCMainThreads
  Clashes <- MCClashes
SPECIFICATION StartSpec
\* A start that was aborted is the end.
CHECK_DEADLOCK FALSE
INVARIANTS
  StartIsRight
PROPERTIES
  ReplacedOnlyInARace
