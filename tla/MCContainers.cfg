CONSTANTS
  a = a
  b = b
  e1 = e1
  e2 = e2
  e3 = e3
  e4 = e4
  NULL = NULL
  Nobody = "nobody"
  Heads <- MCHeads
  Entries <- MCEntries
  Sharers <- MCSharers
  Refs = {1, 2, 3, 4}
SYMMETRY MCSymmetry
SPECIFICATION PartSpec
\* An object that was freed is the end of the part "ref".
CHECK_DEADLOCK FALSE
INVARIANTS
  PointersLeadOn
  VisitsEachOnce
  BackPointersExact
  ReleaseIsLast
PROPERTIES
  ListsAreSequences
  HlistsAreSequences
