CONSTANTS
  t1 = t1
  t2 = t2
  t3 = t3
  h1 = h1
  h2 = h2
  v1 = v1
  v1x = v1x
  v2 = v2
  NoType = NoType
  NoThread = NoThread
  IntMod = 6
  Threads <- MCThreads
  Objects <- MCObjects
  Types <- MCTypes
  Requests <- MCRequests
  DEFAULT <- MCDefault
  KeyOf <- MCKeyOf
  KeyFor <- MCKeyFor
SPECIFICATION Spec
SYMMETRY MCSymmetry
INVARIANTS
  CountsReferences
  NoDanglingType
  UnlinkIsSafe
  DefaultIsNewest
  LookupIsCurrent
PROPERTIES
  AbsSpec
