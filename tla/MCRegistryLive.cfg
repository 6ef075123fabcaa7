CONSTANTS
  t1 = t1
  t2 = t2
  h1 = h1
  v1 = v1
  v2 = v2
  MaxCalls = 5
  NoType = NoType
  NoThread = NoThread
  IntMod = 4
  Threads <- MCThreads
  Objects <- MCObjects
  Types <- MCTypes
  Requests <- MCRequests
  DEFAULT <- MCDefault
  KeyOf <- MCKeyOf
  KeyFor <- MCKeyFor
SPECIFICATION BoundSpec
PROPERTIES
  EveryCallReturns
\* The threads stop when they have made their calls.
CHECK_DEADLOCK FALSE
