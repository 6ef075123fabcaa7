CONSTANTS
  t1 = t1
  t2 = t2
  w1 = w1
  w2 = w2
  v1 = v1
  v2 = v2
  v2b = v2b
  vmax = vmax
  aes = aes
  NoType = NoType
  UIntMod = 8
  Threads <- MCThreads
  Writers <- MCWriters
  Types <- MCTypes
  Ciphers <- MCCiphers
  Version <- MCVersion
  Requests <- MCRequests
SYMMETRY MCSymmetry
SPECIFICATION Spec
\* Writers are never destroyed: once all are in use nothing can happen.
CHECK_DEADLOCK FALSE
INVARIANTS
  RefsBalanced
  GetsWhatItAsked
PROPERTIES
  PinnedForGood
