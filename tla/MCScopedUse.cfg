CONSTANTS
  t1 = t1
  t2 = t2
  kdf = kdf
  kdf2 = kdf2
  empty = empty
  rand = rand
  rand2 = rand2
  NoType = NoType
  RAND = "rand"
  IntMod = 8
  Threads <- MCThreads
  KdfTypes <- MCKdfTypes
  RandTypes <- MCRandTypes
  Complete <- MCComplete
  NameOf <- MCNameOf
  Sizes <- MCSizes
SYMMETRY MCSymmetry
SPECIFICATION Spec
INVARIANTS
  RefsBalanced
  
