CONSTANTS
  t1 = t1
  t2 = t2
  c1 = c1
  c2 = c2
  sha1 = sha1
  own = own
  md5 = md5
  empty = empty
  NoType = NoType
  Threads <- MCThreads
  Ctxs <- MCCtxs
  Types <- MCTypes
  Complete <- MCComplete
  Openssl <- MCOpenssl
  NameOf <- MCNameOf
SYMMETRY MCSymmetry
SPECIFICATION Spec
CHECK_DEADLOCK FALSE
INVARIANTS
  RefsBalanced
  CallbackExists
PROPERTIES
  ImplementsRegistry
