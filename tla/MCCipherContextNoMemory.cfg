CONSTANTS
  t1 = t1
  t2 = t2
  c1 = c1
  c2 = c2
  gcm = gcm
  own = own
  empty = empty
  k2 = k2
  k3 = k3
  NoType = NoType
  NoCtx = NoCtx
  NoKey = NoKey
  Threads <- MCThreads
  Ctxs <- MCCtxs
  Types <- MCTypes
  Complete <- MCComplete
  NameOf <- MCNameOf
  Openssl <- MCOpenssl
  Aead <- MCAead
  KeySize <- MCKeySize
  IvSize <- MCIvSize
  Keys <- MCKeys
  SizeOf <- MCSizeOf
  IvSizes <- MCIvSizes
SYMMETRY MCSymmetry
SPECIFICATION SpecNoMemory
INVARIANTS
  AllocFailureIsSeen
