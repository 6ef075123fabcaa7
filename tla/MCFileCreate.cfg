CONSTANTS
  t1 = t1
  t2 = t2
  f1 = f1
  tty = tty
  x1 = x1
  x2 = x2
  aes = aes
  nosuch = nosuch
  NoFile = NoFile
  NoCipher = NoCipher
  NoFd = NoFd
  Threads <- MCThreads
  Fds <- MCFds
  Devices <- MCDevices
  Files <- MCFiles
  Ciphers <- MCCiphers
  Names <- MCNames
  Sizes <- MCSizes
  PageSize = 4
  U32 = 16
  MaxIdents = 1
SPECIFICATION Spec
SYMMETRY MCSymmetry
INVARIANTS
  RefsBalanced
  MappingCoversRequest
  MappingInsideFile
  FailureSetsErrno
  KeyIdentMovesOnce
  OneHeaderPerFile
