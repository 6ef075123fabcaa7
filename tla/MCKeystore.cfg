CONSTANTS
  t1 = t1
  t2 = t2
  t3 = t3
  d1 = d1
  p1 = p1
  p2 = p2
  x1 = x1
  x2 = x2
  x3 = x3
  NoData = NoData
  NoThread = NoThread
  Absent = Absent
  None = None
  d2 = d2
  NoKey = NoKey
  Threads <- MCThreads
  Descs <- MCDescs
  Payloads <- MCPayloads
  Length <- MCLength
  Buffers <- MCBuffers
  Datas <- MCDatas
  LinuxThreads <- MCLinuxThreads
  LinuxDescs <- MCLinuxDescs
  Serials <- MCDatas
SYMMETRY MCSymmetry
SPECIFICATION BackendSpec
INVARIANTS
  RetainsBalanced
  NeverReadsFreed
  AnswersWereTrue
PROPERTIES
  ImplementsMap
  OnlyRequestedKeysVanish
