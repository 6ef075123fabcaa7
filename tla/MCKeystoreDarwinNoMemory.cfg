CONSTANTS
  t1 = t1
  t2 = t2
  t3 = t3
  d1 = d1
  p1 = p1
  p2 = p2
  x1 = x1
  x2 = x2
  x3 = x3
  NoData = NoData
  NoThread = NoThread
  Absent = Absent
  None = None
  Threads <- MCThreads
  Descs <- MCDescs
  Payloads <- MCPayloads
  Length <- MCLength
  Buffers <- MCBuffers
  Datas <- MCDatas
SYMMETRY MCSymmetry
SPECIFICATION SpecNoMemory
INVARIANTS
  RemoveNeverCrashes
