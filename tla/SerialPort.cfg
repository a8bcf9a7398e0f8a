SPECIFICATION FairSpec
CONSTANTS
  o = o
  u = u
  Threads = {o, u}
  Owner = o
  Nobody = Nobody
  Asks <- AsksOf
  Bytes = 2
  Eols = {1}
  Capacity = 1
  InterBytes = {0, 9}
  Forever = 9
  TimeConstant = 1
  TimeMultiplier = 0
  ByteTime = 1
  MaxJumps = 1
INVARIANTS
  TypeOK
  ReadsInOrder
  WritesInOne
  InTime
  
PROPERTIES
  ThrowsForCause
  CallsEnd
