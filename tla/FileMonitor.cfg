SPECIFICATION FairSpec
CONSTANTS
  a = a
  b = b
  Messages = 2
  Text <- OneText
  Empty = Empty
  None = None
  Overflow = Overflow
  QueueMax = 2
  BufferMax = 2
  Troubles = {"create", "clock", "replace", "crash"}
  MaxEdits = 4
  MaxClock = 1
INVARIANTS
  TypeOK
  NothingLost
  RightSlot

  
