SPECIFICATION BlankSpec
CONSTANTS
  Main = Main
  Monitor = Monitor
  Clients = {c1, c2}
  Nobody = Nobody
  Messages = 2
  Packets = 2
  Text = {a, b}
  Empty = Empty
  NoJob = NoJob
  Changing = Changing
  Quiet = Quiet
  Returned = Returned
  Positions <- ValidPositions
  Startup <- OneStartup
  Faults = {}
INVARIANT StaysUp
PROPERTY ImplementsBoard
