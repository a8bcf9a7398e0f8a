SPECIFICATION Spec
CONSTANTS
  Main = Main
  Monitor = Monitor
  Clients = {c1}
  Nobody = Nobody
  Messages = 2
  Packets = 2
  Text = {a}
  Empty = Empty
  NoJob = NoJob
  Positions <- AllPositions
  Startup <- OneStartup
  Faults = {"silent", "late", "stopped", "gone", "pipe", "bind", "monitor"}
INVARIANTS
  TypeOK
  IInv
  PortExclusive
  Agreement
  WholeText
