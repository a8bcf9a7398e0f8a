SPECIFICATION FairSpec
CONSTANTS
  Main = Main
  Monitor = Monitor
  Clients = {c1}
  Nobody = Nobody
  Messages = 1
  Packets = 2
  Text = {a}
  Empty = Empty
  NoJob = NoJob
  Positions <- AllPositions
  Startup <- OneStartup
  Faults = {"silent", "late", "stopped", "gone", "pipe", "bind", "monitor"}
PROPERTIES
  SessionEnds
  BootEnds
