SPECIFICATION Spec
CONSTANTS
  d1 = d1
  d2 = d2
  p1 = p1
  a = a
  b = b
  other = other
  Dirs <- TwoDirs
  DefaultLog = d2
  DefaultMon = d1
  Ports <- OnePort
  DefaultPort = ttyUSB0
  Texts <- TwoTexts
  Etc = Etc
  Files <- TwoFiles
  Empty = Empty
  Absent = Absent
  Torn = Torn
  FirstFiles <- First
  Terminals = {t1, t2, t3}
  max_cli = 2
INVARIANTS
  WholeFileWhileUp
  TypeOK
  LoadsWhatWasSaved
  AtMostMax
