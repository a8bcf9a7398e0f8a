SPECIFICATION Spec
CONSTANTS
  Byte <- Bytes
  Inputs <- Texts
  Slots <- TwoSlots
  SizeT <- Wrap
INVARIANTS
  TypeOK
  NeverThrows
  Reassembled
  Addressed
CHECK_DEADLOCK FALSE
