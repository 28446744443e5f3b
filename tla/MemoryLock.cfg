SPECIFICATION Spec
CONSTANTS
  RomBlocks = {c0, c8}
  BeyondBlocks = {d0}
  StartBlock = c0
  ByteValues = 3
  ReadsBack = TRUE
INVARIANTS
  TypeOK
  StatusExact
  ProbeTransparent
PROPERTIES
  NoNeedlessChange
  KeepsPromise
