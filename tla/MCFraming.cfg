SPECIFICATION Spec
CONSTANTS
  Half = 2
  Word = 3
  MaxBytes = 6
  Configs <- MCConfigs
INVARIANTS
  TypeOK
  PacketExact
  NoStall
  ErrorJustified
  BufferBound
