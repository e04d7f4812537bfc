SPECIFICATION Spec
CONSTANTS
  Half = 2
  Word = 3
  MaxBytes = 4
  Configs <- MCConfigs
INVARIANTS
  ViewInExternal
