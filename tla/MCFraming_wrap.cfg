SPECIFICATION Spec
CONSTANTS
  Half = 2
  Word = 3
  MaxBytes = 6
  Configs <- WrapConfigs
INVARIANTS
  FixedFits
