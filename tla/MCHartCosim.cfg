CONSTANTS
  NPHYS = 9
  NREG = 3
  SizeT = 1000000
  Data = {0, 1}
  Configs <- MCConfigs
SPECIFICATION Spec
INVARIANTS TypeOK SameView StagedWindowKeepsRegisters
PROPERTY KernelRegistersFrozen
