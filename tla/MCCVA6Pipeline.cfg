CONSTANTS
  PHYSICAL_REGS = 4
  NREG = 2
  NR_SB_ENTRIES = 3
  Shapes <- MCShapes
  Data <- MCConfigs
  Configs <- MCConfigs
SPECIFICATION PipeSpec
INVARIANTS PipeTypeOK RetiresArchitecturally CsrSerialises
PROPERTY MappingChangesAlone
