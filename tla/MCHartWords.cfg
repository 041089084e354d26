CONSTANTS
  NXPR = 7
  NREG = 3
  SizeT = 1000000
  Data = {0, 1}
  Configs <- MCConfigs
SPECIFICATION WordSpec
INVARIANTS WordTypeOK OutOfWindowReadsZero
PROPERTIES CVA6WritesStayInWindow DumpTransparent
