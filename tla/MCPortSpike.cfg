CONSTANTS
  idle = idle
  w1 = w1
  w2 = w2
  Tasks = {idle, w1, w2}
  FirstTask = idle
  Assign <- MCAssign
  Param <- MCParam
  StackTop <- MCStackTop
  Platform = "Spike"
  HasTimer = TRUE
  RuntimeBorrow = FALSE
  NPHYS = 13
  NREG = 6
  SizeT = 1000000
  sp = 1
  t0 = 2
  a0 = 3
  RestoreScratch = {4}
  CounterScratch = {5}
  portCONTEXT_SIZE = 10
  xISRStackTop = 50
  StackFill = 0
  Junk = 99
  UserRegs = {3}
  UserData = {1}
  MaxNesting = 2
  MaxPush = 1
  CounterCap = 1
SPECIFICATION Spec
CONSTRAINT NestOrPush
INVARIANTS
  TypeOK
  WindowIsolation
  RunsInOwnWindow
  LegacyRegistersPreserved
  FrameInPlace
  NoInvalidMinimalRestore
  CriticalNestingPreserved
