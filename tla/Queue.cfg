CONSTANTS
  Tasks = {t1, t2}
  NoTask = none
  Values = {1, 2}
  Lengths = {1, 3}
SPECIFICATION Spec
INVARIANTS QueueTypeOK NoLostMessage NoLostRoom
PROPERTY ImplementsFifo
