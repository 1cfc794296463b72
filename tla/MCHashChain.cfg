SPECIFICATION Spec
CONSTANTS
  t1 = t1
  t2 = t2
  x = x
  y = y
  z = z
  Tenants = {t1, t2}
  Bodies = {x, y, z}
  MaxRecords = 4
  MaxFaults = 2
  MaxCheckpoints = 1
SYMMETRY Interchangeable
INVARIANTS
  NoFalseAlarm
  VerifiedIsAccepted
  CheckpointPinsHistory
  DiagnosisIsTrue
CHECK_DEADLOCK FALSE
