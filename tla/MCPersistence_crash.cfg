\* A kill after a restart.
CONSTANTS
  t1 = t1
  m1 = m1
  m2 = m2
  Nil = Nil
  Thread = {t1}
  Msg = {m1, m2}
  Length <- MCLength
  MaxLength = 3
  Long = {m1}
  MaxBytes = 5
  MaxSegments = 1
SPECIFICATION Spec
SYMMETRY MCSymmetry
INVARIANTS
  CrashRecoversAll
CHECK_DEADLOCK FALSE
