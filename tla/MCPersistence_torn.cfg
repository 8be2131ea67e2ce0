\* Appends behind a torn record.
CONSTANTS
  t1 = t1
  m1 = m1
  m2 = m2
  Nil = Nil
  Thread = {t1}
  Msg = {m1, m2}
  Length <- MCLength
  MaxLength = 3
  Long = {m1}
  MaxBytes = 6
  MaxSegments = 1
SPECIFICATION Spec
SYMMETRY MCSymmetry
INVARIANTS
  TornTailHarmless
CHECK_DEADLOCK FALSE
