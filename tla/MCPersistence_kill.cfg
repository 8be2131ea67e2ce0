\* Two threads, two messages with records of three bytes and one with a record of
\* two, segments that are full with two bytes.
CONSTANTS
  t1 = t1
  t2 = t2
  m1 = m1
  m2 = m2
  m3 = m3
  Nil = Nil
  Thread = {t1, t2}
  Msg = {m1, m2, m3}
  Length <- MCLength
  MaxLength = 3
  Long = {m1, m2}
  MaxBytes = 2
  MaxSegments = 2
SPECIFICATION Spec
SYMMETRY MCSymmetry
INVARIANTS
  TypeOK
  AnsweredLogged
  IndexFindsMessage
  SegmentBounded
PROPERTIES
  SyncedIsFinal
  ImplementsLog
CHECK_DEADLOCK FALSE
