\* Two clients and the checker over two messages and one place to queue them.
CONSTANTS
  c1 = c1
  c2 = c2
  m1 = m1
  m2 = m2
  q1 = q1
  Nil = Nil
  DLQ = DLQ
  Client = {c1, c2}
  Queue = {q1}
  Msg = {m1, m2}
  Oversized = {}
  Sizes <- MCSizes
  DefaultMaxSize = 1
  MaxRetries = 2
  MayAge = {}
SPECIFICATION Spec
SYMMETRY MCSymmetry
INVARIANTS
  TypeOK
  SingleCopy
  HolderUncontested
  NoDanglingIds
  CapacityRespected
  FullSendForgotten
  AcceptedNotLost
CHECK_DEADLOCK FALSE
