\* A refused message.
CONSTANTS
  c1 = c1
  m1 = m1
  q1 = q1
  Nil = Nil
  DLQ = DLQ
  Client = {c1}
  Queue = {q1}
  Msg = {m1}
  Oversized = {}
  Sizes <- MCSizes
  DefaultMaxSize = 1
  MaxRetries = 2
  MayAge = {}
SPECIFICATION FairSpec
PROPERTIES
  NackMakesConsumable
CHECK_DEADLOCK FALSE
