\* One client and one message that has one retry, may expire and be replayed,
\* under fairness.
CONSTANTS
  c1 = c1
  m1 = m1
  q1 = q1
  Nil = Nil
  DLQ = DLQ
  Client = {c1}
  Queue = {q1}
  Msg = {m1}
  Oversized = {}
  Sizes <- MCSizes
  DefaultMaxSize = 1
  MaxRetries = 1
  MayAge = {m1}
SPECIFICATION FairSpec
INVARIANTS
  DlqOnlyExhausted
PROPERTIES
  DeliveryResolves
CHECK_DEADLOCK FALSE
