\* Two connections, two names for one topic, two messages.
CONSTANTS
  c1 = c1
  c2 = c2
  t1 = t1
  t2 = t2
  Nil = Nil
  Consumer = {c1, c2}
  Topic = {t1, t2}
  MaxTopics = 1
  MaxId = 2
  Offsets <- MCOffsets
SPECIFICATION Spec
SYMMETRY MCSymmetry
INVARIANTS
  TypeOK
  SubscriptionsAgree
  ClosedUnsubscribed
  ReadInOrder
CHECK_DEADLOCK FALSE
