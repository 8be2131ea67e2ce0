\* Two clients and one message that has one retry, on a server that is
\* stopped, killed and started again.
CONSTANTS
  c1 = c1
  c2 = c2
  m1 = m1
  q1 = q1
  Nil = Nil
  DLQ = DLQ
  Client = {c1, c2}
  Queue = {q1}
  Msg = {m1}
  Oversized = {}
  Sizes <- MCSizes
  DefaultMaxSize = 1
  MaxRetries = 1
  MayAge = {}
SPECIFICATION FairRestartSpec
INVARIANTS
  RestartTypeOK
  LoggedRegistered
PROPERTIES
  AckedNotHandedOut
  CommandsAnswered
CHECK_DEADLOCK FALSE
