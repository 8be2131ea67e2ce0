\* One client with two commands, and a connection that says nothing.
CONSTANTS
  Nil = Nil
  Conn = {1, 2}
  Self = 1
  Typed <- MCTyped
  MaxCommands = 2
SPECIFICATION FairSpec
INVARIANTS
  TypeOK
  FramingKept
  InStep
  RegisteredWhileServed
  OrderlyStop
PROPERTIES
  AnswerArrives
  StopTerminates
CHECK_DEADLOCK FALSE
