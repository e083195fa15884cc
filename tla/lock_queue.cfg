SPECIFICATION FairSpec
CONSTANTS
  push1 = push1
  push2 = push2
  pop1 = pop1
  pop2 = pop2
  front1 = front1
  nobody = nobody
  PushCallers <- MCPushCallers
  PopCallers <- MCPopCallers
  FrontCallers <- OneFront
  Calls = 2
  MaxSpurious = 1
  NoOne <- MCNoOne
INVARIANTS
  TypeOK
  NoLostWakeUp
PROPERTIES
  ElementsInOrder
  SleepersGetElements
CHECK_DEADLOCK FALSE
