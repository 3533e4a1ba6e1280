SPECIFICATION FairSpec
CONSTANTS
  c1 = c1
  c2 = c2
  Consumers = {c1, c2}
  MaxLen = 1
  MaxEvents = 0
PROPERTIES
  ConsumersFinish
CHECK_DEADLOCK FALSE
