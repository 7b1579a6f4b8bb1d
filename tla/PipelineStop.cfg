CONSTANTS
  App = App
  Tasks = {1, 2}
  MaxStarts = 2
  SetUps <- MCStopSetUps
  NbConsumers = 2
  Threads <- MCThreads
  ConsumerOf <- MCConsumerOf
  Size = 2
  Values = {1, 2, 3}
  Default = 0
  PushBound = 1
SPECIFICATION FairSpec
PROPERTIES
  StopReturns
CHECK_DEADLOCK FALSE
