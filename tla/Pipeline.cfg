CONSTANTS
  App = App
  Tasks = {1, 2}
  MaxStarts = 2
  SetUps <- MCSetUps
  NbConsumers = 2
  Threads <- MCThreads
  ConsumerOf <- MCConsumerOf
  Size = 2
  Values = {1, 2, 3}
  Default = 0
  PushBound = 3
SPECIFICATION Spec
INVARIANTS
  TypeOK
  OneThreadPerTask
  LawfulTasksNeverCrash
PROPERTIES
  AwaitedHasStarted
  ImplementsWindow
  ImplementsBroadcast
CHECK_DEADLOCK FALSE
