CONSTANTS
  c1 = c1
  c2 = c2
  v1 = v1
  v2 = v2
  Consumers <- MCConsumers
  OpsOf <- MCPopOnly
  Producers = {p1, p2}
  Finalizers = {f1}
  Values = {v1}
  Classes = {"SharedFifo"}
  PushBound = 3
  MaxSizeBound = 2
  Free = Free
  None = None
SPECIFICATION FairBSpec
PROPERTIES
  ItemsAreConsumed
  PushCompletes
