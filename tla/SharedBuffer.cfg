CONSTANTS
  c1 = c1
  c2 = c2
  v1 = v1
  v2 = v2
  Consumers <- MCConsumers
  OpsOf <- MCOpsOf
  Producers = {p1, p2}
  Finalizers = {f1}
  Values = {v1, v2}
  Classes = {"SharedFifo"}
  PushBound = 3
  MaxSizeBound = 2
  Free = Free
  None = None
SYMMETRY MCSymmetry
SPECIFICATION BSpec
INVARIANTS
  WithinCapacity
  NoStrandedSlot
  DeadlockOnlyAtFullOffset
PROPERTY
  ImplementsContract
