CONSTANTS
  c1 = c1
  c2 = c2
  c3 = c3
  v1 = v1
  v2 = v2
  Consumers <- MCConsumers
  OpsOf <- MCOpsOf
  Finalizers = {f1, f2}
  Values = {v1, v2}
  Classes = {"SharedFifo", "SharedLifo", "DropBuffer"}
  PushBound = 3
  Free = Free
  None = None
SYMMETRY MCSymmetry
SPECIFICATION Spec
INVARIANTS
  TypeOK
  CountMatchesData
  NeverPopsEmpty
  NoStrandedItem
  SeenReleaseMissesAtMostOne
PROPERTY
  ImplementsContract
