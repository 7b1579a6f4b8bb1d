SPECIFICATION Spec
CONSTANTS
  Factories = {"main", "other"}
  Main = "main"
  Interfaces = {"I", "J", "IAlias"}
  Components = {"A", "B", "C", "Alias"}
  Names = {"n"}
  Implements <- MCImplements
  Injectables <- MCInjectables
  CoreBindings <- MCCoreBindings
  BindCalls <- MCBindCalls
  Unreliable = {"C"}
  ConfigBound = 3
  CallBound = 2
  DepthBound = 5
  None = None
PROPERTY FirstAutobindIsMaintained
CHECK_DEADLOCK FALSE
