SPECIFICATION ConfigSpec
CONSTANTS
  Factories = {"main", "other"}
  Main = "main"
  Modules = {"M", "N"}
  Components = {"A", "B", "C"}
  Interfaces = {"I", "J"}
  Names = {"a", "b", "i", "j"}
  NameOf <- MCNameOf
  Index <- MCIndex
  Implements <- MCImplements
  Files <- MCFiles
  Paths = {"faulted", "corrected", "aliased", "configures"}
  Unreliable = {"B"}
  LoadBound = 4
  Invalid = Invalid
  None = None
INVARIANTS
  TypeOK
  KnownModule
  ExplicitAliasPrevails
  AutomaticAliasesAreKnown
  ListedInterfacesAreBound
  ConfiguredFromADeclarer
PROPERTIES
  ModuleKept
  HalfDeclaredStays
CHECK_DEADLOCK FALSE
