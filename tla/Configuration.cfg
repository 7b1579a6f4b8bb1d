SPECIFICATION Spec
CONSTANTS
  IntBits = 2
  LongBits = 3
  Null = Null
  Unset = Unset
  Malformed = Malformed
  Fault = Fault
  StrayTexts <- MCStrayTexts
  Refs <- MCRefs
  Maps <- MCMaps
  SetUps <- MCSetUps
  Settings <- MCSettings
  Resizings <- MCResizings
  Arguments <- MCArguments
  Components = {"a", "b"}
  UUIDOf <- MCUUIDOf
  Instances = {"i", Null}
  Aliases <- MCAliases
  Paths <- MCPaths
  Contents <- MCContents
  MaxNesting = 1
  CallBound = 3
INVARIANTS
  TypeOK
  RoundTrip
PROPERTIES
  ImplementsOrderedAssignments
\* The application stops calling, or the program has crashed.
CHECK_DEADLOCK FALSE
