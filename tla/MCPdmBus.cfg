SPECIFICATION Spec
CONSTANTS
  d1 = d1
  d2 = d2
  d3 = d3
  Devices = {d1, d2, d3}
  Types = {"MCU"}
  TypeOf <- MCSameType
  Reporting = {"MCU"}
  Ids = {0, 1}
  Requests <- MCRequests
  Errors <- MCErrors
  INVALID = INVALID
SYMMETRY Symmetry
INVARIANTS
  RequestHonoured
  CountExact
  UnboundIsClean
  UniqueInstances
  NoIdLeak
  NodeNameFree
PROPERTY
  IdServiceSpec
