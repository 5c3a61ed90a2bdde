CONSTANTS
  None = None
  Enums = {"Status"}
  TableOrder <- MCTableOrder
  Names = {"a", "b"}
  Kinds <- MCKinds
  Shipped <- MCShipped
  Required <- MCRequired
  Projects <- MCProjects
  Servers = {server}
  Dev = dev
  Clock = {1, 2}
  MaxEdits = 2
  MaxFiles = 2
  MaxCrashes = 1
SPECIFICATION Spec
INVARIANTS
  TypeOK
  DatabaseFollows
  RefusedOnlyFor
  InStep
  EachChangeOnce
PROPERTIES
  LossIsAnnounced
  Converges
CHECK_DEADLOCK FALSE
