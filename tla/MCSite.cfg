CONSTANTS
  None = None
  SecretNames = {"token", "token_hash"}
  TableOrder <- MCTableOrder
  Param = Param
  InNav <- MCInNav
  Default = Default
  Empty = Empty
  MaxInt = 1000
  MaxPerPage = 100
  MaxRows = 5
  Declared <- MCDeclared
  Users = {"ann", "kim", "root"}
  Admins = {"root"}
  Grants <- MCGrants
  Data <- MCData
  Requests <- MCRequests
  MaxRequests = 3
  MaxLive = 2
  Scope <- MCScope
  MayCreate <- MCMayCreate
  MayEdit <- MCMayEdit
  MayAct <- MCMayAct
  Acted <- MCActed
SPECIFICATION Spec
INVARIANTS
  TypeOK
  SecretsStay
  PublicSlice
  RoutesReached
  PagesPartition
  CreateFills
  OfferedIsAccepted
  RefsVisible
PROPERTIES
  WritesAllowed
  OwnerAndParentFixed
  SavesKeepTheRest
CHECK_DEADLOCK FALSE
