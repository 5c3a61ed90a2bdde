CONSTANTS
  None = None
  Numbers <- MCNumbers
  HostPorts <- MCHostPorts
  Addresses = {"a@b"}
  OriginLists <- MCOriginLists
  Codes = {"EUR"}
  Unlimited = Unlimited
  Digits = {"2"}
  Stamps = {1, 2}
  MaxRuns = 3
  MaxTicks = 2
  MaxFailures = 1
  Framework <- MCFramework
  Cases = {"rolling", "replace", "nightly", "numbered", "hourly", "dev", "notdev", "shop", "devshop", "blankport", "unready"}
  Setup <- MCSetup
SPECIFICATION Spec
INVARIANTS
  TypeOK
  ReadyFirst
  AnswersCompose
  LayersInOrder
  LogsKept
PROPERTIES
  ComesUp
CHECK_DEADLOCK FALSE
