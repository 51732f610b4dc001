SPECIFICATION Spec
CONSTANTS
  Versions = 2
  Conversation = {c1}
  MaxFlushes = 2
  MaxReloads = 1
  Op = {m1, m2}
  MaxVersions = 2
  MaxConnections = 3
  MaxFrames = 4
  Bot = {b1}
  Schemas = 3
  MaxData = 1
INVARIANTS
  ProcessTypeOK
  ReceiptTellsTruth
  MappedIsUsable
  BackupFirst
PROPERTIES
  OrderlyExit
  KeepsContract
  CloseSettles
  AuthorizationReleases
  RunSettles
CHECK_DEADLOCK FALSE
