SPECIFICATION Spec
CONSTANTS
  k1 = k1
  k2 = k2
  None = None
  Keys = {k1, k2}
  Account = k1
  Types = {"transfer", "deploy", "update"}
  UpdateType = "update"
  CallTypes = {"deploy"}
  DeployType = "deploy"
  PlainTypes = {"transfer"}
  Requests <- AskedUpdates
  Ids = {0, 1, 2, 3}
  Requirements <- AskedTypes
  MaxActives = 1
  MaxInt64 = 4
  MaxSignatures = 2
  MaxPending = 1
INVARIANTS TypeOK SignaturesCover ApprovedSignerSuffices NeverLockedOut PaidOnce
PROPERTY DeployedWhereNoted
