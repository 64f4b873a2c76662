CONSTANTS
  Values <- SmallValues
  NetLimit = 4
  FreeNetLimit = 5
  OriginEnergyLimit = 2
  Size = 3
  CallEnergy = 5
  TransactionFee = 7
  CreateAccountFee = 10
  CreateNewAccountFeeInSystemContract = 100
  MaxSUN = 1000
  MaxChanges = 2
SPECIFICATION Spec
INVARIANTS TypeOK ChargedAtSomeMoment
