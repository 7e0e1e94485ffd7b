SPECIFICATION OperationsSpec
CONSTANTS
  MaxDeployment = 2
  MaxFile = 1
  Rules = {"together"}
INVARIANT
  CompleteIsComplete
