SPECIFICATION OperationsSpec
CONSTANTS
  MaxDeployment = 2
  MaxFile = 2
  Rules = {"together", "late"}
INVARIANTS
  OperationsTypeOK
  PublishedIsWired
  RowsAreOfTheChain
PROPERTIES
  ScriptsEnd
