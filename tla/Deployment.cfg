SPECIFICATION Spec
CONSTANTS
  MaxRuns = 3
  MaxAddress = 6
INVARIANTS
  FilesNameOneDeployment
  OnlyWrittenVaultsMismatch
