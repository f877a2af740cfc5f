SPECIFICATION OptionsSpec
CONSTANTS
  CatalogPaths <- MCCatalogPaths
  Files <- MCFiles
  Requests <- MCRequests
  MaxEdits = 1
  MaxRenders = 2
  Environments <- MCEnvironments
  DotEnvs <- MCDotEnvs
  MaxSteps = 3
  MaxNumber = 5
INVARIANTS
  OneTextPerVersion
  RendersAreResolved
  OptionsAreAcceptable
  DeploymentDecides
CHECK_DEADLOCK FALSE
