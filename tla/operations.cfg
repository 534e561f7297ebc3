CONSTANTS
  kyc = kyc
  registry = registry
  alice = alice
  bob = bob
  None = None
  Missing = Missing
  Program = {kyc, registry}
  programs <- MCPrograms
  MaxFaults = 2
  programIds <- MCProgramIds
  Files <- MCFiles
  MaxFiles = 2
  Phase = {1, 2, 4}
  Owner = {alice, bob}
SPECIFICATION FairSpec
INVARIANTS
  SavedMeansDeployed
  HealthyIsDeployed
  SummaryCountsOnce
PROPERTIES
  DeploymentCompletes
  MonitoringGoesOn
CHECK_DEADLOCK FALSE
