SPECIFICATION Spec
CONSTANTS
  Session <- MigrationSession
  Doc = {"a.md", "b.md"}
  Text = {"x", "y"}
  Tenant = {"default", "acme"}
  DefaultTenant = "default"
  Model = {"minilm", "e5", "nomic"}
  ModelDim <- MCModelDim
  InitialDimension = 384
  MaxDimension = 4000
  IndexLimit = 2000
  BatchSize = 2
  CallsOf <- MigrationCalls
  MaxCalls = 1
  Faults = FALSE
  None = None
PROPERTY MigrationSucceeds
