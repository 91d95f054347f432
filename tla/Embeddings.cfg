SPECIFICATION Spec
CONSTANTS
  Session <- OperatorSession
  Doc = {"a.md", "b.md"}
  Text = {"x", "y"}
  Tenant = {"default", "acme"}
  DefaultTenant = "default"
  Model = {"minilm", "e5", "nomic"}
  ModelDim <- MCModelDim
  InitialDimension = 384
  MaxDimension = 4000
  IndexLimit = 2000
  BatchSize = 2
  CallsOf <- OperatorCalls
  MaxCalls = 2
  Faults = TRUE
  None = None
INVARIANTS TypeOK GuardIsRight EmbeddingsFitText WaitsAreOrdered
PROPERTY ReembedIsComplete
