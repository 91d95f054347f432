SPECIFICATION FairSpec
CONSTANTS
  Session <- OverlapSession
  Uri <- MCUri
  Tenant = {"acme", "globex"}
  DefaultTenant = "acme"
  SourceTypeOf <- MCSourceTypeOf
  Version <- MCVersion
  ChunkCount <- MCChunkCount
  CallsOf <- ContentionCalls
  MaxCalls = 2
  Faults = FALSE
  None = None
PROPERTIES OwnIngestsAgree EveryCallEnds
