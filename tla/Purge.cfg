SPECIFICATION Spec
CONSTANTS
  Session <- PurgeSession
  Uri <- MCUri
  Tenant = {"acme", "globex"}
  DefaultTenant = "acme"
  SourceTypeOf <- MCSourceTypeOf
  Version <- MCVersion
  ChunkCount <- MCChunkCount
  CallsOf <- PurgeCalls
  MaxCalls = 2
  Faults = TRUE
  None = None
INVARIANTS TypeOK AuditHasRun
