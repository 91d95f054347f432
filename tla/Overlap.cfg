SPECIFICATION Spec
CONSTANTS
  Session <- OverlapSession
  Uri <- MCUri
  Tenant = {"acme", "globex"}
  DefaultTenant = "acme"
  SourceTypeOf <- MCSourceTypeOf
  Version <- MCVersion
  ChunkCount <- MCChunkCount
  CallsOf <- OverlapCalls
  MaxCalls = 2
  Faults = TRUE
  None = None
INVARIANTS NoOrphanChunks WholeReplacement
PROPERTY RefinesAtomicCorpus
