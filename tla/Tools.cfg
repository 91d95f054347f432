SPECIFICATION Spec
CONSTANTS
  NoTenant = "-"
  Empty = ""
  Name <- MCName
  Cleaned <- MCCleaned
  Uri <- MCUri
  Tenant = {"acme", "acme/eu"}
  Version <- MCVersion
  ChunkCount <- MCChunkCount
  SourceTypeOf <- MCSourceTypeOf
  Servers <- MCServers
  MaxWrites = 3
  MaxItems = 2
INVARIANTS RepliesStayInTenant StatusAddsUp SignaturesBind
