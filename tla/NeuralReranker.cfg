SPECIFICATION Spec
CONSTANTS
  RrfK = 60
  LexicalWeight = 1
  VectorWeight = 1
  Uri <- MCUri
  Tenant = {"acme", "globex"}
  Version <- MCVersion
  ChunkCount <- MCChunkCount
  SourceTypeOf <- MCSourceTypeOf
  LexicalScore <- MCLexicalScore
  VectorScore <- MCVectorScore
  Arguments <- MCArguments
  Malformed = Malformed
  Blank = Blank
  MaxTopK = 4
  MaxRerankCandidates = 2
  Settings <- NeuralSettings
  MaxWrites = 3
  MaxAsks = 2
  None = None
INVARIANT RerankersRerank
