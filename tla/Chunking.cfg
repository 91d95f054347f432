SPECIFICATION Spec
CONSTANTS
  Documents <- MCDocuments
  Configs <- MCConfigs
  MaxPieces = 30
INVARIANTS
  NothingLost ChunksFit ChunksInOrder PathsAreAncestors FencesStayTogether
  PagesAreNumbered
PROPERTY ChunkingEnds
