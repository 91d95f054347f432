SPECIFICATION FairSpec
CONSTANTS
  Unset = Unset
  Empty = Empty
  DefaultOf <- MCDefaultOf
  ModelDimension <- MCModelDimension
  RouterDimension = 3
  Source <- MCSource
  Uri <- MCUri
  UriOf <- MCUriOf
  FormatOf <- MCFormatOf
  Version <- MCVersion
  TextsOf <- MCTextsOf
  TooLarge = {"huge"}
  Cleaned <- MCCleaned
  DefaultTenant = "default"
  ColumnDimension = 2
  BatchSize = 2
  Environments <- MCEnvironments
  SettingsFiles <- MCSettingsFiles
  Commands <- MCCommands
  Worlds <- MCWorlds
  Required <- MCRequired
  MaxRuns = 2
  MaxEdits = 1
  None = None
INVARIANTS
  CorpusFollowsInputs ReportIsTrue VectorsOfTexts SettingsHavePrecedence
PROPERTIES
   EveryRunEnds
