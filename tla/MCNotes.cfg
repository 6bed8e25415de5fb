CONSTANTS
  nan = nan
  NaN = nan
  TextRank <- TextOrder
  PathRank <- PathOrder
  Decode <- Same
  AsInt <- Ints
  AsFloat <- Floats
  Nearest <- Rounded
  AsDate <- Dates
  AsDatetime <- Datetimes
  AsCount <- Ints
  AsPath <- NoPaths
  CommaList <- Lists
  StartsWith = {}
  RegexMatches = {}
  Regex = {}
  File <- Files
  NotePath <- PathOf
  NonUtf8Path <- BrokenPath
  Folder = {"b"}
  FilesBelow <- Below
  Marker = "---"
  BlankLine = {"", " "}
  Node <- Nodes
  Nesting <- Nests
  Yaml <- Parser
  ShownDate <- JsonDates
  ShownInstant <- Instants
  ShownFloat <- JsonFloats
  Debug <- DebugText
  SplitAtDots <- Splits
  Contents <- Authored
  Walks <- Orders
SPECIFICATION Spec
INVARIANTS
  TypeOK
  CleanVaultIsServed
  CleanKeysSort
  ShownIsFindable
  NothingLost
  DriftAccountsForNotes
CHECK_DEADLOCK FALSE
