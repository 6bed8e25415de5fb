CONSTANTS
  bad = bad  nan = nan  any = any
  TextRank <- TextOrder
  PathRank <- PathOrder
  Decode <- DecodedValues
  AsInt <- Ints
  AsFloat <- Floats
  Nearest <- Rounded
  AsDate <- Dates
  AsDatetime <- Datetimes
  AsCount <- Counts
  AsPath <- PathValues
  CommaList <- Lists
  StartsWith <- Prefixed
  RegexMatches <- Matches
  Regex <- Patterns
  NaN = nan
  Malformed = bad
  UrlDecode <- NamesRead
  PathDecode <- NamesReadAgain
  UrlEncode <- Written
  NameRank <- NameOrder
  AnyTag = any
  Fields = {"num"}
  Vaults <- MixedKeyVaults
  Parameters <- MergeParameters
  MaxParameters = 2
  Requests <- NoRequests
SPECIFICATION Spec
INVARIANTS
  CutKeepsTop
CHECK_DEADLOCK FALSE
