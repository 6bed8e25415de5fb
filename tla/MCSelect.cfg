CONSTANTS
  bad = bad  nan = nan  any = any
  TextRank <- TextOrder
  PathRank <- PathOrder
  Decode <- DecodedValues
  AsInt <- Ints
  AsFloat <- Floats
  Nearest <- Rounded
  AsDate <- Dates
  AsDatetime <- Datetimes
  AsCount <- Counts
  AsPath <- PathValues
  CommaList <- Lists
  StartsWith <- Prefixed
  RegexMatches <- Matches
  Regex <- Patterns
  NaN = nan
  Malformed = bad
  UrlDecode <- NamesRead
  PathDecode <- NamesReadAgain
  UrlEncode <- Written
  NameRank <- NameOrder
  AnyTag = any
  Fields = {"r", "t", "d"}
  Vaults <- MixedVaults
  Parameters <- SelectParameters
  MaxParameters = 2
  Requests <- PathRequests
SPECIFICATION Spec
INVARIANTS
  TypeOK
  NegationComplements
  OneOfIsUnion
  RangesPartition
  FoldersPartition
  PageBeginsTheAnswer
  ListingIsQuery
  ListingsLead
CHECK_DEADLOCK FALSE
