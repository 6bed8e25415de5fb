CONSTANTS
  unset = unset  localhost = localhost  any = any
  s1 = s1  s2 = s2
  Unset = unset
  Localhost = localhost
  AnyTag = any
  Blank = {"", " "}
  Trim <- Untrimmed
  WithTail = {"https://collector?grpc=4317"}
  UrlDecode <- OnceRaw
  PathDecode <- Once
  NameRank <- Order
  Slot = {s1, s2}
  Requests <- AllRequests
  Notes <- Indexed
  Etag <- Etags
  Starts <- AllStarts
SPECIFICATION FairSpec
INVARIANTS TypeOK NothingDropped CountersAreAnswers RouteTellsNotes AnsweredIsExported
PROPERTIES TakenIsAnswered ShutdownEnds
CHECK_DEADLOCK FALSE
