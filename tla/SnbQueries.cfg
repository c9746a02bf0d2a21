SPECIFICATION Spec
CONSTANTS
  Keys = {}
  LabelSpan = 16
  MaxTs = 0
  Csv <- SmallCsv
  HttpUpdates <- MixedUpdates
  Data <- AllData
  Dates = {11, 14}
  Duration = 9
  MaxUpdates = 5
  Limit = 2
INVARIANTS AllShortestPaths NearestByName TwoCountries ForumCounts LatestLikes RepliesAgree ThreadRoot ReplyTopics
CHECK_DEADLOCK FALSE
