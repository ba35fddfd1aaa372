SPECIFICATION Spec
CONSTANTS
  Bytes = {"k", "l", "v", "h", "="}
  MaxEntry = 4
  Keys <- MCKeys
  Values <- MCValues
  Host <- MCHost
INVARIANTS ReadsBack OnlyWhatWasSet
PROPERTY DiscoverKeepsBrowsing
