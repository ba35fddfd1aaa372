SPECIFICATION FairSpec
CONSTANTS
  Names = {n1, n2}
  Errors = {9}
  MaxQueue = 2
  Nothing = Nothing
INVARIANTS FiledRight NoGhosts
PROPERTIES ResultReset AnnounceConsistent CallsReturn
