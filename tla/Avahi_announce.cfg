SPECIFICATION FairSpec
CONSTANTS
  Requests = {r1, r2}
  Data = {d0, d1}
  NoData = d0
  Names = {}
  LocalNames = {}
  Paths = {p1}
  Errors <- MCErrors
  DaemonEvents = {"running", "registering", "collision", "failure"}
  MaxErrors = 3
  MaxBus = 2
  MaxResolvers = 1
  Nothing = Nothing
INVARIANT PublishedIsCurrent
PROPERTIES AnnounceTruthful CallsReturn
