SPECIFICATION FairSpec
CONSTANTS
  Requests = {}
  Data = {d0}
  NoData = d0
  Names = {there}
  LocalNames = {}
  Paths = {p1, p2}
  Errors <- MCOneError
  DaemonEvents = {"failure"}
  MaxErrors = 2
  MaxBus = 1
  MaxResolvers = 2
  Nothing = Nothing
INVARIANTS LocalOnly DiscoversAll
PROPERTY EventuallyDiscovers
