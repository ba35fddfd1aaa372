SPECIFICATION Spec
CONSTANTS
  Requests = {}
  Data = {d0}
  NoData = d0
  Names = {there}
  LocalNames = {}
  Paths = {p1}
  Errors <- MCOneError
  DaemonEvents = {}
  MaxErrors = 3
  MaxBus = 2
  MaxResolvers = 2
  Nothing = Nothing
PROPERTY ResolversFreed
