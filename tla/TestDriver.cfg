SPECIFICATION FairSpec
CONSTANTS
  Objects = {1, 2}
  Browsers = {1}
  Listeners = {l1}
  Names = {host, other}
  Hostname = host
  Empty = Empty
  Data = {d0, d1}
  NoData = d0
  Torn = Torn
  NoEntry = NoEntry
  Free = Free
INVARIANTS DirectorySound BrowsePicture CallbackSeesInstance ListenersUpToDate
PROPERTIES RefinesDirectory EventuallyAccurate
