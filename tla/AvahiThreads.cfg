SPECIFICATION FairSpec
CONSTANTS
  Threads = {t1, t2}
  Objects = {o1, o2}
  Timeouts = {"zero", "some"}
  Nobody = Nobody
  MaxCalls = 3
INVARIANTS BrowserBacked BrowsingStops
PROPERTY CallsReturn
