SPECIFICATION UriSpec
CONSTANTS
  PortBits = 3
  LongMax = 63
  Chars = {"a", "A", "1", "-", "space", "@", ":", "/", "?", "#"}
  MaxTail = 3
  Objects = {o1}
  KeptTexts <- MCKeptTexts
  Settable = {"host", "fragment"}
  PartTexts <- MCPartTexts
  Ports = {0, 7}
  QueryTexts <- MCQueryTexts
  QueryKeys <- MCKeys
  QueryValues <- MCValues
INVARIANTS AssertsHold AgreesWithReference RoundTrip QueryInStep PrintsItself
PROPERTY Terminates
CHECK_DEADLOCK FALSE
