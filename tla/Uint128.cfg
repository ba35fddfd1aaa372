SPECIFICATION TextSpec
CONSTANTS
  Word = 4
  Base = 2
  Width = 2
INVARIANTS OrderAgrees BitwiseAgrees
PROPERTIES  RoundTrip
