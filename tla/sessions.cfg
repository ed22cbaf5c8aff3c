\* Two sessions, two requests at once; a token lives two seconds of three.
CONSTANTS
  Session = {s1, s2}
  Caller = {c1, c2}
  Life = 2
  EarlyRefresh = FALSE
  MaxClock = 3
  NoRow = NoRow
SPECIFICATION SessionSpec
SYMMETRY Symmetry
CHECK_DEADLOCK FALSE
INVARIANTS SessionTypeOK OneWinner
PROPERTIES KeepsTheChain
