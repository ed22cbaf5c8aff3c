\* A client may refresh within the second of its token.
CONSTANTS
  Session = {s1, s2}
  Caller = {c1, c2}
  Life = 2
  EarlyRefresh = TRUE
  MaxClock = 3
  NoRow = NoRow
SPECIFICATION SessionSpec
SYMMETRY Symmetry
CHECK_DEADLOCK FALSE
INVARIANTS OneWinner
