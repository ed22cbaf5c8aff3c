\* Two requests at once, both of which may set the verifier.
CONSTANTS
  Client = {c1, c2}
  Setters = {c1, c2}
  Code = {k1, k2}
  Verifier = {v1, v2}
  CodeLife = 1
  MaxMoment = 3
  NoUser = NoUser
  Nothing = Nothing
SPECIFICATION AccountSpec
SYMMETRY Symmetry
CHECK_DEADLOCK FALSE
PROPERTY VaultIsSetOnce
