\* Two requests of every kind, two places and two keys; Redis may fail.
SPECIFICATION Spec
CONSTANTS
  NoKey = NoKey
  None = None
  Request = {r1, r2}
  Gist = {g1}
  Place = {p1, p2}
  PlaceOf <- OnePlace
  IdemKey = {k1, k2}
  RedisFails = TRUE
  KeysExpire = TRUE
INVARIANTS
  TypeOK
  ReplaysAreFaithful
  CacheTellsThePast
PROPERTY EveryRequestAnswered
CHECK_DEADLOCK FALSE
