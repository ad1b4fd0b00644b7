SPECIFICATION Spec
CONSTANTS
  NoKey = NoKey
  None = None
  Request = {r1, r2}
  Gist = {g1, g2}
  Place = {p1, p2}
  PlaceOf <- OnePlace
  IdemKey = {k1, k2}
  RedisFails = FALSE
  KeysExpire = FALSE
INVARIANT OtherBodyIsRefused
CHECK_DEADLOCK FALSE
