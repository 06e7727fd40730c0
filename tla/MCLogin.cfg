SPECIFICATION MCSpec
CONSTANTS
  p1 = p1  p2 = p2  p3 = p3  v1 = v1  v2 = v2
  c1 = c1  c2 = c2  c3 = c3  b1 = b1  b2 = b2  b3 = b3  b4 = b4
  Attempts = {p1, p2, p3}
  MaxAttempts = 2
  FailWindow = 3
  BaseCooldown = 1
  MaxCooldown = 4
  StrikeTTL = 5
  MaxStrikes = 3
  Validations = {v1, v2}
  Lifetime = 4
  TokenCacheTTL = 3
  MaxLag = 2
  Callers = {c1, c2, c3}
  Buckets = {b1, b2, b3, b4}
  NoBucket = NoBucket
  Speed = 1
  Spike = 3
  Minute = 4
CHECK_DEADLOCK FALSE
INVARIANTS
  GuessesBounded
  LockJustified
  HonouredWithinTTL
  RateBounded
PROPERTIES
  LockEnds
