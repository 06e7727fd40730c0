SPECIFICATION MCSpec
CONSTANTS
  s1 = s1  s2 = s2  s3 = s3  q1 = q1  ann = ann  bob = bob
  p1 = p1  p2 = p2
  Users = {ann, bob}
  Sessions = {s1, s2, s3}
  Requests = {q1}
  Owner <- MCOwner
  None = None
  Handlers = {p1, p2}
  MaxMessages = 3
  NoCache = NoCache
  People = {ann, bob}
  Askers = {p1, p2}
  NoRequest = NoRequest
CHECK_DEADLOCK FALSE
INVARIANTS
  SessionListed
  SettledStoreAgrees
  FriendListsAgree
PROPERTIES
  SessionsLeave
