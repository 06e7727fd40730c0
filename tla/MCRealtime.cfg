SPECIFICATION MCSpec
CONSTANTS
  a = a  b = b 
  s1 = s1  s2 = s2  q1 = q1  q2 = q2  m1 = m1
  Chat = Chat  Ring = Ring  None = None
  Sessions = {s1, s2}
  Talking = {s1}
  Requests = {q1, q2}
  Messages = {m1}
  UserOf <- MCUserOf
  Caller = a
  MaxInbox = 2
  Users = {a, b}
  Me = a
CONSTRAINT Small
CHECK_DEADLOCK FALSE
INVARIANTS
  SettledSessionsAgree
  SnapshotExplained
PROPERTIES
  SessionsEnd
