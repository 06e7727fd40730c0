SPECIFICATION Spec
CONSTANTS
  u1 = u1  u2 = u2
  r1 = r1  r2 = r2  r3 = r3
  p1 = p1  p2 = p2  p3 = p3
  None = None
  Users = {u1, u2}
  Requests = {r1, r2, r3}
  From <- MCFrom
  To <- MCTo
  Handlers = {p1, p2}
PROPERTY NoRequestAmongFriends
