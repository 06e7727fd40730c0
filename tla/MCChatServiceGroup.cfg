SPECIFICATION Spec
CONSTANTS
  c1 = c1  c2 = c2  g1 = g1
  u1 = u1  u2 = u2
  t1 = t1
  p1 = p1  p2 = p2
  None = None
  Chats = {g1}
  Users = {u1, u2}
  Kind <- KindHere
  Members <- MembersHere
  Admin <- AdminHere
  Texts = {t1}
  Handlers = {p1, p2}
SYMMETRY GroupSymmetry
INVARIANTS
  TypeOK
  StaleListExplained
