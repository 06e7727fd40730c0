SPECIFICATION Spec
CONSTANTS
  c1 = c1  c2 = c2  g1 = g1
  u1 = u1  u2 = u2
  t1 = t1
  p1 = p1  p2 = p2
  None = None
  Chats = {c1, c2}
  Users = {u1, u2}
  Kind <- KindHere
  Members <- MembersHere
  Admin <- AdminHere
  Texts = {}
  Handlers = {p1, p2}
SYMMETRY PairSymmetry
INVARIANTS
  StaleListExplained
  WrongParticipantsExplained
  ChatHasConversation
