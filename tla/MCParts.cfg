SPECIFICATION MCSpec
CONSTANTS
  r1 = r1  r2 = r2  r3 = r3  l1 = l1  anna = anna  Anna = Anna  olga = olga
  e1 = e1  e2 = e2  e3 = e3  w1 = w1  w2 = w2
  a1 = a1  a2 = a2  f1 = f1  m1 = m1  m2 = m2  d1 = d1  d2 = d2  v1 = v1
  x = x  y = y  c1 = c1  c2 = c2  c3 = c3  p1 = p1  p2 = p2  ann = ann  bob = bob
  Registrations = {r1, r2, r3}
  Logins = {l1}
  Forms <- MCForms
  Folded <- MCFolded
  AvatarKeys = {a1, a2}
  FileKeys = {f1}
  Messages = {m1, m2}
  Deletions = {d1, d2}
  Views = {v1}
  None = None
  NoKey = NoKey
  Speakers = {ann, bob}
  Rooms = {x, y}
  Addrs = {p1, p2}
  Conns = {c1, c2, c3}
  AddrOf <- MCAddrOf
  NoAddr = NoAddr
  NoUser = NoUser
  NoRoom = NoRoom
  Word = 5
  Quota = 4
  MaxSent = 8
SYMMETRY MCSymmetry
CHECK_DEADLOCK FALSE
INVARIANTS
  RegisteredWhole
  RefusedExplained
  DeletedFilesGone
  RoomsSound
  LossCovered
PROPERTIES
  MissingExplained
