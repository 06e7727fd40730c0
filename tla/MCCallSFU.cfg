SPECIFICATION Spec
CONSTANTS
  c1 = c1
  u1 = u1  u2 = u2  u3 = u3
  pc1 = pc1  pc2 = pc2  pc3 = pc3
  None = None
  Chats = {c1}
  Users = {u1, u2}
  PCs = {pc1, pc2}
  MaxPeers = 2
  MaxIce = 1
  MaxBusy = 2
CHECK_DEADLOCK FALSE
SYMMETRY Symmetry
CONSTRAINT FewBusy
INVARIANTS
  TypeOK
  NoLeakedConnection
  RegisteredIsLive
  TrackHasRelay
  NoLostRenegotiation
  SettledRoomsConverge
