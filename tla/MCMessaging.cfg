SPECIFICATION Spec
CONSTANTS
  t1 = t1  f1 = f1  f2 = f2
  c1 = c1  k1 = k1
  p1 = p1  p2 = p2
  None = None
  Msgs <- MCMsgs
  Chats = {c1}
  Handlers = {p1, p2}
  ChatOf <- MCChatOf
  Files <- MCFiles
  Keys = {k1}
  KeyOf <- MCKeyOf
CHECK_DEADLOCK FALSE
INVARIANTS
  TypeOK
  StaleListExplained
  StaleReadExplained
  PreviewFollowsLog
  RowHasObject
SYMMETRY Symmetry
