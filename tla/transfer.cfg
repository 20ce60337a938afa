SPECIFICATION FairSpec
CONSTANTS
  a = a
  b = b
  c = c
  t1 = t1
  t2 = t2
  t3 = t3
  Nodes = {a, b, c}
  Transfers = {t1, t2, t3}
  From <- MCFrom
  To <- MCTo
  Method <- MCMethod
  Last <- MCLast
  EmptyEnd = {t1}
  Faulty = {t2}
  MidCount = 8
  FirstMids <- MCFirstMids
  MaxRetransmit = 2
  Active = {b}
  OtherBlocks = {0}
  Deleters = {b}
  WideInt = {c}
  Lingering = FALSE
  NoTransfer = NoTransfer
  Absent = Absent
  Changing = Changing
INVARIANTS
  TypeOK
  SentIsStored
  OneVersion
  IgnoredIsStored
  OwnAnswersOnly
PROPERTIES
  TransfersEnd
  ImplementsDelivery
