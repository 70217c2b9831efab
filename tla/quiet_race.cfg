SPECIFICATION Spec
CONSTANTS
  NoDoc = NoDoc
  NoMessage = NoMessage
  m1 = m1
  m2 = m2
  c1 = c1
  c2 = c2
  t1 = t1
  t2 = t2
  t3 = t3
  Message = {m1, m2}
  TextMessage = {m1, m2}
  Chat = {c1}
  ChatOf <- OneChat
  HasInbox = {}
  Task = {t1, t2}
  Slots = 2
  MaxRetries = 0
  MaxFaults = 0
  Faults <- NoFaults
PROPERTY QuietWhileEscalated
CHECK_DEADLOCK FALSE
