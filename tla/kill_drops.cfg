SPECIFICATION Spec
CONSTANTS
  NoDoc = NoDoc
  NoMessage = NoMessage
  m1 = m1
  m2 = m2
  c1 = c1
  c2 = c2
  t1 = t1
  t2 = t2
  t3 = t3
  Message = {m1}
  TextMessage = {m1}
  Chat = {c1}
  ChatOf <- OneMessage
  HasInbox = {c1}
  Task = {t1}
  Slots = 1
  MaxRetries = 3
  MaxFaults = 1
  Faults <- Kills
INVARIANT NoFalseDuplicate
CHECK_DEADLOCK FALSE
