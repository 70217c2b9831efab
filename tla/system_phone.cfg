SPECIFICATION Spec
CONSTANTS
  NoDoc = NoDoc
  NoMessage = NoMessage
  NoKey = NoKey
  m1 = m1
  m2 = m2
  c1 = c1
  t1 = t1
  t2 = t2
  r1 = r1
  r2 = r2
  k1 = k1
  Message = {m1, m2}
  TextMessage = {m1, m2}
  Chat = {c1}
  ChatOf <- MessagesInOneChat
  HasInbox = {}
  Task = {t1, t2}
  Slots = 2
  Key = {k1}
  ChatOfKey <- OneKey
  MaxEscalations = 0
  MaxRetries = 0
  MaxFaults = 0
  Faults <- NoFaults
  Request = {r1}
  MaxStrikes = 0
  AgentFaults <- NoFaults
INVARIANT WaitingChatHasPhone
CHECK_DEADLOCK FALSE
