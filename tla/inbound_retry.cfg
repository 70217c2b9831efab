SPECIFICATION FairSpec
CONSTANTS
  NoDoc = NoDoc
  NoMessage = NoMessage
  m1 = m1
  m2 = m2
  c1 = c1
  c2 = c2
  t1 = t1
  t2 = t2
  t3 = t3
  Message = {m1, m2}
  TextMessage = {m1, m2}
  Chat = {c1}
  ChatOf <- OneChat
  HasInbox = {c1}
  Task = {t1, t2}
  Slots = 2
  MaxRetries = 2
  MaxFaults = 1
  Faults <- CallFaults
INVARIANTS NoFalseDuplicate EscalationIsNotified
PROPERTIES EveryEventIsSettled QuietUnlessOvertaken
CHECK_DEADLOCK FALSE
