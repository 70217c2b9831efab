SPECIFICATION Spec
CONSTANTS
  NoDoc = NoDoc
  NoMessage = NoMessage
  m1 = m1
  m2 = m2
  c1 = c1
  c2 = c2
  t1 = t1
  t2 = t2
  t3 = t3
  Message = {m1, m2}
  TextMessage = {m1}
  Chat = {c1}
  ChatOf <- OneChat
  HasInbox = {c1}
  Task = {t1, t2, t3}
  Slots = 2
  MaxRetries = 1
  MaxFaults = 2
  Faults <- AllFaults
SYMMETRY Symmetric
INVARIANTS TypeOK ClaimIsExclusive SendsPaidByFaults TranscriptMatchesSends
PROPERTY KeepsLedger
CHECK_DEADLOCK FALSE
