SPECIFICATION Spec
CONSTANTS
  NoDoc = NoDoc
  NoKey = NoKey
  r1 = r1
  r2 = r2
  r3 = r3
  k1 = k1
  k2 = k2
  c1 = c1
  Chat = {c1}
  Request = {r1, r2}
  Key = {k1}
  ChatOfKey <- OneKey
  MaxStrikes = 1
  MaxEscalations = 1
  AgentFaults <- MarkFails
INVARIANT AtMostOnce
CHECK_DEADLOCK FALSE
