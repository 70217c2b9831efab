SPECIFICATION Spec
CONSTANTS
  NoDoc = NoDoc
  NoKey = NoKey
  r1 = r1
  r2 = r2
  r3 = r3
  k1 = k1
  k2 = k2
  c1 = c1
  Chat = {c1}
  Request = {r1, r2, r3}
  Key = {k1, k2}
  ChatOfKey <- OneChat
  MaxStrikes = 2
  MaxEscalations = 2
  AgentFaults <- AllFaults
SYMMETRY Symmetric
INVARIANTS TypeOK KeyIsExclusive DeliveriesPaidByDoubts AnswersAreTrue ErrorIsRepeatable
PROPERTY KeepsLedger
CHECK_DEADLOCK FALSE
