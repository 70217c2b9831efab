SPECIFICATION Spec
CONSTANTS
  n1 = n1
  n2 = n2
  b1 = b1
  b2 = b2
  w1 = w1
  p1 = p1
  toB1 = toB1
  toB2 = toB2
  toNobody = toNobody
  old = old
  new = new
  plans = plans
  NoBrand = NoBrand
  NoConnection = NoConnection
  SwitchedOff = SwitchedOff
  Nothing = Nothing
  Insignificant <- SmallWords
  OwnNumber = n1
  OwnBrand = b1
  Call = {w1}
  TTL = 2
  Key = {n1, b1}
  Value <- PlanVersionSet
  Number = {n1}
  Brand = {b1}
  Legal <- PlanVersions
  FactsIn <- PlanFacts
  BrandOf <- Connected
  Question <- PlanQuestions
  Proc = {p1}
  ProcOf <- OneProcess
  MaxNow = 2
  MaxWrites = 0
INVARIANT NoCrossMatch
CHECK_DEADLOCK FALSE
