SPECIFICATION Spec
CONSTANTS
  n1 = n1
  n2 = n2
  b1 = b1
  b2 = b2
  w1 = w1
  p1 = p1
  toB1 = toB1
  toB2 = toB2
  toNobody = toNobody
  old = old
  new = new
  plans = plans
  NoBrand = NoBrand
  NoConnection = NoConnection
  SwitchedOff = SwitchedOff
  Nothing = Nothing
  Insignificant <- SmallWords
  OwnNumber = n1
  OwnBrand = b1
  Call = {w1}
  TTL = 2
  Key = {n1, n2, b1, b2}
  Value <- VersionSet
  Number = {n1, n2}
  Brand = {b1, b2}
  Legal <- Versions
  FactsIn <- Facts
  BrandOf <- Connected
  Question <- Questions
  Proc = {p1}
  ProcOf <- OneProcess
  MaxNow = 4
  MaxWrites = 1
INVARIANT SwitchedOffIsDropped
CHECK_DEADLOCK FALSE
