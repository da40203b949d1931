CONSTANTS
  Regs = {bmcr}
  Mmds = {m1, m2}
  MmdRegs = {r1, r2}
  Vals = {0, 1}
  NoVal = NoVal
  LateBlob = FALSE
  MaxRequests = 2
  bmcr = bmcr
  m1 = m1
  m2 = m2
  r1 = r1
  r2 = r2
SPECIFICATION FairSpec
INVARIANTS
  TypeOK
  FrameStable
  TimeoutMeansStuck
PROPERTIES
  EveryRequestAnswered
  RequestSpec
CHECK_DEADLOCK FALSE
