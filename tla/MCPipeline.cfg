SPECIFICATION Spec
CONSTANTS
  w1 = w1
  w2 = w2
  t1 = t1
  t2 = t2
  t3 = t3
  a1 = a1
  Workers = {w1, w2}
  Tenants = {t1, t2, t3}
  Agents = {a1}
  NEvents = 3
  Mixes <- AllMixes
  Answers = {"ok", "client", "transport"}
  BatchSize = 2
  CsvSize = 2
  EndAfter = 2
  BufferSize = 1
  MinTotalForGate = 1
  ShareNum = 1
  ShareDen = 1
SYMMETRY Symmetry
INVARIANTS Conservation CleanRunBalances DeliverySound KeepsGoing
CHECK_DEADLOCK FALSE
