SPECIFICATION PodSpec
CONSTANTS
  p = p
  q = q
  Pod = {p, q}
  Name <- MCName
  NameOf <- Distinct
  Prefix <- Exact
  Entry <- MCEntry
  NetworksSpec <- TwoAndOne
  Limit <- One
  MainPool = 2
  OverlayPool = 2
  Tries = 2
  Env = {}
  Args <- NoneForQ
  DhclientFails = TRUE
CHECK_DEADLOCK FALSE
INVARIANTS
  PodTypeOK
  GoroutineServesItsPod
  ClientsStayInPod
PROPERTIES
  FullyServed
