SPECIFICATION Spec
CONSTANTS
  p = p
  q = q
  r = r
  Pod = {p, q}
  Name <- MCName
  NameOf <- Reused
  Prefix <- Exact
  Entry <- MCEntry
  NetworksSpec <- OneEach
  Limit <- One
  MainPool = 1
  OverlayPool = 1
  Tries = 2
  Env = {"podEnds", "podDeleted"}
CHECK_DEADLOCK FALSE
INVARIANTS
  InterfaceInOwnNamespace
