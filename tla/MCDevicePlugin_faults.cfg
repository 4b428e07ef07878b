SPECIFICATION Spec
CONSTANTS
  p = p
  q = q
  r = r
  Pod = {p, q}
  Name <- MCName
  NameOf <- Distinct
  Prefix <- Exact
  Entry <- MCEntry
  NetworksSpec <- SameName
  Limit <- One
  MainPool = 1
  OverlayPool = 2
  Tries = 1
  Env = {"slowCheckpoint", "slowStart", "podEnds", "podDeleted", "shortLived", "containerRemoved", "scriptFails", "crash"}
CHECK_DEADLOCK FALSE
INVARIANTS
  TypeOK
  InterfaceInOwnNamespace
  MarkedWhenReady
  Wiring
