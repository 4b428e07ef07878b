SPECIFICATION FairSpec
CONSTANTS
  p = p
  q = q
  r = r
  Pod = {p, q, r}
  Name <- MCName
  NameOf <- Distinct
  Prefix <- Exact
  Entry <- MCEntry
  NetworksSpec <- PlainQ
  Limit <- TwoForR
  MainPool = 2
  OverlayPool = 2
  Tries = 2
  Env = {"slowCheckpoint", "slowStart", "podEnds", "containerRemoved", "callFails", "scriptFails"}
CHECK_DEADLOCK FALSE
PROPERTIES
  AttachmentEnds
