SPECIFICATION Spec
CONSTANTS
  h1 = h1
  h2 = h2
  a = a
  b = b
  NetworkName <- MCNetworkName
  NetworkList <- MCNetworkList
  NoPhysnet = ""
  Main = "main"
  Overlay = "overlay"
  Mac = {m}
  Handler = {h1, h2}
  PodName = {a, b}
  PortNames <- OneName
  Annotation <- TwoOrNone
  Env = {"createFails", "createReplyLost", "rejected", "deleteFails", "deleteReplyLost", "apiFails", "updateReplyLost", "crash", "timeout", "statusUpdate", "overlap", "copiedSpec"}
  MaxCreates = 2
  MaxVersion = 2
SYMMETRY Symmetry
CHECK_DEADLOCK FALSE
INVARIANTS
  TypeOK
  PortsAccountedFor
  Accounting
  SpecsNameStoredPods
PROPERTY
  ClearedOnlyWhenPortsGone
  LeaseKept
