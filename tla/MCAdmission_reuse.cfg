SPECIFICATION Spec
CONSTANTS
  h1 = h1
  h2 = h2
  a = a
  b = b
  NetworkName <- MCNetworkName
  NetworkList <- MCNetworkList
  NoPhysnet = ""
  Main = "main"
  Overlay = "overlay"
  Handler = {h1, h2}
  PodName = {a}
  PortNames <- TwoNames
  Mac = {m1}
  Annotation <- Single
  Env = {"nameReuse", "overlap", "statusUpdate", "updateReplyLost", "timeout", "crash"}
  MaxCreates = 3
  MaxVersion = 2
SYMMETRY Symmetry
CHECK_DEADLOCK FALSE
INVARIANTS
  FreshPodFullyWired
PROPERTY
  ClearedOnlyWhenPortsGone
