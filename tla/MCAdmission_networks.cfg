SPECIFICATION Spec
CONSTANTS
  h1 = h1
  h2 = h2
  a = a
  b = b
  NetworkName <- MCNetworkName
  NetworkList <- MCNetworkList
  NoPhysnet = ""
  Main = "main"
  Overlay = "overlay"
  Handler = {h1}
  PodName = {a}
  PortNames <- TwoNames
  Mac = {m1}
  Annotation <- AllDistinct
  Env = {"createFails"}
  MaxCreates = 1
  MaxVersion = 1
CHECK_DEADLOCK FALSE
INVARIANTS
  FreshPodFullyWired
  SidecarArgsMatchSpec
  ResourcesMatchNetworks
