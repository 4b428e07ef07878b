SPECIFICATION FairSpec
CONSTANTS
  h1 = h1
  h2 = h2
  a = a
  b = b
  NetworkName <- MCNetworkName
  NetworkList <- MCNetworkList
  NoPhysnet = ""
  Main = "main"
  Overlay = "overlay"
  PortNames <- OneName
  Mac = {m1}
  Handler = {h1}
  PodName = {a}
  Annotation <- Single
  Env = {"statusUpdate"}
  MaxCreates = 1
  MaxVersion = 2
CHECK_DEADLOCK FALSE
PROPERTY
  DeletionCompletes
