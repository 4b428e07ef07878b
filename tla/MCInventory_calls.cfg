SPECIFICATION Spec
CONSTANTS
  IP = {i1, i2, i3, i4}
  Arguments <- MCArguments
  Files <- MCFiles
  Prefix = "node"
  ScaleThreshold = 4
  MassiveScaleThreshold = 4
  MaxHostID = 5
SYMMETRY Symmetry
CHECK_DEADLOCK FALSE
INVARIANTS
  InventoryTypeOK
  MembersAreHosts
PROPERTIES
  OthersKept
  OneNamePerAddress
  Deployable
