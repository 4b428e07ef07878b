SPECIFICATION Spec
CONSTANTS
  Setting <- MCSetting
  Main <- MCMain
  Overlay <- MCOverlay
  MaxChanges = 3
INVARIANTS
  ListerTypeOK
PROPERTIES
  AttachmentsStay
  Converges
