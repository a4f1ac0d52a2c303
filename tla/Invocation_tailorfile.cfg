\* Options that are given in a Tailorfile and not as flags.
CONSTANTS
  NoValue = NoValue
  KindMapping <- MCKindMapping
  AvailableKinds <- MCKinds
  Lowered <- MCLowered
  SlashedLabels <- MCSlashed
  Calls <- MCCalls
  Disks <- MCDisks
  OcSessions <- MCSessions
  UsesNamespace = {"web"}
  Items <- MCItems
  MaxSwitches = 1
SPECIFICATION Spec
INVARIANT TailorfileSuffices
CHECK_DEADLOCK FALSE
