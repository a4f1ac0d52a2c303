\* Params from every place, filters of every form, failing checks.
CONSTANTS
  NoValue = NoValue
  KindMapping <- MCKindMapping
  AvailableKinds <- MCKinds
  Lowered <- MCLowered
  SlashedLabels <- MCSlashed
  Calls <- MCCalls
  Disks <- MCDisks
  OcSessions <- MCSessions
  UsesNamespace = {"web"}
  Items <- MCItems
  MaxSwitches = 1
SPECIFICATION Spec
INVARIANTS
  TypeOK
  MostSpecificParamWins
  TempIsRemoved
  OneNamespace
  ExportCoversFilter
  ScopeIsAsAsked
CHECK_DEADLOCK FALSE
