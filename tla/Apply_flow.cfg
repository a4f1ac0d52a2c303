\* Every path through a run, with edits, failures and crashes in between.
CONSTANTS
  Resource = {"route/web", "svc/web"}
  Kind = {"Route", "Service"}
  KindOf <- MCKindOf
  Field = {"host", "spec"}
  Value = {"a", "b"}
  NoValue = NoValue
  Absent = Absent
  Immutable <- FlowHostImmutable
  Annotation = {}
  Container <- Nothing
  Image <- Nothing
  Preserved <- Nothing
  Targeted = {"route/web", "svc/web"}
  ScopeField = "spec"
  ScopeValues <- AnyValue
  Default <- NoDefault
  OldApplied <- NoOldApplied
  TemplateSets <- FlowTemplates
  OptionSets <- FlowOptions
  ForeignConfigs <- FlowForeign
  MaxEdits = 1
  MaxFaults = 1
SPECIFICATION Spec
INVARIANTS
  TypeOK
  DependenciesFirst
  ExitCodeIsTruthful
  InSyncMeansReached
  NoDriftFoundMeansInSync
  RefusedIsUntouched
PROPERTY DeletesAreJustified
