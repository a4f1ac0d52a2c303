\* A pipeline that calls tailor until nothing is left to do.
CONSTANTS
  Resource = {"route/web", "svc/web"}
  Kind = {"Route", "Service"}
  KindOf <- MCKindOf
  Field = {"host", "spec"}
  Value = {"a", "b"}
  NoValue = NoValue
  Absent = Absent
  Immutable <- FlowHostImmutable
  Annotation = {}
  Container <- Nothing
  Image <- Nothing
  Preserved <- Nothing
  Targeted = {"route/web", "svc/web"}
  ScopeField = "spec"
  ScopeValues <- AnyValue
  Default <- NoDefault
  OldApplied <- NoOldApplied
  TemplateSets <- PipelineTemplates
  OptionSets <- PipelineOptions
  ForeignConfigs <- FlowForeign
  MaxEdits = 2
  MaxFaults = 2
SPECIFICATION FairSpec
PROPERTIES
  RunTerminates
  EventuallyReached
