\* --exclude label=b, and a resource whose label differs between template and cluster.
CONSTANTS
  Resource = {"route/web", "svc/web"}
  Kind = {"Route", "Service"}
  KindOf <- MCKindOf
  Field = {"label", "spec"}
  Value = {"a", "b"}
  NoValue = NoValue
  Absent = Absent
  Immutable <- ScopeImmutable
  Annotation = {}
  Container <- Nothing
  Image <- Nothing
  Preserved <- Nothing
  Targeted = {"route/web", "svc/web"}
  ScopeField = "label"
  ScopeValues <- NotExcluded
  Default <- NoDefault
  OldApplied <- NoOldApplied
  TemplateSets <- ScopeTemplates
  OptionSets <- ScopeOptions
  ForeignConfigs <- ScopeForeign
  MaxEdits = 1
  MaxFaults = 1
SPECIFICATION Spec
PROPERTY ExcludedIsUntouched
