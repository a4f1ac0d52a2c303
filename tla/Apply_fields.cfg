\* Every class of field under a label selector, over several runs with edits in between.
CONSTANTS
  Resource = {"dc/web"}
  Kind = {"DeploymentConfig"}
  KindOf <- FieldsKindOf
  Field = {"label", "spec", "note", "image", "replicas"}
  Value = {"a", "b"}
  NoValue = NoValue
  Absent = Absent
  Immutable <- Nothing
  Annotation = {"note"}
  Container <- FieldsContainer
  Image <- FieldsImage
  Preserved <- FieldsPreserved
  Targeted = {"dc/web"}
  ScopeField = "label"
  ScopeValues = {"a"}
  Default <- FieldsDefault
  OldApplied <- FieldsOldApplied
  TemplateSets <- FieldsTemplates
  OptionSets <- FieldsOptions
  ForeignConfigs <- FieldsForeign
  MaxEdits = 2
  MaxFaults = 1
SPECIFICATION Spec
INVARIANTS
  InSyncMeansReached
  NoDriftFoundMeansInSync
PROPERTIES
  OnlyReviewedFieldsChange
  DeletesAreJustified
