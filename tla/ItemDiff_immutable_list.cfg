\* The comparison ends.
CHECK_DEADLOCK FALSE
SPECIFICATION Spec
CONSTANTS
  Path <- ClaimPaths
  Under <- ClaimUnder
  Extending <- ExtendingAsUnder
  ImmutablePath = {"spec/accessModes"}
  AnnotationsPath = "annotations"
  Scalar = {"a", "b", ""}
  EmptyString = ""
  Map = Map
  Slice = Slice
  NoValue = NoValue
  TemplateDocs <- ClaimDocs
  PlatformDocs <- ClaimDocs
  PreserveSets = {{}}
INVARIANTS
  ImmutableChangesAreDetected
