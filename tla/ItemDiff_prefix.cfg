\* The comparison ends.
CHECK_DEADLOCK FALSE
SPECIFICATION Spec
CONSTANTS
  Path <- TwinPaths
  Under <- TwinUnder
  Extending <- TwinExtending
  ImmutablePath = {}
  AnnotationsPath = "annotations"
  Scalar = {"a", "b", ""}
  EmptyString = ""
  Map = Map
  Slice = Slice
  NoValue = NoValue
  TemplateDocs <- TwinDocs
  PlatformDocs <- TwinDocs
  PreserveSets = {{}}
INVARIANTS
  DesiredIsWhatWasAsked
