\* The comparison ends.
CHECK_DEADLOCK FALSE
SPECIFICATION Spec
CONSTANTS
  Path <- RoutePaths
  Under <- RouteUnder
  Extending <- ExtendingAsUnder
  ImmutablePath = {"spec/host"}
  AnnotationsPath = "annotations"
  Scalar = {"a", "b", ""}
  EmptyString = ""
  Map = Map
  Slice = Slice
  NoValue = NoValue
  TemplateDocs <- RouteTemplates
  PlatformDocs <- RoutePlatforms
  PreserveSets <- RoutePreserveSets
INVARIANTS
  TypeOK
  AgreesWithChangeset
  DesiredIsWhatWasAsked
  PreservedPathsAreNoOps
