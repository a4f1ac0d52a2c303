----------------------------- MODULE Resources -----------------------------
(***************************************************************************)
(* The data every part of tailor works on: resources, the configuration a  *)
(* template or the cluster gives them, and the order of their kinds.       *)
(*                                                                         *)
(* A resource is identified by its kind and name (item.go, FullName).  Its *)
(* YAML document is abstracted to a function from a few fields (the JSON   *)
(* pointers of the code) to values; NoValue stands for a path that is not  *)
(* in the document, and Absent for a resource that does not exist.         *)
(***************************************************************************)
EXTENDS Integers

CONSTANTS
  Resource,     \* kind/name pairs
  Kind,         \* the kinds of these resources
  KindOf,       \* the kind of each resource
  Field,        \* the JSON pointers the model distinguishes
  Value,        \* the values a field may have
  NoValue,      \* the pointer does not exist in the document
  Absent,       \* the resource does not exist
  Immutable,    \* per resource: the immutable fields of its kind
  Annotation,   \* the fields under /metadata/annotations
  Container,    \* per resource: the fields below the list of containers, if it
                \* is a DeploymentConfig
  Image,        \* per resource: those of them that are container images
  Preserved,    \* per resource: the paths --preserve names for it
  Targeted,     \* the resources the kind, name and exclude arguments leave in
  ScopeField,   \* the label that --selector or a label --exclude looks at
  ScopeValues   \* the values of that label the filter accepts

ValueOrNone == Value \cup {NoValue}

Config == [Field -> ValueOrNone]

NoConfig == [f \in Field |-> NoValue]

\* What the cluster holds for a resource: its configuration and the content of
\* two of its annotations: kubectl.kubernetes.io/last-applied-configuration and
\* tailor.opendevstack.org/applied-config, in which tailor recorded the values
\* of a few fields before version 0.13.
LiveItem == [config : Config, lac : Config, tac : Config]

ConfigOrAbsent == Config \cup {Absent}
LiveItemOrAbsent == LiveItem \cup {Absent}

ASSUME ResourceAssumption ==
  /\ KindOf \in [Resource -> Kind]
  /\ Targeted \subseteq Resource
  /\ NoValue \notin Value

ASSUME FieldAssumption ==
  /\ Immutable \in [Resource -> SUBSET Field]
  /\ Container \in [Resource -> SUBSET Field]
  /\ Image \in [Resource -> SUBSET Field]
  /\ \A r \in Resource : Image[r] \subseteq Container[r]
  /\ Preserved \in [Resource -> SUBSET Field]
  /\ Annotation \subseteq Field
  /\ ScopeField \in Field
  /\ ScopeValues \subseteq ValueOrNone

\* Annotations, images and immutable fields are different fields; preserving an
\* annotation is left to the model of the field comparison.
ASSUME DisjointAssumption ==
  \A r \in Resource : /\ Annotation \cap (Immutable[r] \cup Image[r] \cup Preserved[r]) = {}
                      /\ Immutable[r] \cap Image[r] = {}

ASSUME AbsentAssumption == Absent \notin Config /\ Absent \notin LiveItem

(***************************************************************************)
(* kindOrder: resources without dependencies come first.  A kind that is   *)
(* not in the table has the empty string as its order and sorts before all *)
(* of them.                                                                *)
(***************************************************************************)
KindSequence ==
  << "Template", "ServiceAccount", "RoleBinding", "ConfigMap", "Secret",
     "LimitRange", "ResourceQuota", "PersistentVolumeClaim", "CronJob", "Job",
     "ImageStream", "BuildConfig", "StatefulSet", "DeploymentConfig",
     "Deployment", "HorizontalPodAutoscaler", "Service", "Route" >>

KindOrder ==
  [k \in Kind |->
     IF \E i \in 1..18 : KindSequence[i] = k
     THEN CHOOSE i \in 1..18 : KindSequence[i] = k
     ELSE 0]

Order(r) == KindOrder[KindOf[r]]

\* SatisfiedBy: kind and name decide for the resource, labels for each of its
\* two documents on its own.
SatisfiedBy(r, config) == r \in Targeted /\ config[ScopeField] \in ScopeValues

=============================================================================
