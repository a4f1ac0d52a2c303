------------------------------ MODULE MCApply ------------------------------
(* Instances of Apply for TLC: a Route with the Service it needs, or a        *)
(* DeploymentConfig, with a few of their fields.                              *)
EXTENDS Apply

Route   == "route/web"
Service == "svc/web"
DC      == "dc/web"

\* A configuration or template set, field by field and resource by resource.
RouteAndService(route, service) ==
  [r \in {Route, Service} |-> IF r = Route THEN route ELSE service]

MCKindOf == RouteAndService("Route", "Service")

Only(resource, fields) == [r \in Resource |-> IF r = resource THEN fields ELSE {}]
Nothing == [r \in Resource |-> {}]
NoDefault == [r \in Resource |-> NoConfig]
NoOldApplied == [r \in Resource |-> {NoConfig}]

AnyValue == ValueOrNone

Opts(command, nonInteractive, force, upsertOnly, allowRecreate, verify) ==
  [command |-> command, nonInteractive |-> nonInteractive, force |-> force,
   upsertOnly |-> upsertOnly, allowRecreate |-> allowRecreate, verify |-> verify]

-----------------------------------------------------------------------------
(* Two resources with an immutable field (/spec/host of the Route) and a     *)
(* plain one.                                                                *)

HostSpec(host, spec) == [f \in {"host", "spec"} |-> IF f = "host" THEN host ELSE spec]

FlowHostImmutable == Only(Route, {"host"})

FlowTemplates ==
  { RouteAndService(HostSpec("a", "a"), HostSpec(NoValue, "a")),
    RouteAndService(HostSpec("b", NoValue), HostSpec(NoValue, "a")),
    RouteAndService(Absent, HostSpec(NoValue, NoValue)),
    RouteAndService(Absent, Absent) }

FlowForeign == { HostSpec("b", "a"), HostSpec("a", NoValue) }

FlowOptions ==
  { Opts("diff",  TRUE,  FALSE, FALSE, TRUE,  FALSE),
    Opts("apply", TRUE,  FALSE, FALSE, FALSE, FALSE),
    Opts("apply", TRUE,  TRUE,  FALSE, TRUE,  TRUE),
    Opts("apply", FALSE, FALSE, FALSE, TRUE,  FALSE),
    Opts("apply", FALSE, TRUE,  TRUE,  FALSE, FALSE),
    Opts("apply", FALSE, FALSE, TRUE,  TRUE,  TRUE) }

-----------------------------------------------------------------------------
(* One DeploymentConfig with every class of field: a plain one the server    *)
(* defaults, an annotation, a container image, a preserved one, and a label  *)
(* the comparison is limited to: --selector label=a.                         *)

AllFields(label, spec, note, image, replicas) ==
  [f \in {"label", "spec", "note", "image", "replicas"} |->
     CASE f = "label" -> label [] f = "spec" -> spec [] f = "note" -> note
       [] f = "image" -> image [] f = "replicas" -> replicas]

FieldsKindOf    == [r \in {DC} |-> "DeploymentConfig"]
FieldsContainer == [r \in {DC} |-> {"image", "spec"}]
FieldsImage     == [r \in {DC} |-> {"image"}]
FieldsPreserved == [r \in {DC} |-> {"replicas"}]
FieldsDefault   == [r \in {DC} |-> AllFields(NoValue, "b", NoValue, NoValue, NoValue)]

\* A field of the containers that is no image is "spec".
FieldsOldApplied ==
  [r \in {DC} |-> {NoConfig, AllFields(NoValue, NoValue, NoValue, "a", NoValue)}]

FieldsTemplates ==
  { [r \in {DC} |-> c] :
      c \in { AllFields("a", "a", "a", "a", "a"),
              AllFields("a", NoValue, "b", "b", NoValue),
              AllFields("a", "b", NoValue, "a", "a"),
              AllFields("b", "a", NoValue, NoValue, NoValue),
              Absent } }

FieldsForeign ==
  { AllFields("a", "b", "b", "b", "b"), AllFields("a", "a", "a", NoValue, NoValue),
    AllFields("b", "a", NoValue, "a", "a") }

FieldsOptions ==
  { Opts("apply", TRUE,  FALSE, FALSE, FALSE, FALSE),
    Opts("apply", TRUE,  TRUE,  FALSE, FALSE, TRUE),
    Opts("apply", FALSE, TRUE,  TRUE,  TRUE,  FALSE) }

-----------------------------------------------------------------------------
(* Two resources, those with a label excluded: --exclude label=b.            *)

LabelSpec(label, spec) == [f \in {"label", "spec"} |-> IF f = "label" THEN label ELSE spec]

ScopeTemplates ==
  { RouteAndService(LabelSpec("a", "a"), LabelSpec("a", "a")),
    RouteAndService(LabelSpec("a", "b"), LabelSpec(NoValue, "a")),
    RouteAndService(LabelSpec("b", "a"), LabelSpec("a", NoValue)),
    RouteAndService(LabelSpec("b", "b"), Absent) }

ScopeForeign == { LabelSpec("a", "b"), LabelSpec("b", "a") }

NotExcluded == { "a", NoValue }

ScopeImmutable == Only(Route, {"spec"})

ScopeOptions ==
  { Opts("apply", TRUE,  FALSE, FALSE, TRUE,  FALSE),
    Opts("apply", TRUE,  TRUE,  FALSE, FALSE, TRUE),
    Opts("apply", FALSE, TRUE,  TRUE,  FALSE, FALSE) }

-----------------------------------------------------------------------------
(* A pipeline: the same non-interactive call again and again.                *)

PipelineTemplates == { RouteAndService(HostSpec("a", "a"), HostSpec(NoValue, "a")) }

PipelineOptions == { Opts("apply", TRUE, FALSE, FALSE, TRUE, TRUE) }

=============================================================================
