------------------------------ MODULE Cluster ------------------------------
(***************************************************************************)
(* The OpenShift cluster as tailor's commands see it.  The server is not   *)
(* part of the repository: the operators below say what `oc apply` and     *)
(* `oc delete` do to one resource, from the way pkg/cli/oc_client.go calls *)
(* them and from what item.go and the README expect of them: the           *)
(* three-way merge with the last applied configuration, the defaults the   *)
(* server fills in, and its refusal to change an immutable field.          *)
(***************************************************************************)
EXTENDS Resources

CONSTANTS
  Default,     \* per resource: what the server sets in fields left out
  OldApplied   \* per resource: what tailor.opendevstack.org/applied-config may
               \* hold; NoConfig stands for no such annotation

ASSUME DefaultAssumption == Default \in [Resource -> Config]

\* The versions that wrote this annotation recorded container images in it.
ASSUME OldAppliedAssumption ==
  /\ OldApplied \in [Resource -> SUBSET Config]
  /\ \A r \in Resource : \A tac \in OldApplied[r] :
       \A f \in Field \ Image[r] : tac[f] = NoValue

Defaulted(r, config) ==
  [f \in Field |-> IF config[f] = NoValue THEN Default[r][f] ELSE config[f]]

\* A resource somebody else created, or a tailor of before 0.13: there is no
\* last applied configuration.
Foreign(r, config, tac) ==
  [config |-> Defaulted(r, config), lac |-> NoConfig, tac |-> tac]

\* A live resource somebody gave another configuration.
Edited(r, live, config) == [live EXCEPT !.config = Defaulted(r, config)]

\* A field is set to its desired value, removed if only the last applied
\* configuration had it, and left alone otherwise.
ThreeWayMerge(live, desired) ==
  [f \in Field |->
     IF desired[f] # NoValue THEN desired[f]
     ELSE IF live.lac[f] # NoValue THEN NoValue ELSE live.config[f]]

\* The resource after `oc apply` of the desired configuration, which records it
\* and leaves the annotation of old versions where it is.
OcApplied(r, live, desired) ==
  [config |-> Defaulted(r, IF live = Absent THEN desired
                                            ELSE ThreeWayMerge(live, desired)),
   lac    |-> desired,
   tac    |-> IF live = Absent THEN NoConfig ELSE live.tac]

\* The server refuses to change an immutable field of an existing resource.
OcAdmits(r, live, desired) ==
  live # Absent =>
    \A f \in Immutable[r] : OcApplied(r, live, desired).config[f] = live.config[f]

=============================================================================
