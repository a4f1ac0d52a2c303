----------------------------- MODULE MCItemDiff -----------------------------
(* Instances of ItemDiff for TLC: a few paths of a Route and its             *)
(* annotations, of a PersistentVolumeClaim, and of an object with two fields *)
(* of similar names.                                                         *)
EXTENDS ItemDiff, TLC

\* No path is a prefix of another's text unless it contains it.
ExtendingAsUnder == [p \in Path |-> {p} \cup Under[p]]

-----------------------------------------------------------------------------
(* A Route: /spec/host is immutable, /spec/to may be an empty string,        *)
(* /spec/rules is a list with at most one element, and there are two         *)
(* annotations.                                                              *)

SpecPaths == {"spec", "spec/host", "spec/rules", "spec/rules/0", "spec/to"}
NotePaths == {"annotations", "annotations/x", "annotations/y"}
RoutePaths == SpecPaths \cup NotePaths

RouteUnder ==
  [p \in RoutePaths |-> CASE p = "spec" -> SpecPaths \ {"spec"}
                          [] p = "spec/rules" -> {"spec/rules/0"}
                          [] p = "annotations" -> NotePaths \ {"annotations"}
                          [] OTHER -> {}]

Specs(hosts, tos) ==
  {[p \in SpecPaths |-> CASE p = "spec" -> Map [] p = "spec/host" -> host
                          [] p = "spec/rules" -> r[1] [] p = "spec/rules/0" -> r[2]
                          [] p = "spec/to" -> to] :
     host \in hosts, to \in tos,
     r \in {<<NoValue, NoValue>>, <<Slice, NoValue>>, <<Slice, "a">>, <<Slice, Map>>}}

NoSpec  == [p \in SpecPaths |-> NoValue]
NoNotes == [p \in NotePaths |-> NoValue]

Notes ==
  {[p \in NotePaths |-> CASE p = "annotations" -> Map
                          [] p = "annotations/x" -> x
                          [] p = "annotations/y" -> y] :
     x \in {NoValue, "a", "b"}, y \in {NoValue, "a"}}

NotesSpec == CHOOSE s \in Specs({NoValue}, {"b"}) : s["spec/rules/0"] = "a"

\* The annotations vary for one specification.
Docs(specs) == {s @@ NoNotes : s \in specs} \cup {NotesSpec @@ n : n \in Notes}

RouteTemplates == Docs({NoSpec} \cup Specs({NoValue, "a"}, {NoValue, "a", "b", EmptyString}))

RoutePlatforms == Docs(Specs({NoValue, "a", "b"}, {NoValue, "b", EmptyString}))

RoutePreserveSets ==
  {{}, {"spec/host"}, {"spec/rules"}, {"spec/to", "annotations/x"}}

-----------------------------------------------------------------------------
(* Two siblings, the name of one beginning with the name of the other.       *)

TwinPaths == {"spec", "spec/port", "spec/ports", "spec/ports/http"}

TwinUnder ==
  [p \in TwinPaths |-> CASE p = "spec" -> TwinPaths \ {"spec"}
                         [] p = "spec/ports" -> {"spec/ports/http"}
                         [] OTHER -> {}]

TwinExtending ==
  [p \in TwinPaths |-> {p} \cup TwinUnder[p] \cup
                       IF p = "spec/port" THEN {"spec/ports", "spec/ports/http"} ELSE {}]

TwinDocs ==
  {[p \in TwinPaths |-> CASE p = "spec/port" -> port [] p = "spec/ports/http" -> http
                          [] OTHER -> Map] : port, http \in {NoValue, "a"}}

-----------------------------------------------------------------------------
(* A PersistentVolumeClaim, whose list /spec/accessModes is immutable.       *)

ClaimPaths == {"spec", "spec/accessModes", "spec/accessModes/0"}

ClaimUnder ==
  [p \in ClaimPaths |-> CASE p = "spec" -> ClaimPaths \ {"spec"}
                          [] p = "spec/accessModes" -> {"spec/accessModes/0"}
                          [] OTHER -> {}]

ClaimDocs ==
  {[p \in ClaimPaths |-> CASE p = "spec" -> Map [] p = "spec/accessModes" -> Slice
                           [] OTHER -> mode] : mode \in {"a", "b"}}

=============================================================================
