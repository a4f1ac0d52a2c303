------------------------------- MODULE Filter -------------------------------
(***************************************************************************)
(* pkg/openshift/filter.go: which resources a run is about.                *)
(*                                                                         *)
(* A word of a resource argument or of --exclude is a record: [kind, name] *)
(* has the name "" for a kind alone, and [label |-> l] for a label.  An    *)
(* item is a record [kind, name, labels].                                  *)
(***************************************************************************)
EXTENDS Sequences, FiniteSets

CONSTANTS
  KindMapping,      \* from the names of kinds users may give to kinds
  AvailableKinds,   \* availableKinds
  Lowered,          \* from labels to the same in lower case
  SlashedLabels     \* from the labels with a "/" to the [kind, name] they are split into

\* NewResourceFilter returned an error.
InvalidFilter == [name |-> <<"invalid">>]

Words(seq) == {seq[i] : i \in DOMAIN seq}

IsLabel(word) == "label" \in DOMAIN word
IsName(word)  == ~IsLabel(word) /\ word.name # ""
IsKind(word)  == ~IsLabel(word) /\ word.name = ""

Known(word) == IsLabel(word) \/ word.kind \in DOMAIN KindMapping

\* A kind nobody knows becomes the empty string here, not an error.
NameOf(word) ==
  <<IF Known(word) THEN KindMapping[word.kind] ELSE "", word.name>>

\* For a resource with a name the excludes are not even read.
NamedFilter(arg, selector) ==
  IF Len(arg) # 1 THEN InvalidFilter
  ELSE [name |-> NameOf(arg[1]), kinds |-> {}, labels |-> Words(selector),
        excludedKinds |-> {}, excludedNames |-> {}, excludedLabels |-> {}]

\* A word of --exclude with a "/" is taken for a kind and a name, even if it is a label.
IsSlashed(word) == IsLabel(word) /\ word.label \in DOMAIN SlashedLabels

Excluded(excludes) ==
  {IF IsSlashed(w) THEN SlashedLabels[w.label] ELSE w : w \in Words(excludes)}

KindsFilter(arg, selector, excludes) ==
  IF \E w \in Words(arg) \cup Excluded(excludes) : ~Known(w) THEN InvalidFilter
  ELSE [name           |-> <<>>,
        kinds          |-> {KindMapping[w.kind] : w \in Words(arg)},
        labels         |-> Words(selector),
        excludedKinds  |-> {KindMapping[w.kind] : w \in {x \in Excluded(excludes) : IsKind(x)}},
        excludedNames  |-> {NameOf(w) : w \in {x \in Excluded(excludes) : IsName(x)}},
        excludedLabels |-> {Lowered[w.label] : w \in {x \in Excluded(excludes) : IsLabel(x)}}]

NewResourceFilter(arg, selector, excludes) ==
  IF \E w \in Words(arg) : IsName(w) THEN NamedFilter(arg, selector)
  ELSE KindsFilter(arg, selector, excludes)

\* Mutant: an excluded label excludes the items without it.
SatisfiedInverted(filter, item) ==
  /\ filter.name \in {<<>>, <<item.kind, item.name>>}
  /\ filter.kinds = {} \/ item.kind \in filter.kinds
  /\ filter.labels \subseteq item.labels
  /\ item.kind \notin filter.excludedKinds
  /\ <<item.kind, item.name>> \notin filter.excludedNames
  /\ filter.excludedLabels \subseteq item.labels

SatisfiedBy(filter, item) ==
  /\ filter.name \in {<<>>, <<item.kind, item.name>>}
  /\ filter.kinds = {} \/ item.kind \in filter.kinds
  /\ filter.labels \subseteq item.labels
  /\ item.kind \notin filter.excludedKinds
  /\ <<item.kind, item.name>> \notin filter.excludedNames
  /\ filter.excludedLabels \cap item.labels = {}

\* Mutant: a kind is not exported if one of its resources is excluded.
ConvertToFewerKinds(filter) ==
  IF filter.name # <<>> THEN {filter.name[1]}
  ELSE (IF filter.kinds = {} THEN AvailableKinds ELSE filter.kinds)
         \ (filter.excludedKinds \cup {n[1] : n \in filter.excludedNames})

ConvertToKinds(filter) ==
  IF filter.name # <<>> THEN {filter.name[1]}
  ELSE (IF filter.kinds = {} THEN AvailableKinds ELSE filter.kinds) \ filter.excludedKinds

=============================================================================
