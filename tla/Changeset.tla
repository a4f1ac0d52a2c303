----------------------------- MODULE Changeset -----------------------------
(***************************************************************************)
(* pkg/openshift/changeset.go: from the list of template items (desired    *)
(* state) and the list of platform items (current state), the changes that *)
(* reconcile them, and the order in which they are carried out.            *)
(*                                                                         *)
(* A list is a function from resources to items, Absent where the list has *)
(* no item of that kind and name.                                          *)
(*                                                                         *)
(* Definitions marked "Mutant" are faulty variants of the one that follows *)
(* them.  No specification uses them: substituted for it, each makes TLC   *)
(* find a property violated.                                               *)
(***************************************************************************)
EXTENDS Resources

Action == {"Delete", "Create", "Update"}

\* A Change; Noop changes are only counted and printed.
Change == [action : Action, resource : Resource]

NoItems == [r \in Resource |-> Absent]

Overwritten(config, values) ==
  [f \in Field |-> IF values[f] # NoValue THEN values[f] ELSE config[f]]

HasContainers(r, config) == \E f \in Container[r] : config[f] # NoValue

\* Mutant: the annotation of old versions counts whatever was applied since.
AppliedWithOldAnnotation(r, item) ==
  [f \in Field |->
     IF item.tac[f] # NoValue THEN item.tac[f]
     ELSE IF f \in Image[r] /\ HasContainers(r, item.config) THEN item.lac[f]
     ELSE NoValue]

\* The values of a DeploymentConfig that something else than tailor, such as an
\* image trigger, may have changed since tailor applied them: the images of its
\* last applied configuration or, if that has no containers, the fields an old
\* version recorded.
AppliedValues(r, item) ==
  [f \in Field |->
     IF ~HasContainers(r, item.lac) THEN item.tac[f]
     ELSE IF f \in Image[r] /\ HasContainers(r, item.config) THEN item.lac[f]
     ELSE NoValue]

\* parseConfig of a platform item pastes these values over the live ones.
Parsed(r, item) ==
  [item EXCEPT !.config = Overwritten(item.config, AppliedValues(r, item))]

\* prepareForComparisonWithPlatformItem: preserved paths take the platform's
\* value, or are removed if the platform has none.
PreparedTemplate(r, template, platform) ==
  [f \in Field |-> IF f \in Preserved[r] THEN platform.config[f] ELSE template[f]]

\* Mutant: annotations tailor applied earlier are removed like unmanaged ones.
PreparedWithoutAnnotations(template, platform) ==
  [f \in Field |-> IF f \in Annotation /\ template[f] = NoValue
                   THEN NoValue ELSE platform.config[f]]

\* prepareForComparisonWithTemplateItem: annotations that neither the template
\* nor the last applied configuration has are not managed, and are removed.
PreparedPlatform(template, platform) ==
  [f \in Field |->
     IF f \in Annotation /\ template[f] = NoValue /\ platform.lac[f] = NoValue
     THEN NoValue ELSE platform.config[f]]

\* calculateChanges meets a path of the template that is immutable and has
\* another value, or none, in the platform item.
ImmutableDrift(r, template, platform) ==
  \E f \in Immutable[r] \ Preserved[r] :
     template[f] # NoValue /\ platform.config[f] # template[f]

InBoth(tl, pl) == {r \in Resource : tl[r] # Absent /\ pl[r] # Absent}

ToRecreate(tl, pl) == {r \in InBoth(tl, pl) : ImmutableDrift(r, tl[r], pl[r])}

\* Mutant: paths only the platform item has are not compared.
UpdateTemplatePathsOnly(tl, pl) ==
  {r \in InBoth(tl, pl) \ ToRecreate(tl, pl) :
     \E f \in Field : /\ PreparedTemplate(r, tl[r], pl[r])[f] # NoValue
                      /\ PreparedTemplate(r, tl[r], pl[r])[f]
                           # PreparedPlatform(tl[r], pl[r])[f]}

\* NewChange: the prepared documents differ.
ToUpdate(tl, pl) ==
  {r \in InBoth(tl, pl) \ ToRecreate(tl, pl) :
     PreparedTemplate(r, tl[r], pl[r]) # PreparedPlatform(tl[r], pl[r])}

ToDelete(tl, pl, upsertOnly) ==
  {r \in Resource : pl[r] # Absent /\ tl[r] = Absent /\ ~upsertOnly}

ToCreate(tl, pl) == {r \in Resource : tl[r] # Absent /\ pl[r] = Absent}

Changes(action, resources) == {[action |-> action, resource |-> r] : r \in resources}

\* Mutant: a resource to recreate is only deleted.
ChangesetWithoutRecreation(tl, pl, upsertOnly) ==
  Changes("Delete", ToDelete(tl, pl, upsertOnly) \cup ToRecreate(tl, pl))
    \cup Changes("Create", ToCreate(tl, pl))
    \cup Changes("Update", ToUpdate(tl, pl))

\* NewChangeset.  A resource to recreate gets two changes (recreateChanges).
NewChangeset(tl, pl, upsertOnly) ==
  Changes("Delete", ToDelete(tl, pl, upsertOnly) \cup ToRecreate(tl, pl))
    \cup Changes("Create", ToCreate(tl, pl) \cup ToRecreate(tl, pl))
    \cup Changes("Update", ToUpdate(tl, pl))

\* Mutant: the template as it is in the file, before preserved paths were set.
DesiredUnprepared(r, tl, pl) == tl[r]

\* The configuration a Create or Update change passes to `oc apply`.
DesiredState(r, tl, pl) ==
  IF pl[r] = Absent THEN tl[r] ELSE PreparedTemplate(r, tl[r], pl[r])

\* Mutant: recreated resources are created before they are deleted.
CreatesFirst == [Delete |-> 2, Create |-> 1, Update |-> 3]

Phase == [Delete |-> 1, Create |-> 2, Update |-> 3]

\* Mutant: deletes are sorted by kind upwards, like the others.
BeforeAscending(c, d) ==
  \/ Phase[c.action] < Phase[d.action]
  \/ c.action = d.action /\ Order(c.resource) < Order(d.resource)

\* Deletes come first, then creates, then updates; within each the changes are
\* sorted by kind, deletes downwards.  The sort is not stable: changes of one
\* kind may come in any order.
Before(c, d) ==
  \/ Phase[c.action] < Phase[d.action]
  \/ /\ c.action = d.action
     /\ IF c.action = "Delete" THEN Order(c.resource) > Order(d.resource)
                               ELSE Order(c.resource) < Order(d.resource)

=============================================================================
