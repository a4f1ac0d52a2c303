------------------------------ MODULE ItemDiff ------------------------------
(***************************************************************************)
(* calculateChanges of pkg/openshift/changeset.go: the comparison of a     *)
(* template item with the platform item of the same kind and name, one     *)
(* JSON pointer after the other.                                           *)
(*                                                                         *)
(* The pointers of a document come from walkMap, which ranges over Go maps *)
(* and so yields the children of an object in any order.  Meanwhile the    *)
(* loops change the documents they compare.  The model visits the paths in *)
(* every possible order.                                                   *)
(***************************************************************************)
CONSTANTS
  Path,             \* JSON pointers
  Under,            \* per path: the pointers to what it contains
  Extending,        \* per path: the paths whose text starts with its text
  ImmutablePath,    \* immutableFields of the item's kind
  AnnotationsPath,  \* /metadata/annotations
  Scalar,           \* values that are neither objects nor lists
  EmptyString,      \* one of them
  Map, Slice,       \* an object, a list
  NoValue,          \* the pointer does not exist
  TemplateDocs,     \* the template items compared
  PlatformDocs,     \* the platform items compared
  PreserveSets      \* the paths preserved for the item

Node == Scalar \cup {Map, Slice}

\* Only objects and lists contain something.
Document ==
  {d \in [Path -> Node \cup {NoValue}] :
     \A p \in Path : \A q \in Under[p] : d[q] # NoValue => d[p] \in {Map, Slice}}

ASSUME PathAssumption ==
  /\ Under \in [Path -> SUBSET Path] /\ Extending \in [Path -> SUBSET Path]
  /\ \A p \in Path : /\ p \notin Under[p] /\ {p} \cup Under[p] \subseteq Extending[p]
                     /\ \A q \in Under[p] : Under[q] \subseteq Under[p]
  /\ ImmutablePath \subseteq Path
  /\ EmptyString \in Scalar /\ NoValue \notin Node /\ Map \notin Scalar /\ Slice \notin Scalar

\* Paths form a tree, and an annotation is a text.
ASSUME TreeAssumption ==
  /\ \A p, q \in Path : Under[p] \cap Under[q] # {} => p = q \/ p \in Under[q] \/ q \in Under[p]
  /\ AnnotationsPath \in Path => \A p \in Under[AnnotationsPath] : Under[p] = {}

ASSUME DocumentAssumption ==
  /\ TemplateDocs \subseteq Document /\ PlatformDocs \subseteq Document
  /\ \A paths \in PreserveSets : paths \subseteq Path /\ \A p, q \in paths : p \notin Under[q]

VARIABLES
  pc,            \* "prepare", "template", "platform" or "done"
  allowRecreate, \* --allow-recreate
  preserve,      \* preservePaths
  templateItem,  \* the template item as it was parsed
  platformItem,  \* the platform item as it was parsed
  lastApplied,   \* its LastAppliedAnnotations
  template,      \* templateItem.Config
  platform,      \* platformItem.Config
  left,          \* the paths the loop has still to visit
  compared, added, deleted,  \* comparedPaths, addedPaths, deletedPaths
  outcome        \* the action of the change, or the error

items == <<allowRecreate, preserve, templateItem, platformItem, lastApplied>>
vars  == <<pc, items, template, platform, left, compared, added, deleted, outcome>>

PathsOf(d) == {p \in Path : d[p] # NoValue}
Subtree(p) == {p} \cup Under[p]
Above(p)   == {q \in Path : p \in Under[q]}
IsEmpty(d, p) == d[p] \in {Map, Slice} /\ Under[p] \cap PathsOf(d) = {}

\* utils.IncludesPrefix compares the text of the paths.
IncludesPrefix(prefixes, p) == \E q \in prefixes : p \in Extending[q]

Without(d, paths) == [p \in Path |-> IF p \in paths THEN NoValue ELSE d[p]]

\* Mutant: a value can be set anywhere.
CanSetAnywhere(d, p) == TRUE

\* A value can be set if its parent is an object, or a list that is long enough.
CanSet(d, p) ==
  /\ \A q \in Above(p) : d[q] \in {Map, Slice}
  /\ \A q \in Above(p) :
       d[q] = Slice /\ Above(p) \cap Under[q] = {} => d[p] # NoValue

AnnotationsOf(d) ==
  IF AnnotationsPath \in Path THEN Under[AnnotationsPath] \cap PathsOf(d) ELSE {}

TypeOK ==
  /\ pc \in {"prepare", "template", "platform", "done"}
  /\ allowRecreate \in BOOLEAN
  /\ preserve \in PreserveSets
  /\ templateItem \in TemplateDocs /\ platformItem \in PlatformDocs
  /\ lastApplied \subseteq Path
  /\ template \in Document /\ platform \in Document
  /\ left \subseteq Path /\ compared \subseteq Path
  /\ added \subseteq Path /\ deleted \subseteq Path
  /\ outcome \in {"none", "Noop", "Update", "recreate", "protected", "failed"}

Init ==
  /\ pc = "prepare" /\ outcome = "none"
  /\ allowRecreate \in BOOLEAN
  /\ preserve \in PreserveSets
  /\ templateItem \in TemplateDocs /\ platformItem \in PlatformDocs
  /\ lastApplied \in SUBSET AnnotationsOf(platformItem)
  /\ template = templateItem /\ platform = platformItem
  /\ left = {} /\ compared = {} /\ added = {} /\ deleted = {}

-----------------------------------------------------------------------------
(* Preparation of the two items.                                            *)

\* Mutant: a path the platform lacks stays in the template.
CopiedIfExisting ==
  {p \in preserve : platformItem[p] # NoValue /\ CanSet(templateItem, p)}

\* The paths whose value is taken from the platform: it is set in the template,
\* or deleted there.  Setting it fails where the template lacks its parent.
Copied == {p \in preserve : platformItem[p] = NoValue \/ CanSet(templateItem, p)}

\* Mutant: the last applied annotations are forgotten.
UnmanagedByTemplate == AnnotationsOf(platformItem) \ AnnotationsOf(templateItem)

\* Annotations that nobody manages.
Unmanaged == AnnotationsOf(platformItem) \ (AnnotationsOf(templateItem) \cup lastApplied)

\* prepareForComparisonWithPlatformItem and prepareForComparisonWithTemplateItem.
\* A copied object is shared by both items: what is deleted from it, both lose.
Prepare ==
  /\ pc = "prepare" /\ pc' = "template"
  /\ template' =
       [p \in Path |->
          IF \E q \in Copied : p \in Subtree(q)
          THEN IF p \in Unmanaged /\ \E q \in Copied : p \in Under[q]
               THEN NoValue ELSE platformItem[p]
          ELSE templateItem[p]]
  /\ platform' = Without(platformItem, Unmanaged)
  /\ left' = PathsOf(templateItem)
  /\ UNCHANGED <<items, compared, added, deleted, outcome>>

-----------------------------------------------------------------------------
(* The two loops.                                                           *)

\* walkMap lists a path, then all it contains, then the next: the paths that
\* may follow when those of "all" that are not left were visited.
Upcoming(all) ==
  {p \in left :
     /\ Above(p) \cap left = {}
     /\ \A q \in all \ left : Under[q] \cap left # {} => p \in Under[q]}

\* The change of an immutable field: recreateChanges or recreateProtectionError.
Recreate ==
  /\ pc' = "done"
  /\ outcome' = IF allowRecreate THEN "recreate" ELSE "protected"
  /\ UNCHANGED <<template, compared, added>>

\* A subpath of an added path, or a preserved path: a no-op.
Skipped(p) ==
  /\ IncludesPrefix(added, p) \/ IncludesPrefix(preserve, p)
  /\ compared' = IF IncludesPrefix(added, p) THEN compared ELSE compared \cup {p}
  /\ UNCHANGED <<pc, template, added, outcome>>

\* The path exists in the template only.  An empty string is dropped from it.
OnlyInTemplate(p) ==
  /\ ~IncludesPrefix(added \cup preserve, p) /\ platform[p] = NoValue
  /\ \/ p \in ImmutablePath /\ Recreate
     \/ /\ p \notin ImmutablePath
        /\ compared' = compared \cup {p}
        /\ IF template[p] = EmptyString
           THEN template' = Without(template, {p}) /\ added' = added
           ELSE template' = template /\ added' = added \cup {p}
        /\ UNCHANGED <<pc, outcome>>

\* The path exists in both.  Objects and lists are left to their subpaths.
InBoth(p) ==
  /\ ~IncludesPrefix(added \cup preserve, p) /\ platform[p] # NoValue
  /\ IF p \in ImmutablePath /\ template[p] \in Scalar /\ template[p] # platform[p]
     THEN Recreate
     ELSE compared' = compared \cup {p} /\ UNCHANGED <<pc, template, added, outcome>>

VisitTemplatePath(p) ==
  /\ pc = "template" /\ p \in Upcoming(PathsOf(templateItem))
  /\ left' = left \ {p}
  /\ Skipped(p) \/ OnlyInTemplate(p) \/ InBoth(p)
  /\ UNCHANGED <<items, platform, deleted>>

\* The copied paths come last in templateItem.Paths, with all below them.
FinishTemplatePaths ==
  /\ pc = "template" /\ left = {}
  /\ pc' = "platform"
  /\ compared' = compared \cup
       {p \in PathsOf(platformItem) : /\ \E q \in Copied : p \in Subtree(q)
                                      /\ ~IncludesPrefix(added, p)}
  /\ left' = PathsOf(platformItem) \ Unmanaged
  /\ UNCHANGED <<items, template, platform, added, deleted, outcome>>

KnownOrGone(p) == p \in compared \/ IncludesPrefix(deleted, p)

\* Mutant: compared paths are filled as well.
FillAnyEmpty(p) ==
  /\ ~IncludesPrefix(deleted, p) /\ IsEmpty(platform, p)
  /\ IF CanSet(template, p)
     THEN /\ template' = [Without(template, Under[p]) EXCEPT ![p] = platform[p]]
          /\ UNCHANGED <<pc, outcome>>
     ELSE pc' = "done" /\ outcome' = "failed" /\ UNCHANGED template
  /\ UNCHANGED <<compared, deleted>>

\* A path to an empty object or list only the platform has: it is set in the
\* template as well, which fails if the template has no place for it.
FillEmpty(p) ==
  /\ ~KnownOrGone(p) /\ IsEmpty(platform, p)
  /\ IF CanSet(template, p)
     THEN /\ template' = [Without(template, Under[p]) EXCEPT ![p] = platform[p]]
          /\ UNCHANGED <<pc, outcome>>
     ELSE pc' = "done" /\ outcome' = "failed" /\ UNCHANGED template
  /\ UNCHANGED <<compared, deleted>>

\* Any other path only the platform has is drift.
OnlyInPlatform(p) ==
  /\ ~KnownOrGone(p) /\ ~IsEmpty(platform, p) /\ p # AnnotationsPath
  /\ compared' = compared \cup {p} /\ deleted' = deleted \cup {p}
  /\ UNCHANGED <<pc, template, outcome>>

VisitPlatformPath(p) ==
  /\ pc = "platform" /\ p \in Upcoming(PathsOf(platformItem) \ Unmanaged)
  /\ left' = left \ {p}
  /\ \/ FillEmpty(p)
     \/ OnlyInPlatform(p)
     \/ /\ KnownOrGone(p) \/ (p = AnnotationsPath /\ ~IsEmpty(platform, p))
        /\ UNCHANGED <<pc, template, compared, deleted, outcome>>
  /\ UNCHANGED <<items, platform, added>>

\* NewChange.
Finish ==
  /\ pc = "platform" /\ left = {}
  /\ pc' = "done"
  /\ outcome' = IF template = platform THEN "Noop" ELSE "Update"
  /\ UNCHANGED <<items, template, platform, left, compared, added, deleted>>

Next ==
  \/ Prepare \/ FinishTemplatePaths \/ Finish
  \/ \E p \in Path : VisitTemplatePath(p) \/ VisitPlatformPath(p)

Spec == Init /\ [][Next]_vars

-----------------------------------------------------------------------------
(* Properties.                                                              *)

IsPreserved(p) == \E q \in preserve : p \in Subtree(q)

(* What Changeset is told of the two items: empty objects and lists only the  *)
(* platform has, and empty strings only the template has, do not count.       *)
TemplateConfig ==
  [p \in Path |-> IF /\ templateItem[p] = EmptyString /\ platformItem[p] = NoValue
                     /\ p \notin ImmutablePath
                  THEN NoValue ELSE templateItem[p]]

PlatformConfig ==
  [p \in Path |-> IF /\ IsEmpty(Without(platformItem, Unmanaged), p)
                     /\ templateItem[p] = NoValue /\ CanSet(templateItem, p)
                  THEN NoValue ELSE platformItem[p]]

Fields == INSTANCE Changeset
  WITH Resource <- {"item"}, Kind <- {"kind"}, KindOf <- [r \in {"item"} |-> "kind"],
       Field <- Path, Value <- Node, Absent <- "absent",
       Immutable <- [r \in {"item"} |-> ImmutablePath],
       Annotation <- IF AnnotationsPath \in Path THEN Under[AnnotationsPath] ELSE {},
       Container <- [r \in {"item"} |-> {}], Image <- [r \in {"item"} |-> {}],
       Preserved <- [r \in {"item"} |-> {p \in Path : IsPreserved(p)}],
       Targeted <- {"item"}, ScopeField <- AnnotationsPath, ScopeValues <- Node

PlatformResource ==
  [config |-> PlatformConfig,
   lac    |-> [p \in Path |-> IF p \in lastApplied THEN platformItem[p] ELSE NoValue],
   tac    |-> [p \in Path |-> NoValue]]

(* calculateChanges, path by path and in whatever order walkMap listed them,  *)
(* comes to the action that the sets of fields of module Changeset give: the  *)
(* order decides nothing, and no path is overlooked for having been skipped.  *)
AgreesWithChangeset ==
  outcome \notin {"none", "failed"} /\ Copied = preserve =>
    (outcome = IF Fields!ImmutableDrift("item", TemplateConfig, PlatformResource)
               THEN IF allowRecreate THEN "recreate" ELSE "protected"
               ELSE IF Fields!PreparedTemplate("item", TemplateConfig, PlatformResource)
                         = Fields!PreparedPlatform(TemplateConfig, PlatformResource)
                    THEN "Noop" ELSE "Update")

(* While calculateChanges edits the template's document it loses nothing the  *)
(* template asks for, except preserved paths and empty strings, and takes     *)
(* over nothing but preserved paths and empty objects and lists               *)
(* (changeset.go:143, "Skip subpaths of already added paths", and :242).      *)
DesiredIsWhatWasAsked ==
  outcome \in {"Noop", "Update"} =>
    \A p \in Path :
      /\ templateItem[p] \in Scalar \ {EmptyString} /\ ~IsPreserved(p)
           => template[p] = templateItem[p]
      /\ template[p] # NoValue /\ templateItem[p] = NoValue
           => IsPreserved(p) \/ IsEmpty(platform, p)

(* README.md:71: "Tailor detects" the change of an immutable field: with      *)
(* neither recreation nor an error, all at or below it is as the template     *)
(* says.                                                                      *)
ImmutableChangesAreDetected ==
  outcome \in {"Noop", "Update"} =>
    \A p \in ImmutablePath :
      templateItem[p] # NoValue /\ ~IsPreserved(p) =>
        \A q \in Subtree(p) : platformItem[q] = templateItem[q]

(* Outside of the annotations a preserved path is a no-op, with all that is   *)
(* below it, in whatever order the loops meet it (changeset.go:148), provided *)
(* that the template has a place for it.  A preserved annotation that nobody  *)
(* manages is drift all the same.                                             *)
PreservedPathsAreNoOps ==
  outcome \in {"Noop", "Update"} =>
    \A q \in preserve : \A p \in Subtree(q) :
      /\ platformItem[q] = NoValue \/ CanSet(templateItem, q)
      /\ AnnotationsPath \in Path => p \notin Subtree(AnnotationsPath)
      => template[p] = platform[p]

=============================================================================
