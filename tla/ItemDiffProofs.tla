--------------------------- MODULE ItemDiffProofs ---------------------------
(***************************************************************************)
(* The comparison of two documents, for all documents and all orders in    *)
(* which the paths can be visited: both stay documents, preserved paths    *)
(* are no-ops, and nothing the template asks for is lost.                  *)
(***************************************************************************)
EXTENDS ItemDiff, TLAPS

-----------------------------------------------------------------------------
(* Documents.                                                               *)

LEMMA DocumentValues ==
  ASSUME NEW d \in Document
  PROVE  /\ d \in [Path -> Node \cup {NoValue}]
         /\ \A p \in Path : \A q \in Under[p] :
              /\ q \in Path
              /\ d[q] # NoValue => d[p] \in {Map, Slice}
              /\ d[p] = NoValue => d[q] = NoValue
BY PathAssumption DEF Document, Node

LEMMA ScalarsAreNot ==
  NoValue \notin Scalar /\ NoValue # Map /\ NoValue # Slice /\ EmptyString \notin {Map, Slice}
BY PathAssumption DEF Node

\* Annotations contain nothing.
LEMMA UnmanagedAreLeaves == \A p \in Unmanaged : p \in Path /\ Under[p] = {}
BY PathAssumption, TreeAssumption DEF Unmanaged, AnnotationsOf

LEMMA WithoutLeaves ==
  ASSUME NEW d \in Document, NEW paths,
         \A p \in paths \cap Path : \A q \in Under[p] : d[q] = NoValue
  PROVE  Without(d, paths) \in Document
<1>1. Without(d, paths) \in [Path -> Node \cup {NoValue}]
  BY DocumentValues DEF Without
<1>2. ASSUME NEW p \in Path, NEW q \in Under[p], Without(d, paths)[q] # NoValue
      PROVE  Without(d, paths)[p] \in {Map, Slice}
  BY <1>2, DocumentValues DEF Without
<1>3. QED
  BY <1>1, <1>2 DEF Document

(* What a path may be set to, with nothing below it, leaves a document.       *)
LEMMA SetEmpty ==
  ASSUME NEW d \in Document, NEW p \in Path, CanSet(d, p), NEW value \in {Map, Slice}
  PROVE  [Without(d, Under[p]) EXCEPT ![p] = value] \in Document
<1> DEFINE e == [Without(d, Under[p]) EXCEPT ![p] = value]
<1>1. /\ e \in [Path -> Node \cup {NoValue}]
      /\ e[p] = value
      /\ \A q \in Path \ {p} : e[q] = IF q \in Under[p] THEN NoValue ELSE d[q]
  BY DocumentValues DEF Without, Node
<1> HIDE DEF e
<1>2. ASSUME NEW x \in Path, NEW y \in Under[x], e[y] # NoValue
      PROVE  e[x] \in {Map, Slice}
  <2>1. y \in Path
    BY DocumentValues
  <2>2. CASE x = p
    BY <1>1, <2>2
  <2>3. CASE x # p /\ y = p
    <3>1. x \notin Under[p]
      BY <2>3, PathAssumption
    <3>2. d[x] \in {Map, Slice}
      BY <2>3 DEF CanSet, Above
    <3>3. QED
      BY <1>1, <2>3, <3>1, <3>2
  <2>4. CASE x # p /\ y # p
    <3>1. y \notin Under[p] /\ d[y] # NoValue
      BY <1>1, <1>2, <2>1, <2>4
    <3>2. x \notin Under[p]
      BY <3>1, PathAssumption
    <3>3. QED
      BY <1>1, <2>4, <3>1, <3>2, DocumentValues
  <2>5. QED
    BY <2>2, <2>3, <2>4
<1>3. QED
  BY <1>1, <1>2 DEF Document, e

-----------------------------------------------------------------------------
(* Types.                                                                   *)

LEMMA ItemsAreDocuments ==
  ASSUME TypeOK
  PROVE  /\ templateItem \in Document /\ platformItem \in Document
         /\ preserve \subseteq Path /\ \A p, q \in preserve : p \notin Under[q]
BY DocumentAssumption DEF TypeOK

\* The template as Prepare leaves it.
InCopied(p) == \E q \in Copied : p \in Subtree(q)

LEMMA PreparedTemplateIsDocument == TypeOK /\ Prepare => template' \in Document
<1> SUFFICES ASSUME TypeOK, Prepare PROVE template' \in Document
  OBVIOUS
<1>1. /\ templateItem \in Document /\ platformItem \in Document
      /\ preserve \subseteq Path /\ \A p, q \in preserve : p \notin Under[q]
  BY ItemsAreDocuments
<1>2. template' = [p \in Path |->
        IF InCopied(p)
        THEN IF p \in Unmanaged /\ \E q \in Copied : p \in Under[q] THEN NoValue ELSE platformItem[p]
        ELSE templateItem[p]]
  BY DEF Prepare, InCopied
<1>3. template' \in [Path -> Node \cup {NoValue}]
  BY <1>1, <1>2, DocumentValues
<1>4. ASSUME NEW x \in Path, NEW y \in Under[x], template'[y] # NoValue
      PROVE  template'[x] \in {Map, Slice}
  <2>1. y \in Path
    BY PathAssumption
  <2>2. CASE InCopied(y)
    <3>1. PICK q \in Copied : y \in Subtree(q)
      BY <2>2 DEF InCopied
    <3>2. q \in Path /\ q \in preserve
      BY <1>1 DEF Copied
    <3>3. platformItem[y] # NoValue
      BY <1>2, <1>4, <2>1, <2>2
    <3>4. CASE x \in Subtree(q)
      <4>1. platformItem[x] \in {Map, Slice}
        BY <1>1, <3>3, DocumentValues
      <4>2. x \notin Unmanaged
        BY UnmanagedAreLeaves
      <4>3. QED
        BY <1>2, <3>4, <4>1, <4>2 DEF InCopied
    <3>5. CASE x \notin Subtree(q)
      <4>1. q \in Under[x]
        <5>1. CASE y = q
          BY <5>1
        <5>2. CASE y \in Under[q]
          <6>1. Under[x] \cap Under[q] # {}
            BY <5>2
          <6>2. QED
            BY <3>2, <3>5, <6>1, TreeAssumption DEF Subtree
        <5>3. QED
          BY <3>1, <5>1, <5>2 DEF Subtree
      <4>2. platformItem[q] # NoValue
        BY <1>1, <3>1, <3>2, <3>3, DocumentValues DEF Subtree
      <4>3. templateItem[x] \in {Map, Slice}
        <5>1. CanSet(templateItem, q)
          BY <4>2 DEF Copied
        <5>2. QED
          BY <4>1, <5>1 DEF CanSet, Above
      <4>4. ~InCopied(x)
        <5> SUFFICES ASSUME NEW r \in Copied, x \in Subtree(r) PROVE FALSE
          BY DEF InCopied
        <5>1. r \in preserve /\ r \in Path
          BY <1>1 DEF Copied
        <5>2. q \in Under[r]
          BY <4>1, <5>1, PathAssumption DEF Subtree
        <5>3. QED
          BY <1>1, <3>2, <5>1, <5>2
      <4>5. QED
        BY <1>2, <4>3, <4>4
    <3>6. QED
      BY <3>4, <3>5
  <2>3. CASE ~InCopied(y)
    <3>1. templateItem[y] # NoValue
      BY <1>2, <1>4, <2>1, <2>3
    <3>2. templateItem[x] \in {Map, Slice}
      BY <1>1, <3>1, DocumentValues
    <3>3. ~InCopied(x)
      <4> SUFFICES ASSUME NEW r \in Copied, x \in Subtree(r) PROVE FALSE
        BY DEF InCopied
      <4>1. r \in Path
        BY <1>1 DEF Copied
      <4>2. y \in Subtree(r)
        BY <4>1, PathAssumption DEF Subtree
      <4>3. QED
        BY <2>3, <4>2 DEF InCopied
    <3>4. QED
      BY <1>2, <3>2, <3>3
  <2>4. QED
    BY <2>2, <2>3
<1>5. QED
  BY <1>3, <1>4 DEF Document

LEMMA InitType == Init => TypeOK
BY PathAssumption, DocumentAssumption DEF Init, TypeOK, AnnotationsOf

LEMMA PrepareType == TypeOK /\ Prepare => TypeOK'
<1> SUFFICES ASSUME TypeOK, Prepare PROVE TypeOK'
  OBVIOUS
<1>1. template' \in Document
  BY PreparedTemplateIsDocument
<1>2. platform' \in Document
  BY ItemsAreDocuments, UnmanagedAreLeaves, WithoutLeaves DEF Prepare
<1>3. QED
  BY <1>1, <1>2 DEF Prepare, TypeOK, items, PathsOf

LEMMA VisitTemplatePathType ==
  ASSUME TypeOK, NEW p \in Path, VisitTemplatePath(p)
  PROVE  TypeOK'
<1>1. template' \in Document
  <2>1. CASE UNCHANGED template
    BY <2>1 DEF TypeOK
  <2>2. CASE template[p] = EmptyString /\ template' = Without(template, {p})
    <3>1. \A q \in Under[p] : template[q] = NoValue
      BY <2>2, DocumentValues, ScalarsAreNot DEF TypeOK
    <3>2. QED
      BY <2>2, <3>1, WithoutLeaves DEF TypeOK
  <2>3. QED
    BY <2>1, <2>2 DEF VisitTemplatePath, Skipped, OnlyInTemplate, InBoth, Recreate
<1>2. /\ UNCHANGED <<items, platform, deleted>> /\ left' \subseteq left
      /\ pc' \in {pc, "done"}
      /\ outcome' \in {outcome, "recreate", "protected"}
      /\ compared' \subseteq compared \cup {p} /\ added' \subseteq added \cup {p}
  BY DEF VisitTemplatePath, Skipped, OnlyInTemplate, InBoth, Recreate
<1>3. QED
  BY <1>1, <1>2 DEF TypeOK, items

LEMMA VisitPlatformPathType ==
  ASSUME TypeOK, NEW p \in Path, VisitPlatformPath(p)
  PROVE  TypeOK'
<1>1. template' \in Document
  <2>1. CASE UNCHANGED template
    BY <2>1 DEF TypeOK
  <2>2. CASE FillEmpty(p) /\ CanSet(template, p)
    BY <2>2, SetEmpty DEF FillEmpty, IsEmpty, TypeOK
  <2>3. QED
    BY <2>1, <2>2 DEF VisitPlatformPath, FillEmpty, OnlyInPlatform
<1>2. /\ UNCHANGED <<items, platform, added>> /\ left' \subseteq left
      /\ pc' \in {pc, "done"} /\ outcome' \in {outcome, "failed"}
      /\ compared' \subseteq compared \cup {p} /\ deleted' \subseteq deleted \cup {p}
  BY DEF VisitPlatformPath, FillEmpty, OnlyInPlatform
<1>3. QED
  BY <1>1, <1>2 DEF TypeOK, items

LEMMA OtherTypes ==
  ASSUME TypeOK, FinishTemplatePaths \/ Finish \/ UNCHANGED vars
  PROVE  TypeOK'
BY DEF FinishTemplatePaths, Finish, vars, items, TypeOK, PathsOf

(* The two documents stay documents, whatever is copied, dropped or filled:   *)
(* only objects and lists contain something.                                  *)
THEOREM TypeCorrect == Spec => []TypeOK
<1>1. TypeOK /\ [Next]_vars => TypeOK'
  BY PrepareType, VisitTemplatePathType, VisitPlatformPathType, OtherTypes DEF Next
<1>2. QED
  BY InitType, <1>1, PTL DEF Spec

-----------------------------------------------------------------------------
(* Preserved paths.                                                         *)

\* What the loops never touch.
CopiedAgree ==
  pc # "prepare" =>
    \A q \in Copied : \A p \in Subtree(q) :
      (AnnotationsPath \in Path => p \notin Subtree(AnnotationsPath))
        => template[p] = platform[p]

NothingYet ==
  pc = "prepare" => added = {} /\ deleted = {} /\ compared = {} /\ outcome = "none"

CopiedInv == TypeOK /\ NothingYet /\ CopiedAgree

LEMMA SubtreesArePaths == \A p \in Path : Subtree(p) \subseteq Extending[p] /\ Subtree(p) \subseteq Path
BY PathAssumption DEF Subtree

\* The ways in which a step can change the template's document.
LEMMA TemplateChanges ==
  ASSUME TypeOK, NEW p \in Path, VisitTemplatePath(p) \/ VisitPlatformPath(p)
  PROVE  \/ UNCHANGED template
         \/ /\ ~IncludesPrefix(added \cup preserve, p) /\ template[p] = EmptyString
            /\ template' = [x \in Path |-> IF x = p THEN NoValue ELSE template[x]]
         \/ /\ pc = "platform" /\ ~KnownOrGone(p) /\ IsEmpty(platform, p)
            /\ template' = [x \in Path |-> IF x = p THEN platform[p]
                                           ELSE IF x \in Under[p] THEN NoValue ELSE template[x]]
<1>1. CASE VisitTemplatePath(p)
  BY <1>1 DEF VisitTemplatePath, Skipped, OnlyInTemplate, InBoth, Recreate, Without
<1>2. CASE VisitPlatformPath(p)
  BY <1>2, PathAssumption DEF VisitPlatformPath, FillEmpty, OnlyInPlatform, Without
<1>3. QED
  BY <1>1, <1>2

\* What all the loops leave alone.
LEMMA LoopsLeave ==
  ASSUME NEW p \in Path, VisitTemplatePath(p) \/ VisitPlatformPath(p)
  PROVE  /\ UNCHANGED <<items, platform>> /\ Copied' = Copied /\ Unmanaged' = Unmanaged
         /\ pc \in {"template", "platform"} /\ pc' \in {pc, "done"}
         /\ compared \subseteq compared' /\ added \subseteq added'
         /\ left' = left \ {p}
BY DEF VisitTemplatePath, VisitPlatformPath, Skipped, OnlyInTemplate, InBoth, Recreate,
       FillEmpty, OnlyInPlatform, items, Copied, Unmanaged, AnnotationsOf

LEMMA CopiedInvInit == Init => CopiedInv
BY InitType DEF Init, CopiedInv, NothingYet, CopiedAgree

LEMMA PrepareCopies == CopiedInv /\ Prepare => CopiedInv'
<1> SUFFICES ASSUME CopiedInv, Prepare PROVE CopiedInv'
  OBVIOUS
<1>1. TypeOK'
  BY PrepareType DEF CopiedInv
<1>2. ASSUME NEW q \in Copied, NEW p \in Subtree(q),
             AnnotationsPath \in Path => p \notin Subtree(AnnotationsPath)
      PROVE  template'[p] = platform'[p]
  <2>1. p \in Path
    BY ItemsAreDocuments, SubtreesArePaths DEF Copied, CopiedInv
  <2>2. p \notin Unmanaged
    BY <1>2 DEF Unmanaged, AnnotationsOf, Subtree
  <2>3. template'[p] = platformItem[p] /\ platform'[p] = platformItem[p]
    BY <2>1, <2>2 DEF Prepare, Without
  <2>4. QED
    BY <2>3
<1>3. Copied' = Copied
  BY DEF Prepare, items, Copied
<1>4. QED
  BY <1>1, <1>2, <1>3 DEF CopiedInv, CopiedAgree, NothingYet, Prepare

LEMMA LoopsKeepCopies ==
  ASSUME CopiedInv, NEW p \in Path, VisitTemplatePath(p) \/ VisitPlatformPath(p)
  PROVE  CopiedInv'
<1>1. TypeOK'
  BY VisitTemplatePathType, VisitPlatformPathType DEF CopiedInv
<1>2. ASSUME NEW q \in Copied, NEW x \in Subtree(q), template[x] = platform[x]
      PROVE  template'[x] = platform'[x]
  <2>1. x \in Path /\ q \in preserve /\ x \in Extending[q]
    BY ItemsAreDocuments, SubtreesArePaths DEF Copied, CopiedInv
  <2>2. CASE UNCHANGED template
    BY <1>2, <2>2, LoopsLeave
  <2>3. CASE /\ ~IncludesPrefix(added \cup preserve, p)
             /\ template' = [y \in Path |-> IF y = p THEN NoValue ELSE template[y]]
    BY <1>2, <2>1, <2>3, LoopsLeave DEF IncludesPrefix
  <2>4. CASE /\ IsEmpty(platform, p)
             /\ template' = [y \in Path |-> IF y = p THEN platform[p]
                                            ELSE IF y \in Under[p] THEN NoValue ELSE template[y]]
    <3>1. x \in Under[p] => platform[x] = NoValue
      BY <2>1, <2>4 DEF IsEmpty, PathsOf
    <3>2. QED
      BY <1>2, <2>1, <2>4, <3>1, LoopsLeave
  <2>5. QED
    BY <2>2, <2>3, <2>4, TemplateChanges DEF CopiedInv
<1>3. QED
  BY <1>1, <1>2, LoopsLeave DEF CopiedInv, CopiedAgree, NothingYet

LEMMA OthersKeepCopies ==
  ASSUME CopiedInv, FinishTemplatePaths \/ Finish \/ UNCHANGED vars
  PROVE  CopiedInv'
<1>1. TypeOK'
  BY OtherTypes DEF CopiedInv
<1>2. Copied' = Copied
  BY DEF FinishTemplatePaths, Finish, vars, items, Copied
<1>3. /\ UNCHANGED <<template, platform, added>>
      /\ pc' = "prepare" => pc = "prepare" /\ UNCHANGED <<deleted, compared, outcome>>
      /\ pc = "prepare" => pc' = "prepare"
  BY DEF FinishTemplatePaths, Finish, vars
<1>4. QED
  BY <1>1, <1>2, <1>3 DEF CopiedInv, CopiedAgree, NothingYet

LEMMA CopiedInvariant == Spec => []CopiedInv
<1>1. CopiedInv /\ [Next]_vars => CopiedInv'
  BY PrepareCopies, LoopsKeepCopies, OthersKeepCopies DEF Next
<1>2. QED
  BY CopiedInvInit, <1>1, PTL DEF Spec

(* A preserved path is a no-op with all below it, whatever else the loops     *)
(* drop or fill, in whatever order they meet the paths                        *)
(* (changeset.go:148).                                                        *)
THEOREM PreservedPathsAreNoOpsHolds == Spec => []PreservedPathsAreNoOps
<1>1. CopiedInv => PreservedPathsAreNoOps
  BY DEF CopiedInv, CopiedAgree, NothingYet, PreservedPathsAreNoOps, Copied
<1>2. QED
  BY <1>1, CopiedInvariant, PTL

-----------------------------------------------------------------------------
(* What the template asks for.                                              *)

(* No path's text begins with that of a path that does not contain it: the    *)
(* run "prefix" shows what becomes of the template where one does.            *)
PrefixesContain == \A p \in Path : Extending[p] = Subtree(p)

\* What was added, with all below it, the platform lacks.
AddedAreMissing == \A a \in added : platform[a] = NoValue

VisitedAreKnown(paths) ==
  \A p \in PathsOf(templateItem) \ paths : p \in compared \/ IncludesPrefix(added, p)

Visited ==
  /\ pc = "template" => VisitedAreKnown(left)
  /\ pc = "platform" => VisitedAreKnown({})

\* The two halves of DesiredIsWhatWasAsked, at every step.
KeepsWhatWasAsked ==
  pc # "prepare" =>
    \A p \in Path : templateItem[p] \in Scalar \ {EmptyString} /\ ~IsPreserved(p)
                     => template[p] = templateItem[p]

TakesNothingElse ==
  pc # "prepare" =>
    \A p \in Path : template[p] # NoValue /\ templateItem[p] = NoValue
                     => IsPreserved(p) \/ IsEmpty(platform, p)

DesiredInv ==
  /\ CopiedInv /\ AddedAreMissing /\ Visited
  /\ KeepsWhatWasAsked /\ TakesNothingElse

LEMMA DesiredInvInit == Init => DesiredInv
BY CopiedInvInit
   DEF Init, DesiredInv, AddedAreMissing, Visited, KeepsWhatWasAsked, TakesNothingElse

LEMMA PrepareDesired == DesiredInv /\ Prepare => DesiredInv'
<1> SUFFICES ASSUME DesiredInv, Prepare PROVE DesiredInv'
  OBVIOUS
<1>1. CopiedInv'
  BY PrepareCopies DEF DesiredInv
<1>2. AddedAreMissing'
  BY DEF DesiredInv, CopiedInv, NothingYet, AddedAreMissing, Prepare
<1>3. Visited'
  BY DEF Visited, VisitedAreKnown, Prepare, PathsOf, items
<1>4. \A p \in Path : ~IsPreserved(p) => template'[p] = templateItem[p]
  BY DEF Prepare, IsPreserved, Copied
<1>5. KeepsWhatWasAsked' /\ TakesNothingElse'
  BY <1>4 DEF KeepsWhatWasAsked, TakesNothingElse, Prepare, items, IsPreserved
<1>6. QED
  BY <1>1, <1>2, <1>3, <1>5 DEF DesiredInv

(* A path only the platform has is not the template's: a path of the template *)
(* that was not compared is below an added one, where the platform has        *)
(* nothing.                                                                   *)
LEMMA UnknownIsNotTemplates ==
  ASSUME DesiredInv, PrefixesContain, pc = "platform",
         NEW p \in Path, ~KnownOrGone(p), platform[p] # NoValue
  PROVE  \A x \in Subtree(p) : templateItem[x] = NoValue
<1>1. templateItem \in Document /\ platform \in Document /\ added \subseteq Path
  BY ItemsAreDocuments DEF DesiredInv, CopiedInv, TypeOK
<1>2. templateItem[p] = NoValue
  <2> SUFFICES ASSUME templateItem[p] # NoValue PROVE FALSE
    OBVIOUS
  <2>1. PICK a \in added : p \in Subtree(a)
    BY <1>1 DEF DesiredInv, Visited, VisitedAreKnown, KnownOrGone, PathsOf, IncludesPrefix,
                PrefixesContain
  <2>2. platform[p] = NoValue
    BY <1>1, <2>1, DocumentValues DEF DesiredInv, AddedAreMissing, Subtree
  <2>3. QED
    BY <2>2
<1>3. QED
  BY <1>1, <1>2, DocumentValues DEF Subtree

LEMMA TemplatePathVisited ==
  ASSUME DesiredInv, NEW p \in Path, VisitTemplatePath(p)
  PROVE  AddedAreMissing' /\ Visited'
<1>1. AddedAreMissing'
  BY DEF DesiredInv, AddedAreMissing, VisitTemplatePath, Skipped, OnlyInTemplate, InBoth, Recreate
<1>2. pc' = "done" \/ p \in compared' \/ IncludesPrefix(added', p)
  BY DEF VisitTemplatePath, Skipped, OnlyInTemplate, InBoth, Recreate
<1>3. pc = "template" /\ pc' \in {"template", "done"} /\ left' = left \ {p}
      /\ compared \subseteq compared' /\ added \subseteq added' /\ UNCHANGED templateItem
  BY LoopsLeave DEF VisitTemplatePath, items
<1>4. QED
  BY <1>1, <1>2, <1>3 DEF DesiredInv, Visited, VisitedAreKnown, IncludesPrefix, PathsOf

LEMMA LoopsKeepDesired ==
  ASSUME DesiredInv, PrefixesContain, NEW p \in Path, VisitTemplatePath(p) \/ VisitPlatformPath(p)
  PROVE  DesiredInv'
<1>1. CopiedInv'
  BY LoopsKeepCopies DEF DesiredInv
<1>2. AddedAreMissing' /\ Visited'
  <2>1. CASE VisitTemplatePath(p)
    BY <2>1, TemplatePathVisited
  <2>2. CASE VisitPlatformPath(p)
    <3>1. UNCHANGED <<added, platform, templateItem>> /\ pc = "platform"
      BY <2>2 DEF VisitPlatformPath, items
    <3>2. compared \subseteq compared' /\ pc' \in {"platform", "done"}
      BY <3>1, LoopsLeave
    <3>3. QED
      BY <3>1, <3>2 DEF DesiredInv, AddedAreMissing, Visited, VisitedAreKnown, PathsOf
  <2>3. QED
    BY <2>1, <2>2
<1>3. KeepsWhatWasAsked' /\ TakesNothingElse'
  <2>1. /\ pc # "prepare" /\ UNCHANGED <<templateItem, platform>>
        /\ \A x \in Path : IsPreserved(x)' = IsPreserved(x)
    BY LoopsLeave DEF items, IsPreserved
  <2>2. \A x \in Path : IsEmpty(platform, x)' = IsEmpty(platform, x)
    BY <2>1 DEF IsEmpty, PathsOf
  <2>3. ASSUME NEW x \in Path
        PROVE  /\ template[x] = templateItem[x] /\ templateItem[x] \in Scalar \ {EmptyString}
                    => template'[x] = templateItem[x]
               /\ template'[x] # NoValue /\ templateItem[x] = NoValue
                    => template[x] # NoValue \/ IsEmpty(platform, x)
    <3>1. CASE UNCHANGED template
      BY <3>1
    <3>2. CASE /\ template[p] = EmptyString
               /\ template' = [y \in Path |-> IF y = p THEN NoValue ELSE template[y]]
      BY <3>2
    <3>3. CASE /\ pc = "platform" /\ ~KnownOrGone(p) /\ IsEmpty(platform, p)
               /\ template' = [y \in Path |-> IF y = p THEN platform[p]
                                              ELSE IF y \in Under[p] THEN NoValue ELSE template[y]]
      BY <3>3, UnknownIsNotTemplates, ScalarsAreNot DEF Subtree, IsEmpty
    <3>4. QED
      BY <3>1, <3>2, <3>3, TemplateChanges DEF DesiredInv, CopiedInv
  <2>4. QED
    BY <2>1, <2>2, <2>3 DEF DesiredInv, KeepsWhatWasAsked, TakesNothingElse
<1>4. QED
  BY <1>1, <1>2, <1>3 DEF DesiredInv

LEMMA OthersKeepDesired ==
  ASSUME DesiredInv, FinishTemplatePaths \/ Finish \/ UNCHANGED vars
  PROVE  DesiredInv'
<1>1. CopiedInv'
  BY OthersKeepCopies DEF DesiredInv
<1>2. /\ UNCHANGED <<templateItem, preserve, template, platform, added>>
      /\ pc' = "prepare" <=> pc = "prepare"
      /\ compared \subseteq compared'
  BY DEF FinishTemplatePaths, Finish, vars, items
<1>3. /\ pc' = "template" => pc = "template" /\ UNCHANGED left
      /\ pc' = "platform" => pc = "platform" \/ (pc = "template" /\ left = {})
  BY DEF FinishTemplatePaths, Finish, vars
<1>4. Visited'
  BY <1>2, <1>3 DEF DesiredInv, Visited, VisitedAreKnown, PathsOf
<1>5. AddedAreMissing' /\ KeepsWhatWasAsked' /\ TakesNothingElse'
  BY <1>2 DEF DesiredInv, AddedAreMissing, KeepsWhatWasAsked, TakesNothingElse, IsPreserved,
              IsEmpty, PathsOf
<1>6. QED
  BY <1>1, <1>4, <1>5 DEF DesiredInv

(* Where no path's text begins with that of a path that does not contain it,  *)
(* the comparison loses nothing the template asks for and takes over nothing  *)
(* but preserved paths and empty objects and lists (changeset.go:143, :242),  *)
(* in whatever order it visits the paths.                                     *)
THEOREM DesiredIsWhatWasAskedHolds == PrefixesContain => (Spec => []DesiredIsWhatWasAsked)
<1> SUFFICES ASSUME PrefixesContain PROVE Spec => []DesiredIsWhatWasAsked
  OBVIOUS
<1>1. DesiredInv /\ [Next]_vars => DesiredInv'
  BY PrepareDesired, LoopsKeepDesired, OthersKeepDesired DEF Next
<1>2. DesiredInv => DesiredIsWhatWasAsked
  BY DEF DesiredInv, CopiedInv, NothingYet, KeepsWhatWasAsked, TakesNothingElse,
         DesiredIsWhatWasAsked
<1>3. QED
  BY DesiredInvInit, <1>1, <1>2, PTL DEF Spec

-----------------------------------------------------------------------------
(* The action.                                                              *)

\* The platform's document without the annotations that nobody manages.
Managed == Without(platformItem, Unmanaged)

\* The empty objects and lists the template is to take over.
Fillable(p) == IsEmpty(Managed, p) /\ templateItem[p] = NoValue /\ CanSet(templateItem, p)

\* An immutable field whose value in the template is not the platform's.
Drifts(p) ==
  /\ p \in ImmutablePath /\ ~IsPreserved(p)
  /\ templateItem[p] # NoValue /\ platformItem[p] # templateItem[p]

LEMMA ManagedValues ==
  \A p \in Path : /\ Managed[p] = IF p \in Unmanaged THEN NoValue ELSE platformItem[p]
                  /\ p \in Unmanaged => templateItem[p] = NoValue /\ platformItem[p] # NoValue
BY PathAssumption DEF Managed, Without, Unmanaged, AnnotationsOf, PathsOf

LEMMA DriftIsDrift ==
  Fields!ImmutableDrift("item", TemplateConfig, PlatformResource) <=> \E p \in Path : Drifts(p)
<1>1. Fields!ImmutableDrift("item", TemplateConfig, PlatformResource)
        <=> \E p \in ImmutablePath : /\ ~IsPreserved(p) /\ TemplateConfig[p] # NoValue
                                     /\ PlatformConfig[p] # TemplateConfig[p]
  BY PathAssumption DEF Fields!ImmutableDrift, PlatformResource
<1>2. \A p \in ImmutablePath : p \in Path /\ TemplateConfig[p] = templateItem[p]
  BY PathAssumption DEF TemplateConfig
<1>3. \A p \in Path : templateItem[p] # NoValue => PlatformConfig[p] = platformItem[p]
  BY DEF PlatformConfig
<1>4. QED
  BY <1>1, <1>2, <1>3 DEF Drifts

\* The two documents module Changeset compares.
Desired(p) == IF IsPreserved(p) THEN PlatformConfig[p] ELSE TemplateConfig[p]
Current(p) == IF Fillable(p) THEN NoValue ELSE Managed[p]

LEMMA PreparedPlatformIsCurrent ==
  Fields!PreparedPlatform(TemplateConfig, PlatformResource) = [p \in Path |-> Current(p)]
<1> DEFINE Managable == IF AnnotationsPath \in Path THEN Under[AnnotationsPath] ELSE {}
<1>1. Fields!PreparedPlatform(TemplateConfig, PlatformResource)
        = [p \in Path |-> IF /\ p \in Managable /\ TemplateConfig[p] = NoValue
                            /\ (IF p \in lastApplied THEN platformItem[p] ELSE NoValue) = NoValue
                         THEN NoValue ELSE PlatformConfig[p]]
  BY DEF Fields!PreparedPlatform, PlatformResource
<1>2. ASSUME NEW p \in Path
      PROVE  (IF /\ p \in Managable /\ TemplateConfig[p] = NoValue
                 /\ (IF p \in lastApplied THEN platformItem[p] ELSE NoValue) = NoValue
              THEN NoValue ELSE PlatformConfig[p]) = Current(p)
  <2>1. PlatformConfig[p] = IF Fillable(p) THEN NoValue ELSE platformItem[p]
    BY DEF PlatformConfig, Fillable, Managed
  <2>2. p \in Unmanaged <=> /\ p \in Managable /\ platformItem[p] # NoValue
                            /\ templateItem[p] = NoValue /\ p \notin lastApplied
    BY DEF Unmanaged, AnnotationsOf, PathsOf
  <2>3. platformItem[p] # NoValue => (TemplateConfig[p] = NoValue <=> templateItem[p] = NoValue)
    BY DEF TemplateConfig
  <2>4. QED
    BY <2>1, <2>2, <2>3, ManagedValues DEF Current
<1>3. QED
  BY <1>1, <1>2

LEMMA PreparedTemplateIsDesired ==
  Fields!PreparedTemplate("item", TemplateConfig, PlatformResource) = [p \in Path |-> Desired(p)]
BY DEF Fields!PreparedTemplate, PlatformResource, Desired

(* Where the comparison agrees with the sets of fields of module Changeset:   *)
(* immutable fields are no objects or lists, the platform has what contains   *)
(* them, and nothing that contains the annotations is preserved.              *)
Comparable ==
  /\ PrefixesContain
  /\ \A p \in ImmutablePath :
       /\ \A d \in TemplateDocs : d[p] \in Scalar \cup {NoValue}
       /\ \A d \in PlatformDocs : \A q \in Above(p) : d[q] # NoValue
  /\ AnnotationsPath \in Path =>
       \A paths \in PreserveSets : \A p \in paths : AnnotationsPath \notin Subtree(p)

PlatformIsManaged == pc # "prepare" => platform = Managed

LeftAreListed ==
  /\ pc = "template" => left \subseteq PathsOf(templateItem)
  /\ pc = "platform" => left \subseteq PathsOf(platform)

AddedAreTemplates ==
  \A a \in added : /\ a \notin ImmutablePath /\ ~IsPreserved(a)
                   /\ templateItem[a] \notin {NoValue, EmptyString} /\ platform[a] = NoValue

DeletedArePlatforms ==
  \A d \in deleted : /\ ~IsPreserved(d) /\ templateItem[d] = NoValue
                     /\ platform[d] # NoValue /\ ~IsEmpty(platform, d)

ComparedAreKnown ==
  \A p \in compared : templateItem[p] # NoValue \/ IsPreserved(p) \/ p \in deleted

CopiedAreKnown ==
  pc = "platform" =>
    \A p \in PathsOf(platformItem) : IsPreserved(p) => p \in compared \/ IncludesPrefix(added, p)

\* The template's document, at a path that is preserved, of the template, or neither.
PreservedValue(p) == template[p] = platformItem[p]

TemplateValue(p) ==
  \/ template[p] = templateItem[p]
  \/ /\ template[p] = NoValue /\ templateItem[p] = EmptyString /\ platform[p] = NoValue
     /\ pc = "template" => p \notin left

OtherValue(p) == template[p] = NoValue \/ (template[p] = platform[p] /\ Fillable(p))

ValuesAreKnown ==
  pc # "prepare" =>
    \A p \in Path : /\ IsPreserved(p) => PreservedValue(p)
                    /\ ~IsPreserved(p) /\ templateItem[p] # NoValue => TemplateValue(p)
                    /\ ~IsPreserved(p) /\ templateItem[p] = NoValue => OtherValue(p)

\* What is known of a path once the loop over the template has visited it.
Settled(p) ==
  /\ ~Drifts(p)
  /\ ~IsPreserved(p) /\ platform[p] = NoValue /\ added = {} => template[p] = NoValue

TemplateVisited ==
  /\ pc = "template" => \A p \in PathsOf(templateItem) \ left : Settled(p)
  /\ pc = "platform" => \A p \in PathsOf(templateItem) : Settled(p)

\* And the loop over the platform.
Filled(p) ==
  \/ KnownOrGone(p)
  \/ IsEmpty(platform, p) /\ template[p] = platform[p]
  \/ p = AnnotationsPath /\ ~IsEmpty(platform, p)

PlatformVisited == pc = "platform" => \A p \in PathsOf(platform) \ left : Filled(p)

StillComparing == pc \in {"prepare", "template", "platform"} => outcome = "none"

Comparison ==
  /\ PlatformIsManaged /\ LeftAreListed /\ AddedAreTemplates /\ DeletedArePlatforms
  /\ ComparedAreKnown /\ CopiedAreKnown /\ ValuesAreKnown /\ TemplateVisited /\ PlatformVisited

\* The action, in terms of the two items alone.
Verdict ==
  IF \E p \in Path : Drifts(p) THEN IF allowRecreate THEN "recreate" ELSE "protected"
  ELSE IF \A p \in Path : Desired(p) = Current(p) THEN "Noop" ELSE "Update"

OutcomeAgrees == outcome \notin {"none", "failed"} => outcome = Verdict

AgreeInv ==
  /\ DesiredInv /\ StillComparing
  /\ Copied = preserve => Comparison /\ OutcomeAgrees

LEMMA VerdictIsChangesets == DesiredInv /\ (Copied = preserve => OutcomeAgrees) => AgreesWithChangeset
<1>1. [p \in Path |-> Desired(p)] = [p \in Path |-> Current(p)]
        <=> \A p \in Path : Desired(p) = Current(p)
  <2> DEFINE D == [p \in Path |-> Desired(p)]
             C == [p \in Path |-> Current(p)]
  <2>1. \A p \in Path : D[p] = Desired(p) /\ C[p] = Current(p)
    OBVIOUS
  <2>2. D = C => \A p \in Path : D[p] = C[p]
    OBVIOUS
  <2>3. QED
    BY <2>1, <2>2
<1>2. QED
  BY <1>1, DriftIsDrift, PreparedPlatformIsCurrent, PreparedTemplateIsDesired
     DEF AgreesWithChangeset, OutcomeAgrees, Verdict

LEMMA ItemsLeave ==
  ASSUME UNCHANGED items
  PROVE  /\ Copied' = Copied /\ preserve' = preserve /\ Unmanaged' = Unmanaged
         /\ Managed' = Managed /\ Verdict' = Verdict
         /\ \A p \in Path : /\ IsPreserved(p)' <=> IsPreserved(p)
                            /\ Fillable(p)' <=> Fillable(p)
                            /\ Drifts(p)' <=> Drifts(p)
<1>1. /\ Copied' = Copied /\ preserve' = preserve /\ Unmanaged' = Unmanaged
      /\ Managed' = Managed /\ allowRecreate' = allowRecreate
  BY DEF items, Copied, Unmanaged, AnnotationsOf, Managed, Without
<1>2. ASSUME NEW p \in Path
      PROVE  /\ IsPreserved(p)' <=> IsPreserved(p)
             /\ Fillable(p)' <=> Fillable(p)
             /\ Drifts(p)' <=> Drifts(p)
  <2>1. IsPreserved(p)' <=> IsPreserved(p)
    BY <1>1 DEF IsPreserved
  <2>2. Fillable(p)' <=> Fillable(p)
    <3>1. CanSet(templateItem, p)' <=> CanSet(templateItem, p)
      BY DEF items, CanSet
    <3>2. IsEmpty(Managed, p)' <=> IsEmpty(Managed, p)
      BY <1>1 DEF IsEmpty, PathsOf
    <3>3. QED
      BY <3>1, <3>2 DEF Fillable, items
  <2>3. Drifts(p)' <=> Drifts(p)
    BY <2>1 DEF Drifts, items
  <2>4. QED
    BY <2>1, <2>2, <2>3
<1>3. \A p \in Path : PlatformConfig'[p] = PlatformConfig[p] /\ TemplateConfig'[p] = TemplateConfig[p]
  BY <1>1 DEF items, PlatformConfig, TemplateConfig, IsEmpty, PathsOf, Without
<1>4. ASSUME NEW p \in Path
      PROVE  Desired(p)' = Desired(p) /\ Current(p)' = Current(p)
  <2>1. Managed'[p] = Managed[p]
    BY <1>1
  <2>2. QED
    BY <1>2, <1>3, <2>1 DEF Desired, Current
<1>5. Verdict' = Verdict
  <2>1. (\E p \in Path : Drifts(p))' <=> \E p \in Path : Drifts(p)
    BY <1>2
  <2>2. (\A p \in Path : Desired(p) = Current(p))' <=> \A p \in Path : Desired(p) = Current(p)
    BY <1>4
  <2>3. QED
    BY <1>1, <2>1, <2>2 DEF Verdict
<1>6. QED
  BY <1>1, <1>2, <1>5

LEMMA AgreeInit == Init => AgreeInv
<1> SUFFICES ASSUME Init PROVE AgreeInv
  OBVIOUS
<1>1. /\ pc = "prepare" /\ outcome = "none"
      /\ left = {} /\ compared = {} /\ added = {} /\ deleted = {}
  BY DEF Init
<1>2. Comparison
  BY <1>1 DEF Comparison, PlatformIsManaged, LeftAreListed, AddedAreTemplates,
       DeletedArePlatforms, ComparedAreKnown, CopiedAreKnown, ValuesAreKnown, TemplateVisited,
       PlatformVisited
<1>3. QED
  BY <1>1, <1>2, DesiredInvInit DEF AgreeInv, StillComparing, OutcomeAgrees

\* An annotation nobody manages is preserved only by its own path.
LEMMA PreservedAnnotations ==
  ASSUME TypeOK, Comparable, NEW p \in Unmanaged, NEW q \in preserve, p \in Subtree(q)
  PROVE  p = q
<1>1. q \in Path /\ preserve \in PreserveSets
  BY ItemsAreDocuments DEF TypeOK
<1>2. AnnotationsPath \in Path /\ p \in Under[AnnotationsPath]
  BY DEF Unmanaged, AnnotationsOf
<1>3. AnnotationsPath \notin Subtree(q)
  BY <1>1, <1>2 DEF Comparable
<1>4. ASSUME p \in Under[q] PROVE FALSE
  <2>1. q \in Under[AnnotationsPath]
    BY <1>1, <1>2, <1>3, <1>4, TreeAssumption DEF Subtree
  <2>2. QED
    BY <1>2, <1>4, <2>1, TreeAssumption
<1>5. QED
  BY <1>4 DEF Subtree

LEMMA PrepareAgrees == AgreeInv /\ Comparable /\ Prepare => AgreeInv'
<1> SUFFICES ASSUME AgreeInv, Comparable, Prepare PROVE AgreeInv'
  OBVIOUS
<1>1. DesiredInv'
  BY PrepareDesired DEF AgreeInv
<1>2. TypeOK /\ pc' = "template" /\ outcome' = "none"
  BY DEF AgreeInv, DesiredInv, CopiedInv, NothingYet, Prepare
<1>3. /\ added' = {} /\ deleted' = {} /\ compared' = {} /\ left' = PathsOf(templateItem)
      /\ platform' = Managed /\ UNCHANGED items
  BY DEF AgreeInv, DesiredInv, CopiedInv, NothingYet, Prepare, Managed
<1>4. ASSUME Copied' = preserve' PROVE ValuesAreKnown'
  <2>1. Copied = preserve
    BY <1>3, <1>4, ItemsLeave
  <2>2. ASSUME NEW p \in Path
        PROVE  template'[p] = IF IsPreserved(p) THEN platformItem[p] ELSE templateItem[p]
    <3>1. p \in Unmanaged => ~\E q \in Copied : p \in Under[q]
      BY <1>2, <2>1, PreservedAnnotations, PathAssumption, ItemsAreDocuments DEF Subtree
    <3>2. QED
      BY <2>1, <3>1 DEF Prepare, IsPreserved
  <2>3. templateItem' = templateItem /\ platformItem' = platformItem
    BY <1>3 DEF items
  <2>4. QED
    BY <1>3, <2>2, <2>3, ItemsLeave
       DEF ValuesAreKnown, PreservedValue, TemplateValue, OtherValue
<1>5. Copied' = preserve' => Comparison'
  BY <1>2, <1>3, <1>4, ItemsLeave
     DEF Comparison, PlatformIsManaged, LeftAreListed, AddedAreTemplates,
         DeletedArePlatforms, ComparedAreKnown, CopiedAreKnown, TemplateVisited,
         PlatformVisited, PathsOf, items
<1>6. QED
  BY <1>1, <1>2, <1>5 DEF AgreeInv, StillComparing, OutcomeAgrees

\* An immutable field is never below an added path.
LEMMA ImmutableIsNotBelowAdded ==
  ASSUME TypeOK, Comparable, platform = Managed, AddedAreTemplates,
         NEW p \in ImmutablePath
  PROVE  ~IncludesPrefix(added, p)
<1> SUFFICES ASSUME NEW a \in added, p \in Extending[a] PROVE FALSE
  BY DEF IncludesPrefix
<1>1. a \in Path /\ p \in Path /\ p \in Subtree(a)
  BY PathAssumption DEF TypeOK, Comparable, PrefixesContain
<1>2. p # a /\ platform[a] = NoValue
  BY DEF AddedAreTemplates
<1>3. p \in Under[a] /\ platformItem[a] # NoValue
  BY <1>1, <1>2 DEF Subtree, Comparable, Above, TypeOK
<1>4. a \in Unmanaged
  BY <1>1, <1>2, <1>3, ManagedValues
<1>5. QED
  BY <1>3, <1>4, UnmanagedAreLeaves

\* The steps of the loop over the template.
Recreates(p) ==
  /\ Drifts(p) /\ UNCHANGED <<template, compared, added>>
  /\ pc' = "done" /\ outcome' = IF allowRecreate THEN "recreate" ELSE "protected"

Passes(p) ==
  /\ ~Drifts(p)
  /\ IsPreserved(p) \/ platform[p] # NoValue \/ added # {}
  /\ compared' \subseteq compared \cup {p} /\ UNCHANGED <<pc, template, added, outcome>>

Drops(p) ==
  /\ ~Drifts(p) /\ ~IsPreserved(p) /\ platform[p] = NoValue /\ templateItem[p] = EmptyString
  /\ template' = Without(template, {p})
  /\ compared' \subseteq compared \cup {p} /\ UNCHANGED <<pc, added, outcome>>

Adds(p) ==
  /\ ~Drifts(p) /\ p \notin ImmutablePath /\ ~IsPreserved(p)
  /\ platform[p] = NoValue /\ templateItem[p] \notin {NoValue, EmptyString}
  /\ added' = added \cup {p}
  /\ compared' \subseteq compared \cup {p} /\ UNCHANGED <<pc, template, outcome>>

LEMMA TemplateSteps ==
  ASSUME TypeOK, Comparable, Comparison, NEW p \in Path, VisitTemplatePath(p)
  PROVE  Recreates(p) \/ Passes(p) \/ Drops(p) \/ Adds(p)
<1>1. /\ pc = "template" /\ p \in left /\ templateItem[p] # NoValue
      /\ platform = Managed /\ AddedAreTemplates
  BY DEF VisitTemplatePath, Upcoming, Comparison, LeftAreListed, PlatformIsManaged, PathsOf
<1>2. platform[p] = platformItem[p]
  BY <1>1, ManagedValues
<1>3. ~IsPreserved(p) => TemplateValue(p)
  BY <1>1 DEF Comparison, ValuesAreKnown
<1>4. IncludesPrefix(preserve, p) <=> IsPreserved(p)
  BY ItemsAreDocuments DEF IncludesPrefix, IsPreserved, Comparable, PrefixesContain
<1>5. CASE Skipped(p)
  <2>1. ~Drifts(p)
    BY <1>1, <1>4, <1>5, ImmutableIsNotBelowAdded DEF Skipped, Drifts
  <2>2. QED
    BY <1>4, <1>5, <2>1 DEF Skipped, Passes, IncludesPrefix
<1>6. CASE OnlyInTemplate(p)
  <2>1. ~IsPreserved(p) /\ platform[p] = NoValue
    BY <1>4, <1>6 DEF OnlyInTemplate, IncludesPrefix
  <2>2. template[p] = templateItem[p]
    BY <1>1, <1>3, <2>1 DEF TemplateValue
  <2>3. Drifts(p) <=> p \in ImmutablePath
    BY <1>1, <1>2, <2>1 DEF Drifts
  <2>4. QED
    BY <1>1, <1>6, <2>1, <2>2, <2>3
       DEF OnlyInTemplate, Recreate, Recreates, Drops, Adds
<1>7. CASE InBoth(p)
  <2>1. ~IsPreserved(p) /\ platform[p] # NoValue
    BY <1>4, <1>7 DEF InBoth, IncludesPrefix
  <2>2. template[p] = templateItem[p]
    BY <1>3, <2>1 DEF TemplateValue
  <2>3. p \in ImmutablePath => template[p] \in Scalar
    BY <1>1, <2>2 DEF Comparable, TypeOK
  <2>4. Drifts(p) <=> p \in ImmutablePath /\ template[p] \in Scalar /\ template[p] # platform[p]
    BY <1>1, <1>2, <2>1, <2>2, <2>3 DEF Drifts
  <2>5. QED
    BY <1>7, <2>1, <2>4 DEF InBoth, Recreate, Recreates, Passes
<1>8. QED
  BY <1>5, <1>6, <1>7 DEF VisitTemplatePath

LEMMA TemplateAgrees ==
  ASSUME AgreeInv, Comparable, NEW p \in Path, VisitTemplatePath(p)
  PROVE  AgreeInv'
<1>1. DesiredInv'
  BY LoopsKeepDesired DEF AgreeInv, Comparable
<1>2. /\ UNCHANGED <<items, platform, deleted, templateItem, platformItem, allowRecreate>>
      /\ pc = "template" /\ left' = left \ {p} /\ p \in left
      /\ TypeOK /\ outcome = "none"
  BY DEF VisitTemplatePath, Upcoming, AgreeInv, DesiredInv, CopiedInv, StillComparing, items
<1>3. StillComparing'
  BY <1>2 DEF StillComparing, VisitTemplatePath, Skipped, OnlyInTemplate, InBoth, Recreate
<1>4. ASSUME Copied' = preserve' PROVE Comparison' /\ OutcomeAgrees'
  <2>1. Comparison /\ templateItem[p] # NoValue
    BY <1>2, <1>4, ItemsLeave DEF AgreeInv, Comparison, LeftAreListed, PathsOf
  <2>2. Recreates(p) \/ Passes(p) \/ Drops(p) \/ Adds(p)
    BY <1>2, <2>1, TemplateSteps
  <2>3. OutcomeAgrees'
    BY <1>2, <2>2, ItemsLeave
       DEF OutcomeAgrees, Verdict, Recreates, Passes, Drops, Adds
  <2>4. /\ pc' \in {"template", "done"} /\ added \subseteq added'
        /\ compared' \subseteq compared \cup {p}
        /\ \A x \in Path : \/ template'[x] = template[x]
                           \/ x = p /\ Drops(p) /\ template'[x] = NoValue
    BY <1>2, <2>2 DEF Recreates, Passes, Drops, Adds, Without
  <2>5. /\ PlatformIsManaged' /\ LeftAreListed' /\ DeletedArePlatforms' /\ CopiedAreKnown'
        /\ PlatformVisited'
    BY <1>2, <2>1, <2>4, ItemsLeave
       DEF Comparison, PlatformIsManaged, LeftAreListed, DeletedArePlatforms, CopiedAreKnown,
           PlatformVisited, PathsOf, IsEmpty, IsPreserved
  <2>6. AddedAreTemplates' /\ ComparedAreKnown'
    BY <1>2, <2>1, <2>2, <2>4, ItemsLeave
       DEF Comparison, AddedAreTemplates, ComparedAreKnown, Recreates, Passes, Drops, Adds,
           IsPreserved
  <2>7. ValuesAreKnown'
    <3>1. ASSUME NEW x \in Path
          PROVE  /\ IsPreserved(x) => PreservedValue(x)'
                 /\ ~IsPreserved(x) /\ templateItem[x] # NoValue => TemplateValue(x)'
                 /\ ~IsPreserved(x) /\ templateItem[x] = NoValue => OtherValue(x)'
      <4>1. /\ IsPreserved(x) => PreservedValue(x)
            /\ ~IsPreserved(x) /\ templateItem[x] # NoValue => TemplateValue(x)
            /\ ~IsPreserved(x) /\ templateItem[x] = NoValue => OtherValue(x)
        BY <1>2, <2>1 DEF Comparison, ValuesAreKnown
      <4>2. CASE template'[x] = template[x]
        BY <1>2, <2>4, <4>1, <4>2, ItemsLeave DEF PreservedValue, TemplateValue, OtherValue
      <4>3. CASE x = p /\ Drops(p) /\ template'[x] = NoValue
        BY <1>2, <2>1, <4>3 DEF TemplateValue, Drops
      <4>4. QED
        BY <2>4, <4>2, <4>3
    <3>2. QED
      BY <1>2, <3>1, ItemsLeave DEF ValuesAreKnown
  <2>8. TemplateVisited'
    <3>1. ASSUME pc' = "template", NEW x \in PathsOf(templateItem) \ left'
          PROVE  Settled(x)'
      <4>1. x \in Path /\ (Drifts(x)' <=> Drifts(x)) /\ (IsPreserved(x)' <=> IsPreserved(x))
        BY <1>2, ItemsLeave DEF PathsOf
      <4>2. CASE x = p
        BY <1>2, <2>2, <3>1, <4>1, <4>2
           DEF Settled, Recreates, Passes, Drops, Adds, Without
      <4>3. CASE x # p
        <5>1. Settled(x)
          BY <1>2, <2>1, <3>1, <4>3 DEF Comparison, TemplateVisited
        <5>2. QED
          BY <1>2, <2>4, <4>1, <4>3, <5>1 DEF Settled
      <4>4. QED
        BY <4>2, <4>3
    <3>2. QED
      BY <1>2, <2>4, <3>1 DEF TemplateVisited, PathsOf
  <2>9. QED
    BY <2>3, <2>5, <2>6, <2>7, <2>8 DEF Comparison
<1>5. QED
  BY <1>1, <1>3, <1>4 DEF AgreeInv

LEMMA FinishTemplateAgrees ==
  ASSUME AgreeInv, Comparable, FinishTemplatePaths
  PROVE  AgreeInv'
<1>1. DesiredInv'
  BY OthersKeepDesired DEF AgreeInv
<1>2. /\ UNCHANGED <<items, templateItem, platformItem, template, platform, added, deleted, outcome>>
      /\ pc = "template" /\ left = {} /\ pc' = "platform"
      /\ left' = PathsOf(platformItem) \ Unmanaged
      /\ outcome = "none"
  BY DEF FinishTemplatePaths, AgreeInv, StillComparing, items
<1>3. ASSUME Copied' = preserve' PROVE Comparison'
  <2>1. Comparison /\ Copied = preserve
    BY <1>2, <1>3, ItemsLeave DEF AgreeInv
  <2>2. left' = PathsOf(platform)
    BY <1>2, <2>1, ManagedValues DEF Comparison, PlatformIsManaged, PathsOf
  <2>3. compared' = compared \cup
          {p \in PathsOf(platformItem) : IsPreserved(p) /\ ~IncludesPrefix(added, p)}
    BY <2>1 DEF FinishTemplatePaths, IsPreserved
  <2>4. /\ PlatformIsManaged' /\ LeftAreListed' /\ AddedAreTemplates' /\ DeletedArePlatforms'
        /\ PlatformVisited'
    BY <1>2, <2>1, <2>2, ItemsLeave
       DEF Comparison, PlatformIsManaged, LeftAreListed, AddedAreTemplates, DeletedArePlatforms,
           PlatformVisited, PathsOf, IsEmpty, IsPreserved
  <2>5. ComparedAreKnown' /\ CopiedAreKnown'
    BY <1>2, <2>1, <2>3, ItemsLeave
       DEF Comparison, ComparedAreKnown, CopiedAreKnown, PathsOf, IsPreserved, IncludesPrefix
  <2>6. ValuesAreKnown'
    BY <1>2, <2>1, ItemsLeave
       DEF Comparison, ValuesAreKnown, PreservedValue, TemplateValue, OtherValue
  <2>7. TemplateVisited'
    BY <1>2, <2>1, ItemsLeave DEF Comparison, TemplateVisited, Settled, PathsOf
  <2>8. QED
    BY <2>4, <2>5, <2>6, <2>7 DEF Comparison
<1>4. QED
  BY <1>1, <1>2, <1>3 DEF AgreeInv, StillComparing, OutcomeAgrees

(* Where the template has no value, and the platform has something, what the  *)
(* comparison may write into is what the template had.                        *)
LEMMA FillableInTemplate ==
  ASSUME TypeOK, ValuesAreKnown, pc = "platform", platform = Managed,
         NEW p \in Path, ~IsPreserved(p), templateItem[p] = NoValue,
         IsEmpty(platform, p), CanSet(template, p)
  PROVE  Fillable(p)
<1>1. CASE template[p] # NoValue
  BY <1>1 DEF ValuesAreKnown, OtherValue
<1>2. CASE template[p] = NoValue
  <2>1. ASSUME NEW q \in Above(p)
        PROVE  template[q] = templateItem[q] /\ template[q] # NoValue
    <3>1. q \in Path /\ p \in Under[q] /\ template[q] \in {Map, Slice}
      BY DEF CanSet, Above
    <3>2. ~IsPreserved(q)
      <4> SUFFICES ASSUME NEW r \in preserve, q \in Subtree(r) PROVE FALSE
        BY DEF IsPreserved
      <4>1. r \in Path /\ p \in Subtree(r)
        BY <3>1, ItemsAreDocuments, PathAssumption DEF Subtree
      <4>2. QED
        BY <4>1 DEF IsPreserved
    <3>3. templateItem[q] # NoValue
      BY <3>1, <3>2, ScalarsAreNot DEF ValuesAreKnown, OtherValue, Fillable, IsEmpty, PathsOf
    <3>4. QED
      BY <3>1, <3>2, <3>3, ScalarsAreNot DEF ValuesAreKnown, TemplateValue
  <2>2. CanSet(templateItem, p)
    BY <1>2, <2>1 DEF CanSet
  <2>3. QED
    BY <2>2 DEF Fillable
<1>3. QED
  BY <1>1, <1>2

\* A path only the platform has is neither preserved nor the template's.
LEMMA UnknownIsPlatforms ==
  ASSUME DesiredInv, Comparable, Comparison, pc = "platform",
         NEW p \in Path, ~KnownOrGone(p), platform[p] # NoValue
  PROVE  ~IsPreserved(p) /\ \A x \in Subtree(p) : templateItem[x] = NoValue
<1>1. \A x \in Subtree(p) : templateItem[x] = NoValue
  BY UnknownIsNotTemplates DEF Comparable
<1>2. ASSUME IsPreserved(p) PROVE FALSE
  <2>1. p \in PathsOf(platformItem)
    BY ManagedValues DEF Comparison, PlatformIsManaged, PathsOf
  <2>2. PICK a \in added : p \in Extending[a]
    BY <1>2, <2>1 DEF Comparison, CopiedAreKnown, KnownOrGone, IncludesPrefix
  <2>3. a \in Path /\ p \in Subtree(a) /\ platform \in Document
    BY <2>2 DEF DesiredInv, CopiedInv, TypeOK, Comparable, PrefixesContain
  <2>4. platform[p] = NoValue
    BY <2>2, <2>3, DocumentValues DEF DesiredInv, AddedAreMissing, Subtree
  <2>5. QED
    BY <2>4
<1>3. QED
  BY <1>1, <1>2

LEMMA FillAgrees ==
  ASSUME DesiredInv, Comparable, Comparison, Copied = preserve, pc = "platform",
         NEW p \in Path, ~KnownOrGone(p), IsEmpty(platform, p), CanSet(template, p),
         UNCHANGED <<items, platform, pc>>,
         template' = [Without(template, Under[p]) EXCEPT ![p] = platform[p]]
  PROVE  ValuesAreKnown'
<1>1. platform = Managed /\ TypeOK /\ ValuesAreKnown /\ platform[p] # NoValue
  BY ScalarsAreNot DEF DesiredInv, CopiedInv, Comparison, PlatformIsManaged, IsEmpty
<1>2. ~IsPreserved(p) /\ \A x \in Subtree(p) : templateItem[x] = NoValue
  BY <1>1, UnknownIsPlatforms
<1>3. \A x \in Path : template'[x] = IF x = p THEN platform[p]
                                    ELSE IF x \in Under[p] THEN NoValue ELSE template[x]
  BY DEF Without
<1>4. ASSUME NEW x \in Path
      PROVE  /\ IsPreserved(x) => PreservedValue(x)'
             /\ ~IsPreserved(x) /\ templateItem[x] # NoValue => TemplateValue(x)'
             /\ ~IsPreserved(x) /\ templateItem[x] = NoValue => OtherValue(x)'
  <2>1. CASE x = p
    <3>1. templateItem[p] = NoValue
      BY <1>2 DEF Subtree
    <3>2. Fillable(p)
      BY <1>1, <1>2, <3>1, FillableInTemplate
    <3>3. QED
      BY <1>2, <1>3, <2>1, <3>1, <3>2, ItemsLeave DEF OtherValue
  <2>2. CASE x \in Under[p]
    <3>1. template'[x] = NoValue /\ platform[x] = NoValue /\ templateItem[x] = NoValue
      BY <1>2, <1>3, <2>2, PathAssumption DEF IsEmpty, PathsOf, Subtree
    <3>2. ASSUME IsPreserved(x), platformItem[x] # NoValue PROVE FALSE
      <4>1. x \in Unmanaged
        BY <1>1, <3>1, <3>2, ManagedValues
      <4>2. x \in preserve
        BY <1>1, <3>2, <4>1, PreservedAnnotations DEF IsPreserved
      <4>3. CanSet(templateItem, x)
        BY <3>2, <4>2 DEF Copied
      <4>4. templateItem[p] # NoValue
        BY <2>2, <4>3, ScalarsAreNot DEF CanSet, Above
      <4>5. QED
        BY <1>2, <4>4 DEF Subtree
    <3>3. QED
      BY <3>1, <3>2 DEF PreservedValue, TemplateValue, OtherValue, items
  <2>3. CASE x \notin Subtree(p)
    <3>1. template'[x] = template[x]
      BY <1>3, <2>3 DEF Subtree
    <3>2. QED
      BY <1>1, <3>1, ItemsLeave
         DEF ValuesAreKnown, PreservedValue, TemplateValue, OtherValue, items
  <2>4. QED
    BY <2>1, <2>2, <2>3 DEF Subtree
<1>5. templateItem' = templateItem
  BY DEF items
<1>6. QED
  BY <1>4, <1>5, ItemsLeave DEF ValuesAreKnown

LEMMA PlatformAgrees ==
  ASSUME AgreeInv, Comparable, NEW p \in Path, VisitPlatformPath(p)
  PROVE  AgreeInv'
<1>1. DesiredInv'
  BY LoopsKeepDesired DEF AgreeInv, Comparable
<1>2. /\ UNCHANGED <<items, platform, added, templateItem, platformItem>>
      /\ pc = "platform" /\ left' = left \ {p} /\ p \in left
      /\ DesiredInv /\ TypeOK /\ outcome = "none"
  BY DEF VisitPlatformPath, Upcoming, AgreeInv, DesiredInv, CopiedInv, StillComparing, items
<1>3. /\ pc' \in {"platform", "done"}
      /\ pc' = "platform" => outcome' = "none"
      /\ outcome' \in {"none", "failed"}
      /\ compared \subseteq compared' /\ deleted \subseteq deleted'
  BY <1>2 DEF VisitPlatformPath, FillEmpty, OnlyInPlatform
<1>4. ASSUME Copied' = preserve' PROVE Comparison'
  <2>1. /\ Comparison /\ Copied = preserve
        /\ PlatformIsManaged /\ LeftAreListed /\ AddedAreTemplates /\ DeletedArePlatforms
        /\ ComparedAreKnown /\ CopiedAreKnown /\ ValuesAreKnown /\ TemplateVisited
        /\ PlatformVisited
    BY <1>2, <1>4, ItemsLeave DEF AgreeInv, Comparison
  <2>2. platform[p] # NoValue
    BY <1>2, <2>1 DEF LeftAreListed, PathsOf
  <2>3. ~KnownOrGone(p) => ~IsPreserved(p) /\ templateItem[p] = NoValue
    BY <1>2, <2>1, <2>2, UnknownIsPlatforms DEF Subtree
  <2>4. /\ PlatformIsManaged' /\ LeftAreListed' /\ AddedAreTemplates' /\ CopiedAreKnown'
    BY <1>2, <1>3, <2>1, ItemsLeave
       DEF PlatformIsManaged, LeftAreListed, AddedAreTemplates, CopiedAreKnown, PathsOf,
           IncludesPrefix, IsPreserved
  <2>5. /\ deleted' \subseteq deleted \cup {p} /\ compared' \subseteq compared \cup {p}
        /\ p \in deleted' \ deleted => ~KnownOrGone(p) /\ ~IsEmpty(platform, p)
        /\ p \in compared' \ compared => p \in deleted'
    BY DEF VisitPlatformPath, FillEmpty, OnlyInPlatform
  <2>6. DeletedArePlatforms' /\ ComparedAreKnown'
    BY <1>2, <1>3, <2>1, <2>2, <2>3, <2>5, ItemsLeave
       DEF DeletedArePlatforms, ComparedAreKnown, IsPreserved, IsEmpty, PathsOf
  <2>7. \/ UNCHANGED template
        \/ /\ ~KnownOrGone(p) /\ IsEmpty(platform, p) /\ CanSet(template, p) /\ UNCHANGED pc
           /\ template' = [Without(template, Under[p]) EXCEPT ![p] = platform[p]]
    BY DEF VisitPlatformPath, FillEmpty, OnlyInPlatform
  <2>8. ValuesAreKnown'
    <3>1. CASE UNCHANGED template
      BY <1>2, <1>3, <2>1, <3>1, ItemsLeave
         DEF ValuesAreKnown, PreservedValue, TemplateValue, OtherValue
    <3>2. QED
      BY <1>2, <2>1, <2>7, <3>1, FillAgrees
  <2>9. \A x \in Path : \/ template'[x] = template[x]
                        \/ template'[x] = platform[x] /\ IsEmpty(platform, x)
                        \/ template'[x] = NoValue /\ platform[x] = NoValue
    BY <2>7, PathAssumption DEF Without, IsEmpty, PathsOf, TypeOK
  <2>10. TemplateVisited'
    <3>1. ASSUME NEW x \in PathsOf(templateItem) PROVE Settled(x)'
      <4>1. x \in Path /\ Settled(x)
        BY <1>2, <2>1, <3>1 DEF TemplateVisited, PathsOf
      <4>2. platform[x] = NoValue /\ template[x] = NoValue => template'[x] = NoValue
        BY <2>9, <4>1
      <4>3. QED
        BY <1>2, <4>1, <4>2, ItemsLeave DEF Settled
    <3>2. QED
      BY <1>2, <1>3, <3>1 DEF TemplateVisited, PathsOf
  <2>11. PlatformVisited'
    <3>1. ASSUME pc' = "platform", NEW x \in PathsOf(platform) \ left' PROVE Filled(x)'
      <4>1. x \in Path /\ platform[x] # NoValue
        BY DEF PathsOf
      <4>2. KnownOrGone(x) => KnownOrGone(x)'
        BY <1>3 DEF KnownOrGone, IncludesPrefix
      <4>3. IsEmpty(platform, x)' <=> IsEmpty(platform, x)
        BY <1>2 DEF IsEmpty, PathsOf
      <4>4. CASE x # p
        <5>1. Filled(x)
          BY <1>2, <2>1, <3>1, <4>4 DEF PlatformVisited
        <5>2. template[x] = platform[x] => template'[x] = platform[x]
          BY <2>9, <4>1
        <5>3. QED
          BY <1>2, <4>2, <4>3, <5>1, <5>2 DEF Filled
      <4>5. CASE x = p
        <5>1. CASE FillEmpty(p)
          <6>1. template'[p] = platform[p]
            BY <1>2, <3>1, <5>1 DEF FillEmpty, Without, TypeOK, Document
          <6>2. QED
            BY <1>2, <4>3, <4>5, <5>1, <6>1 DEF Filled, FillEmpty
        <5>2. CASE OnlyInPlatform(p)
          BY <4>5, <5>2 DEF Filled, KnownOrGone, OnlyInPlatform
        <5>3. CASE KnownOrGone(p) \/ (p = AnnotationsPath /\ ~IsEmpty(platform, p))
          BY <4>2, <4>3, <4>5, <5>3 DEF Filled
        <5>4. QED
          BY <5>1, <5>2, <5>3 DEF VisitPlatformPath
      <4>6. QED
        BY <4>4, <4>5
    <3>2. QED
      BY <1>2, <3>1 DEF PlatformVisited, PathsOf
  <2>12. QED
    BY <2>4, <2>6, <2>8, <2>10, <2>11 DEF Comparison
<1>5. QED
  BY <1>1, <1>3, <1>4 DEF AgreeInv, StillComparing, OutcomeAgrees

(* At the end, with nothing added and nothing only the platform has, the two  *)
(* documents differ where Changeset's do.                                     *)
LEMMA EndAgrees ==
  ASSUME DesiredInv, Comparable, Comparison, pc = "platform", left = {},
         added = {}, deleted = {},
         AnnotationsPath \in Path => ~(/\ platform[AnnotationsPath] # NoValue
                                       /\ ~IsEmpty(platform, AnnotationsPath)
                                       /\ templateItem[AnnotationsPath] = NoValue),
         NEW p \in Path
  PROVE  template[p] = platform[p] <=> Desired(p) = Current(p)
<1>1. /\ platform = Managed /\ ValuesAreKnown /\ TemplateVisited /\ PlatformVisited
      /\ ComparedAreKnown
  BY DEF Comparison, PlatformIsManaged
<1>2. PlatformConfig[p] = IF Fillable(p) THEN NoValue ELSE platformItem[p]
  BY DEF PlatformConfig, Fillable, Managed
<1>3. Fillable(p) => platform[p] # NoValue /\ p \notin Unmanaged
  BY <1>1, ScalarsAreNot, ManagedValues DEF Fillable, IsEmpty
<1>4. CASE IsPreserved(p)
  <2>1. template[p] = platformItem[p]
    BY <1>1, <1>4 DEF ValuesAreKnown, PreservedValue
  <2>2. template[p] = platform[p] <=> p \notin Unmanaged
    BY <1>1, <2>1, ManagedValues
  <2>3. Desired(p) = Current(p) <=> p \notin Unmanaged
    BY <1>2, <1>3, <1>4, ManagedValues DEF Desired, Current
  <2>4. QED
    BY <2>2, <2>3
<1>5. CASE ~IsPreserved(p) /\ templateItem[p] # NoValue
  <2>1. TemplateValue(p) /\ Settled(p)
    BY <1>1, <1>5 DEF ValuesAreKnown, TemplateVisited, PathsOf
  <2>2. platform[p] = platformItem[p] /\ ~Fillable(p)
    BY <1>1, <1>5, ManagedValues DEF Fillable
  <2>3. template[p] = TemplateConfig[p]
    BY <1>5, <2>1, <2>2 DEF TemplateValue, Settled, Drifts, TemplateConfig
  <2>4. QED
    BY <1>1, <1>5, <2>2, <2>3 DEF Desired, Current
<1>6. CASE ~IsPreserved(p) /\ templateItem[p] = NoValue
  <2>1. Desired(p) = NoValue
    BY <1>6 DEF Desired, TemplateConfig
  <2>2. OtherValue(p)
    BY <1>1, <1>6 DEF ValuesAreKnown
  <2>3. CASE platform[p] = NoValue
    BY <1>1, <2>1, <2>2, <2>3 DEF OtherValue, Current
  <2>4. CASE platform[p] # NoValue
    <3>1. Filled(p)
      BY <1>1, <2>4 DEF PlatformVisited, PathsOf
    <3>2. ~KnownOrGone(p)
      BY <1>1, <1>6 DEF ComparedAreKnown, KnownOrGone, IncludesPrefix
    <3>3. IsEmpty(platform, p) /\ template[p] = platform[p]
      BY <1>6, <2>4, <3>1, <3>2 DEF Filled
    <3>4. Fillable(p)
      BY <2>2, <2>4, <3>3 DEF OtherValue
    <3>5. QED
      BY <2>1, <3>3, <3>4 DEF Current
  <2>5. QED
    BY <2>3, <2>4
<1>7. QED
  BY <1>4, <1>5, <1>6

\* A path that was added, that only the platform has, or that holds managed
\* annotations the template has no place for, is drift in both.
LEMMA DriftAgrees ==
  ASSUME DesiredInv, Comparison, pc = "platform", NEW p \in Path, ~IsPreserved(p),
         \/ p \in added
         \/ platform[p] # NoValue /\ ~IsEmpty(platform, p) /\ templateItem[p] = NoValue
  PROVE  template[p] # platform[p] /\ Desired(p) # Current(p)
<1>1. platform = Managed /\ ValuesAreKnown /\ AddedAreTemplates
  BY DEF Comparison, PlatformIsManaged
<1>2. CASE p \in added
  <2>1. templateItem[p] \notin {NoValue, EmptyString} /\ platform[p] = NoValue
    BY <1>1, <1>2 DEF AddedAreTemplates
  <2>2. template[p] = templateItem[p]
    BY <1>1, <2>1 DEF ValuesAreKnown, TemplateValue
  <2>3. Desired(p) = templateItem[p] /\ Current(p) = NoValue
    BY <1>1, <2>1 DEF Desired, Current, TemplateConfig
  <2>4. QED
    BY <2>1, <2>2, <2>3
<1>3. CASE platform[p] # NoValue /\ ~IsEmpty(platform, p) /\ templateItem[p] = NoValue
  <2>1. ~Fillable(p) /\ template[p] = NoValue
    BY <1>1, <1>3 DEF ValuesAreKnown, OtherValue, Fillable
  <2>2. Desired(p) = NoValue /\ Current(p) = platform[p]
    BY <1>1, <1>3, <2>1 DEF Desired, Current, TemplateConfig
  <2>3. QED
    BY <1>3, <2>1, <2>2
<1>4. QED
  BY <1>2, <1>3

LEMMA FinishAgrees ==
  ASSUME AgreeInv, Comparable, Finish
  PROVE  AgreeInv'
<1>1. DesiredInv'
  BY OthersKeepDesired DEF AgreeInv
<1>2. /\ UNCHANGED <<items, template, platform, added, deleted, compared>>
      /\ pc = "platform" /\ left = {} /\ pc' = "done"
      /\ outcome' = IF template = platform THEN "Noop" ELSE "Update"
      /\ DesiredInv /\ TypeOK
  BY DEF Finish, AgreeInv, DesiredInv, CopiedInv
<1>3. ASSUME Copied' = preserve' PROVE Comparison' /\ OutcomeAgrees'
  <2>1. Comparison
    BY <1>2, <1>3, ItemsLeave DEF AgreeInv
  <2>2. Comparison'
    BY <1>2, <2>1, ItemsLeave
       DEF Comparison, PlatformIsManaged, LeftAreListed, AddedAreTemplates, DeletedArePlatforms,
           ComparedAreKnown, CopiedAreKnown, ValuesAreKnown, PreservedValue, TemplateValue,
           OtherValue, TemplateVisited, PlatformVisited, IsEmpty, PathsOf, IsPreserved, items
  <2>3. ~\E p \in Path : Drifts(p)
    BY <1>2, <2>1 DEF Comparison, TemplateVisited, Settled, Drifts, PathsOf
  <2>4. template = platform <=> \A p \in Path : template[p] = platform[p]
    BY <1>2 DEF TypeOK, Document
  <2>5. (\A p \in Path : template[p] = platform[p]) <=> \A p \in Path : Desired(p) = Current(p)
    <3>1. CASE \E p \in Path : /\ ~IsPreserved(p)
                               /\ \/ p \in added
                                  \/ /\ platform[p] # NoValue /\ ~IsEmpty(platform, p)
                                     /\ templateItem[p] = NoValue
      BY <1>2, <2>1, <3>1, DriftAgrees
    <3>2. CASE ~\E p \in Path : /\ ~IsPreserved(p)
                                /\ \/ p \in added
                                   \/ /\ platform[p] # NoValue /\ ~IsEmpty(platform, p)
                                      /\ templateItem[p] = NoValue
      <4>1. added = {} /\ deleted = {}
        BY <1>2, <2>1, <3>2 DEF Comparison, AddedAreTemplates, DeletedArePlatforms, TypeOK
      <4>2. AnnotationsPath \in Path => ~IsPreserved(AnnotationsPath)
        BY <1>2, ItemsAreDocuments DEF Comparable, IsPreserved, TypeOK
      <4>3. \A p \in Path : template[p] = platform[p] <=> Desired(p) = Current(p)
        BY <1>2, <2>1, <3>2, <4>1, <4>2, EndAgrees
      <4>4. QED
        BY <4>3
    <3>3. QED
      BY <3>1, <3>2
  <2>6. outcome' = Verdict
    BY <1>2, <2>3, <2>4, <2>5 DEF Verdict
  <2>7. QED
    BY <1>2, <2>2, <2>6, ItemsLeave DEF OutcomeAgrees
<1>4. QED
  BY <1>1, <1>2, <1>3 DEF AgreeInv, StillComparing

LEMMA StutterAgrees == AgreeInv /\ UNCHANGED vars => AgreeInv'
<1> SUFFICES ASSUME AgreeInv, UNCHANGED vars PROVE AgreeInv'
  OBVIOUS
<1>1. DesiredInv'
  BY OthersKeepDesired DEF AgreeInv
<1>2. UNCHANGED <<pc, items, template, platform, left, compared, added, deleted, outcome>>
  BY DEF vars
<1>3. Comparison => Comparison'
  BY <1>2, ItemsLeave
     DEF Comparison, PlatformIsManaged, LeftAreListed, AddedAreTemplates, DeletedArePlatforms,
         ComparedAreKnown, CopiedAreKnown, ValuesAreKnown, PreservedValue, TemplateValue,
         OtherValue, TemplateVisited, Settled, PlatformVisited, Filled, KnownOrGone,
         IncludesPrefix, IsEmpty, PathsOf, IsPreserved, items
<1>4. QED
  BY <1>1, <1>2, <1>3, ItemsLeave DEF AgreeInv, StillComparing, OutcomeAgrees

(* calculateChanges, in whatever order walkMap lists the paths, comes to the  *)
(* action the sets of fields of module Changeset give: Noop, Update,          *)
(* recreation, or the error that protects the resource.                       *)
THEOREM AgreesWithChangesetHolds == Comparable => (Spec => []AgreesWithChangeset)
<1> SUFFICES ASSUME Comparable PROVE Spec => []AgreesWithChangeset
  OBVIOUS
<1>1. AgreeInv /\ [Next]_vars => AgreeInv'
  BY PrepareAgrees, TemplateAgrees, FinishTemplateAgrees, PlatformAgrees, FinishAgrees,
     StutterAgrees DEF Next
<1>2. AgreeInv => AgreesWithChangeset
  BY VerdictIsChangesets DEF AgreeInv
<1>3. QED
  BY AgreeInit, <1>1, <1>2, PTL DEF Spec

=============================================================================
