---------------------------- MODULE ApplyProofs ----------------------------
(***************************************************************************)
(* Proofs about Apply.                                                     *)
(***************************************************************************)
EXTENDS Apply, TLAPS

-----------------------------------------------------------------------------
(* The data operators return configurations and items.                      *)

LEMMA NoConfigType == NoConfig \in Config
BY DEF NoConfig, Config, ValueOrNone

LEMMA ForeignType ==
  ASSUME NEW r \in Resource
  PROVE  /\ ForeignItems(r) \subseteq LiveItem
         /\ \A live \in LiveItem, c \in ForeignConfigs : Edited(r, live, c) \in LiveItem
<1>1. \A c \in ForeignConfigs : Defaulted(r, c) \in Config
  BY ApplyAssumption, DefaultAssumption DEF Defaulted, Config
<1>2. OldApplied[r] \subseteq Config
  BY OldAppliedAssumption
<1>3. QED
  BY <1>1, <1>2, NoConfigType DEF ForeignItems, Foreign, Edited, LiveItem

LEMMA ParsedType ==
  ASSUME NEW r \in Resource, NEW item \in LiveItem
  PROVE  Parsed(r, item) \in LiveItem
<1>1. AppliedValues(r, item) \in Config
  BY DEF AppliedValues, LiveItem, Config, ValueOrNone
<1>2. Overwritten(item.config, AppliedValues(r, item)) \in Config
  BY <1>1 DEF Overwritten, LiveItem, Config
<1>3. QED
  BY <1>2 DEF Parsed, LiveItem

LEMMA PreparedTemplateType ==
  ASSUME NEW r \in Resource, NEW template \in Config, NEW platform \in LiveItem
  PROVE  PreparedTemplate(r, template, platform) \in Config
BY DEF PreparedTemplate, LiveItem, Config

LEMMA OcAppliedType ==
  ASSUME NEW r \in Resource, NEW live \in LiveItemOrAbsent, NEW desired \in Config
  PROVE  OcApplied(r, live, desired) \in LiveItem
<1>1. ASSUME live # Absent PROVE ThreeWayMerge(live, desired) \in Config
  BY <1>1 DEF ThreeWayMerge, LiveItemOrAbsent, LiveItem, Config, ValueOrNone
<1>2. ASSUME NEW c \in Config PROVE Defaulted(r, c) \in Config
  BY DefaultAssumption DEF Defaulted, Config
<1>3. (IF live = Absent THEN desired ELSE ThreeWayMerge(live, desired)) \in Config
  BY <1>1
<1>4. (IF live = Absent THEN NoConfig ELSE live.tac) \in Config
  BY NoConfigType DEF LiveItemOrAbsent, LiveItem
<1>5. QED
  BY <1>2, <1>3, <1>4 DEF OcApplied, LiveItem

(* The changes found are changes, and those that carry a configuration to    *)
(* `oc apply` are about a resource of the template list.                     *)
LEMMA FoundType ==
  /\ Found \subseteq Change
  /\ \A c \in Found : c.action # "Delete" => templateList[c.resource] # Absent
BY DEF Found, NewChangeset, Changes, ToDelete, ToCreate, ToRecreate, ToUpdate, InBoth,
       Change, Action

LEMMA FoundStable ==
  ASSUME UNCHANGED <<opts, templateList, platformList>>
  PROVE  Found' = Found
BY DEF Found, NewChangeset, Changes, ToDelete, ToCreate, ToRecreate, ToUpdate, InBoth,
       ImmutableDrift, PreparedTemplate, PreparedPlatform

LEMMA DesiredType ==
  ASSUME TypeOK, NEW c \in Found, c.action # "Delete"
  PROVE  Desired(c) \in Config
<1>1. c.resource \in Resource
  BY FoundType DEF Change
<1>2. templateList[c.resource] \in Config
  BY <1>1, FoundType DEF TypeOK, ConfigOrAbsent
<1>3. QED
  BY <1>1, <1>2, PreparedTemplateType
  DEF Desired, DesiredState, TypeOK, LiveItemOrAbsent

LEMMA ClusterAfterType ==
  ASSUME TypeOK, NEW c \in Found
  PROVE  ClusterAfter(c) \in [Resource -> LiveItemOrAbsent]
<1>1. c.resource \in Resource
  BY FoundType DEF Change
<1>2. CASE c.action = "Delete"
  BY <1>1, <1>2 DEF ClusterAfter, TypeOK, LiveItemOrAbsent
<1>3. CASE c.action # "Delete"
  <2>1. OcApplied(c.resource, cluster[c.resource], Desired(c)) \in LiveItem
    BY <1>1, <1>3, DesiredType, OcAppliedType DEF TypeOK
  <2>2. QED
    BY <1>1, <1>3, <2>1 DEF ClusterAfter, TypeOK, LiveItemOrAbsent
<1>4. QED
  BY <1>2, <1>3

-----------------------------------------------------------------------------
(* Where the run is in its changeset: nothing is applied before a changeset  *)
(* is found, and while it is applied it is the one the two lists give.  This *)
(* is what makes the invariants below inductive.                             *)

Planned ==
  /\ pc = "fetch" => changeset = {}
  /\ pc \in {"fetch", "confirm"} => applied = {} /\ declined = {}
  /\ pc \in {"confirm", "apply", "select"} => changeset = Found
  /\ pc = "confirm" => changeset # {}
  /\ pc = "apply" => declined = {}
  /\ applied \cap declined = {}

(* The loops keep to the order of the changeset.                             *)
OrderKept ==
  \A c \in applied, d \in changeset : Before(d, c) => d \in applied \cup declined

IInv == TypeOK /\ Planned /\ OrderKept /\ ExitCodeIsTruthful

LEMMA CountUp ==
  ASSUME NEW max \in Nat, NEW n \in 0..max, n < max
  PROVE  n + 1 \in 0..max
OBVIOUS

LEMMA FaultCount ==
  ASSUME TypeOK, faults' = faults \/ (faults < MaxFaults /\ faults' = faults + 1)
  PROVE  faults' \in 0..MaxFaults
BY ApplyAssumption, CountUp DEF TypeOK

LEMMA EditCount ==
  ASSUME TypeOK, edits < MaxEdits /\ edits' = edits + 1
  PROVE  edits' \in 0..MaxEdits
BY ApplyAssumption, CountUp DEF TypeOK

LEMMA InitIInv == Init => IInv
<1> SUFFICES ASSUME Init PROVE IInv
  OBVIOUS
<1>1. cluster \in [Resource -> LiveItemOrAbsent]
  <2>1. ASSUME NEW r \in Resource PROVE cluster[r] \in LiveItemOrAbsent
    BY <2>1, ForeignType DEF Init, LiveItemOrAbsent
  <2>2. QED
    BY <2>1 DEF Init
<1>2. NoItems \in [Resource -> ConfigOrAbsent] /\ NoItems \in [Resource -> LiveItemOrAbsent]
  BY DEF NoItems, ConfigOrAbsent, LiveItemOrAbsent
<1>3. TypeOK
  <2>1. 0 \in 0..MaxEdits /\ 0 \in 0..MaxFaults
    BY ApplyAssumption
  <2>2. QED
    BY <1>1, <1>2, <2>1 DEF TypeOK, Init
<1>4. pc = "idle" /\ changeset = {} /\ applied = {} /\ declined = {} /\ exitCode = "none"
  BY DEF Init
<1>5. Planned
  BY <1>4 DEF Planned
<1>6. OrderKept
  BY <1>4 DEF OrderKept
<1>7. ExitCodeIsTruthful
  BY <1>4 DEF ExitCodeIsTruthful
<1>8. QED
  BY <1>3, <1>5, <1>6, <1>7 DEF IInv

(* A comparison that begins has forgotten the previous one.                  *)
LEMMA BeginStep ==
  ASSUME IInv, NEW v \in BOOLEAN, BeginComparison(v),
         cluster' = cluster, templates' \in TemplateSets, opts' \in OptionSets,
         exitCode' \in {"none", "in sync", "drift", "error", "killed"},
         UNCHANGED boundVars
  PROVE  IInv'
<1>1. ExportedKinds \subseteq Kind
  BY ResourceAssumption DEF ExportedKinds
<1>2. NoItems \in [Resource -> ConfigOrAbsent] /\ NoItems \in [Resource -> LiveItemOrAbsent]
  BY DEF NoItems, ConfigOrAbsent, LiveItemOrAbsent
<1>3. TypeOK'
  BY <1>1, <1>2 DEF IInv, TypeOK, BeginComparison, boundVars
<1>4. QED
  BY <1>3 DEF IInv, Planned, OrderKept, ExitCodeIsTruthful, BeginComparison

(* The two goroutines only fill the lists.                                   *)
LEMMA FetchStep ==
  ASSUME IInv,
         ProcessTemplates \/ ProcessingFails \/ ExportFails \/ \E k \in Kind : ExportKind(k)
  PROVE  IInv'
<1>1. pc = "fetch" /\ UNCHANGED <<cluster, templates, opts, pc, verifying, planVars,
                                 exitCode, interfered, edits>>
  BY DEF ProcessTemplates, ProcessingFails, ExportFails, ExportKind, boundVars
<1>2. (processed \in BOOLEAN /\ fetchError \in BOOLEAN /\ faults \in 0..MaxFaults)'
  BY FaultCount
  DEF IInv, TypeOK, ProcessTemplates, ProcessingFails, ExportFails, ExportKind, boundVars
<1>3. toExport' \subseteq Kind
  BY DEF IInv, TypeOK, ProcessTemplates, ProcessingFails, ExportFails, ExportKind
<1>4. templateList' \in [Resource -> ConfigOrAbsent]
  <2>1. CASE ProcessTemplates
    <3>1. templates \in [Resource -> ConfigOrAbsent]
      BY ApplyAssumption DEF IInv, TypeOK
    <3>2. QED
      BY <2>1, <3>1 DEF ProcessTemplates, ConfigOrAbsent
  <2>2. QED
    BY <2>1 DEF IInv, TypeOK, ProcessingFails, ExportFails, ExportKind
<1>5. platformList' \in [Resource -> LiveItemOrAbsent]
  <2>1. ASSUME NEW k \in Kind, ExportKind(k) PROVE platformList' \in [Resource -> LiveItemOrAbsent]
    <3>1. \A r \in Resource : cluster[r] # Absent => Parsed(r, cluster[r]) \in LiveItem
      BY ParsedType DEF IInv, TypeOK, LiveItemOrAbsent
    <3>2. QED
      BY <2>1, <3>1 DEF ExportKind, IInv, TypeOK, LiveItemOrAbsent
  <2>2. QED
    BY <2>1 DEF IInv, TypeOK, ProcessTemplates, ProcessingFails, ExportFails
<1>6. TypeOK'
  BY <1>1, <1>2, <1>3, <1>4, <1>5 DEF IInv, TypeOK, planVars
<1>7. QED
  BY <1>1, <1>6 DEF IInv, Planned, OrderKept, ExitCodeIsTruthful, planVars

(* The comparison ends.                                                      *)
LEMMA CompareStep ==
  ASSUME IInv, ComparisonFails \/ FindNoDrift \/ ReportDrift \/ FindDrift
  PROVE  IInv'
<1>1. pc = "fetch" /\ applied = {} /\ declined = {}
  BY DEF IInv, Planned, ComparisonFails, FindNoDrift, ReportDrift, FindDrift, Compare,
         FetchDone, FetchAborted
<1>2. UNCHANGED <<cluster, templates, opts, verifying, listVars, applied, declined,
                  interfered, boundVars>>
  BY DEF ComparisonFails, FindNoDrift, ReportDrift, FindDrift, Compare, planVars
<1>3. Found' = Found
  BY <1>2, FoundStable DEF listVars
<1>4. CASE ComparisonFails
  <2>1. changeset' = changeset /\ pc' = "idle" /\ exitCode' = "error"
    BY <1>4 DEF ComparisonFails, Exit, planVars
  <2>2. QED
    BY <1>2, <2>1 DEF IInv, TypeOK, Planned, OrderKept, ExitCodeIsTruthful, listVars,
                      boundVars
<1>5. CASE FindNoDrift \/ ReportDrift \/ FindDrift
  <2>1. changeset' = Found
    BY <1>5 DEF FindNoDrift, ReportDrift, FindDrift, Compare
  <2>2. /\ pc' \in {"idle", "apply", "confirm"}
        /\ exitCode' \in {"none", "in sync", "drift", "error", "killed"}
        /\ pc' # "idle" => Found # {}
        /\ pc' = "idle" => (exitCode' = "in sync" /\ Found = {})
                           \/ (exitCode' \in {"drift", "error"} /\ Found # {})
    BY <1>5 DEF FindNoDrift, ReportDrift, FindDrift, Exit, IInv, TypeOK
  <2>3. TypeOK'
    BY <1>1, <1>2, <2>1, <2>2, FoundType DEF IInv, TypeOK, listVars, boundVars
  <2>4. QED
    BY <1>1, <1>2, <1>3, <2>1, <2>2, <2>3
    DEF IInv, Planned, OrderKept, ExitCodeIsTruthful
<1>6. QED
  BY <1>4, <1>5

(* A command is issued for an upcoming change, the user accepting it or not. *)
LEMMA CommandStep ==
  ASSUME IInv, pc \in {"apply", "select"}, NEW c \in Upcoming,
         Succeed(c) \/ Refused(c) \/ Fail(c)
  PROVE  IInv'
<1>1. changeset = Found /\ c \in changeset /\ c \notin applied /\ c \notin declined
  BY DEF IInv, Planned, Upcoming, Pending
<1>2. \A d \in changeset : Before(d, c) => d \in applied \cup declined
  BY DEF Upcoming, Pending
<1>3. cluster' \in [Resource -> LiveItemOrAbsent]
  BY <1>1, ClusterAfterType DEF Succeed, Refused, Fail, IInv, TypeOK
<1>4. UNCHANGED <<templates, opts, verifying, listVars, changeset, declined, interfered, edits>>
  BY DEF Succeed, Refused, Fail, planVars, boundVars
<1>5. Found' = Found
  BY <1>4, FoundStable DEF listVars
<1>6. faults' \in 0..MaxFaults
  BY FaultCount DEF Succeed, Refused, Fail, IInv, boundVars
<1>7. CASE Succeed(c)
  <2>1. applied' = applied \cup {c} /\ UNCHANGED <<pc, exitCode>>
    BY <1>7 DEF Succeed
  <2>2. TypeOK'
    BY <1>1, <1>3, <1>4, <1>6, <2>1 DEF IInv, TypeOK, listVars
  <2>3. Planned' /\ ExitCodeIsTruthful'
    BY <1>1, <1>4, <1>5, <2>1 DEF IInv, Planned, ExitCodeIsTruthful
  <2>4. OrderKept'
    BY <1>2, <1>4, <2>1 DEF IInv, OrderKept
  <2>5. QED
    BY <2>2, <2>3, <2>4 DEF IInv
<1>8. CASE Refused(c) \/ Fail(c)
  <2>1. applied' = applied /\ pc' = "idle" /\ exitCode' = "error"
    BY <1>8 DEF Refused, Fail, Exit, planVars
  <2>2. TypeOK'
    BY <1>3, <1>4, <1>6, <2>1 DEF IInv, TypeOK, listVars
  <2>3. QED
    BY <1>4, <2>1, <2>2 DEF IInv, Planned, OrderKept, ExitCodeIsTruthful
<1>9. QED
  BY <1>7, <1>8

(* The steps that end the run or move it on without a command.               *)
LEMMA ControlStep ==
  ASSUME IInv,
         \/ \E answer \in {"y", "n", "s"} : AnswerAll(answer)
         \/ EndOfInput \/ DeclineChange \/ FinishSelect \/ Crash
         \/ FinishApply /\ ~opts.verify
  PROVE  IInv'
<1>1. UNCHANGED <<cluster, templates, opts, verifying, listVars, changeset, applied,
                  interfered, edits>>
  BY DEF AnswerAll, EndOfInput, DeclineChange, FinishSelect, Crash, FinishApply, planVars,
         boundVars
<1>2. Found' = Found
  BY <1>1, FoundStable DEF listVars
<1>3. faults' \in 0..MaxFaults
  BY FaultCount
  DEF AnswerAll, EndOfInput, DeclineChange, FinishSelect, Crash, FinishApply, boundVars,
      IInv
<1>4. CASE DeclineChange
  <2>1. PICK c \in Upcoming : declined' = declined \cup {c}
    BY <1>4 DEF DeclineChange
  <2>2. UNCHANGED <<pc, exitCode>> /\ pc = "select"
    BY <1>4 DEF DeclineChange
  <2>3. c \in changeset /\ c \notin applied
    BY DEF Upcoming, Pending
  <2>4. TypeOK'
    BY <1>1, <1>3, <2>1, <2>2, <2>3 DEF IInv, TypeOK, listVars
  <2>5. QED
    BY <1>1, <1>2, <2>1, <2>2, <2>3, <2>4
    DEF IInv, Planned, OrderKept, ExitCodeIsTruthful
<1>5. CASE ~DeclineChange
  <2>1. declined' = declined
    BY <1>5 DEF AnswerAll, EndOfInput, FinishSelect, Crash, FinishApply, planVars
  <2>2. /\ pc' \in {"idle", "apply", "select"}
        /\ exitCode' \in {"none", "in sync", "drift", "error", "killed"}
    BY <1>5 DEF AnswerAll, EndOfInput, FinishSelect, Crash, FinishApply, Exit, IInv, TypeOK
  <2>3. TypeOK'
    BY <1>1, <1>3, <2>1, <2>2 DEF IInv, TypeOK, listVars
  <2>4. Planned'
    BY <1>1, <1>2, <1>5, <2>1
    DEF IInv, Planned, AnswerAll, EndOfInput, FinishSelect, Crash, FinishApply, Exit
  <2>5. ExitCodeIsTruthful'
    BY <1>1, <1>5
    DEF IInv, TypeOK, Planned, ExitCodeIsTruthful, Pending, AnswerAll, EndOfInput,
        FinishSelect, Crash, FinishApply, Exit
  <2>6. QED
    BY <1>1, <2>1, <2>3, <2>4, <2>5 DEF IInv, OrderKept
<1>6. QED
  BY <1>4, <1>5

LEMMA ForeignEditStep ==
  ASSUME IInv, NEW r \in Resource, ForeignEdit(r)
  PROVE  IInv'
<1>1. cluster' \in [Resource -> LiveItemOrAbsent]
  <2>1. ForeignItems(r) \subseteq LiveItemOrAbsent
    BY ForeignType DEF LiveItemOrAbsent
  <2>2. \A c \in ForeignConfigs :
          cluster[r] # Absent => Edited(r, cluster[r], c) \in LiveItemOrAbsent
    BY ForeignType DEF IInv, TypeOK, LiveItemOrAbsent
  <2>3. QED
    BY <2>1, <2>2 DEF ForeignEdit, IInv, TypeOK, LiveItemOrAbsent
<1>2. UNCHANGED <<templates, opts, pc, verifying, listVars, planVars, exitCode, faults>>
  BY DEF ForeignEdit
<1>3. Found' = Found
  BY <1>2, FoundStable DEF listVars
<1>4. TypeOK'
  BY <1>1, <1>2, EditCount DEF ForeignEdit, IInv, TypeOK, listVars, planVars
<1>5. QED
  BY <1>2, <1>3, <1>4 DEF IInv, Planned, OrderKept, ExitCodeIsTruthful, planVars

LEMMA StutterStep == IInv /\ UNCHANGED vars => IInv'
<1> SUFFICES ASSUME IInv, UNCHANGED vars PROVE IInv'
  OBVIOUS
<1>1. Found' = Found
  BY FoundStable DEF vars, listVars
<1>2. QED
  BY <1>1 DEF IInv, TypeOK, Planned, OrderKept, ExitCodeIsTruthful, vars, listVars,
              planVars, boundVars

LEMMA NextIInv == IInv /\ [Next]_vars => IInv'
<1> SUFFICES ASSUME IInv, [Next]_vars PROVE IInv'
  OBVIOUS
<1>1. CASE Start
  BY <1>1, BeginStep DEF Start
<1>2. CASE ProcessTemplates \/ ProcessingFails \/ ExportFails \/ \E k \in Kind : ExportKind(k)
  BY <1>2, FetchStep
<1>3. CASE ComparisonFails \/ FindNoDrift \/ ReportDrift \/ FindDrift
  BY <1>3, CompareStep
<1>4. CASE ApplyChange \/ AcceptChange \/ CommandFails
  BY <1>4, CommandStep DEF ApplyChange, AcceptChange, CommandFails
<1>5. CASE FinishApply
  <2>1. CASE opts.verify
    BY <1>5, <2>1, BeginStep DEF FinishApply, IInv, TypeOK
  <2>2. CASE ~opts.verify
    BY <1>5, <2>2, ControlStep
  <2>3. QED
    BY <2>1, <2>2
<1>6. CASE \/ \E answer \in {"y", "n", "s"} : AnswerAll(answer)
           \/ EndOfInput \/ DeclineChange \/ FinishSelect \/ Crash
  BY <1>6, ControlStep
<1>7. CASE \E r \in Resource : ForeignEdit(r)
  BY <1>7, ForeignEditStep
<1>8. CASE UNCHANGED vars
  BY <1>8, StutterStep
<1>9. QED
  BY <1>1, <1>2, <1>3, <1>4, <1>5, <1>6, <1>7, <1>8 DEF Next, TailorStep, UserStep, Fault

THEOREM IInvariant == Spec => []IInv
BY InitIInv, NextIInv, PTL DEF Spec

-----------------------------------------------------------------------------
(* Type correctness.                                                         *)
THEOREM TypeCorrect == Spec => []TypeOK
BY IInvariant, PTL DEF IInv

(* The order of the changeset serves its purpose: kindOrder and the three     *)
(* phases put every command after those it depends on.                        *)

LEMMA KindSequenceInjective ==
  ASSUME NEW i \in 1..18, NEW j \in 1..18, KindSequence[i] = KindSequence[j]
  PROVE  i = j
BY DEF KindSequence

LEMMA KindOrderIs ==
  ASSUME NEW k \in Kind, NEW i \in 1..18, KindSequence[i] = k
  PROVE  KindOrder[k] = i
BY KindSequenceInjective DEF KindOrder

LEMMA NeededFirst ==
  ASSUME NEW r \in Resource, NEW q \in Resource, Needs(r, q)
  PROVE  Order(q) < Order(r)
<1>1. KindOf[r] \in Kind /\ KindOf[q] \in Kind
  BY ResourceAssumption
<1>2. PICK i \in 1..18, j \in 1..18 :
        KindSequence[i] = KindOf[q] /\ KindSequence[j] = KindOf[r] /\ i < j
  BY DEF Needs, Dependency, Workload, KindSequence
<1>3. QED
  BY <1>1, <1>2, KindOrderIs DEF Order

LEMMA DependencyComesBefore ==
  ASSUME NEW c \in Change, NEW d \in Change, DependsOn(c, d)
  PROVE  Before(d, c)
<1>1. c.resource \in Resource /\ d.resource \in Resource
  BY DEF Change
<1>2. CASE c.action = "Create" /\ d.action = "Delete"
  BY <1>2 DEF Before, Phase
<1>3. CASE c.action = "Update" /\ d.action = "Create"
  BY <1>3 DEF Before, Phase
<1>4. CASE c.action = "Delete" /\ d.action = "Delete"
  BY <1>1, <1>4, NeededFirst DEF Before, DependsOn
<1>5. CASE c.action = d.action /\ c.action # "Delete"
  BY <1>1, <1>5, NeededFirst DEF Before, DependsOn
<1>6. QED
  BY <1>2, <1>3, <1>4, <1>5 DEF DependsOn

(* No command is issued before those it depends on are carried out or         *)
(* declined, whatever fails or is interrupted (DependenciesFirst).            *)
THEOREM DependenciesFirstHolds == Spec => []DependenciesFirst
<1>1. IInv => DependenciesFirst
  BY DependencyComesBefore DEF IInv, TypeOK, OrderKept, DependenciesFirst
<1>2. QED
  BY <1>1, IInvariant, PTL

(* The exit code agrees with the commands carried out.                       *)
THEOREM ExitCodeTruthfulHolds == Spec => []ExitCodeIsTruthful
BY IInvariant, PTL DEF IInv

=============================================================================
