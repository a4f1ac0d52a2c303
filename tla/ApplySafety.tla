---------------------------- MODULE ApplySafety ----------------------------
(***************************************************************************)
(* Proofs of what a run of tailor does to the cluster: the invariant that  *)
(* relates the two lists, the changeset and the live resources, and the    *)
(* properties of Apply that follow from it.                                *)
(***************************************************************************)
EXTENDS ApplyProofs

(* The items a faultless goroutine would put in the lists now.              *)
Filtered ==
  [r \in Resource |-> IF Wanted(r) THEN templates[r] ELSE Absent]

Exported(r) ==
  IF cluster[r] # Absent /\ SatisfiedBy(r, cluster[r].config)
  THEN Parsed(r, cluster[r]) ELSE Absent

(* The comparison is over and the run has not been aborted since.           *)
Compared ==
  \/ pc \in {"confirm", "apply", "select"}
  \/ pc = "idle" /\ exitCode \in {"in sync", "drift"}

Idle ==
  /\ exitCode # "none" => pc = "idle"
  /\ pc = "idle" /\ exitCode = "none" => changeset = {}
  /\ pc = "idle" /\ exitCode = "drift" /\ declined = {} => applied = {}
  /\ pc = "idle" /\ exitCode = "in sync" => declined = {}

TemplatesRead ==
  /\ pc = "fetch" /\ processed /\ ~fetchError => templateList = Filtered
  /\ Compared => /\ templateList = Filtered
                 /\ changeset = Found
                 /\ ~Misconfigured /\ ~RecreateProtected

(* The server leaves no field unset that it has a default for, and old      *)
(* versions recorded nothing but images.                                    *)
Settled(r, item) ==
  /\ \A f \in Field : item.config[f] = NoValue => Default[r][f] = NoValue
  /\ \A f \in Field \ Image[r] : item.tac[f] = NoValue

ClusterSettled == \A r \in Resource : cluster[r] # Absent => Settled(r, cluster[r])

Touched(r) == \E c \in applied : c.resource = r
Upserted(r) == \E c \in applied : c.resource = r /\ c.action # "Delete"

(* A resource no change was applied to is as exported; a deleted one is     *)
(* gone until it is created; a created or updated one has its values.       *)
LiveAsPlanned(r) ==
  /\ ~Touched(r) => platformList[r] = Exported(r)
  /\ Touched(r) /\ ~Upserted(r) => cluster[r] = Absent
  /\ Upserted(r) => Wanted(r) /\ Reached(r)

Snapshot ==
  ~interfered =>
    /\ pc = "fetch" /\ ~fetchError =>
         \A r \in Resource : KindOf[r] \notin toExport => platformList[r] = Exported(r)
    /\ Compared => \A r \in Resource : LiveAsPlanned(r)

SInv == IInv /\ Idle /\ TemplatesRead /\ ClusterSettled /\ Snapshot

-----------------------------------------------------------------------------
(* What stays the same while a resource does.                               *)

LEMMA WantedStable ==
  ASSUME NEW r \in Resource, UNCHANGED templates
  PROVE  Wanted(r)' = Wanted(r)
BY DEF Wanted, SatisfiedBy

LEMMA FilteredStable ==
  ASSUME UNCHANGED templates
  PROVE  Filtered' = Filtered
BY DEF Filtered, Wanted, SatisfiedBy

LEMMA ExportedStable ==
  ASSUME NEW r \in Resource, cluster'[r] = cluster[r]
  PROVE  Exported(r)' = Exported(r)
BY DEF Exported, SatisfiedBy

(* Parsing touches nothing but images.                                      *)
LEMMA ParsedKeeps ==
  ASSUME NEW r \in Resource, NEW item \in LiveItem, Settled(r, item)
  PROVE  /\ Parsed(r, item).lac = item.lac
         /\ \A f \in Field \ Image[r] : Parsed(r, item).config[f] = item.config[f]
<1>1. \A f \in Field \ Image[r] : AppliedValues(r, item)[f] = NoValue
  BY DEF AppliedValues, Settled
<1>2. QED
  BY <1>1 DEF Parsed, Overwritten, LiveItem

LEMMA ExportedKeeps ==
  ASSUME NEW r \in Resource, TypeOK, ClusterSettled, Exported(r) # Absent
  PROVE  /\ cluster[r] # Absent /\ SatisfiedBy(r, cluster[r].config)
         /\ Exported(r) = Parsed(r, cluster[r])
         /\ Exported(r).lac = cluster[r].lac
         /\ \A f \in Field \ Image[r] : Exported(r).config[f] = cluster[r].config[f]
<1>1. cluster[r] # Absent /\ SatisfiedBy(r, cluster[r].config)
  BY DEF Exported
<1>2. cluster[r] \in LiveItem /\ Settled(r, cluster[r])
  BY <1>1 DEF TypeOK, LiveItemOrAbsent, ClusterSettled
<1>3. QED
  BY <1>1, <1>2, ParsedKeeps DEF Exported

LEMMA ReachedStable ==
  ASSUME NEW r \in Resource, cluster'[r] = cluster[r],
         UNCHANGED <<templates, opts, platformList>>
  PROVE  Reached(r)' = Reached(r)
BY DEF Reached, Wanted, SatisfiedBy

LEMMA LiveAsPlannedStable ==
  ASSUME NEW r \in Resource, cluster'[r] = cluster[r],
         UNCHANGED <<templates, opts, platformList>>,
         Touched(r)' = Touched(r), Upserted(r)' = Upserted(r),
         LiveAsPlanned(r)
  PROVE  LiveAsPlanned(r)'
BY WantedStable, ExportedStable, ReachedStable DEF LiveAsPlanned

(* An item is in the template list exactly if the templates ask for it.     *)
LEMMA FilteredWanted ==
  ASSUME NEW r \in Resource, TypeOK
  PROVE  (Filtered[r] # Absent <=> Wanted(r)) /\ (Wanted(r) => Filtered[r] = templates[r])
BY DEF Filtered, Wanted

-----------------------------------------------------------------------------
(* The changes of one resource.                                             *)

LEMMA UpsertUnique ==
  ASSUME NEW c \in Found, NEW d \in Found, c.resource = d.resource,
         c.action # "Delete", d.action # "Delete"
  PROVE  c = d
BY DEF Found, NewChangeset, Changes, ToDelete, ToCreate, ToRecreate, ToUpdate, InBoth

LEMMA DeleteBeforeUpsert ==
  ASSUME NEW c \in Change, NEW d \in Change, c.action = "Delete", d.action # "Delete"
  PROVE  Before(c, d)
BY DEF Before, Phase, Change, Action

(* A delete comes up before anything else is applied to its resource.       *)
LEMMA DeleteComesFirst ==
  ASSUME IInv, pc \in {"apply", "select"}, NEW c \in Upcoming, c.action = "Delete"
  PROVE  ~Upserted(c.resource)
<1> SUFFICES ASSUME NEW d \in applied, d.action # "Delete" PROVE FALSE
  BY DEF Upserted
<1>1. c \in changeset /\ c \notin applied \cup declined
  BY DEF Upcoming, Pending
<1>2. c \in Change /\ d \in Change
  BY <1>1 DEF IInv, TypeOK
<1>3. Before(c, d)
  BY <1>2, DeleteBeforeUpsert
<1>4. QED
  BY <1>1, <1>3 DEF IInv, OrderKept

(* Nothing but its delete was applied to a resource whose create or update  *)
(* comes up.                                                                *)
LEMMA UpsertComesOnce ==
  ASSUME IInv, pc \in {"apply", "select"}, NEW c \in Upcoming, c.action # "Delete"
  PROVE  ~Upserted(c.resource)
<1> SUFFICES ASSUME NEW d \in applied, d.resource = c.resource, d.action # "Delete"
             PROVE  FALSE
  BY DEF Upserted
<1>1. c \in Found /\ c \notin applied
  BY DEF Upcoming, Pending, IInv, Planned
<1>2. d \in Found
  BY DEF IInv, TypeOK, Planned
<1>3. c = d
  BY <1>1, <1>2, UpsertUnique
<1>4. QED
  BY <1>1, <1>3

-----------------------------------------------------------------------------
(* What `oc apply` leaves behind.                                           *)

LEMMA ApplyReaches ==
  ASSUME SInv, ~interfered, pc \in {"apply", "select"},
         NEW c \in Upcoming, c.action # "Delete", Succeed(c)
  PROVE  (Wanted(c.resource) /\ Reached(c.resource))'
<1> DEFINE r == c.resource
           desired == Desired(c)
<1>1. c \in Found /\ r \in Resource /\ templateList[r] # Absent
  BY FoundType DEF Upcoming, Pending, SInv, IInv, Planned, Change
<1>2. Wanted(r) /\ templateList[r] = templates[r]
  BY <1>1, FilteredWanted DEF SInv, IInv, TemplatesRead, Compared
<1>3. Wanted(r)' /\ UNCHANGED <<templates, opts, platformList>>
  BY <1>1, <1>2, WantedStable DEF Succeed, listVars
<1>4. cluster'[r] = OcApplied(r, cluster[r], desired)
  BY <1>1 DEF Succeed, ClusterAfter, SInv, IInv, TypeOK
<1>5. LiveAsPlanned(r) /\ ~Upserted(r)
  BY <1>1, UpsertComesOnce DEF SInv, Snapshot, Compared
<1>6. cluster[r] = Absent \/ platformList[r] = Absent \/ platformList[r].lac = cluster[r].lac
  <2>1. CASE platformList[r] = Exported(r)
    BY <1>1, <2>1, ExportedKeeps DEF SInv, IInv
  <2>2. CASE platformList[r] # Exported(r)
    BY <1>5, <2>2 DEF LiveAsPlanned
  <2>3. QED
    BY <2>1, <2>2
<1>7. \A f \in Field \ Preserved[r] : desired[f] = templates[r][f]
  BY <1>1, <1>2 DEF Desired, DesiredState, PreparedTemplate
<1>8. cluster'[r] # Absent
  <2>1. desired \in Config
    BY <1>1, <1>2, PreparedTemplateType
    DEF Desired, DesiredState, SInv, IInv, TypeOK, ConfigOrAbsent, LiveItemOrAbsent
  <2>2. QED
    BY <1>1, <1>4, <2>1, OcAppliedType, AbsentAssumption DEF SInv, IInv, TypeOK
<1>9. ASSUME NEW f \in Field \ (Preserved[r] \cup Image[r])
      PROVE  IF templates[r][f] # NoValue
             THEN cluster'[r].config[f] = templates[r][f]
             ELSE platformList[r] = Absent \/ platformList[r].lac[f] = NoValue
                    \/ cluster'[r].config[f] \in {NoValue, Default[r][f]}
  <2>1. f \in Field /\ desired[f] = templates[r][f]
    BY <1>7
  <2>2. CASE cluster[r] = Absent
    BY <1>4, <2>1, <2>2 DEF OcApplied, Defaulted
  <2>3. CASE cluster[r] # Absent
    BY <1>4, <1>6, <2>1, <2>3 DEF OcApplied, Defaulted, ThreeWayMerge
  <2>4. QED
    BY <2>2, <2>3
<1>10. QED
  BY <1>3, <1>8, <1>9 DEF Reached

-----------------------------------------------------------------------------
(* One step keeps the invariant: first the parts that do not look at the    *)
(* cluster.                                                                 *)

LEMMA IdleStep == IInv /\ Idle /\ [Next]_vars => Idle'
<1> SUFFICES ASSUME IInv, Idle, [Next]_vars PROVE Idle'
  OBVIOUS
<1>1. CASE Start
  BY <1>1 DEF Start, BeginComparison, Idle
<1>2. CASE ProcessTemplates \/ ProcessingFails \/ ExportFails \/ \E k \in Kind : ExportKind(k)
  BY <1>2 DEF ProcessTemplates, ProcessingFails, ExportFails, ExportKind, Idle, planVars
<1>3. CASE ComparisonFails \/ FindNoDrift \/ ReportDrift \/ FindDrift
  BY <1>3 DEF ComparisonFails, FindNoDrift, ReportDrift, FindDrift, Compare, Exit, FetchDone,
              FetchAborted, Idle, IInv, Planned, planVars
<1>4. CASE ApplyChange \/ AcceptChange \/ CommandFails
  BY <1>4 DEF ApplyChange, AcceptChange, CommandFails, Succeed, Refused, Fail, Exit, Idle,
              planVars
<1>5. CASE FinishApply
  <2>1. CASE opts.verify
    BY <1>5, <2>1 DEF FinishApply, BeginComparison, Exit, Idle
  <2>2. CASE ~opts.verify
    BY <1>5, <2>2 DEF FinishApply, Exit, Idle, IInv, Planned, planVars
  <2>3. QED
    BY <2>1, <2>2
<1>6. CASE \/ \E answer \in {"y", "n", "s"} : AnswerAll(answer)
           \/ EndOfInput \/ DeclineChange \/ FinishSelect \/ Crash
  BY <1>6 DEF AnswerAll, EndOfInput, DeclineChange, FinishSelect, Crash, Exit, Idle, IInv,
              Planned, planVars
<1>7. CASE (\E r \in Resource : ForeignEdit(r)) \/ UNCHANGED vars
  BY <1>7 DEF ForeignEdit, Idle, vars, planVars
<1>8. QED
  BY <1>1, <1>2, <1>3, <1>4, <1>5, <1>6, <1>7 DEF Next, TailorStep, UserStep, Fault

(* A step that leaves the comparison and its outcome alone.                 *)
LEMMA TemplatesReadStable ==
  ASSUME TemplatesRead, UNCHANGED <<templates, opts, listVars, changeset>>,
         Compared' => Compared,
         pc' = "fetch" => pc = "fetch"
  PROVE  TemplatesRead'
<1>1. Filtered' = Filtered /\ Found' = Found
  BY FilteredStable, FoundStable DEF listVars
<1>2. RecreateProtected' = RecreateProtected
  BY DEF RecreateProtected, ToRecreate, InBoth, ImmutableDrift, listVars
<1>3. Misconfigured' = Misconfigured
  BY DEF Misconfigured, NoItems, listVars
<1>4. QED
  BY <1>1, <1>2, <1>3 DEF TemplatesRead, listVars

LEMMA TemplatesReadStep == IInv /\ Idle /\ TemplatesRead /\ [Next]_vars => TemplatesRead'
<1> SUFFICES ASSUME IInv, Idle, TemplatesRead, [Next]_vars PROVE TemplatesRead'
  OBVIOUS
<1>1. CASE Start
  BY <1>1 DEF Start, BeginComparison, TemplatesRead, Compared
<1>2. CASE ProcessTemplates \/ ProcessingFails \/ ExportFails \/ \E k \in Kind : ExportKind(k)
  <2>1. pc' = "fetch" /\ UNCHANGED templates
    BY <1>2 DEF ProcessTemplates, ProcessingFails, ExportFails, ExportKind
  <2>2. Filtered' = Filtered
    BY <2>1, FilteredStable
  <2>3. CASE ProcessTemplates
    BY <2>1, <2>2, <2>3 DEF ProcessTemplates, Filtered, Wanted, TemplatesRead, Compared
  <2>4. CASE ProcessingFails \/ ExportFails
    BY <2>1, <2>4 DEF ProcessingFails, ExportFails, TemplatesRead, Compared
  <2>5. CASE \E k \in Kind : ExportKind(k)
    BY <2>1, <2>2, <2>5 DEF ExportKind, TemplatesRead, Compared
  <2>6. QED
    BY <1>2, <2>3, <2>4, <2>5
<1>3. CASE ComparisonFails
  BY <1>3 DEF ComparisonFails, Exit, TemplatesRead, Compared
<1>4. CASE FindNoDrift \/ ReportDrift \/ FindDrift
  <2>1. /\ FetchDone /\ ~Misconfigured /\ ~RecreateProtected
        /\ changeset' = Found /\ UNCHANGED <<templates, opts, listVars>>
        /\ pc' # "fetch"
    BY <1>4 DEF FindNoDrift, ReportDrift, FindDrift, Compare, Exit
  <2>2. Filtered' = Filtered /\ Found' = Found
    BY <2>1, FilteredStable, FoundStable DEF listVars
  <2>3. RecreateProtected' = RecreateProtected
    BY <2>1 DEF RecreateProtected, ToRecreate, InBoth, ImmutableDrift, listVars
  <2>4. Misconfigured' = Misconfigured
    BY <2>1 DEF Misconfigured, NoItems, listVars
  <2>5. QED
    BY <2>1, <2>2, <2>3, <2>4 DEF FetchDone, TemplatesRead, listVars
<1>5. CASE ApplyChange \/ AcceptChange \/ CommandFails
  BY <1>5, TemplatesReadStable
  DEF ApplyChange, AcceptChange, CommandFails, Succeed, Refused, Fail, Exit, planVars, Compared
<1>6. CASE FinishApply
  <2>1. CASE opts.verify
    BY <1>6, <2>1 DEF FinishApply, BeginComparison, TemplatesRead, Compared
  <2>2. CASE ~opts.verify
    BY <1>6, <2>2, TemplatesReadStable DEF FinishApply, Exit, planVars, Compared
  <2>3. QED
    BY <2>1, <2>2
<1>7. CASE \/ \E answer \in {"y", "n", "s"} : AnswerAll(answer)
           \/ EndOfInput \/ DeclineChange \/ FinishSelect \/ Crash
  BY <1>7, TemplatesReadStable
  DEF AnswerAll, EndOfInput, DeclineChange, FinishSelect, Crash, Exit, planVars, Compared
<1>8. CASE (\E r \in Resource : ForeignEdit(r)) \/ UNCHANGED vars
  BY <1>8, TemplatesReadStable DEF ForeignEdit, vars, planVars, Compared
<1>9. QED
  BY <1>1, <1>2, <1>3, <1>4, <1>5, <1>6, <1>7, <1>8 DEF Next, TailorStep, UserStep, Fault

-----------------------------------------------------------------------------
(* The cluster.                                                             *)

(* Every command leaves all resources but one as they are.                  *)
LEMMA CommandEffect ==
  ASSUME IInv, NEW c \in Found
  PROVE  /\ c.resource \in Resource
         /\ \A r \in Resource : r # c.resource => ClusterAfter(c)[r] = cluster[r]
         /\ ClusterAfter(c)[c.resource] =
              IF c.action = "Delete" THEN Absent
              ELSE OcApplied(c.resource, cluster[c.resource], Desired(c))
BY FoundType DEF ClusterAfter, IInv, TypeOK, Change

LEMMA DefaultedSettled ==
  ASSUME NEW r \in Resource, NEW item, NEW config, item.config = Defaulted(r, config),
         \A f \in Field \ Image[r] : item.tac[f] = NoValue
  PROVE  Settled(r, item)
BY DEF Settled, Defaulted

LEMMA ForeignSettled ==
  ASSUME NEW r \in Resource
  PROVE  /\ \A item \in ForeignItems(r) : Settled(r, item)
         /\ \A live \in LiveItem, c \in ForeignConfigs :
              Settled(r, live) => Settled(r, Edited(r, live, c))
<1>1. ASSUME NEW config \in ForeignConfigs, NEW tac \in OldApplied[r]
      PROVE  Settled(r, Foreign(r, config, tac))
  <2>1. \A f \in Field \ Image[r] : tac[f] = NoValue
    BY OldAppliedAssumption
  <2>2. QED
    BY <2>1, DefaultedSettled DEF Foreign
<1>2. ASSUME NEW live \in LiveItem, NEW c \in ForeignConfigs, Settled(r, live)
      PROVE  Settled(r, Edited(r, live, c))
  <2>1. /\ Edited(r, live, c).config = Defaulted(r, c)
        /\ Edited(r, live, c).tac = live.tac
    BY DEF Edited, LiveItem
  <2>2. \A f \in Field \ Image[r] : Edited(r, live, c).tac[f] = NoValue
    BY <1>2, <2>1 DEF Settled
  <2>3. QED
    BY <2>1, <2>2, DefaultedSettled
<1>3. QED
  BY <1>1, <1>2 DEF ForeignItems

LEMMA OcAppliedSettled ==
  ASSUME NEW r \in Resource, NEW live, live # Absent => Settled(r, live), NEW desired
  PROVE  Settled(r, OcApplied(r, live, desired))
<1>1. \A f \in Field \ Image[r] : OcApplied(r, live, desired).tac[f] = NoValue
  BY DEF OcApplied, NoConfig, Settled
<1>2. OcApplied(r, live, desired).config =
        Defaulted(r, IF live = Absent THEN desired ELSE ThreeWayMerge(live, desired))
  BY DEF OcApplied
<1>3. QED
  BY <1>1, <1>2, DefaultedSettled

LEMMA ClusterSettledStep == IInv /\ ClusterSettled /\ [Next]_vars => ClusterSettled'
<1> SUFFICES ASSUME IInv, ClusterSettled, [Next]_vars,
                    NEW r \in Resource, cluster'[r] # Absent
             PROVE  Settled(r, cluster'[r])
  BY DEF ClusterSettled, Settled
<1>1. CASE cluster'[r] = cluster[r]
  BY <1>1 DEF ClusterSettled
<1>2. cluster[r] # Absent => cluster[r] \in LiveItem /\ Settled(r, cluster[r])
  BY DEF IInv, TypeOK, LiveItemOrAbsent, ClusterSettled
<1>3. CASE \E q \in Resource : ForeignEdit(q)
  <2>1. PICK q \in Resource : ForeignEdit(q)
    BY <1>3
  <2>2. CASE q # r
    BY <1>1, <2>1, <2>2 DEF ForeignEdit, IInv, TypeOK
  <2>3. CASE q = r
    <3>1. \/ cluster'[r] \in ForeignItems(r)
          \/ /\ cluster[r] # Absent
             /\ \E c \in ForeignConfigs : cluster'[r] = Edited(r, cluster[r], c)
      BY <2>1, <2>3 DEF ForeignEdit, IInv, TypeOK
    <3>2. QED
      BY <1>2, <3>1, ForeignSettled
  <2>4. QED
    BY <2>2, <2>3
<1>4. ASSUME pc \in {"apply", "select"}, NEW c \in Upcoming, cluster' = ClusterAfter(c)
      PROVE  Settled(r, cluster'[r])
  <2>1. c \in Found
    BY <1>4 DEF Upcoming, Pending, IInv, Planned
  <2>2. CASE c.resource # r
    BY <1>1, <1>4, <2>1, <2>2, CommandEffect
  <2>3. CASE c.resource = r
    <3>1. cluster'[r] = OcApplied(r, cluster[r], Desired(c))
      BY <1>4, <2>1, <2>3, CommandEffect
    <3>2. QED
      BY <1>2, <3>1, OcAppliedSettled
  <2>4. QED
    BY <2>2, <2>3
<1>5. CASE ApplyChange \/ AcceptChange \/ CommandFails
  <2>1. pc \in {"apply", "select"}
    BY <1>5 DEF ApplyChange, AcceptChange, CommandFails
  <2>2. PICK c \in Upcoming : cluster' = cluster \/ cluster' = ClusterAfter(c)
    BY <1>5 DEF ApplyChange, AcceptChange, CommandFails, Succeed, Refused, Fail
  <2>3. QED
    BY <1>1, <1>4, <2>1, <2>2
<1>6. CASE UNCHANGED cluster
  BY <1>1, <1>6
<1>7. QED
  BY <1>3, <1>5, <1>6
  DEF Next, TailorStep, UserStep, Fault, Start, ProcessTemplates, ProcessingFails, ExportKind,
      ExportFails, ComparisonFails, FindNoDrift, ReportDrift, FindDrift, Compare, AnswerAll,
      EndOfInput, DeclineChange, FinishApply, FinishSelect, Crash, vars

-----------------------------------------------------------------------------
(* The lists and the live resources.                                        *)

(* A comparison begins: nothing is exported yet but what is never exported. *)
LEMMA BeginSnapshot ==
  ASSUME IInv, NEW v, BeginComparison(v)
  PROVE  Snapshot'
<1>1. pc' = "fetch" /\ ~Compared'
  BY DEF BeginComparison, Compared
<1>2. ASSUME NEW r \in Resource, KindOf[r] \notin toExport'
      PROVE  platformList'[r] = Exported(r)'
  <2>1. r \notin Targeted
    BY <1>2 DEF BeginComparison, ExportedKinds
  <2>2. platformList'[r] = Absent
    BY DEF BeginComparison, NoItems
  <2>3. QED
    BY <2>1, <2>2 DEF Exported, SatisfiedBy
<1>3. QED
  BY <1>1, <1>2 DEF Snapshot

(* A step that changes neither the cluster nor what it is compared with.    *)
LEMMA SnapshotStable ==
  ASSUME Snapshot, interfered' = interfered,
         UNCHANGED <<cluster, templates, opts, platformList, applied>>,
         pc' = "fetch" /\ ~fetchError' =>
           pc = "fetch" /\ ~fetchError /\ UNCHANGED toExport,
         Compared' => Compared
  PROVE  Snapshot'
<1>1. \A r \in Resource : Touched(r)' = Touched(r) /\ Upserted(r)' = Upserted(r)
  BY DEF Touched, Upserted
<1>2. \A r \in Resource : Exported(r)' = Exported(r)
  BY ExportedStable
<1>3. \A r \in Resource : LiveAsPlanned(r) => LiveAsPlanned(r)'
  BY <1>1, LiveAsPlannedStable
<1>4. QED
  BY <1>2, <1>3 DEF Snapshot

(* A kind is listed.                                                        *)
LEMMA ExportSnapshot ==
  ASSUME IInv, Snapshot, NEW k \in Kind, ExportKind(k)
  PROVE  Snapshot'
<1>1. pc' = "fetch" /\ ~Compared' /\ UNCHANGED <<cluster, interfered, fetchError>>
  BY DEF ExportKind, Compared
<1>2. ASSUME ~interfered, ~fetchError, NEW r \in Resource, KindOf[r] \notin toExport'
      PROVE  platformList'[r] = Exported(r)'
  <2>1. Exported(r)' = Exported(r)
    BY <1>1, ExportedStable
  <2>2. CASE KindOf[r] = k
    BY <2>1, <2>2 DEF ExportKind, Exported
  <2>3. CASE KindOf[r] # k
    BY <1>2, <2>1, <2>3 DEF ExportKind, Snapshot
  <2>4. QED
    BY <2>2, <2>3
<1>3. QED
  BY <1>1, <1>2 DEF Snapshot

(* The comparison ends with every kind listed and nothing applied.          *)
LEMMA CompareSnapshot ==
  ASSUME IInv, Snapshot, Compare, pc' # "fetch"
  PROVE  Snapshot'
<1>1. /\ pc = "fetch" /\ ~fetchError /\ toExport = {} /\ applied' = {}
      /\ UNCHANGED <<cluster, platformList, interfered>>
  BY DEF Compare, FetchDone, listVars, IInv, Planned
<1>2. ASSUME ~interfered, NEW r \in Resource PROVE LiveAsPlanned(r)'
  <2>1. platformList'[r] = Exported(r)'
    BY <1>1, <1>2, ExportedStable DEF Snapshot
  <2>2. ~Touched(r)' /\ ~Upserted(r)'
    BY <1>1 DEF Touched, Upserted
  <2>3. QED
    BY <2>1, <2>2 DEF LiveAsPlanned
<1>3. QED
  BY <1>1, <1>2 DEF Snapshot

(* A command succeeds.                                                      *)
LEMMA SucceedSnapshot ==
  ASSUME SInv, pc \in {"apply", "select"}, NEW c \in Upcoming, Succeed(c)
  PROVE  Snapshot'
<1>1. /\ pc' = pc /\ pc' # "fetch"
      /\ applied' = applied \cup {c} /\ cluster' = ClusterAfter(c)
      /\ UNCHANGED <<templates, opts, platformList, interfered>>
  BY DEF Succeed, listVars
<1>2. c \in Found
  BY DEF Upcoming, Pending, SInv, IInv, Planned
<1>3. ASSUME ~interfered, NEW r \in Resource PROVE LiveAsPlanned(r)'
  <2>1. LiveAsPlanned(r)
    BY <1>3 DEF SInv, Snapshot, Compared
  <2>2. CASE r # c.resource
    <3>1. cluster'[r] = cluster[r]
      BY <1>1, <1>2, <2>2, CommandEffect DEF SInv
    <3>2. Touched(r)' = Touched(r) /\ Upserted(r)' = Upserted(r)
      BY <1>1, <2>2 DEF Touched, Upserted
    <3>3. QED
      BY <1>1, <2>1, <3>1, <3>2, LiveAsPlannedStable
  <2>3. CASE r = c.resource /\ c.action = "Delete"
    <3>1. cluster'[r] = Absent
      BY <1>1, <1>2, <2>3, CommandEffect DEF SInv
    <3>2. Touched(r)'
      BY <1>1, <2>3 DEF Touched
    <3>3. ~Upserted(r)
      BY <2>3, DeleteComesFirst DEF SInv
    <3>4. ~Upserted(r)'
      BY <1>1, <2>3, <3>3 DEF Upserted
    <3>5. QED
      BY <3>1, <3>2, <3>4 DEF LiveAsPlanned
  <2>4. CASE r = c.resource /\ c.action # "Delete"
    <3>1. (Wanted(r) /\ Reached(r))'
      BY <1>3, <2>4, ApplyReaches
    <3>2. Touched(r)' /\ Upserted(r)'
      BY <1>1, <2>4 DEF Touched, Upserted
    <3>3. QED
      BY <3>1, <3>2 DEF LiveAsPlanned
  <2>5. QED
    BY <2>2, <2>3, <2>4
<1>4. QED
  BY <1>1, <1>3 DEF Snapshot

LEMMA SnapshotStep == SInv /\ [Next]_vars => Snapshot'
<1> SUFFICES ASSUME SInv, [Next]_vars PROVE Snapshot'
  OBVIOUS
<1>0. IInv /\ Snapshot
  BY DEF SInv
<1>1. CASE Start
  BY <1>0, <1>1, BeginSnapshot DEF Start
<1>2. CASE ProcessTemplates \/ ProcessingFails \/ ExportFails
  <2>1. /\ interfered' = interfered
        /\ UNCHANGED <<cluster, templates, opts, platformList, applied>>
        /\ pc = "fetch" /\ pc' = "fetch"
        /\ fetchError' \/ UNCHANGED <<fetchError, toExport>>
    BY <1>2 DEF ProcessTemplates, ProcessingFails, ExportFails, planVars
  <2>2. ~Compared'
    BY <2>1 DEF Compared
  <2>3. QED
    BY <1>0, <2>1, <2>2, SnapshotStable
<1>3. CASE \E k \in Kind : ExportKind(k)
  BY <1>0, <1>3, ExportSnapshot
<1>4. CASE ComparisonFails
  BY <1>4 DEF ComparisonFails, Exit, Snapshot, Compared
<1>5. CASE FindNoDrift \/ ReportDrift \/ FindDrift
  BY <1>0, <1>5, CompareSnapshot DEF FindNoDrift, ReportDrift, FindDrift, Exit
<1>6. CASE ApplyChange \/ AcceptChange
  <2>1. pc \in {"apply", "select"}
    BY <1>6 DEF ApplyChange, AcceptChange
  <2>2. PICK c \in Upcoming : Succeed(c) \/ Refused(c)
    BY <1>6 DEF ApplyChange, AcceptChange
  <2>3. CASE Succeed(c)
    BY <2>1, <2>3, SucceedSnapshot
  <2>4. CASE Refused(c)
    BY <2>4 DEF Refused, Exit, Snapshot, Compared
  <2>5. QED
    BY <2>2, <2>3, <2>4
<1>7. CASE CommandFails
  BY <1>7 DEF CommandFails, Fail, Exit, Snapshot, Compared
<1>8. CASE FinishApply
  <2>1. CASE opts.verify
    BY <1>0, <1>8, <2>1, BeginSnapshot DEF FinishApply
  <2>2. CASE ~opts.verify
    BY <1>0, <1>8, <2>2, SnapshotStable DEF FinishApply, Exit, listVars, planVars, Compared
  <2>3. QED
    BY <2>1, <2>2
<1>9. CASE \/ \E answer \in {"y", "n", "s"} : AnswerAll(answer)
           \/ EndOfInput \/ DeclineChange \/ FinishSelect \/ Crash
  BY <1>0, <1>9, SnapshotStable
  DEF AnswerAll, EndOfInput, DeclineChange, FinishSelect, Crash, Exit, listVars, planVars,
      Compared
<1>10. CASE \E r \in Resource : ForeignEdit(r)
  BY <1>10 DEF ForeignEdit, Snapshot
<1>11. CASE UNCHANGED vars
  BY <1>0, <1>11, SnapshotStable DEF vars, listVars, planVars, Compared
<1>12. QED
  BY <1>1, <1>2, <1>3, <1>4, <1>5, <1>6, <1>7, <1>8, <1>9, <1>10, <1>11
  DEF Next, TailorStep, UserStep, Fault

LEMMA InitSInv == Init => SInv
<1> SUFFICES ASSUME Init PROVE SInv
  OBVIOUS
<1>1. pc = "idle" /\ exitCode = "none" /\ changeset = {} /\ applied = {}
  BY DEF Init
<1>2. ClusterSettled
  BY ForeignSettled DEF Init, ClusterSettled
<1>3. Idle /\ TemplatesRead /\ Snapshot
  BY <1>1 DEF Idle, TemplatesRead, Snapshot, Compared
<1>4. QED
  BY <1>2, <1>3, InitIInv DEF SInv

THEOREM SInvariant == Spec => []SInv
<1>1. SInv /\ [Next]_vars => SInv'
  BY NextIInv, IdleStep, TemplatesReadStep, ClusterSettledStep, SnapshotStep DEF SInv
<1>2. QED
  BY InitSInv, <1>1, PTL DEF Spec

-----------------------------------------------------------------------------
(* What follows for the runs.                                               *)

LEMMA FoundChanges ==
  ASSUME NEW r \in Resource
  PROVE  /\ r \in ToDelete(templateList, platformList, opts.upsertOnly)
                \cup ToRecreate(templateList, platformList)
              => [action |-> "Delete", resource |-> r] \in Found
         /\ r \in ToCreate(templateList, platformList) \cup ToRecreate(templateList, platformList)
              => [action |-> "Create", resource |-> r] \in Found
         /\ r \in ToUpdate(templateList, platformList)
              => [action |-> "Update", resource |-> r] \in Found
BY DEF Found, NewChangeset, Changes

LEMMA FoundDeletes ==
  ASSUME NEW c \in Found, c.action = "Delete"
  PROVE  c.resource \in ToDelete(templateList, platformList, opts.upsertOnly)
                          \cup ToRecreate(templateList, platformList)
BY DEF Found, NewChangeset, Changes

LEMMA ComparedMeansStable ==
  ASSUME SInv, pc = "idle", exitCode = "in sync", ~interfered, NEW r \in Resource
  PROVE  /\ LiveAsPlanned(r) /\ applied = changeset /\ changeset = Found
         /\ templateList = Filtered
BY DEF SInv, IInv, ExitCodeIsTruthful, Snapshot, TemplatesRead, Compared

(* A resource the comparison found no change for.                           *)
LEMMA NoChangeMeansInSync ==
  ASSUME SInv, NEW r \in Resource, platformList[r] = Exported(r), templateList = Filtered,
         \A c \in Found : c.resource # r
  PROVE  InSync(r)
<1>1. /\ r \notin ToDelete(templateList, platformList, opts.upsertOnly)
      /\ r \notin ToCreate(templateList, platformList)
      /\ r \notin ToRecreate(templateList, platformList)
      /\ r \notin ToUpdate(templateList, platformList)
  BY FoundChanges
<1>2. templateList[r] # Absent <=> Wanted(r)
  BY FilteredWanted DEF SInv, IInv
<1>3. cluster[r] # Absent => Parsed(r, cluster[r]) # Absent
  BY ParsedType, AbsentAssumption DEF SInv, IInv, TypeOK, LiveItemOrAbsent
<1>4. CASE Wanted(r)
  <2>1. templateList[r] = templates[r]
    BY <1>4, FilteredWanted DEF SInv, IInv
  <2>2. platformList[r] # Absent
    BY <1>1, <1>2, <1>4 DEF ToCreate
  <2>3. cluster[r] # Absent /\ platformList[r] = Parsed(r, cluster[r])
    BY <2>2 DEF Exported
  <2>4. PreparedTemplate(r, templates[r], platformList[r])
          = PreparedPlatform(templates[r], platformList[r])
    BY <1>1, <1>2, <1>4, <2>1, <2>2 DEF ToUpdate, InBoth
  <2>5. cluster[r] \in LiveItem /\ Settled(r, cluster[r])
    BY <2>3 DEF SInv, IInv, TypeOK, LiveItemOrAbsent, ClusterSettled
  <2>6. ASSUME NEW f \in Field \ Preserved[r]
        PROVE  \/ cluster[r].config[f] = templates[r][f]
               \/ /\ f \in Annotation
                  /\ templates[r][f] = NoValue /\ cluster[r].lac[f] = NoValue
               \/ /\ f \in Image[r]
                  /\ templates[r][f] # NoValue
                  /\ templates[r][f] = IF HasContainers(r, cluster[r].lac)
                                       THEN cluster[r].lac[f] ELSE cluster[r].tac[f]
    <3>1. PreparedTemplate(r, templates[r], platformList[r])[f] = templates[r][f]
      BY DEF PreparedTemplate
    <3>2. templates[r][f] = PreparedPlatform(templates[r], platformList[r])[f]
      BY <2>4, <3>1
    <3>3. CASE f \in Annotation /\ templates[r][f] = NoValue /\ platformList[r].lac[f] = NoValue
      BY <2>2, <3>3, ExportedKeeps DEF SInv, IInv
    <3>4. CASE ~(f \in Annotation /\ templates[r][f] = NoValue /\ platformList[r].lac[f] = NoValue)
      <4>1. platformList[r].config[f] = templates[r][f]
        BY <3>2, <3>4 DEF PreparedPlatform
      <4>2. CASE AppliedValues(r, cluster[r])[f] = NoValue
        BY <2>3, <4>1, <4>2, <2>5 DEF Parsed, Overwritten, LiveItem
      <4>3. CASE AppliedValues(r, cluster[r])[f] # NoValue
        <5>1. templates[r][f] = AppliedValues(r, cluster[r])[f]
          BY <2>3, <4>1, <4>3, <2>5 DEF Parsed, Overwritten, LiveItem
        <5>2. f \in Image[r]
          BY <2>5, <4>3 DEF AppliedValues, Settled
        <5>3. QED
          BY <4>3, <5>1, <5>2 DEF AppliedValues
      <4>4. QED
        BY <4>2, <4>3
    <3>5. QED
      BY <3>3, <3>4
  <2>7. QED
    BY <1>4, <2>3, <2>6 DEF InSync
<1>5. CASE ~Wanted(r)
  BY <1>1, <1>2, <1>3, <1>5 DEF ToDelete, Exported, InSync
<1>6. QED
  BY <1>4, <1>5

(* In sync is more than reached.                                            *)
LEMMA InSyncMeansReachedToo ==
  ASSUME SInv, NEW r \in Resource, platformList[r] = Exported(r), InSync(r)
  PROVE  Reached(r)
<1>1. CASE ~Wanted(r)
  BY <1>1 DEF InSync, Reached
<1>2. CASE Wanted(r)
  <2>1. cluster[r] # Absent /\ (platformList[r] = Absent \/ platformList[r].lac = cluster[r].lac)
    BY <1>2, ExportedKeeps DEF InSync, SInv, IInv
  <2>2. QED
    BY <1>2, <2>1 DEF InSync, Reached
<1>3. QED
  BY <1>1, <1>2

(* A comparison that finds nothing is right: the live resources are the ones *)
(* the templates describe (NoDriftFoundMeansInSync).                         *)
THEOREM NoDriftFoundMeansInSyncHolds == Spec => []NoDriftFoundMeansInSync
<1>1. SInv => NoDriftFoundMeansInSync
  <2> SUFFICES ASSUME SInv, pc = "idle", exitCode = "in sync", ~interfered, changeset = {},
                      NEW r \in Resource
               PROVE  InSync(r)
    BY DEF NoDriftFoundMeansInSync
  <2>1. LiveAsPlanned(r) /\ applied = {} /\ Found = {} /\ templateList = Filtered
    BY ComparedMeansStable
  <2>2. platformList[r] = Exported(r)
    BY <2>1 DEF LiveAsPlanned, Touched
  <2>3. QED
    BY <2>1, <2>2, NoChangeMeansInSync
<1>2. QED
  BY <1>1, SInvariant, PTL

(* Exit code 0 means the templates' values are live (InSyncMeansReached).    *)
THEOREM InSyncMeansReachedHolds == Spec => []InSyncMeansReached
<1>1. SInv => InSyncMeansReached
  <2> SUFFICES ASSUME SInv, pc = "idle", exitCode = "in sync", ~interfered,
                      NEW r \in Resource
               PROVE  Reached(r)
    BY DEF InSyncMeansReached
  <2>1. LiveAsPlanned(r) /\ applied = Found /\ templateList = Filtered
    BY ComparedMeansStable
  <2>2. CASE Upserted(r)
    BY <2>1, <2>2 DEF LiveAsPlanned
  <2>3. CASE ~Touched(r)
    BY <2>1, <2>3, NoChangeMeansInSync, InSyncMeansReachedToo DEF LiveAsPlanned, Touched
  <2>4. CASE Touched(r) /\ ~Upserted(r)
    <3>1. cluster[r] = Absent
      BY <2>1, <2>4 DEF LiveAsPlanned
    <3>2. r \notin ToRecreate(templateList, platformList)
      BY <2>1, <2>4, FoundChanges DEF Upserted
    <3>3. r \in ToDelete(templateList, platformList, opts.upsertOnly)
      BY <2>1, <2>4, <3>2, FoundDeletes DEF Touched, Upserted
    <3>4. ~Wanted(r)
      BY <2>1, <3>3, FilteredWanted DEF ToDelete, SInv, IInv
    <3>5. QED
      BY <3>1, <3>4 DEF Reached
  <2>5. QED
    BY <2>2, <2>3, <2>4
<1>2. QED
  BY <1>1, SInvariant, PTL

(* What was not confirmed is left as it was shown (RefusedIsUntouched).      *)
THEOREM RefusedIsUntouchedHolds == Spec => []RefusedIsUntouched
<1>1. SInv => RefusedIsUntouched
  <2> SUFFICES ASSUME SInv, ~interfered, exitCode \notin {"error", "killed"},
                      NEW r \in Resource, platformList[r] # Absent, Refusable(r)
               PROVE  cluster[r] # Absent /\ Parsed(r, cluster[r]) = platformList[r]
    BY DEF RefusedIsUntouched
  <2>1. Compared /\ ~Touched(r)
    <3>1. CASE exitCode = "drift" /\ declined = {}
      BY <3>1 DEF SInv, Idle, Compared, Touched
    <3>2. CASE ~(exitCode = "drift" /\ declined = {})
      <4>1. /\ \E c \in changeset : c.resource = r
            /\ \A c \in changeset : c.resource = r => c \in declined
        BY <3>2 DEF Refusable
      <4>2. ~Touched(r)
        BY <4>1 DEF SInv, IInv, TypeOK, Planned, Touched
      <4>3. changeset # {}
        BY <4>1
      <4>4. Compared
        BY <4>3 DEF SInv, IInv, TypeOK, Planned, Idle, Compared
      <4>5. QED
        BY <4>2, <4>4
    <3>3. QED
      BY <3>1, <3>2
  <2>2. platformList[r] = Exported(r)
    BY <2>1 DEF SInv, Snapshot, LiveAsPlanned
  <2>3. QED
    BY <2>2 DEF Exported
<1>2. QED
  BY <1>1, SInvariant, PTL

-----------------------------------------------------------------------------
(* The steps of tailor that change a live resource.                          *)

LEMMA OwnStepIsCommand ==
  ASSUME SInv, [Next]_vars, OwnStep, NEW r \in Resource, cluster'[r] # cluster[r]
  PROVE  /\ pc \in {"apply", "select"}
         /\ \E c \in Upcoming : /\ c \in Found /\ c.resource = r /\ Accepted(c)
                                /\ cluster'[r] = IF c.action = "Delete" THEN Absent
                                                 ELSE OcApplied(r, cluster[r], Desired(c))
<1>1. ~\E q \in Resource : ForeignEdit(q)
  <2> SUFFICES ASSUME NEW q \in Resource, ForeignEdit(q) PROVE FALSE
    OBVIOUS
  <2>1. edits' = edits + 1 /\ edits' = edits /\ edits \in 0..MaxEdits
    BY DEF ForeignEdit, OwnStep, SInv, IInv, TypeOK
  <2>2. edits \in Int
    BY <2>1, ApplyAssumption
  <2>3. QED
    BY <2>1, <2>2
<1>2. ApplyChange \/ AcceptChange \/ CommandFails
  BY <1>1
  DEF Next, TailorStep, UserStep, Fault, Start, ProcessTemplates, ProcessingFails, ExportKind,
      ExportFails, ComparisonFails, FindNoDrift, ReportDrift, FindDrift, Compare, AnswerAll,
      EndOfInput, DeclineChange, FinishApply, FinishSelect, Crash, vars
<1>3. pc \in {"apply", "select"}
  BY <1>2 DEF ApplyChange, AcceptChange, CommandFails
<1>4. PICK c \in Upcoming : Accepted(c) /\ cluster' = ClusterAfter(c)
  BY <1>2 DEF ApplyChange, AcceptChange, CommandFails, Succeed, Refused, Fail
<1>5. c \in Found
  BY <1>3 DEF Upcoming, Pending, SInv, IInv, Planned
<1>6. c.resource = r
  BY <1>4, <1>5, CommandEffect DEF SInv
<1>7. QED
  BY <1>3, <1>4, <1>5, <1>6, CommandEffect DEF SInv

(* Deletes have a reason (DeletesAreJustified).                              *)
THEOREM DeletesAreJustifiedHolds == Spec => DeletesAreJustified
<1>1. SInv /\ [Next]_vars => [\A r \in Resource : DeleteIsJustified(r)]_vars
  <2> SUFFICES ASSUME SInv, [Next]_vars, NEW r \in Resource, OwnStep, Deletes(r)
               PROVE  /\ opts.force \/ \E q \in Resource : Wanted(q)
                      /\ ~Wanted(r) => ~opts.upsertOnly
                      /\ Wanted(r) => opts.allowRecreate
                      /\ ~interfered =>
                           /\ SatisfiedBy(r, cluster[r].config)
                           /\ Wanted(r) => \E f \in Immutable[r] \ Preserved[r] :
                                templates[r][f] \notin {NoValue, cluster[r].config[f]}
    BY DEF DeleteIsJustified
  <2>1. cluster[r] # Absent /\ cluster'[r] = Absent
    BY DEF Deletes
  <2>2. PICK c \in Upcoming :
          /\ c \in Found /\ c.resource = r
          /\ cluster'[r] = IF c.action = "Delete" THEN Absent
                           ELSE OcApplied(r, cluster[r], Desired(c))
    BY <2>1, OwnStepIsCommand
  <2>3. pc \in {"apply", "select"}
    BY <2>1, OwnStepIsCommand
  <2>4. c.action = "Delete"
    <3> SUFFICES ASSUME c.action # "Delete" PROVE FALSE
      OBVIOUS
    <3>1. Desired(c) \in Config
      BY <2>2, DesiredType DEF SInv, IInv
    <3>2. OcApplied(r, cluster[r], Desired(c)) \in LiveItem
      BY <3>1, OcAppliedType DEF SInv, IInv, TypeOK
    <3>3. QED
      BY <2>1, <2>2, <3>2, AbsentAssumption
  <2>5. /\ templateList = Filtered /\ ~Misconfigured /\ ~RecreateProtected
    BY <2>3 DEF SInv, TemplatesRead, Compared
  <2>6. opts.force \/ \E q \in Resource : Wanted(q)
    BY <2>5 DEF Misconfigured, Filtered, NoItems
  <2>7. r \in ToDelete(templateList, platformList, opts.upsertOnly)
             \cup ToRecreate(templateList, platformList)
    BY <2>2, <2>4, FoundDeletes
  <2>8. templateList[r] # Absent <=> Wanted(r)
    BY <2>5, FilteredWanted DEF SInv, IInv
  <2>9. /\ ~Wanted(r) => ~opts.upsertOnly
        /\ Wanted(r) => r \in ToRecreate(templateList, platformList) /\ opts.allowRecreate
    BY <2>5, <2>7, <2>8 DEF ToDelete, ToRecreate, InBoth, RecreateProtected
  <2>10. ASSUME ~interfered
         PROVE  /\ SatisfiedBy(r, cluster[r].config)
                /\ Wanted(r) => \E f \in Immutable[r] \ Preserved[r] :
                     templates[r][f] \notin {NoValue, cluster[r].config[f]}
    <3>1. ~Upserted(r) /\ LiveAsPlanned(r)
      BY <2>2, <2>3, <2>4, <2>10, DeleteComesFirst DEF SInv, Snapshot, Compared
    <3>2. platformList[r] = Exported(r) /\ platformList[r] # Absent
      BY <2>1, <2>7, <3>1 DEF LiveAsPlanned, ToDelete, ToRecreate, InBoth
    <3>3. SatisfiedBy(r, cluster[r].config) /\ platformList[r] = Parsed(r, cluster[r])
      BY <3>2 DEF Exported
    <3>4. ASSUME Wanted(r)
          PROVE  \E f \in Immutable[r] \ Preserved[r] :
                   templates[r][f] \notin {NoValue, cluster[r].config[f]}
      <4>1. templateList[r] = templates[r]
        BY <2>5, <3>4, FilteredWanted DEF SInv, IInv
      <4>2. PICK f \in Immutable[r] \ Preserved[r] :
              templates[r][f] # NoValue /\ platformList[r].config[f] # templates[r][f]
        BY <2>9, <3>4, <4>1 DEF ToRecreate, ImmutableDrift
      <4>3. f \in Field /\ f \notin Image[r]
        BY FieldAssumption, DisjointAssumption
      <4>4. platformList[r].config[f] = cluster[r].config[f]
        BY <3>2, <4>3, ExportedKeeps DEF SInv, IInv
      <4>5. QED
        BY <4>2, <4>4
    <3>5. QED
      BY <3>3, <3>4
  <2>11. QED
    BY <2>6, <2>9, <2>10
<1>2. QED
  BY <1>1, SInvariant, PTL DEF Spec, DeletesAreJustified

(* What is applied was reviewed (OnlyReviewedFieldsChange).                  *)
THEOREM OnlyReviewedFieldsChangeHolds == Spec => OnlyReviewedFieldsChange
<1>1. SInv /\ [Next]_vars => [\A r \in Resource : ChangeIsReviewed(r)]_vars
  <2> SUFFICES ASSUME SInv, [Next]_vars, NEW r \in Resource, OwnStep, Modifies(r),
                      ~interfered, platformList[r] # Absent,
                      NEW f \in Field \ Image[r],
                      cluster'[r].config[f] # cluster[r].config[f]
               PROVE  /\ Shown(r, f)
                      /\ cluster[r].config[f] = platformList[r].config[f]
                      /\ cluster'[r].config[f] \in
                           {PreparedTemplate(r, templateList[r], platformList[r])[f],
                            Default[r][f]}
    BY DEF ChangeIsReviewed
  <2> DEFINE desired == PreparedTemplate(r, templateList[r], platformList[r])
             current == PreparedPlatform(templateList[r], platformList[r])
  <2>1. cluster[r] # Absent /\ cluster'[r] # Absent
    BY DEF Modifies
  <2>2. pc \in {"apply", "select"}
    BY OwnStepIsCommand DEF Modifies
  <2>3. PICK c \in Upcoming :
          /\ c \in Found /\ c.resource = r
          /\ cluster'[r] = IF c.action = "Delete" THEN Absent
                           ELSE OcApplied(r, cluster[r], Desired(c))
    BY OwnStepIsCommand DEF Modifies
  <2>4. c.action # "Delete"
    BY <2>1, <2>3
  <2>5. ~Upserted(r) /\ LiveAsPlanned(r)
    BY <2>2, <2>3, <2>4, UpsertComesOnce DEF SInv, Snapshot, Compared
  <2>6. platformList[r] = Exported(r)
    BY <2>1, <2>5 DEF LiveAsPlanned
  <2>7. platformList[r].config[f] = cluster[r].config[f] /\ platformList[r].lac = cluster[r].lac
    BY <2>6, ExportedKeeps DEF SInv, IInv
  <2>8. cluster'[r].config = Defaulted(r, ThreeWayMerge(cluster[r], desired))
    BY <2>1, <2>3, <2>4 DEF OcApplied, Desired, DesiredState
  <2>9. cluster[r].config[f] = NoValue => Default[r][f] = NoValue
    BY <2>1 DEF SInv, ClusterSettled, Settled
  <2>10. f \in Annotation => desired[f] = templateList[r][f]
    BY DisjointAssumption DEF PreparedTemplate
  <2>11. cluster'[r].config[f] \in {desired[f], Default[r][f]}
    BY <2>8, <2>9 DEF Defaulted, ThreeWayMerge
  <2>12. current[f] = cluster[r].config[f] \/ (f \in Annotation /\ current[f] = NoValue
           /\ templateList[r][f] = NoValue /\ cluster[r].lac[f] = NoValue)
    BY <2>7 DEF PreparedPlatform
  <2>13. desired[f] # current[f]
    BY <2>8, <2>9, <2>10, <2>12 DEF Defaulted, ThreeWayMerge
  <2>14. QED
    BY <2>7, <2>11, <2>13 DEF Shown
<1>2. QED
  BY <1>1, SInvariant, PTL DEF Spec, OnlyReviewedFieldsChange

=============================================================================
