------------------------------- MODULE Apply -------------------------------
(***************************************************************************)
(* `tailor diff` and `tailor apply` (pkg/commands/diff.go and apply.go)    *)
(* against a cluster other people change at any moment.                    *)
(*                                                                         *)
(* A run exports the cluster and processes the templates in two concurrent *)
(* goroutines, compares the two lists, asks for confirmation, carries out  *)
(* the changes one `oc` command at a time, and may verify the outcome by   *)
(* comparing again.  Between any two of these steps the cluster may be     *)
(* edited, a command may fail or lose its reply, and the process may be    *)
(* killed.  Runs follow each other, with other options and templates.      *)
(***************************************************************************)
EXTENDS Cluster, Changeset, FiniteSets

CONSTANTS
  TemplateSets,    \* what the template directory may contain at a run
  OptionSets,      \* the command lines tailor is called with
  ForeignConfigs,  \* the configurations other clients give to resources
  MaxEdits,        \* bound on the changes made by other clients
  MaxFaults        \* bound on failed commands and killed processes

Options == [command        : {"diff", "apply"},
            nonInteractive : BOOLEAN,
            force          : BOOLEAN,
            upsertOnly     : BOOLEAN,
            allowRecreate  : BOOLEAN,
            verify         : BOOLEAN]

ASSUME ApplyAssumption ==
  /\ TemplateSets \subseteq [Resource -> ConfigOrAbsent]
  /\ OptionSets \subseteq Options
  /\ ForeignConfigs \subseteq Config
  /\ MaxEdits \in Nat /\ MaxFaults \in Nat

VARIABLES
  cluster,       \* the live resources
  templates,     \* the processed templates before filtering
  opts,          \* the command line of the run
  pc,            \* where the run is; "idle" when no process runs
  verifying,     \* the comparison under way is the one of --verify
  processed,     \* the goroutine processing the templates has returned
  toExport,      \* the kinds the goroutine exporting the cluster still has to list
  fetchError,    \* one of the two goroutines returned an error
  templateList,  \* templateBasedList
  platformList,  \* platformBasedList
  changeset,     \* the changes found by the comparison
  applied,       \* those of its changes whose command has succeeded
  declined,      \* those the user answered "no" to
  exitCode,      \* how the last run ended
  interfered,    \* another client changed the cluster since the last
                 \* comparison of the last run began
  edits, faults  \* counters for the two bounds

listVars  == <<processed, toExport, fetchError, templateList, platformList>>
planVars  == <<changeset, applied, declined>>
boundVars == <<edits, faults>>
vars == <<cluster, templates, opts, pc, verifying, listVars, planVars,
          exitCode, interfered, boundVars>>

\* The kinds named in `oc get`: ConvertToKinds.
ExportedKinds == {KindOf[r] : r \in Targeted}

TypeOK ==
  /\ cluster \in [Resource -> LiveItemOrAbsent]
  /\ templates \in TemplateSets
  /\ opts \in OptionSets
  /\ pc \in {"idle", "fetch", "confirm", "apply", "select"}
  /\ verifying \in BOOLEAN
  /\ processed \in BOOLEAN
  /\ toExport \subseteq Kind
  /\ fetchError \in BOOLEAN
  /\ templateList \in [Resource -> ConfigOrAbsent]
  /\ platformList \in [Resource -> LiveItemOrAbsent]
  /\ changeset \subseteq Change
  /\ applied \subseteq changeset
  /\ declined \subseteq changeset
  /\ exitCode \in {"none", "in sync", "drift", "error", "killed"}
  /\ interfered \in BOOLEAN
  /\ edits \in 0..MaxEdits
  /\ faults \in 0..MaxFaults

\* What others may put in the place of a resource.
ForeignItems(r) ==
  {Foreign(r, config, tac) : config \in ForeignConfigs, tac \in OldApplied[r]}

Init ==
  /\ cluster \in [Resource -> UNION {ForeignItems(r) : r \in Resource} \cup {Absent}]
  /\ \A r \in Resource : cluster[r] \in ForeignItems(r) \cup {Absent}
  /\ templates \in TemplateSets
  /\ opts \in OptionSets
  /\ pc = "idle" /\ verifying = FALSE
  /\ processed = FALSE /\ toExport = {} /\ fetchError = FALSE
  /\ templateList = NoItems /\ platformList = NoItems
  /\ changeset = {} /\ applied = {} /\ declined = {}
  /\ exitCode = "none" /\ interfered = FALSE
  /\ edits = 0 /\ faults = 0

-----------------------------------------------------------------------------
(* The comparison: calculateChangeset.                                      *)

\* Mutant: the position in the changeset survives into the verification.
BeginComparisonKeepingApplied(verification) ==
  /\ pc' = "fetch"
  /\ verifying' = verification
  /\ processed' = FALSE /\ toExport' = ExportedKinds /\ fetchError' = FALSE
  /\ templateList' = NoItems /\ platformList' = NoItems
  /\ changeset' = {} /\ declined' = {}
  /\ interfered' = FALSE
  /\ UNCHANGED applied

\* Both lists are assembled from nothing, by two goroutines.
BeginComparison(verification) ==
  /\ pc' = "fetch"
  /\ verifying' = verification
  /\ processed' = FALSE /\ toExport' = ExportedKinds /\ fetchError' = FALSE
  /\ templateList' = NoItems /\ platformList' = NoItems
  /\ changeset' = {} /\ applied' = {} /\ declined' = {}
  /\ interfered' = FALSE

\* The process ends; 0, 3 and 1 are its exit codes for the first three.
Exit(code) == pc' = "idle" /\ exitCode' = code

\* tailor is called.
Start ==
  /\ pc = "idle"
  /\ templates' \in TemplateSets
  /\ opts' \in OptionSets
  /\ exitCode' = "none"
  /\ BeginComparison(FALSE)
  /\ UNCHANGED <<cluster, boundVars>>

\* assembleTemplateBasedResourceList: the items that satisfy the filter.
ProcessTemplates ==
  /\ pc = "fetch" /\ ~processed
  /\ processed' = TRUE
  /\ templateList' =
       [r \in Resource |->
          IF templates[r] # Absent /\ SatisfiedBy(r, templates[r])
          THEN templates[r] ELSE Absent]
  /\ UNCHANGED <<cluster, templates, opts, pc, verifying, toExport, fetchError,
                 platformList, planVars, exitCode, interfered, boundVars>>

\* `oc process` fails.
ProcessingFails ==
  /\ pc = "fetch" /\ ~processed
  /\ faults < MaxFaults /\ faults' = faults + 1
  /\ processed' = TRUE /\ fetchError' = TRUE
  /\ UNCHANGED <<cluster, templates, opts, pc, verifying, toExport, templateList,
                 platformList, planVars, exitCode, interfered, edits>>

\* Mutant: the filter is not applied to the cluster's resources.
ExportWholeKind(k) ==
  /\ pc = "fetch" /\ k \in toExport
  /\ toExport' = toExport \ {k}
  /\ platformList' =
       [r \in Resource |-> IF KindOf[r] # k THEN platformList[r]
                           ELSE IF cluster[r] # Absent THEN Parsed(r, cluster[r]) ELSE Absent]
  /\ UNCHANGED <<cluster, templates, opts, pc, verifying, processed, fetchError,
                 templateList, planVars, exitCode, interfered, boundVars>>

\* assemblePlatformBasedResourceList: `oc get` lists one kind after the other.
ExportKind(k) ==
  /\ pc = "fetch" /\ k \in toExport
  /\ toExport' = toExport \ {k}
  /\ platformList' =
       [r \in Resource |->
          IF KindOf[r] # k THEN platformList[r]
          ELSE IF cluster[r] # Absent /\ SatisfiedBy(r, cluster[r].config)
               THEN Parsed(r, cluster[r]) ELSE Absent]
  /\ UNCHANGED <<cluster, templates, opts, pc, verifying, processed, fetchError,
                 templateList, planVars, exitCode, interfered, boundVars>>

\* `oc get` fails.
ExportFails ==
  /\ pc = "fetch" /\ toExport # {}
  /\ faults < MaxFaults /\ faults' = faults + 1
  /\ toExport' = {} /\ fetchError' = TRUE
  /\ UNCHANGED <<cluster, templates, opts, pc, verifying, processed, templateList,
                 platformList, planVars, exitCode, interfered, edits>>

\* eg.Wait returns when both goroutines have, with an error if one had it.
FetchDone  == pc = "fetch" /\ processed /\ toExport = {} /\ ~fetchError
FetchAborted == pc = "fetch" /\ processed /\ toExport = {} /\ fetchError

\* Without --force an empty list of templates is taken for a misconfiguration.
Misconfigured == templateList = NoItems /\ ~opts.force

\* Mutant: --allow-recreate is always on.
NeverProtected == FALSE

\* recreateProtectionError.
RecreateProtected ==
  ToRecreate(templateList, platformList) # {} /\ ~opts.allowRecreate

Found == NewChangeset(templateList, platformList, opts.upsertOnly)

ComparisonFails ==
  /\ \/ FetchAborted
     \/ FetchDone /\ (Misconfigured \/ RecreateProtected)
  /\ Exit("error")
  /\ UNCHANGED <<cluster, templates, opts, verifying, listVars, planVars,
                 interfered, boundVars>>

\* The comparison ends with the changeset found.
Compare ==
  /\ FetchDone /\ ~Misconfigured /\ ~RecreateProtected
  /\ changeset' = Found
  /\ UNCHANGED <<cluster, templates, opts, verifying, listVars, applied, declined,
                 interfered, boundVars>>

\* Nothing to do, or nothing left to do when verifying.
FindNoDrift == Compare /\ Found = {} /\ Exit("in sync")

\* `tailor diff` reports the drift; --verify fails on it.
ReportDrift ==
  /\ Compare /\ Found # {}
  /\ \/ opts.command = "diff" /\ Exit("drift")
     \/ opts.command = "apply" /\ verifying /\ Exit("error")

\* Mutant: drift found while verifying is applied again.
FindDriftAgain ==
  /\ Compare /\ Found # {}
  /\ opts.command = "apply"
  /\ pc' = IF opts.nonInteractive THEN "apply" ELSE "confirm"
  /\ UNCHANGED exitCode

\* `tailor apply` goes on to apply, or to ask first.
FindDrift ==
  /\ Compare /\ Found # {}
  /\ opts.command = "apply" /\ ~verifying
  /\ pc' = IF opts.nonInteractive THEN "apply" ELSE "confirm"
  /\ UNCHANGED exitCode

-----------------------------------------------------------------------------
(* Confirmation and application: Apply, apply, askAndApply.                 *)

AnswerAll(answer) ==
  /\ pc = "confirm"
  /\ \/ answer = "y" /\ pc' = "apply" /\ UNCHANGED exitCode
     \/ answer = "n" /\ Exit("drift")
     \/ /\ answer = "s" /\ ~opts.verify /\ Cardinality(changeset) # 1
        /\ pc' = "select" /\ UNCHANGED exitCode
  /\ UNCHANGED <<cluster, templates, opts, verifying, listVars, planVars,
                 interfered, boundVars>>

\* Standard input ends: AskForAction calls log.Fatal.
EndOfInput ==
  /\ pc \in {"confirm", "select"}
  /\ pc = "select" => changeset # applied \cup declined
  /\ Exit("error")
  /\ UNCHANGED <<cluster, templates, opts, verifying, listVars, planVars,
                 interfered, boundVars>>

Pending == changeset \ (applied \cup declined)

\* The changes the loops may have come to: sort.Slice leaves ties open.
Upcoming == {c \in Pending : \A d \in Pending : ~Before(d, c)}

Desired(c) == DesiredState(c.resource, templateList, platformList)

\* The server's answer to `oc delete` or `oc apply`.
Accepted(c) ==
  IF c.action = "Delete" THEN cluster[c.resource] # Absent
  ELSE OcAdmits(c.resource, cluster[c.resource], Desired(c))

ClusterAfter(c) ==
  [cluster EXCEPT ![c.resource] =
     IF c.action = "Delete" THEN Absent
     ELSE OcApplied(c.resource, cluster[c.resource], Desired(c))]

\* ocDelete or ocApply succeeds.
Succeed(c) ==
  /\ Accepted(c)
  /\ cluster' = ClusterAfter(c)
  /\ applied' = applied \cup {c}
  /\ UNCHANGED <<templates, opts, pc, verifying, listVars, changeset, declined,
                 exitCode, interfered, boundVars>>

\* The server refuses the change; the run is aborted.
Refused(c) ==
  /\ ~Accepted(c)
  /\ Exit("error")
  /\ UNCHANGED <<cluster, templates, opts, verifying, listVars, planVars,
                 interfered, boundVars>>

\* The command fails for another reason, or its reply is lost after the server
\* has carried it out; the run is aborted all the same.
Fail(c) ==
  /\ Accepted(c)
  /\ faults < MaxFaults /\ faults' = faults + 1
  /\ cluster' \in {cluster, ClusterAfter(c)}
  /\ Exit("error")
  /\ UNCHANGED <<templates, opts, verifying, listVars, planVars, interfered, edits>>

ApplyChange == pc = "apply" /\ \E c \in Upcoming : Succeed(c) \/ Refused(c)

\* The user answers "yes" to a change in select mode.
AcceptChange == pc = "select" /\ \E c \in Upcoming : Succeed(c) \/ Refused(c)

CommandFails == pc \in {"apply", "select"} /\ \E c \in Upcoming : Fail(c)

\* Mutant: the change is carried out whatever the answer.
DeclineIgnored ==
  /\ pc = "select"
  /\ \E c \in Upcoming : /\ declined' = declined \cup {c}
                         /\ cluster' = ClusterAfter(c)
  /\ UNCHANGED <<templates, opts, pc, verifying, listVars, changeset,
                 applied, exitCode, interfered, boundVars>>

DeclineChange ==
  /\ pc = "select"
  /\ \E c \in Upcoming : declined' = declined \cup {c}
  /\ UNCHANGED <<cluster, templates, opts, pc, verifying, listVars, changeset,
                 applied, exitCode, interfered, boundVars>>

\* All changes are applied.  performVerification compares once more.
FinishApply ==
  /\ pc = "apply" /\ Pending = {}
  /\ \/ /\ opts.verify
        /\ BeginComparison(TRUE)
        /\ UNCHANGED <<cluster, templates, opts, exitCode, boundVars>>
     \/ /\ ~opts.verify
        /\ Exit("in sync")
        /\ UNCHANGED <<cluster, templates, opts, verifying, listVars, planVars,
                       interfered, boundVars>>

\* Mutant: skipped changes are forgotten.
FinishSelectInSync ==
  /\ pc = "select" /\ Pending = {}
  /\ Exit("in sync")
  /\ UNCHANGED <<cluster, templates, opts, verifying, listVars, planVars,
                 interfered, boundVars>>

\* The report is on drift if a change was skipped.
FinishSelect ==
  /\ pc = "select" /\ Pending = {}
  /\ Exit(IF declined # {} THEN "drift" ELSE "in sync")
  /\ UNCHANGED <<cluster, templates, opts, verifying, listVars, planVars,
                 interfered, boundVars>>

-----------------------------------------------------------------------------
(* The environment.                                                         *)

\* The process is killed.
Crash ==
  /\ pc # "idle"
  /\ faults < MaxFaults /\ faults' = faults + 1
  /\ Exit("killed")
  /\ UNCHANGED <<cluster, templates, opts, verifying, listVars, planVars,
                 interfered, edits>>

\* Another client creates, edits, replaces or deletes a resource.  An edit keeps
\* the last applied configuration, a replacement does not.
ForeignEdit(r) ==
  /\ edits < MaxEdits /\ edits' = edits + 1
  /\ \/ /\ cluster[r] # Absent
        /\ cluster' = [cluster EXCEPT ![r] = Absent]
     \/ \E item \in ForeignItems(r) : cluster' = [cluster EXCEPT ![r] = item]
     \/ /\ cluster[r] # Absent
        /\ \E c \in ForeignConfigs :
             cluster' = [cluster EXCEPT ![r] = Edited(r, cluster[r], c)]
  /\ interfered' = TRUE
  /\ UNCHANGED <<templates, opts, pc, verifying, listVars, planVars, exitCode, faults>>

-----------------------------------------------------------------------------
\* The steps tailor takes on its own once it is started.
TailorStep ==
  \/ ProcessTemplates
  \/ \E k \in Kind : ExportKind(k)
  \/ ComparisonFails \/ FindNoDrift \/ ReportDrift \/ FindDrift
  \/ ApplyChange \/ FinishApply \/ FinishSelect

UserStep ==
  \/ \E answer \in {"y", "n", "s"} : AnswerAll(answer)
  \/ EndOfInput \/ AcceptChange \/ DeclineChange

Fault == ProcessingFails \/ ExportFails \/ CommandFails \/ Crash

Next ==
  \/ Start \/ TailorStep \/ UserStep \/ Fault
  \/ \E r \in Resource : ForeignEdit(r)

Spec == Init /\ [][Next]_vars

\* Nothing holds up a process but its commands, which return; a pipeline calls
\* tailor again and again.
FairSpec == Spec /\ WF_vars(TailorStep) /\ WF_vars(Start)

-----------------------------------------------------------------------------
(* Properties.                                                              *)

\* The templates ask for r: its item passes the filter.
Wanted(r) == templates[r] # Absent /\ SatisfiedBy(r, templates[r])

\* A step of tailor's own, not of another client.
OwnStep == edits' = edits

Deletes(r)  == cluster[r] # Absent /\ cluster'[r] = Absent
Modifies(r) == cluster[r] # Absent /\ cluster'[r] # Absent /\ cluster'[r] # cluster[r]

(* A command of tailor deletes a resource only when the templates no longer   *)
(* ask for it and --upsert-only is off, or --allow-recreate is on and the     *)
(* template changes a field that is immutable; and, if nobody else changed    *)
(* the cluster meanwhile, only a resource the filter covers.  No templates at *)
(* all never delete anything without --force.  (NewChangeset,                 *)
(* calculateChanges, calculateChangeset)                                      *)
DeleteIsJustified(r) ==
  OwnStep /\ Deletes(r) =>
    /\ opts.force \/ \E q \in Resource : Wanted(q)
    /\ ~Wanted(r) => ~opts.upsertOnly
    /\ Wanted(r) => opts.allowRecreate
    /\ ~interfered =>
         /\ SatisfiedBy(r, cluster[r].config)
         /\ Wanted(r) => \E f \in Immutable[r] \ Preserved[r] :
                           templates[r][f] \notin {NoValue, cluster[r].config[f]}

DeletesAreJustified == [][\A r \in Resource : DeleteIsJustified(r)]_vars

(* What kindOrder is for, "Resources with no dependencies go first"            *)
(* (changeset.go:13), stated by what the kinds need of each other and not by  *)
(* the table: however the loops of apply and askAndApply meet failures and    *)
(* answers, a command is issued only when every command it depends on was     *)
(* carried out or declined.  A recreated resource is deleted before it is     *)
(* created, what a resource needs is there before it is created or updated,   *)
(* and goes after it is gone.  References the cluster resolves later, like    *)
(* the one of a StatefulSet to its Service, are no dependencies.              *)
Workload == {"StatefulSet", "DeploymentConfig", "Deployment"}

Dependency ==
  ({"Route"} \X {"Service"})
    \cup ({"HorizontalPodAutoscaler"} \X Workload)
    \cup ((Workload \cup {"CronJob", "Job"}) \X
           {"ServiceAccount", "ConfigMap", "Secret", "PersistentVolumeClaim"})
    \cup ((Workload \cup {"BuildConfig"}) \X {"ImageStream"})
    \cup ({"BuildConfig"} \X {"ConfigMap", "Secret"})
    \cup ({"RoleBinding"} \X {"ServiceAccount"})

Needs(r, q) == <<KindOf[r], KindOf[q]>> \in Dependency

DependsOn(c, d) ==
  \/ c.action = "Create" /\ d.action = "Delete" /\ c.resource = d.resource
  \/ c.action = "Delete" /\ d.action = "Delete" /\ Needs(d.resource, c.resource)
  \/ c.action \in {"Create", "Update"} /\ d.action = "Create" /\ Needs(c.resource, d.resource)
  \/ c.action = "Update" /\ d.action = "Update" /\ Needs(c.resource, d.resource)

DependenciesFirst ==
  \A c \in applied, d \in changeset : DependsOn(c, d) => d \in applied \cup declined

(* The exit code tells the truth about the commands: 0 means every change     *)
(* found was carried out, 3 that at least one was not (Apply's first result). *)
ExitCodeIsTruthful ==
  pc = "idle" =>
    /\ exitCode = "in sync" => applied = changeset
    /\ exitCode = "drift" => applied # changeset

(* The part of "there should not be any drift anymore" (apply.go) that holds: *)
(* after exit code 0, with no other client at work, every value a template    *)
(* sets is live, every field tailor set earlier and the template dropped is   *)
(* gone or back at its default, and every resource to delete is gone.         *)
Reached(r) ==
  IF Wanted(r)
  THEN /\ cluster[r] # Absent
       /\ \A f \in Field \ (Preserved[r] \cup Image[r]) :
            IF templates[r][f] # NoValue
            THEN cluster[r].config[f] = templates[r][f]
            ELSE platformList[r] = Absent \/ platformList[r].lac[f] = NoValue
                   \/ cluster[r].config[f] \in {NoValue, Default[r][f]}
  ELSE opts.upsertOnly \/ cluster[r] = Absent \/ ~SatisfiedBy(r, cluster[r].config)

InSyncMeansReached ==
  pc = "idle" /\ exitCode = "in sync" /\ ~interfered => \A r \in Resource : Reached(r)

(* When the last comparison of a run found nothing to change (a verified      *)
(* apply, or no drift to begin with) and nobody else changed the cluster      *)
(* since it began, the live resources are the ones the templates describe,    *)
(* down to the fields they leave out; only preserved fields, unmanaged        *)
(* annotations and images may differ, the latter as long as tailor applied    *)
(* what the template says, now or before version 0.13.                        *)
InSync(r) ==
  IF Wanted(r)
  THEN /\ cluster[r] # Absent
       /\ \A f \in Field \ Preserved[r] :
            \/ cluster[r].config[f] = templates[r][f]
            \/ /\ f \in Annotation
               /\ templates[r][f] = NoValue /\ cluster[r].lac[f] = NoValue
            \/ /\ f \in Image[r]
               /\ templates[r][f] # NoValue
               /\ templates[r][f] = IF HasContainers(r, cluster[r].lac)
                                    THEN cluster[r].lac[f] ELSE cluster[r].tac[f]
  ELSE opts.upsertOnly \/ cluster[r] = Absent \/ ~SatisfiedBy(r, cluster[r].config)

NoDriftFoundMeansInSync ==
  pc = "idle" /\ exitCode = "in sync" /\ ~interfered /\ changeset = {}
    => \A r \in Resource : InSync(r)

(* Review before apply: with no other client at work, a command changes a     *)
(* field of a live resource only if the diff shown for it had that field,     *)
(* and then to the value shown or to the server's default.  Images of a       *)
(* DeploymentConfig are excepted: the diff compares the last applied image.   *)
Shown(r, f) ==
  PreparedTemplate(r, templateList[r], platformList[r])[f]
    # PreparedPlatform(templateList[r], platformList[r])[f]

ChangeIsReviewed(r) ==
  OwnStep /\ Modifies(r) /\ ~interfered /\ platformList[r] # Absent =>
    \A f \in Field \ Image[r] :
      cluster'[r].config[f] # cluster[r].config[f] =>
        /\ Shown(r, f)
        /\ cluster[r].config[f] = platformList[r].config[f]
        /\ cluster'[r].config[f] \in
             {PreparedTemplate(r, templateList[r], platformList[r])[f], Default[r][f]}

OnlyReviewedFieldsChange == [][\A r \in Resource : ChangeIsReviewed(r)]_vars

(* A resource whose changes the user refused is as the diff showed it, if no  *)
(* other client is at work: at the end of `tailor diff`, after "no" to the    *)
(* whole changeset, and as soon as all of its own changes are declined.       *)
Refusable(r) ==
  \/ exitCode = "drift" /\ declined = {}
  \/ /\ \E c \in changeset : c.resource = r
     /\ \A c \in changeset : c.resource = r => c \in declined

RefusedIsUntouched ==
  ~interfered /\ exitCode \notin {"error", "killed"} =>
    \A r \in Resource :
      platformList[r] # Absent /\ Refusable(r) =>
        cluster[r] # Absent /\ Parsed(r, cluster[r]) = platformList[r]

(* Nothing blocks a non-interactive run, verification included.               *)
RunTerminates == pc # "idle" /\ opts.nonInteractive ~> pc = "idle"

(* Crashes, failed commands and edits by others leave nothing that further    *)
(* runs do not repair: while the templates stay what they are, every resource *)
(* they ask for comes back with the values they set, though a run may have    *)
(* been killed between the delete and the create of a recreated resource.     *)
EventuallyReached ==
  <>[](\A r \in Resource : Wanted(r) =>
         /\ cluster[r] # Absent
         /\ \A f \in Field \ (Preserved[r] \cup Image[r]) :
              templates[r][f] \in {NoValue, cluster[r].config[f]})

-----------------------------------------------------------------------------
(* Claims of the documentation that the code does not keep.                 *)

(* `--upsert-only`: "Don't delete resource, only create / apply." (main.go)   *)
UpsertOnlyNeverDeletes ==
  [][\A r \in Resource : OwnStep /\ opts.upsertOnly => ~Deletes(r)]_vars

(* "As apply has run successfully, there should not be any drift anymore.     *)
(* Therefore we report no drift here." (apply.go)                             *)
NoDriftAfterApply ==
  pc = "idle" /\ exitCode = "in sync" /\ ~interfered => \A r \in Resource : InSync(r)

(* "By default, all resources in the namespace are compared, but you can      *)
(* adjust this by ... excluding resources via --exclude" (README): no command *)
(* touches a live resource the filter excludes.                               *)
ExcludedIsUntouched ==
  [][\A r \in Resource : OwnStep /\ ~interfered /\ (Modifies(r) \/ Deletes(r)) =>
       SatisfiedBy(r, cluster[r].config)]_vars

=============================================================================
