----------------------------- MODULE Invocation -----------------------------
(***************************************************************************)
(* One call of tailor from the command line (cmd/tailor/main.go) to the    *)
(* two lists `diff` and `apply` compare, or to the end of `export`, or to  *)
(* the start of a secrets command: options, checks, filter, and the two    *)
(* goroutines of calculateChangeset, while other calls may switch the      *)
(* project of the session and the process may be killed.  Apply continues  *)
(* where this module ends.                                                 *)
(***************************************************************************)
EXTENDS ParamFiles, Filter

CONSTANTS
  Calls,        \* command lines: [command, flags, switches]
  Disks,        \* what the working directory may hold: [tailorfiles, templates,
                \* broken, fs], templates in the order of their names
  OcSessions,   \* what `oc` may be: [binaries, loggedIn, versions, projects, project]
  UsesNamespace,\* the templates with a parameter TAILOR_NAMESPACE
  Items,        \* the resources a template or the cluster may hold
  MaxSwitches   \* bound on the times others switch the project

ASSUME InvocationAssumption == MaxSwitches \in Nat

\* The words of a resource argument are kinds, with or without a name.
IsResource(value) == IsList(value) /\ \A word \in Words(value) : ~IsLabel(word)

ASSUME FlagsAssumption ==
  \A c \in Calls :
    /\ IsList(c.flags["param"]) /\ IsList(c.flags["param-file"])
    /\ IsResource(c.flags["resource"])

\* After the key of a line there is a word, for the line is trimmed.
ASSUME TailorfileAssumption ==
  \A d \in Disks : \A f \in DOMAIN d.tailorfiles :
    /\ IsList(d.tailorfiles[f])
    /\ \A line \in Words(d.tailorfiles[f]) :
         /\ IsList(line.value) /\ line.value # <<>>
         /\ line.key \in {"", "resource"} => IsResource(line.value)

\* Param files are lists of lines.
ASSUME ParamFileAssumption ==
  \A d \in Disks : /\ \A f \in DOMAIN d.fs.clear : IsList(d.fs.clear[f])
                   /\ \A f \in DOMAIN d.fs.encrypted : IsList(d.fs.encrypted[f])

\* The project of a session exists, and has a name.
ASSUME SessionAssumption ==
  \A s \in OcSessions :
    /\ s = [binaries |-> s.binaries, loggedIn |-> s.loggedIn, versions |-> s.versions,
            projects |-> s.projects, project |-> s.project]
    /\ s.project \in s.projects /\ <<>> \notin s.projects

\* Every resource has a kind.
ASSUME ItemAssumption == \A item \in Items : item.kind # ""

VARIABLES
  call, disk,  \* the command line, and the files
  oc,          \* the oc binary and its session
  pc,          \* where the process is
  global,      \* GlobalOptions
  options,     \* CompareOptions, ExportOptions or SecretsOptions
  filter,
  todo,        \* the templates still to process, in the order of os.ReadDir
  temp,        \* the files .combined.*.env that exist: the lines of each
  processing,  \* where ProcessTemplate is: "idle", "temp" or "processed"
  given,       \* what oc process got: template to [arguments, lines]
  exporting,   \* the goroutine that exports has not returned
  exported,    \* what oc get was asked for: a set of [namespace, kinds, labels]
  failed,      \* one of the goroutines returned an error
  asked,       \* the project of the session when the options were read
  switches     \* counter for the bound

vars == <<call, disk, oc, pc, global, options, filter, todo, temp, processing,
          given, exporting, exported, failed, asked, switches>>

None == [none |-> TRUE]

Init ==
  /\ call \in Calls /\ disk \in Disks /\ oc \in OcSessions
  /\ pc = "start"
  /\ global = None /\ options = None /\ filter = None
  /\ todo = <<>> /\ temp = {} /\ processing = "idle"
  /\ given = [t \in {} |-> None]
  /\ exporting = FALSE /\ exported = {} /\ failed = FALSE
  /\ asked = oc.project /\ switches = 0

Comparing == call.command \in {"diff", "apply"}
ClusterRequired == Comparing \/ call.command = "export"

\* Where the process and its goroutines may be.
Places ==
  /\ pc \in {"start", "options", "filter", "fetch", "lists", "secrets", "done",
             "error", "panic", "killed"}
  /\ processing \in {"idle", "temp", "processed"}
  /\ processing # "idle" => todo # <<>> /\ pc \in {"fetch", "killed"}
  /\ exporting => pc \in {"fetch", "killed"}
  /\ switches \in 0..MaxSwitches

\* The options calculateChangeset and Export read.
OptionsTyped ==
  pc \in {"filter", "fetch", "lists"} =>
    /\ options["namespace"] # <<>>
    /\ IsResource(options["resource"])
    /\ Comparing => IsList(options["param"])

\* A filter is for one resource, or for kinds less those excluded.
FilterTyped ==
  pc \in {"fetch", "lists"} \/ exported # {} =>
    /\ filter # InvalidFilter
    /\ filter = [name |-> filter.name, kinds |-> filter.kinds, labels |-> filter.labels,
                 excludedKinds |-> filter.excludedKinds,
                 excludedNames |-> filter.excludedNames,
                 excludedLabels |-> filter.excludedLabels]
    /\ filter.name # <<>> =>
         /\ filter.kinds = {} /\ filter.excludedKinds = {}
         /\ filter.excludedNames = {} /\ filter.excludedLabels = {}

\* Only diff and apply read templates, and oc is asked once the options are known.
QuestionsTyped ==
  /\ todo # <<>> \/ DOMAIN given # {} => Comparing
  /\ exported # {} \/ DOMAIN given # {} => options["namespace"] # <<>>
  /\ \A request \in exported :
       request = [namespace |-> request.namespace, kinds |-> request.kinds,
                  labels |-> filter.labels]
  /\ \A t \in DOMAIN given : IsList(given[t].arguments)

TypeOK == Places /\ OptionsTyped /\ FilterTyped /\ QuestionsTyped

runVars == <<todo, temp, processing, given, exporting, exported, failed>>

-----------------------------------------------------------------------------
(* Options and checks.                                                      *)

GlobalFile == GetFileFlags(disk.tailorfiles, call.flags["file"])

\* check: "oc" is there, and for commands that need it a session and matching versions.
GlobalCheckFails(o) ==
  \/ o["oc-binary"] \notin oc.binaries
  \/ ClusterRequired /\ ~oc.loggedIn
  \/ ClusterRequired /\ oc.versions = "mismatch" /\ "force" \notin o.switches

ReadGlobalOptions ==
  /\ pc = "start"
  /\ global' = GlobalOptions(call, GlobalFile)
  /\ pc' = IF \/ FileMissing(disk.tailorfiles, call.flags["file"])
              \/ GlobalCheckFails(GlobalOptions(call, GlobalFile))
           THEN "error" ELSE "options"
  /\ UNCHANGED <<call, disk, oc, options, filter, runVars, asked, switches>>

\* For secrets commands the namespace is empty.
ResolvedName ==
  IF ClusterRequired THEN ResolvedFile(disk.tailorfiles, call.flags)
  ELSE call.flags["file"]

CommandFile == GetFileFlags(disk.tailorfiles, ResolvedName)

CommandOptions ==
  IF Comparing THEN CompareOptions(call, CommandFile)
  ELSE IF call.command = "export" THEN ExportOptions(call, CommandFile)
  ELSE SecretsOptions(call, CommandFile)

\* Export and secrets commands do not look whether their directories exist.
MissingDirectory(o) ==
  Comparing /\ \E d \in {"template-dir", "param-dir"} :
                 o[d] # <<".">> /\ o[d][1] \notin disk.fs.dirs

OptionsPanic == Comparing /\ ParamsPanic(call.flags["param"], FileParams(CommandFile))

\* setNamespace: `oc project` without a name tells the current project, with a
\* name it also switches to it.
SetNamespace(o) ==
  IF o["namespace"] = <<>>
  THEN /\ options' = With(o, "namespace", oc.project)
       /\ pc' = "filter"
       /\ UNCHANGED oc
  ELSE /\ options' = o
       /\ IF o["namespace"] \in oc.projects
          THEN pc' = "filter" /\ oc' = [oc EXCEPT !.project = o["namespace"]]
          ELSE pc' = "error" /\ UNCHANGED oc

ReadOptions ==
  /\ pc = "options"
  /\ asked' = oc.project
  /\ IF OptionsPanic
     THEN pc' = "panic" /\ UNCHANGED <<options, oc>>
     ELSE IF FileMissing(disk.tailorfiles, ResolvedName) \/ MissingDirectory(CommandOptions)
     THEN pc' = "error" /\ options' = CommandOptions /\ UNCHANGED oc
     ELSE IF ~ClusterRequired
     THEN pc' = "secrets" /\ options' = CommandOptions /\ UNCHANGED oc
     ELSE SetNamespace(CommandOptions)
  /\ UNCHANGED <<call, disk, global, filter, runVars, switches>>

-----------------------------------------------------------------------------
(* calculateChangeset and Export, up to the lists.                          *)

TheFilter == NewResourceFilter(options["resource"], options["selector"], options["exclude"])

\* The goroutines are started; `export` has only the one that exports.
StartGoroutines ==
  /\ pc = "filter"
  /\ filter' = TheFilter
  /\ IF TheFilter = InvalidFilter
     THEN pc' = "error" /\ UNCHANGED <<todo, exporting>>
     ELSE /\ pc' = "fetch"
          /\ todo' = IF Comparing THEN disk.templates ELSE <<>>
          /\ exporting' = TRUE
  /\ UNCHANGED <<call, disk, oc, global, options, temp, processing, given, exported,
                 failed, asked, switches>>

Files == CalculateParamFiles(Head(todo), options, disk.fs)

Arguments == ParamArguments(Head(todo), options, UsesNamespace)

\* The template goroutine returns an error.
TemplateGoroutineFails == failed' = TRUE /\ todo' = <<>>

\* A template without param files is given to oc without a temporary file.
BeginTemplate ==
  /\ pc = "fetch" /\ todo # <<>> /\ processing = "idle"
  /\ IF Head(todo) \in disk.broken \/ ReadFails(disk.fs, Files)
     THEN TemplateGoroutineFails /\ UNCHANGED <<temp, processing>>
     ELSE /\ temp' = IF Files = <<>> THEN temp
                     ELSE temp \cup {ReadParamFiles(disk.fs, Files)}
          /\ processing' = "temp"
          /\ UNCHANGED <<todo, failed>>
  /\ UNCHANGED <<call, disk, oc, pc, global, options, filter, given, exporting, exported,
                 asked, switches>>

\* oc process has run, well or not.
Process ==
  /\ pc = "fetch" /\ processing = "temp"
  /\ processing' = "processed"
  /\ given' = With(given, Head(todo), [arguments |-> Arguments,
                                       lines |-> ReadParamFiles(disk.fs, Files)])
  /\ UNCHANGED <<call, disk, oc, pc, global, options, filter, todo, temp, exporting,
                 exported, failed, asked, switches>>

\* Mutant: the file is only removed if oc process succeeds.
ReturnKeepingTemp ==
  /\ pc = "fetch" /\ processing = "processed"
  /\ processing' = "idle"
  /\ \/ todo' = Tail(todo) /\ temp' = {} /\ UNCHANGED failed
     \/ TemplateGoroutineFails /\ UNCHANGED temp
  /\ UNCHANGED <<call, disk, oc, pc, global, options, filter, given, exporting, exported,
                 asked, switches>>

\* The deferred os.Remove runs when ProcessTemplate returns, with or without an error.
ReturnFromTemplate ==
  /\ pc = "fetch" /\ processing = "processed"
  /\ processing' = "idle"
  /\ temp' = {}
  /\ \/ todo' = Tail(todo) /\ UNCHANGED failed
     \/ TemplateGoroutineFails
  /\ UNCHANGED <<call, disk, oc, pc, global, options, filter, given, exporting, exported,
                 asked, switches>>

Request(namespace) ==
  [namespace |-> namespace, kinds |-> ConvertToKinds(filter), labels |-> filter.labels]

\* Mutant: oc get is called without --namespace.
ExportFromSession ==
  /\ pc = "fetch" /\ exporting
  /\ exporting' = FALSE
  /\ exported' = exported \cup {Request(oc.project)}
  /\ failed' \in {failed, TRUE}
  /\ UNCHANGED <<call, disk, oc, pc, global, options, filter, todo, temp, processing, given,
                 asked, switches>>

\* oc get lists the kinds, or fails.
ExportKinds ==
  /\ pc = "fetch" /\ exporting
  /\ exporting' = FALSE
  /\ exported' = exported \cup {Request(options["namespace"])}
  /\ failed' \in {failed, TRUE}
  /\ UNCHANGED <<call, disk, oc, pc, global, options, filter, todo, temp, processing, given,
                 asked, switches>>

\* Mutant: the lists are compared as soon as the templates are processed.
WaitForTemplates ==
  /\ pc = "fetch" /\ todo = <<>> /\ processing = "idle"
  /\ pc' = IF failed THEN "error" ELSE IF Comparing THEN "lists" ELSE "done"
  /\ UNCHANGED <<call, disk, oc, global, options, filter, runVars, asked, switches>>

\* eg.Wait returns once both goroutines have returned.
Wait ==
  /\ pc = "fetch" /\ todo = <<>> /\ processing = "idle" /\ ~exporting
  /\ pc' = IF failed THEN "error" ELSE IF Comparing THEN "lists" ELSE "done"
  /\ UNCHANGED <<call, disk, oc, global, options, filter, runVars, asked, switches>>

-----------------------------------------------------------------------------
(* The environment.                                                         *)

Running == pc \in {"start", "options", "filter", "fetch"}

\* Somebody else, or another tailor, switches the project of the session.
SwitchProject ==
  /\ Running /\ switches < MaxSwitches /\ switches' = switches + 1
  /\ \E p \in oc.projects : oc' = [oc EXCEPT !.project = p]
  /\ UNCHANGED <<call, disk, pc, global, options, filter, runVars, asked>>

Kill ==
  /\ Running
  /\ pc' = "killed"
  /\ UNCHANGED <<call, disk, oc, global, options, filter, runVars, asked, switches>>

Next ==
  \/ ReadGlobalOptions \/ ReadOptions
  \/ StartGoroutines
  \/ BeginTemplate \/ Process \/ ReturnFromTemplate
  \/ ExportKinds
  \/ Wait
  \/ SwitchProject \/ Kill

Spec == Init /\ [][Next]_vars

-----------------------------------------------------------------------------
(* Properties.                                                              *)

Has(lines, key) == key \in Keys(lines)

LinesAt(files, f) == IF f \in DOMAIN files THEN files[f] ELSE <<>>

LastLine(lines, key) ==
  lines[CHOOSE i \in DOMAIN lines :
          /\ lines[i].key = key
          /\ \A j \in DOMAIN lines : lines[j].key = key => j <= i]

\* The value of a key in one param file and its encrypted companion.
ValueInFile(f, key) ==
  LET secrets == LinesAt(disk.fs.encrypted, f)
      secret  == LastLine(secrets, key)
  IN  IF ~Has(secrets, key) THEN LastOf(disk.fs.clear[f], key)
      ELSE IF secret.b64 THEN secret.value ELSE Base64(secret.value)

FileSets(f, key) ==
  /\ Exists(disk.fs, f)
  /\ Has(disk.fs.clear[f], key) \/ Has(LinesAt(disk.fs.encrypted, f), key)

\* The param files, the strongest last.
Ranked(template) ==
  LET own == IF options["param-file"] # <<>> THEN options["param-file"]
             ELSE <<TemplateParamFile(template, options, disk.fs)>>
      ns  == NamespaceParamFile(options)
  IN  IF Contains(own, ns) THEN own ELSE own \o <<ns>>

FromFiles(template, key) ==
  LET files == Ranked(template)
      those == {i \in DOMAIN files : FileSets(files[i], key)}
  IN  IF those = {} THEN NoValue
      ELSE ValueInFile(files[CHOOSE i \in those : \A j \in those : j <= i], key)

MostSpecific(template, key) ==
  IF Has(call.flags["param"], key) THEN LastOf(call.flags["param"], key)
  ELSE IF Has(FileParams(CommandFile), key) THEN LastOf(FileParams(CommandFile), key)
  ELSE FromFiles(template, key)

GivenKeys(t) == Keys(given[t].arguments) \cup Keys(given[t].lines)

(* Whatever the order in which options, Tailorfile and param files are put    *)
(* together, oc sees for every key the value of the most specific place that  *)
(* sets it: --param, the Tailorfile, <namespace>.env, the template's own or   *)
(* the named param files, each with its secrets before its clear text, and    *)
(* secrets encoded exactly once.  (NewCompareOptions, calculateParamFiles,    *)
(* readParamFileBytes, encode)                                                *)
MostSpecificParamWins ==
  \A t \in DOMAIN given : \A key \in GivenKeys(t) \ {"TAILOR_NAMESPACE"} :
    ValueInOc(key, given[t].arguments, given[t].lines) = MostSpecific(t, key)

(* The file with all secrets of a template in clear text exists only while    *)
(* ProcessTemplate runs: however the goroutines end, only a killed process    *)
(* leaves it behind.  (ProcessTemplate, calculateChangeset)                   *)
TempIsRemoved ==
  temp # {} => processing # "idle" /\ pc \in {"fetch", "killed"}

AskedNamespace ==
  IF call.flags["namespace"] # <<>> THEN call.flags["namespace"]
  ELSE IF "namespace" \in DOMAIN CommandFile THEN CommandFile["namespace"]
  ELSE asked

(* A run stays in the namespace it was called for, whatever project the       *)
(* session is switched to meanwhile: what is exported and the namespace put   *)
(* into the templates are those of one namespace.  (setNamespace, Export,     *)
(* ProcessTemplate)                                                           *)
OneNamespace ==
  /\ \A request \in exported : request.namespace = AskedNamespace
  /\ \A t \in DOMAIN given \cap UsesNamespace :
       LastOf(given[t].arguments, "TAILOR_NAMESPACE") = AskedNamespace[1]

(* oc get lists every resource the filter lets through: a resource of the     *)
(* templates that the cluster has is never taken for a new one.  And it does  *)
(* not ask for a kind that is excluded, which the user may not be allowed to  *)
(* read.  (ConvertToKinds and SatisfiedBy)                                    *)
ExportCoversFilter ==
  \A request \in exported :
    /\ \A item \in Items :
         SatisfiedBy(filter, item) /\ item.kind \in AvailableKinds =>
           item.kind \in request.kinds /\ request.labels \subseteq item.labels
    /\ request.kinds \cap filter.excludedKinds = {}

Matches(word, item) ==
  IF IsLabel(word) THEN word.label \in item.labels
  ELSE /\ KindMapping[word.kind] = item.kind
       /\ word.name \in {"", item.name}

\* A named resource is compared though it is excluded, labels are looked up in
\* lower case, and a label with a "/" excludes the name it is split into, if it
\* is no error.
EffectiveExcludes ==
  IF NamesOne(options["resource"]) THEN {}
  ELSE {w \in Words(options["exclude"]) :
          IsLabel(w) => Lowered[w.label] = w.label /\ ~IsSlashed(w)}

(* The filter lets through what was asked for and nothing that is excluded,   *)
(* whichever of flags and Tailorfile the words came from.  (NewResourceFilter *)
(* and SatisfiedBy)                                                           *)
ScopeIsAsAsked ==
  pc \in {"fetch", "lists"} =>
    \A item \in Items :
      SatisfiedBy(filter, item) =>
        /\ \/ options["resource"] = <<>>
           \/ \E w \in Words(options["resource"]) : Known(w) /\ Matches(w, item)
        /\ Words(options["selector"]) \subseteq item.labels
        /\ ~\E w \in EffectiveExcludes : Matches(w, item)

-----------------------------------------------------------------------------
(* "Instead of passing flags ad-hoc to `tailor`, all options can be specified *)
(* in a `Tailorfile`" (README).                                               *)
TailorfileSuffices ==
  pc \in {"filter", "secrets"} =>
    \A o \in (DOMAIN CommandFile \cap DOMAIN (options @@ global)) \ {"selector"} :
      call.flags[o] = DefaultFlags[o] => (options @@ global)[o] = CommandFile[o]

=============================================================================
