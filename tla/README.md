# Verification of tailor

Tailor keeps the resources of an OpenShift namespace in line with templates under
version control. `tailor diff` compares the two, `tailor apply` shows the drift,
asks, and reconciles it with `oc delete` and `oc apply`; `tailor secrets` keeps params
encrypted beside the templates. This directory holds TLA+ models of the program, TLC
runs that check them on small instances, and proofs, checked by TLAPS, that hold for
all values of the constants. Paths below are relative to the repository.

## 1. Inventory

| Component | State it keeps | Operations | Correct when |
|---|---|---|---|
| Apply flow: `pkg/commands/apply.go`, `diff.go` | the two resource lists, the changeset, the position of the loops, answers of the user, the exit code | `Diff`, `Apply`, `askAndApply`, `apply`, `ocDelete`, `ocApply`, `performVerification`, `calculateChangeset` | nothing is changed that was not shown; deletes have a reason; changes happen in order; the exit code tells the truth; what is reported in sync is in sync; a repeated run repairs what an aborted one left |
| Changeset: `pkg/openshift/changeset.go`, `change.go`, `list.go` | the four lists of changes | `NewChangeset`, `calculateChanges`, `recreateChanges`, `Add` | every difference gives exactly the change that removes it; immutable fields are protected; deletes before creates before updates, by kind |
| Resource items: `pkg/openshift/item.go` | a document, its JSON pointers, its last applied configuration | `parseConfig`, `prepareForComparisonWith...`, `walkMap` | only unmanaged data is left out of the comparison |
| Resource filter: `pkg/openshift/filter.go` | kinds, a name, labels, exclusions | `NewResourceFilter`, `SatisfiedBy`, `ConvertToKinds` | excluded resources are not compared; kinds exported are those compared |
| Options: `pkg/cli/options.go`, `cmd/tailor/main.go` | flags, the Tailorfile, the project of the `oc` session | `NewGlobalOptions`, `NewCompareOptions`, `NewExportOptions`, `NewSecretsOptions`, `getFileFlags`, `check` | a flag wins over the Tailorfile, the Tailorfile over the default |
| Templates and params: `pkg/openshift/template.go` | a temporary file with decrypted parameters | `ProcessTemplate`, `calculateParamFiles`, `readParamFileBytes` | the documented files are read in the documented order; no clear text stays behind |
| Export: `pkg/openshift/export.go`, `pkg/commands/export.go` | none | `ExportAsTemplateFile` | an exported template shows no drift |
| Secrets: `pkg/commands/secrets.go`, `pkg/openshift/params.go`, `pkg/utils/encryption.go`, `EditEnvFile` in `pkg/cli/cli.go` | encrypted param files, `.ENV.DEC`, key files | `Edit`, `ReEncrypt`, `Reveal`, `GenerateKey` | no value is lost or exchanged; every value is readable by those the documentation names |
| Cluster and `oc`: `pkg/cli/oc_client.go` | the live resources with their last applied configuration | `Export`, `Process`, `Apply`, `Delete` | external |
| Prompt: `AskForAction` in `pkg/cli/cli.go` | none | repeats a question until the answer is valid, ends the process at the end of input | |
| Version check: `pkg/cli/oc_version.go` | none | compares the versions of client and server | a mismatch ends the run unless forced |
| String and file helpers, `DisplaySyntaxError` | none | | |

How they interact: `main` builds the options and calls one command. `Diff` and `Apply`
call `calculateChangeset`, which runs two goroutines: one processes every
template with `oc process` and parses the result, the other exports the
kinds the filter names with `oc get`. Both lists pass the filter and go to
`NewChangeset`. `Apply` then asks, walks the changeset, and calls `oc` once per change.
Between any two `oc` calls other clients of the cluster may act. Param files
that were encrypted with `tailor secrets` are decrypted while templates are processed.

What is hard here:

* **Stale state.** The changeset is computed from an export and applied later, after a
  human has answered; the cluster is not looked at again (`apply.go:31`). Preserved
  values are copied at export time and written back (`item.go:406`).
* **Partial failure and crashes.** The first failed `oc` call ends the run, with the
  changeset half applied; a reply may be lost after the server did the work; the
  process may be killed between the delete and the create of a recreated resource
  (`change.go:83`).
* **Order.** Three slices, each sorted by kind with an unstable sort, are walked one
  after the other (`changeset.go:294`, `apply.go:129`).
* **Shared files.** `secrets` commands read a param file, wait for an editor, and write
  the file as a whole; all editors of a directory use one `.ENV.DEC` for the clear text
  (`secrets.go:98`, `cli.go:138`). Combined clear text passes through a temporary file
  while templates are processed (`template.go:50`).
* **Key files.** `generate-key` looks for a key file, creates it and writes it in three
  steps, twice (`secrets.go:25`, `encryption.go:38`); a key file that was only created makes
  every later encryption fail.
* **Cipher text that is kept.** An edit leaves unchanged values as they were encrypted,
  for the keys of then (`params.go:75`); only re-encryption renews them.
* **A shared session.** `oc project` with a name switches the project of every process
  that uses the session (`oc_client.go:79`).
* **Two documents, one filter.** Labels are looked at in the template's document and in
  the cluster's document on their own (`list.go:76`).
* **What counts as drift.** Annotations nobody manages, images a trigger sets, fields
  the server defaults and preserved fields are each treated in their own way
  (`item.go:237`, `item.go:394`, `item.go:434`).

The full list, each entry with its line, is in `PROJECT.json` under `hazards`.

## 2. Modules

| Module | Models | Extends |
|---|---|---|
| `Resources` | resources, their configuration as a function from fields to values, the order of kinds, the filter's verdict | |
| `Cluster` | what `oc apply`, `oc delete` and other clients do to a live resource (external) | `Resources` |
| `Changeset` | `NewChangeset`, the preparation of the two items, the order of changes | `Resources` |
| `Apply` | the state machine of `diff` and `apply` against the cluster, its environment, the properties | `Cluster`, `Changeset` |
| `ItemDiff` | `calculateChanges`: two documents compared one JSON pointer after the other | (instantiates `Changeset`) |
| `Options` | flags, Tailorfile and defaults of every command | |
| `Filter` | `NewResourceFilter`, `SatisfiedBy`, `ConvertToKinds` | |
| `ParamFiles` | which param files a template gets, and what `oc process` makes of them | `Options` |
| `Invocation` | one call from the command line to the two lists, with its goroutines and the session of `oc` | `ParamFiles`, `Filter` |
| `Vault` | abstract: what `tailor secrets` promises about shared files | |
| `Secrets` | `edit`, `re-encrypt` and `generate-key` in one directory, with key files and crashes | (instantiates `Vault`) |
| `MCApply`, `MCItemDiff`, `MCInvocation`, `MCSecrets` | constants for TLC | the module they are named after |
| `ApplyProofs` | inductive invariant, type correctness, order, exit codes | `Apply` |
| `ApplySafety` | the theorems that relate the run to the cluster | `ApplyProofs` |
| `SecretsProofs` | inductive invariant of a directory, clear text, readers | `Secrets` |
| `SecretsRefinement` | `Secrets` implements `Vault`; complete re-encryption | `SecretsProofs` |
| `OptionsProofs` | lemmas on folds and on the lists of words options are made of | `Options` |
| `InvocationProofs` | inductive invariant of a call: types, temporary file, namespace, kinds, filter | `Invocation`, `OptionsProofs` |
| `ParamProofs` | which value of a param `oc process` sees | `InvocationProofs` |
| `ItemDiffProofs` | the comparison of two documents: types, preserved paths, what the template asks for, the action | `ItemDiff` |

A call of `diff` or `apply` is `Invocation` up to the two lists (`pc = "lists"`) and `Apply`
from then on. `Apply` keeps the two goroutines, because what other clients do between
their requests decides what is compared; `Invocation` has what they are asked for.

### How the core model corresponds to the code

*Data.* A document is a function from a few fields to values, with `NoValue` for a JSON pointer
that does not exist. The fields are classified the way the code treats them: `Immutable`
(`immutableFields`), `Annotation`, `Container` (what is below the list of containers of a
`DeploymentConfig`) with the images in it (`Image`), `Preserved` (`PathsToPreserve` resolved for
the resource) and plain ones. `ScopeField` is the label a selector or label exclusion asks for,
`Targeted` the resources that kinds, names and exclusions by kind or name leave in. A list has
at most one item per kind and name.

A live item has its configuration, `lac`, its last applied configuration, and `tac`, the
annotation `tailor.opendevstack.org/applied-config` in which tailor recorded the images it
had applied before version 0.13. `Parsed` pastes the images of the last applied
configuration over the live ones; if that has no containers, it pastes what the old
annotation says (`item.go:237-289`). A `DeploymentConfig` with a live image unlike the
template's, no last applied configuration and an old annotation, like the one of
`changeset_test.go:190`, is therefore no drift, and it is one of the states run `fields`
reaches.

*State.* `templateList`, `platformList` and `changeset` are the variables of the code;
`processed`, `toExport` and `fetchError` are the progress of the two goroutines;
`pc` is the position in `Apply`; `applied` and `declined` are the position of the
loops of `apply` and `askAndApply`; `exitCode` is how the last process ended: `"in sync"`
(0), `"drift"` (3), `"error"` (1) or `"killed"`. `cluster` is the live state.
`interfered` is a history variable: another client acted since the last comparison
began.

*Actions.* `Start` calls tailor with any of the option sets, and any template set.
`ProcessTemplates` and `ExportKind` are the goroutines; the export lists one kind after
another because `oc get a,b` is one request per kind. `ComparisonFails`, `FindNoDrift`,
`ReportDrift` and `FindDrift` are the outcomes of `calculateChangeset` in `Diff`,
`Apply` and `performVerification`. `AnswerAll` and `EndOfInput` are the prompt.
`ApplyChange`, `AcceptChange` and `DeclineChange` are iterations of the loops;
`CommandFails` a failing `oc`, with or without effect. `FinishApply` starts the
verification if asked for. `Crash` kills the process, `ForeignEdit` lets another client
create, edit, replace or delete a resource.

*The server.* `oc apply` is the three-way merge with the last applied configuration; the
server fills in `Default` where a field is left out and refuses to change immutable
fields. This is not code of this repository; it is what `item.go` and the
README rely on. The old annotation holds images only, as the versions that wrote it did
(`OldApplied`), and `oc apply` leaves it where it is. A `DeploymentConfig` that exists has
containers, so that the pasting of images cannot fail for want of a place; the containers of
the live item and of the last applied configuration are taken to correspond.

*Left out.* Printing, the version check, login and option parsing (the options of a run
are values), the reading of files, kinds the program does not know, the flag `Comparable` of
generated secrets (`item.go:165-191`), the fix of `apiVersion` (`item.go:435-456`), and the walk over
single JSON pointers inside `calculateChanges`: the core model compares sets of fields, and
`ItemDiff` shows that the walk comes to the same outcome.

### How `ItemDiff` corresponds to the code

*Data.* A document gives every pointer in `Path` a value: a scalar, `Map`, `Slice`, or
`NoValue`. `Under` says which pointers an object or list contains, `Extending` which
pointers begin with the text of another, because `utils.IncludesPrefix` compares text.

*State.* `template` and `platform` are the two `Config` documents, which the code changes
while it walks; `templateItem` and `platformItem` are what they were when parsed.
`compared`, `added` and `deleted` are the variables of `calculateChanges`, `left` the
paths the current loop has still to visit, `outcome` the change or error returned.

*Actions.* `Prepare` is the work of the two `prepareForComparisonWith...` methods.
`VisitTemplatePath` and `VisitPlatformPath` are the bodies of the two loops, with one
disjunct per branch; `Upcoming` allows every order `walkMap` can produce over Go maps.
`FinishTemplatePaths` visits the copied paths, which stand at the end of
`templateItem.Paths`; `Finish` is `NewChange`. *External:* `CanSet` and `Without`, what
the `gojsonpointer` library does. *Left out:* the fix of `apiVersion`, `null` values,
deleting an element of a list.

`AgreesWithChangeset` ties it to the core: with every object, list and scalar taken as
a field, and the empty values that do not count left out (`TemplateConfig`,
`PlatformConfig`), the outcome is what `ImmutableDrift`, `PreparedTemplate` and
`PreparedPlatform` of `Changeset` give, the definitions the proofs of `ApplySafety` are
about. It assumes that every preserved path could be copied. Its theorem names the other
conditions under which the core model may stand for the walk (section 4, ItemDiff).

### How `Invocation` corresponds to the code

*Data.* The value of an option is the sequence of its words, and `call.flags` gives every option
a value, which is the default of `main.go` where no flag was given: that is how the code tells
the two apart. A word of a resource argument or of `--exclude` is a record of kind and name, or
of a label; a label of `--exclude` with a `/` in it is read as a kind and a name, because
`filter.go:95` looks for the slash first (`SlashedLabels`). A Tailorfile and a param file are
sequences of lines. The working directory and the session of `oc` are records chosen in `Init`.

*State.* `global` and `options` are the structures `NewGlobalOptions` and the other
constructors return, `filter` the `ResourceFilter`. `todo` and `processing` are the position of
the template goroutine, `exporting` that of the other one, `failed` the error `eg.Wait`
would return, `temp` the `.combined.*.env` files on disk. `given` and `exported` record what
`oc process` and `oc get` were asked, `asked` the project of the session when the options
were read.

*Actions.* `ReadGlobalOptions` reads the Tailorfile and runs the checks that need no
options of the command. `ReadOptions` reads the file once more, under the name
`resolvedFile` gives, and sets the namespace; it may fail or panic. `StartGoroutines` builds the
filter. `BeginTemplate`, `Process` and `ReturnFromTemplate` are `ProcessTemplate` before, during
and after `oc process`; `ExportKinds` is the other goroutine and `Wait` is `eg.Wait`, which
lets both finish. `SwitchProject` is another process of the session, `Kill` ends this one.

*Left out.* The YAML of templates, but for whether it can be read and has a parameter
`TAILOR_NAMESPACE`; the project `oc process` runs in, which makes no difference to its
output; comments and blank lines in param files; the wording of
`oc version`; what `export` does to the text of its result.

### How `Secrets` corresponds to the code

*Data.* A `*.env.enc` file is a function from params to what is stored: a clear text with the
set of keys it is encrypted for. Files are numbered in the order of their names, because
`os.ReadDir` sorts. A key is a key pair. `KeyFileOf` gives the name of its public key file,
which is made of the part of the e-mail address before the `@`, so that pairs may share one.

*State.* `files`, `scratch` (`.ENV.DEC`), `publicKeys` (the keys in the key files), `cutOff` (the
key files that are still empty) and `privateKey` are on disk and shared;
`session` has the position and the local variables of each running command: its file, the
files a re-encryption has left, the clear text, and the content that decides which
values keep their cipher text; for `generate-key`, the pair it made. The others are history
variables: `typed`, what the user of a session wants in the file; `exposed`, the sessions whose
editor ran together with another or under which the private key was exchanged;
`leftBehind`, a command ended between writing `.ENV.DEC` and removing it; `fresh`, the
re-encryptions of the whole directory since whose start nobody else wrote a param or public
key file; `issued`, the pairs made so far.

*Actions.* `EditOpens` is `Edit` up to `EditEnvFile`; `WriteScratch`, `EditorSaves`,
`EditorFails`, `ReadScratch`, `ScratchIsGone` and `RemoveScratch` are the steps of `EditEnvFile`.
`Encrypt`, `EncryptFails`, `Truncate` and `Write` are `writeEncryptedContent`, which edit and
re-encryption share; `os.WriteFile` empties the file before it writes, and a process may be
killed in between. `ReEncryptStarts`, `ReEncryptReads` and `ReEncryptFails` are the loop over
the files of a directory. `GenerateKey` takes three steps per half of the pair: `GenerateStarts`
finds no public key file, `CreatePublicKey` empties it (`os.Create`), `WritePublicKey` writes it;
`FindNoPrivateKey`, `CreatePrivateKey` and `WritePrivateKey` do the same for `private.key`. Two of
them may pass the same check and overwrite each other's key, and a killed one leaves an
empty key file. `ChangePublicKeys` and `ChangePrivateKey` are people who add, remove or
exchange key files, `Crash` kills a process between any two steps.

*The abstraction.* `Vault` has a clear text per file and, per session, the file it holds, the text
it wants to put back, and whether that is on the desk, in the editor or being written. A command
takes a file with its text (`Take`), its user types (`Type`), and it puts back exactly that
text (`Begin` empties the file, `Put` fills it). Several commands may hold one file; the last one
wins, but each leaves its own text and nothing else. `GiveUp` changes no file. `Die`, the end of a
command that is writing, is the only step that loses a text. Two things leave open what a
command puts back, and they are recorded in `exposed`: two editors open at once, which share
`.ENV.DEC`, and an exchange of the private key, after which a previous value that cannot be
decrypted is taken for empty. Both are needed: without either TLC finds a step of `Secrets`
that `Vault` does not allow.

*Left out.* Comments, repeated keys and the order of lines; wrong passphrases; errors of the
file system other than a missing file; `reveal`, which reads only; the folders
`--public-key-dir` names. The key files are read at one moment. Two processes that write the
same file at the same time leave the text of the last one, not a mixture of their bytes, and
nobody changes a key file by hand while `generate-key` writes it.

## 3. Runs

| Run | Module | Instance | Checks |
|---|---|---|---|
| `flow` | `MCApply` | a Route and the Service it needs, an immutable and a plain field, six command lines | `TypeOK`, `DependenciesFirst`, `ExitCodeIsTruthful`, `InSyncMeansReached`, `NoDriftFoundMeansInSync`, `RefusedIsUntouched`, `DeletesAreJustified` |
| `fields` | `MCApply` | one `DeploymentConfig` with a label that is selected by, a defaulted field, an annotation, an image, a preserved field and an old annotation; two edits | `InSyncMeansReached`, `NoDriftFoundMeansInSync`, `OnlyReviewedFieldsChange`, `DeletesAreJustified` |
| `live` | `MCApply` | the same non-interactive call again and again; two edits, two faults | `RunTerminates`, `EventuallyReached` |
| `item` | `MCItemDiff` | pairs of Routes over eight paths, four sets of preserved paths | `TypeOK`, `AgreesWithChangeset`, `DesiredIsWhatWasAsked`, `PreservedPathsAreNoOps` |
| `secrets` | `MCSecrets` | two sessions, two files with two params, two known key pairs and two to generate | `TypeOK`, `ClearTextAccountedFor`, `EditsAreTransactions`, `ReEncryptedForAll`, `NobodyShutOut` |
| `invocation` | `MCInvocation` | 219 command lines, ten directories, four sessions of `oc` | `TypeOK`, `MostSpecificParamWins`, `TempIsRemoved`, `OneNamespace`, `ExportCoversFilter`, `ScopeIsAsAsked` |
| `upsert_only` | `MCApply` | as `flow` | `UpsertOnlyNeverDeletes` is violated |
| `drift_after_apply` | `MCApply` | as `fields` | `NoDriftAfterApply` is violated |
| `exclude` | `MCApply` | two resources, one label excluded | `ExcludedIsUntouched` is violated |
| `item_prefix` | `MCItemDiff` | fields `port` and `ports` | `DesiredIsWhatWasAsked` is violated |
| `item_immutable_list` | `MCItemDiff` | `accessModes` with one element | `ImmutableChangesAreDetected` is violated |
| `tailorfile` | `MCInvocation` | as `invocation` | `TailorfileSuffices` is violated |

### What the properties say

`Apply`:

* `DeletesAreJustified`: a delete needs a resource the templates dropped (and no
  `--upsert-only`), or a changed immutable field and `--allow-recreate`; never an empty
  template list without `--force`; and never, unless somebody else interferes, a
  resource outside the filter.
* `DependenciesFirst`: no command is issued before one it depends on was carried out or
  declined. What depends on what is stated by the kinds themselves (a Route needs its
  Service, a workload its ConfigMaps, a recreated resource its delete), not by `kindOrder`,
  whose comment says "Resources with no dependencies go first" (`changeset.go:13`): a wrong table, a
  sort in the wrong direction or a loop in the wrong place violates it.
* `ExitCodeIsTruthful`: 0 means all changes were carried out, 3 that one was not.
* `InSyncMeansReached`: after exit code 0, if nobody interfered, what the templates set
  is live and what they dropped is gone or back at its default.
* `NoDriftFoundMeansInSync`: an empty changeset means the live documents equal the
  templates, down to fields left out; only preserved fields, unmanaged annotations and
  images that tailor applied as the template has them may differ. This is what `--verify` adds.
* `OnlyReviewedFieldsChange`: no command writes a field the diff did not show.
* `RefusedIsUntouched`: what the user declines stays as the diff showed it.
* `RunTerminates`, `EventuallyReached`: a non-interactive run ends; after the last fault
  and the last edit, repeated runs make the templates' values live for good.

`ItemDiff`:

* `AgreesWithChangeset`: the order of the paths decides nothing, and nothing is
  overlooked for having been skipped.
* `DesiredIsWhatWasAsked`: what `oc apply` gets is what the template asks for.
* `PreservedPathsAreNoOps`: a preserved path and what is below it is no drift, whichever path
  is met first.

`Invocation`:

* `MostSpecificParamWins`: `oc process` sees the value of the most specific place that sets
  a param, with secrets encoded once.
* `TempIsRemoved`: the combined clear text exists only while a template is processed, or
  after a kill.
* `OneNamespace`: export and templates use one namespace, the one that was asked for.
* `ExportCoversFilter`: what the filter lets through is asked for, what it excludes is not.
* `ScopeIsAsAsked`: the filter lets through only what the words of flags and file ask for, and
  nothing they exclude by kind, by name, or by a label in lower case without a `/`.
* `TypeOK`: what the next step takes for granted wherever the call is: a namespace and a valid
  filter before anything is asked, templates only to compare, a filter for one resource without
  excludes.

`Secrets`:

* `EditsAreTransactions`: `Secrets` implements `Vault`. What a command leaves in a file is exactly
  what its user typed, or what it read to encrypt again, whatever other commands do to the file
  meanwhile, unless two editors were open at once or the private key was exchanged. A command that
  fails changes no file; one that is killed loses at most the file it was writing.
* `ReEncryptedForAll`: after a complete re-encryption every value has exactly the public
  keys as its readers.
* `ClearTextAccountedFor`: `.ENV.DEC` exists only during an edit, or a failure explains it.
* `NobodyShutOut`: a command takes a file away from no published key that could read all of it,
  unless another command has written the file since it was read (`Overtaken`): an edit may keep
  cipher texts that are older than a re-encryption.

### Bounds

*Apply.* Two resources, a `Route` and the `Service` it points to, are enough to have two kinds
in order, one depending on the other, a recreated resource next to an updated one, and one
resource blocking another. Two values tell desired from current. `MaxEdits` and `MaxFaults` are
1 or 2: one edit and one fault suffice for every single interference with a run, and runs may
follow each other without bound.

*ItemDiff.* Eight paths hold an immutable value, a list with an element, a value that may be
an empty string, and two annotations; pairs of documents over them are compared, in all
orders. Lists have at most one element, so their order does not matter.

*Invocation.* The command lines vary one group of options at a time: params with param files
and namespaces; resource arguments with exclusions and selectors, of each valid and invalid
form; failing checks and secrets commands. They meet every directory and every session of
`oc`. Two templates show what follows a failing one; `MaxSwitches = 1` lets somebody switch the
project at any point, and a second switch finds the run in the same state as the first.

*Secrets.* `MaxCommands = 2`: two commands are enough to meet on a file or in the editor, or for
one to follow what the other left after a crash. Both may be `generate-key` for one file name
(`g1` and `g2`, which are interchangeable). `MaxKeyChanges = 1`, because `generate-key` brings
further changes. Two files show a re-encryption that stops half-way. Files start with a value
readable by both keys and an empty one readable by one, or are missing. What is typed keeps one
value, changes and drops others, and adds one. Sessions are symmetric. TLC visits half a million
states.

### Fairness and deadlock

`FairSpec` of `Apply` assumes weak fairness of the program's own steps: the process runs
and its `oc` commands return, with success or not; and of `Start`: a pipeline calls
tailor again. Answers of a user, faults and other clients have none. Since faults
and edits are bounded, some run is the first without them.

Deadlock is checked in all runs of `MCApply`: `Start` is always possible when no process
runs. A comparison of two items ends, a call of `Invocation` ends, and `Secrets` stops
when the bound on commands is exhausted: their runs do not check it.

### Where the code and its documentation differ

The violation runs each show a statement of the documentation that the code does
not keep:

1. `--upsert-only` "Don't delete resource" (`cmd/tailor/main.go:169`): with
   `--allow-recreate`, recreation deletes.
2. "there should not be any drift anymore" (`pkg/commands/apply.go:41`): server
   defaults, and fields only others set, remain. The README (line 92) knows the former.
3. "excluding resources via `--exclude`" (`README.md:69`): an excluded live resource
   is overwritten if its template carries another label.
4. "Skip subpaths of already added paths" (`pkg/openshift/changeset.go:143`): a sibling
   whose name begins with the added name is skipped as well. If it is an empty object
   in the cluster, the template's object is emptied. It depends on the order of a Go map.
5. "Tailor detects if you do so" (`README.md:71`): not a changed element of the immutable
   list `accessModes`, which becomes an update.
6. "all options can be specified in a `Tailorfile`" (`README.md:120`): not the passphrase of
   secrets commands, nor `oc-binary`.

Other behaviour that the models have, that may surprise, and that no run is about:

* A preserved value is copied at export time and written back: what another client sets
  meanwhile is overwritten (`item.go:406`).
* Of a param that is given by two `--param` flags, the first value counts if the Tailorfile
  sets the param too (the `break` in `options.go:240`), and the last one otherwise, for then
  both are passed on and `oc` takes the last.
* A preserved annotation that nobody manages is drift, although preserved paths "are no-ops"
  (`changeset.go:148`, `item.go:463`).
* An encrypted param file without its `*.env` companion is not read (`template.go:142`).
* Labels in `--exclude` are put into lower case, labels of resources are not (`filter.go:104`).
* A label with a `/` in `--exclude`, such as `app.kubernetes.io/name=foo`, is read as a kind and a
  name and ends in "Unknown excluded resource kinds" (`filter.go:95`); if what is before the slash is
  a kind, the label excludes nothing.
* A selector without `=` is an index out of range in `HasLabel` (`item.go:123`), as is a
  `param` of a Tailorfile without `=` once there is a `--param` flag (`options.go:231`).
* What was typed is lost if it cannot be encrypted, for `.ENV.DEC` is removed first
  (`cli.go:166`).
* A killed process may leave an empty `*.env.enc` (`secrets.go:173`).
* `generate-key` leaves a public key without a private one if a `private.key` exists
  (`secrets.go:34`); two at once may overwrite each other's private key, and a killed one leaves an
  empty key file with which nothing can be encrypted (`encryption.go:39`).
* Two commands that edit one file do not notice each other: the last one to write wins
  (`secrets.go:122`).

## 4. Proofs

Everything below holds for all values of the constants that satisfy the assumptions.

### Apply

For any resources, kinds, fields, values, templates, options and bounds that satisfy the
assumptions in `Resources`, `Cluster` and `Apply`: `Absent` is neither a document nor a live
item, the field classes are sets of fields, annotations, images and immutable fields are
different fields, images are fields of containers, and the annotation of old versions holds
images only.

`ApplyProofs` proves `Spec => []IInv` with

    IInv == TypeOK /\ Planned /\ OrderKept /\ ExitCodeIsTruthful

`OrderKept` says that no pending change comes before an applied one in the order of the loops.
It implies `DependenciesFirst`, because that order respects every dependency between kinds
(`DependencyComesBefore`, for all kinds). It is not inductive on its own: the step that starts a
comparison must know that `applied` is emptied before a new changeset is found, and
`ExitCodeIsTruthful` must know, when the loop ends, that every change is applied or declined and
none both. `Planned` says this: which of the three sets is empty at which `pc`, and that during
application the changeset is the one the two lists give.

`ApplySafety` proves `Spec => []SInv`, where `SInv` adds to `IInv`

* `Idle`: what an ended run leaves behind;
* `TemplatesRead`: the template list is the filtered templates once they are processed;
* `DefaultsSet`: a live resource has its defaults;
* `Snapshot`: while nobody interferes, each resource is either as exported, or as its one
  applied change left it.

`Snapshot` is the heart: with it, each property follows from a property of the
operators of `Changeset` and `Cluster` alone, e.g. `ApplyReaches` (an accepted
`oc apply` of a change's desired state makes the resource reach the template) and
`NoChangeMeansInSync` (no change for a resource means template and live item agree).

| Theorem | States |
|---|---|
| `TypeCorrect` | `Spec => []TypeOK` |
| `DependenciesFirstHolds` | `Spec => []DependenciesFirst` |
| `ExitCodeTruthfulHolds` | `Spec => []ExitCodeIsTruthful` |
| `NoDriftFoundMeansInSyncHolds` | `Spec => []NoDriftFoundMeansInSync` |
| `InSyncMeansReachedHolds` | `Spec => []InSyncMeansReached` |
| `RefusedIsUntouchedHolds` | `Spec => []RefusedIsUntouched` |
| `DeletesAreJustifiedHolds` | `Spec => DeletesAreJustified` |
| `OnlyReviewedFieldsChangeHolds` | `Spec => OnlyReviewedFieldsChange` |

### Secrets

For any files, params, values, key pairs, sessions and bounds that satisfy `SecretsAssumption`: a
non-empty set of files has a first one (a directory has finitely many entries), and the
model values for "no file", "no key", "no param" and "no key in the file" are none of these.

`SecretsProofs` proves `Spec => []SInv` with

    SInv == TypeOK /\ TodoLeft /\ ClearTextAccountedFor

`TodoLeft` (a re-encryption that goes on has a file left) is needed for types: `First` of an
empty set is no file. `NobodyShutOut` compares what `Encrypt` makes of a file with the file as it
is then, while `Encrypt` looks at the content that was read earlier; `~Overtaken` says that the two
are the same, or that nothing is kept, and what is encrypted anew is encrypted for every
published key.

| Theorem | States |
|---|---|
| `DirectoryTypeCorrect` | `Spec => []TypeOK` |
| `ClearTextAccountedForHolds` | `Spec => []ClearTextAccountedFor` |
| `NobodyShutOutHolds` | `Spec => NobodyShutOut` |

`SecretsRefinement` proves `Spec => []RInv`, where

    RInv == SInv /\ TextsAreKnown /\ EditorsAreExposed /\ OnlyHoldersAreExposed

and from it that every step of `Secrets` is a step of `Vault` or a stutter. What a command
writes is what its user typed only if the text survives all its stations: the command's
memory, `.ENV.DEC`, and the cipher text, in which unchanged values are kept. `Knows` follows
it through them, one station per `pc`; its fourth conjunct, that the previous content is readable
with the private key, is what makes decrypting the cipher text give back the text
(`EncryptedText`), for a value that cannot be decrypted would be taken for empty.
`TextsAreKnown` claims `Knows` of every session that is not exposed. `StepKnows` shows what a step of
one session does to the others: nothing, but for `.ENV.DEC` and the private key, and
`EditorsAreExposed` says that whoever has its editor open beside another is exposed, so that
`.ENV.DEC` is that of the only editor that is not. What the param files hold plays no part: this is
why the refinement holds though several commands work on one file.

`ReEncryptedForAll` needs `FreshInv`: for each session in `fresh`, the files that are neither left
to do nor being written are encrypted for the public keys of now (`Midway`).

| Theorem | States |
|---|---|
| `EditsAreTransactionsHold` | `Spec => EditsAreTransactions`, the refinement of `Vault` |
| `ReEncryptedForAllHolds` | `Spec => ReEncryptedForAll` |

The refinement needs one more assumption in `Secrets`: the model value `Absent` is not a record
of a file, a text and a place.

### Invocation

For any command lines, Tailorfiles, param files, templates and sessions that satisfy the
assumptions in `Invocation`: params, param files and lines are sequences; the values in a
Tailorfile are not empty (`strings.Split` returns at least one word), those of the resource
argument are no labels; the session's project is one of the projects and has a name; items
have a kind.

`InvocationProofs` proves `Spec => []IInv` with

    IInv == Places /\ Given /\ SessionType /\ TempIsRemoved
              /\ NothingAsked /\ OptionsRead /\ FilterBuilt /\ AskedAsOptionsSay

The properties relate what `oc` was asked, perhaps by a goroutine that goes on after the
other has failed, to the command line; the invariant keeps the chain between them:
`AskedAsOptionsSay` from requests to options and filter, `FilterBuilt` from the filter to the
options, `OptionsRead` from the options to the call (`Given`). `NothingAsked` says that the chain is
complete before the first request. `TypeOK` follows from all of them: its parts on options, filter
and requests (`OptionsTyped`, `FilterTyped`, `QuestionsTyped`) are what the chain leaves of each.

`ParamProofs` adds `ParamsRead` (the params are the merge of flags and Tailorfile) and
`FilesRead` (the lines are those of the files of this template), and shows what value each
stage of merging leaves for a key: `MergedParamsValue`, `ArgumentsValue`, `ReadParamFilesValue`,
`FilesValue`.

The folds over lists of any length are handled without an induction principle (its
theorems take a predicate, which the prover cannot instantiate): `FoldExists` and `FoldInduction`
of `OptionsProofs` consider the smallest index at which the statement could fail. That there is a
smallest one follows from the well-foundedness of `<` on the naturals.

| Theorem | States |
|---|---|
| `TypeCorrect` | `Spec => []TypeOK` |
| `TempIsRemovedHolds` | `Spec => []TempIsRemoved` |
| `OneNamespaceHolds` | `Spec => []OneNamespace` |
| `ExportCoversFilterHolds` | `Spec => []ExportCoversFilter` |
| `ScopeIsAsAskedHolds` | `Spec => []ScopeIsAsAsked` |
| `MostSpecificParamWinsHolds` | `FlagsGivenOnce => (Spec => []MostSpecificParamWins)` |

`FlagsGivenOnce`, no call gives one param by two flags, is needed: see the list at the end of
section 3.

### ItemDiff

For any paths, documents and preserved paths that satisfy the assumptions in `ItemDiff`: paths
form a tree, a path's text begins with the text of what contains it, only objects and lists
contain something, annotations contain nothing, no preserved path contains another.

| Theorem | States |
|---|---|
| `TypeCorrect` | `Spec => []TypeOK`: both documents stay documents |
| `PreservedPathsAreNoOpsHolds` | `Spec => []PreservedPathsAreNoOps` |
| `DesiredIsWhatWasAskedHolds` | `PrefixesContain => (Spec => []DesiredIsWhatWasAsked)` |
| `AgreesWithChangesetHolds` | `Comparable => (Spec => []AgreesWithChangeset)` |

*`PreservedPathsAreNoOps`.* The two documents agree below copied paths once `Prepare` is
done (`CopiedAgree`): the first loop drops nothing below a preserved path, and the second sets
paths to what the platform has.

*`DesiredIsWhatWasAsked`.* The danger is the second loop, which overwrites a path of the template
it does not know. `Visited` says which paths are known: those visited and not skipped are
`compared`; those skipped are below an added path, and `AddedAreMissing` says that the platform
has nothing there (`UnknownIsNotTemplates`). This is where `PrefixesContain` is needed: a path
is a prefix of another's text only if it contains it. Where it does not hold, run
`item_prefix` finds what is lost.

*`AgreesWithChangeset`.* `Verdict` gives the action in terms of the two items alone, and
`VerdictIsChangesets` shows that this is what the operators of `Changeset` say. `Comparison` says
for every path, preserved, in the template or neither, which values the template's
document may have by now (`ValuesAreKnown`), and what holds of the paths a loop has visited
(`TemplateVisited`, `PlatformVisited`). At the end a path in `added` or
`deleted` is a difference in both views (`DriftAgrees`); if there is none, the two views differ at
the same paths (`EndAgrees`). `Comparable` states when the core model may stand for the
walk. Beside `PrefixesContain` it asks that

* immutable fields are scalars in templates: of an immutable object or list the walk does not
  compare the elements (run `item_immutable_list`);
* the platform has what contains an immutable field, as it has `/spec` of a Route: a
  field below an added object is skipped;
* nothing that contains the annotations is preserved: the annotations nobody manages are
  removed from the platform, and with a shared object from the template too.

Without any one of the three TLC finds a counterexample; the instance of run `item` satisfies
`Comparable`.

### Only model-checked

`RunTerminates` and `EventuallyReached`: liveness under fairness is out of the prover's
reach. All safety properties and action properties of the passing runs, and the
refinement, are proved, two of them under the conditions `FlagsGivenOnce` and
`PrefixesContain`, one under `Comparable`.

## 5. Not modelled

* The text processing of `export` (namespace substitution, trimming of annotations) and all
  printing: pure functions on text, which unit tests reach.
* Which fields `parseConfig` removes or rewrites, the fix of `apiVersion`, and deleting
  elements of a list.
* Parsing of command line words, of lines of param files and Tailorfiles into keys and
  values, and of `oc version`.
* OpenPGP, beyond who can read what; passphrases, and damaged keys other than empty key files.
* Generated secrets, which `item.go:165-191` keeps from being compared.
* Errors of the file system other than missing files and killed processes.
* Two template items of one kind and name (`list.go:40`): the lists of the models have one.
* Two runs of `apply` at a time: for one of them the other is another client, which
  `ForeignEdit` stands for.

## 6. Plan

1. Done: `Resources`, `Cluster`, `Changeset`, `Apply`, their runs and proofs.
2. Done: `ItemDiff`, its runs and proofs.
3. Done: `Secrets` and `Vault`, the run, the proofs and the refinement.
4. Done: `Options`, `Filter`, `ParamFiles`, `Invocation`, their runs and proofs.
5. `Contract`: what a user is promised about one resource, with `Apply` shown to
   implement it.
