------------------------------ MODULE Options ------------------------------
(***************************************************************************)
(* pkg/cli/options.go: the options of a command, from its flags and a      *)
(* Tailorfile.                                                             *)
(*                                                                         *)
(* The value of an option is the sequence of its comma-separated words,    *)
(* and the flags of a call are a function from the names of all options to *)
(* such values, which are the defaults of main.go for the flags that were  *)
(* not given.  A Tailorfile is a sequence of lines [key, value]; the key   *)
(* of a line with one word is "".  The files are a function from their     *)
(* names, <<"Tailorfile">>, <<"Tailorfile", namespace>> or another name.     *)
(***************************************************************************)
EXTENDS SequencesExt

CONSTANT NoValue   \* the value of a param without "=".  The words of --param are
                   \* records [key, value].

\* A list of words, or of lines.
IsList(value) == Len(value) \in Nat /\ value = [i \in 1..Len(value) |-> value[i]]

\* The flags of main.go that take a value, with the resource argument.
DefaultFlags ==
  [o \in {"namespace", "selector", "exclude", "passphrase", "labels", "param",
          "param-file", "preserve", "ignore-path", "trim-annotation", "resource",
          "template-dir", "param-dir", "public-key-dir", "oc-binary", "file",
          "private-key"} |->
     CASE o \in {"template-dir", "param-dir", "public-key-dir"} -> <<".">>
       [] o = "oc-binary"   -> <<"oc">>
       [] o = "file"        -> <<"Tailorfile">>
       [] o = "private-key" -> <<"private.key">>
       [] OTHER             -> <<>>]

GlobalSwitches  == {"verbose", "debug", "non-interactive", "force"}
CompareSwitches == {"preserve-immutable-fields", "ignore-unknown-parameters",
                    "upsert-only", "allow-recreate", "reveal-secrets", "verify"}
ExportSwitches  == {"with-annotations", "with-hardcoded-namespace"}

NoFile == [key \in {} |-> <<>>]

\* The map f after f[key] = value.
With(f, key, value) ==
  [k \in DOMAIN f \cup {key} |-> IF k = key THEN value ELSE f[k]]

\* A repeated key collects values; a lone word is the resource, and the last one wins.
AddLine(fileFlags, line) ==
  IF line.key = "" THEN With(fileFlags, "resource", line.value)
  ELSE With(fileFlags, line.key,
            IF line.key \in DOMAIN fileFlags
            THEN fileFlags[line.key] \o line.value ELSE line.value)

FileFlags(lines) == FoldLeft(AddLine, NoFile, lines)

\* Only the file named Tailorfile may be missing.
FileMissing(tailorfiles, filename) ==
  filename \notin DOMAIN tailorfiles /\ filename # <<"Tailorfile">>

\* getFileFlags
GetFileFlags(tailorfiles, filename) ==
  IF filename \in DOMAIN tailorfiles THEN FileFlags(tailorfiles[filename]) ELSE NoFile

\* resolvedFile: only a namespace given as a flag has a Tailorfile of its own.
ResolvedFile(tailorfiles, flags) ==
  IF /\ flags["file"] = <<"Tailorfile">> /\ flags["namespace"] # <<>>
     /\ flags["file"] \o flags["namespace"] \in DOMAIN tailorfiles
  THEN flags["file"] \o flags["namespace"] ELSE flags["file"]

-----------------------------------------------------------------------------

\* A flag that has its default value counts as not given.
TextOption(o, flags, fileFlags) ==
  IF flags[o] # DefaultFlags[o] THEN flags[o]
  ELSE IF o \in DOMAIN fileFlags THEN fileFlags[o] ELSE DefaultFlags[o]

SwitchedOn(switches, on, fileFlags) ==
  {w \in switches : w \in on \/ (w \in DOMAIN fileFlags /\ fileFlags[w] = <<"true">>)}

\* NewGlobalOptions.  The flag oc-binary is never empty.
GlobalOptions(call, fileFlags) ==
  With([o \in {"file", "oc-binary"} |-> call.flags[o]],
       "switches", SwitchedOn(GlobalSwitches, call.switches, fileFlags))

Keys(params) == {params[i].key : i \in DOMAIN params}

FirstOf(params, key) ==
  params[CHOOSE i \in DOMAIN params :
           /\ params[i].key = key
           /\ \A j \in DOMAIN params : params[j].key = key => i <= j].value

LastOf(params, key) ==
  params[CHOOSE i \in DOMAIN params :
           /\ params[i].key = key
           /\ \A j \in DOMAIN params : params[j].key = key => j <= i].value

\* With --param flags, a param of the file without "=", or a flag without "=" that
\* is to replace one, is an index out of range.
ParamsPanic(flagParams, fileParams) ==
  /\ flagParams # <<>>
  /\ \/ \E i \in DOMAIN fileParams : fileParams[i].value = NoValue
     \/ \E key \in Keys(flagParams) \cap Keys(fileParams) : FirstOf(flagParams, key) = NoValue

\* Mutant: the flags come first, and the file's values after them.
FileParamsWin(flagParams, fileParams) == flagParams \o fileParams

\* Keys of the file take the first flag's value; other flags are appended.
MergedParams(flagParams, fileParams) ==
  IF flagParams = <<>> THEN fileParams
  ELSE LET merged(key) ==
             [key |-> key, value |-> IF key \in Keys(flagParams) THEN FirstOf(flagParams, key)
                                     ELSE LastOf(fileParams, key)]
           addNew(params, param) ==
             IF param.key \in Keys(fileParams) THEN params ELSE Append(params, param)
       IN  FoldLeft(addNew, SetToSeq({merged(key) : key \in Keys(fileParams)}), flagParams)

FileParams(fileFlags) == IF "param" \in DOMAIN fileFlags THEN fileFlags["param"] ELSE <<>>

\* main.go appends --ignore-path to --preserve; in the file ignore-path comes first.
PreservePaths(flags, fileFlags) ==
  LET given == flags["preserve"] \o flags["ignore-path"] IN
    IF given # <<>> THEN given
    ELSE IF "ignore-path" \in DOMAIN fileFlags THEN fileFlags["ignore-path"]
    ELSE IF "preserve" \in DOMAIN fileFlags THEN fileFlags["preserve"] ELSE <<>>

\* The words of a resource argument or an exclude, see Filter.
NamesOne(resource) == \E i \in DOMAIN resource : resource[i].name # ""

\* check: a selector is ignored if the resource has a name.
Selector(flags, fileFlags) ==
  IF NamesOne(TextOption("resource", flags, fileFlags)) THEN <<>>
  ELSE TextOption("selector", flags, fileFlags)

Texts(names, call, fileFlags) ==
  [o \in names |-> IF o = "selector" THEN Selector(call.flags, fileFlags)
                   ELSE TextOption(o, call.flags, fileFlags)]

\* NewCompareOptions
CompareOptions(call, fileFlags) ==
  LET texts  == Texts({"namespace", "selector", "exclude", "template-dir", "param-dir",
                       "private-key", "passphrase", "labels", "param-file", "resource"},
                      call, fileFlags)
      params == MergedParams(call.flags["param"], FileParams(fileFlags))
  IN  With(With(With(texts, "param", params),
                "preserve", PreservePaths(call.flags, fileFlags)),
           "switches", SwitchedOn(CompareSwitches, call.switches, fileFlags))

\* NewExportOptions
ExportOptions(call, fileFlags) ==
  With(Texts({"namespace", "selector", "exclude", "template-dir", "param-dir",
              "trim-annotation", "resource"}, call, fileFlags),
       "switches", SwitchedOn(ExportSwitches, call.switches, fileFlags))

\* NewSecretsOptions, which does not set the passphrase.
SecretsOptions(call, fileFlags) ==
  With(Texts({"param-dir", "public-key-dir", "private-key"}, call, fileFlags),
       "passphrase", <<>>)

=============================================================================
