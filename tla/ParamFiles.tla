----------------------------- MODULE ParamFiles -----------------------------
(***************************************************************************)
(* pkg/openshift/template.go: which params `oc process` gets for a         *)
(* template, and where they come from.                                     *)
(*                                                                         *)
(* The file system is a record: fs.dirs are the directories that exist,    *)
(* fs.clear and fs.encrypted are functions from the *.env and *.env.enc    *)
(* files that exist, named <<directory, name without extension>>, to their *)
(* lines.  A line is a record [key, value], one of an encrypted file also  *)
(* says if its key ends in ".B64" and if the private key can decrypt it.   *)
(***************************************************************************)
EXTENDS Options

\* What encode makes of a value: base64 of it, unless it is encoded already.
Base64(value) == <<"base64", value>>

\* encode
Encoded(line) ==
  [key |-> line.key, value |-> IF line.b64 THEN line.value ELSE Base64(line.value)]

Exists(fs, f) == f \in DOMAIN fs.clear

\* With the default param directory, a directory named like the namespace is preferred.
ParamDir(options, fs) ==
  IF options["param-dir"] = <<".">> /\ options["namespace"][1] \in fs.dirs
  THEN options["namespace"][1] ELSE options["param-dir"][1]

TemplateParamFile(template, options, fs) == <<ParamDir(options, fs), template>>

NamespaceParamFile(options) == <<".", options["namespace"][1]>>

\* calculateParamFiles
CalculateParamFiles(template, options, fs) ==
  LET own   == TemplateParamFile(template, options, fs)
      ns    == NamespaceParamFile(options)
      files == IF options["param-file"] # <<>> THEN options["param-file"]
               ELSE IF Exists(fs, own) THEN <<own>> ELSE <<>>
  IN  IF Exists(fs, ns) /\ ~Contains(files, ns) THEN Append(files, ns) ELSE files

\* A file that is named must exist, and its encrypted companion must be readable.
FileFails(fs, f) ==
  \/ ~Exists(fs, f)
  \/ f \in DOMAIN fs.encrypted /\ \E i \in DOMAIN fs.encrypted[f] : ~fs.encrypted[f][i].readable

LinesOf(fs, f) ==
  fs.clear[f]
    \o (IF f \in DOMAIN fs.encrypted
        THEN [i \in DOMAIN fs.encrypted[f] |-> Encoded(fs.encrypted[f][i])] ELSE <<>>)

\* readParamFileBytes
ReadFails(fs, files) == \E i \in DOMAIN files : FileFails(fs, files[i])

ReadParamFiles(fs, files) ==
  FoldLeft(LAMBDA lines, f : lines \o LinesOf(fs, f), <<>>, files)

\* The arguments --param of ProcessTemplate.
ParamArguments(template, options, usesNamespace) ==
  options["param"]
    \o (IF template \in usesNamespace
        THEN <<[key |-> "TAILOR_NAMESPACE", value |-> options["namespace"][1]]>> ELSE <<>>)

\* `oc process`: an argument beats the file, a later value of a key an earlier one.
ValueInOc(key, arguments, lines) ==
  IF key \in Keys(arguments) THEN LastOf(arguments, key)
  ELSE IF key \in Keys(lines) THEN LastOf(lines, key) ELSE NoValue

=============================================================================
