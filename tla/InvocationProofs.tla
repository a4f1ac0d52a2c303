-------------------------- MODULE InvocationProofs --------------------------
(***************************************************************************)
(* What one call of tailor asks of oc, for all command lines, Tailorfiles, *)
(* templates and sessions: its types, the namespace, the kinds that are    *)
(* exported, what the filter lets through, and the temporary file.         *)
(***************************************************************************)
EXTENDS Invocation, OptionsProofs

\* The call and the files are those the process was started with.
Given == call \in Calls /\ disk \in Disks

SessionType ==
  /\ oc = [binaries |-> oc.binaries, loggedIn |-> oc.loggedIn, versions |-> oc.versions,
           projects |-> oc.projects, project |-> oc.project]
  /\ oc.project \in oc.projects /\ <<>> \notin oc.projects

\* Nothing is asked before the filter is known, and templates only when comparing.
NothingAsked ==
  /\ pc \in {"start", "options", "filter"} => exported = {} /\ DOMAIN given = {}
  /\ todo # <<>> => Comparing

Asked == exported # {} \/ DOMAIN given # {}

\* setNamespace has put the namespace of the call into the options.
OptionsRead ==
  pc \in {"filter", "fetch", "lists"} \/ Asked =>
    /\ options["namespace"] = AskedNamespace /\ options["namespace"] # <<>>
    /\ IsResource(options["resource"])
    /\ Comparing => IsList(options["param"])

FilterBuilt ==
  pc \in {"fetch", "lists"} \/ exported # {} => filter = TheFilter /\ filter # InvalidFilter

\* What oc was asked for is what the options and the filter say.
AskedAsOptionsSay ==
  /\ \A request \in exported : request = Request(options["namespace"])
  /\ \A t \in DOMAIN given :
       Comparing /\ given[t].arguments = ParamArguments(t, options, UsesNamespace)

IInv ==
  /\ Places /\ Given /\ SessionType /\ TempIsRemoved
  /\ NothingAsked /\ OptionsRead /\ FilterBuilt /\ AskedAsOptionsSay

-----------------------------------------------------------------------------
(* Options.                                                                 *)

LEMMA ListOfWords ==
  ASSUME NEW list, IsList(list)
  PROVE  list \in Seq(Words(list))
<1>1. Len(list) \in Nat /\ list = [i \in 1..Len(list) |-> list[i]]
  BY DEF IsList
<1>2. list \in [1..Len(list) -> Words(list)]
  BY <1>1 DEF Words
<1>3. QED
  BY <1>1, <1>2

LEMMA SeqIsList ==
  ASSUME NEW S, NEW list \in Seq(S)
  PROVE  IsList(list) /\ Words(list) \subseteq S
BY LenProperties DEF IsList, Words

LEMMA MoreWords ==
  ASSUME NEW S, NEW T, S \subseteq T, NEW list \in Seq(S)
  PROVE  list \in Seq(T)
OBVIOUS

(* The options of a Tailorfile are lists of words, one or more.               *)
LEMMA FileType ==
  ASSUME NEW d \in Disks, NEW f
  PROVE  \E Word : \A o \in DOMAIN GetFileFlags(d.tailorfiles, f) :
           LET value == GetFileFlags(d.tailorfiles, f)[o]
           IN  value \in Seq(Word) /\ value # <<>> /\ (o = "resource" => IsResource(value))
<1>1. CASE f \notin DOMAIN d.tailorfiles
  BY <1>1 DEF GetFileFlags, NoFile
<1>2. CASE f \in DOMAIN d.tailorfiles
  <2> DEFINE lines == d.tailorfiles[f]
             Word == UNION {Words(lines[i].value) : i \in DOMAIN lines}
             ResourceWord == {word \in Word : ~IsLabel(word)}
  <2>1. IsList(lines)
    BY <1>2, TailorfileAssumption
  <2>2. ASSUME NEW i \in DOMAIN lines
        PROVE  /\ lines[i].value \in Seq(Word) /\ lines[i].value # <<>>
               /\ lines[i].key \in {"", "resource"} => lines[i].value \in Seq(ResourceWord)
    <3>1. /\ IsList(lines[i].value) /\ lines[i].value # <<>>
          /\ lines[i].key \in {"", "resource"} => IsResource(lines[i].value)
      BY <1>2, TailorfileAssumption DEF Words
    <3>2. lines[i].value \in Seq(Words(lines[i].value))
      BY <3>1, ListOfWords
    <3>3. Words(lines[i].value) \subseteq Word
      OBVIOUS
    <3>4. IsResource(lines[i].value) => Words(lines[i].value) \subseteq ResourceWord
      BY <3>3 DEF IsResource
    <3> HIDE DEF Word, ResourceWord, lines
    <3>5. lines[i].value \in Seq(Word)
      BY <3>2, <3>3, MoreWords
    <3>6. IsResource(lines[i].value) => lines[i].value \in Seq(ResourceWord)
      BY <3>2, <3>4, MoreWords
    <3>7. QED
      BY <3>1, <3>5, <3>6
  <2> HIDE DEF Word, lines
  <2>3. \A o \in DOMAIN FileFlags(lines) :
           /\ FileFlags(lines)[o] \in Seq(Word) /\ FileFlags(lines)[o] # <<>>
           /\ o = "resource" => FileFlags(lines)[o] \in Seq(ResourceWord)
    <3> HIDE DEF ResourceWord
    <3>1. QED
      BY <2>1, <2>2, FileFlagsType
  <2>4. ASSUME NEW value \in Seq(ResourceWord) PROVE IsResource(value)
    BY SeqIsList DEF IsResource
  <2>5. GetFileFlags(d.tailorfiles, f) = FileFlags(lines)
    BY <1>2 DEF GetFileFlags, lines
  <2> HIDE DEF ResourceWord
  <2>6. QED
    BY <2>3, <2>4, <2>5
<1>3. QED
  BY <1>1, <1>2

LEMMA OptionValues ==
  ASSUME NEW c, NEW fileFlags
  PROVE  /\ \A o \in {"namespace", "resource"} :
              /\ CompareOptions(c, fileFlags)[o] = TextOption(o, c.flags, fileFlags)
              /\ ExportOptions(c, fileFlags)[o] = TextOption(o, c.flags, fileFlags)
         /\ CompareOptions(c, fileFlags)["param"]
              = MergedParams(c.flags["param"], FileParams(fileFlags))
<1>1. \A o \in {"namespace", "resource"} :
        ExportOptions(c, fileFlags)[o] = TextOption(o, c.flags, fileFlags)
  BY DEF ExportOptions, With, Texts
<1>2. \A o \in {"namespace", "resource"} :
        CompareOptions(c, fileFlags)[o] = TextOption(o, c.flags, fileFlags)
  BY DEF CompareOptions, With, Texts
<1>3. CompareOptions(c, fileFlags)["param"]
        = MergedParams(c.flags["param"], FileParams(fileFlags))
  BY DEF CompareOptions, With, Texts
<1>4. QED
  BY <1>1, <1>2, <1>3

LEMMA DefaultIsNone ==
  DefaultFlags["namespace"] = <<>> /\ DefaultFlags["resource"] = <<>>
BY DEF DefaultFlags

(* The namespace in the options is that of the call, or empty if neither the  *)
(* flag nor the Tailorfile has one; the resource has the words of a resource; *)
(* the params are a list.                                                     *)
LEMMA CommandOptionsType ==
  ASSUME Given, ClusterRequired
  PROVE  /\ CommandOptions["namespace"] # <<>> => CommandOptions["namespace"] = AskedNamespace
         /\ CommandOptions["namespace"] = <<>> <=>
              call.flags["namespace"] = <<>> /\ "namespace" \notin DOMAIN CommandFile
         /\ IsResource(CommandOptions["resource"])
         /\ Comparing => IsList(CommandOptions["param"])
<1>1. call \in Calls /\ disk \in Disks
  BY DEF Given
<1>2. PICK Word : \A o \in DOMAIN CommandFile :
        /\ CommandFile[o] \in Seq(Word) /\ CommandFile[o] # <<>>
        /\ o = "resource" => IsResource(CommandFile[o])
  BY <1>1, FileType DEF CommandFile
<1>3. \A o \in {"namespace", "resource"} :
        CommandOptions[o] = TextOption(o, call.flags, CommandFile)
  BY OptionValues DEF CommandOptions, ClusterRequired
<1>4. /\ CommandOptions["namespace"] # <<>> => CommandOptions["namespace"] = AskedNamespace
      /\ CommandOptions["namespace"] = <<>> <=>
           call.flags["namespace"] = <<>> /\ "namespace" \notin DOMAIN CommandFile
  BY <1>2, <1>3, DefaultIsNone DEF TextOption, AskedNamespace
<1>5. IsResource(CommandOptions["resource"])
  <2>1. IsResource(call.flags["resource"])
    BY <1>1, FlagsAssumption
  <2>2. CommandOptions["resource"] = TextOption("resource", call.flags, CommandFile)
    BY <1>3
  <2>3. CASE call.flags["resource"] # DefaultFlags["resource"]
    BY <2>1, <2>2, <2>3 DEF TextOption
  <2>4. CASE call.flags["resource"] = DefaultFlags["resource"] /\ "resource" \in DOMAIN CommandFile
    BY <1>2, <2>2, <2>4 DEF TextOption
  <2>5. CASE call.flags["resource"] = DefaultFlags["resource"]
             /\ "resource" \notin DOMAIN CommandFile
    BY <2>1, <2>2, <2>5 DEF TextOption
  <2>6. QED
    BY <2>3, <2>4, <2>5
<1>6. ASSUME Comparing PROVE IsList(CommandOptions["param"])
  <2> DEFINE Param == Words(call.flags["param"]) \cup Word
  <2>1. call.flags["param"] \in Seq(Words(call.flags["param"]))
    BY <1>1, FlagsAssumption, ListOfWords
  <2>2. call.flags["param"] \in Seq(Param)
    BY <2>1, MoreWords
  <2>3. FileParams(CommandFile) \in Seq(Param)
    BY <1>2 DEF FileParams
  <2> HIDE DEF Param
  <2>4. PICK P : MergedParams(call.flags["param"], FileParams(CommandFile)) \in Seq(P)
    BY <2>2, <2>3, MergedParamsType
  <2>5. CommandOptions["param"] = MergedParams(call.flags["param"], FileParams(CommandFile))
    BY <1>6, OptionValues DEF CommandOptions
  <2>6. QED
    BY <2>4, <2>5, SeqIsList
<1>7. QED
  BY <1>4, <1>5, <1>6

LEMMA LastOfAppended ==
  ASSUME NEW params, IsList(params), NEW key, NEW value
  PROVE  LastOf(params \o <<[key |-> key, value |-> value]>>, key) = value
<1> DEFINE n == Len(params)
           all == params \o <<[key |-> key, value |-> value]>>
           S == Words(params) \cup {[key |-> key, value |-> value]}
<1>1. params \in Seq(Words(params)) /\ n \in Nat
  BY ListOfWords DEF IsList
<1>2. all \in Seq(S) /\ Len(all) = n + 1 /\ all[n + 1] = [key |-> key, value |-> value]
  BY <1>1
<1>3. DOMAIN all = 1..(n + 1)
  BY <1>2, LenProperties
<1>4. \A i : i \in DOMAIN all /\ all[i].key = key
             /\ (\A j \in DOMAIN all : all[j].key = key => j <= i) <=> i = n + 1
  BY <1>1, <1>2, <1>3
<1> HIDE DEF all, n
<1>5. LastOf(all, key) = all[n + 1].value
  BY <1>4 DEF LastOf
<1>6. QED
  BY <1>2, <1>5 DEF all

-----------------------------------------------------------------------------
(* The filter.                                                              *)

LEMMA NamedHasNoExcludes ==
  ASSUME NEW arg, NEW selector, NEW excludes,
         NewResourceFilter(arg, selector, excludes) # InvalidFilter
  PROVE  LET f == NewResourceFilter(arg, selector, excludes)
         IN  f.name # <<>> => f.excludedKinds = {}
BY DEF NewResourceFilter, NamedFilter, KindsFilter

\* What is excluded when the excludes are read.
ExcludedBy(excludes) ==
  {w \in Words(excludes) : IsLabel(w) => Lowered[w.label] = w.label /\ ~IsSlashed(w)}

(* An item the filter lets through is one of those asked for, and none of     *)
(* those excluded.                                                            *)
LEMMA FilterScope ==
  ASSUME NEW arg, IsResource(arg), NEW selector, NEW excludes,
         NewResourceFilter(arg, selector, excludes) # InvalidFilter,
         NEW item \in Items, SatisfiedBy(NewResourceFilter(arg, selector, excludes), item)
  PROVE  /\ arg = <<>> \/ \E w \in Words(arg) : Known(w) /\ Matches(w, item)
         /\ Words(selector) \subseteq item.labels
         /\ ~NamesOne(arg) => ~\E w \in ExcludedBy(excludes) : Matches(w, item)
<1> DEFINE f == NewResourceFilter(arg, selector, excludes)
<1>1. /\ Len(arg) \in Nat /\ DOMAIN arg = 1..Len(arg) /\ (Len(arg) = 0 => arg = <<>>)
      /\ \A w \in Words(arg) : ~IsLabel(w)
  <2>1. arg \in Seq(Words(arg))
    BY ListOfWords DEF IsResource
  <2>2. QED
    BY <2>1, LenProperties, EmptySeq DEF IsResource
<1>2. CASE \E w \in Words(arg) : IsName(w)
  <2>1. f = NamedFilter(arg, selector) /\ Len(arg) = 1
    BY <1>2 DEF NewResourceFilter, NamedFilter
  <2>2. PICK w \in Words(arg) : IsName(w) /\ w = arg[1]
    BY <1>1, <1>2, <2>1 DEF Words
  <2>3. f.name = NameOf(w) /\ f.labels = Words(selector)
    BY <2>1, <2>2 DEF NamedFilter
  <2>4. NameOf(w) = <<item.kind, item.name>> /\ Words(selector) \subseteq item.labels
    <3>1. NameOf(w) \in {<<>>, <<item.kind, item.name>>}
      BY <2>3 DEF SatisfiedBy
    <3>2. NameOf(w) # <<>>
      BY DEF NameOf
    <3>3. QED
      BY <2>3, <3>1, <3>2 DEF SatisfiedBy
  <2>5. Known(w) /\ KindMapping[w.kind] = item.kind /\ w.name = item.name
    <3>1. /\ (IF Known(w) THEN KindMapping[w.kind] ELSE "") = item.kind
          /\ w.name = item.name
      BY <2>4 DEF NameOf
    <3>2. QED
      BY <3>1, ItemAssumption
  <2>6. Matches(w, item)
    BY <2>2, <2>5 DEF Matches, IsName
  <2>7. NamesOne(arg)
    BY <2>2 DEF NamesOne, Words, IsName
  <2>8. QED
    BY <2>4, <2>5, <2>6, <2>7
<1>3. CASE ~\E w \in Words(arg) : IsName(w)
  <2>1. f = KindsFilter(arg, selector, excludes)
    BY <1>3 DEF NewResourceFilter
  <2>2. \A w \in Words(arg) \cup Excluded(excludes) : Known(w)
    BY <2>1 DEF KindsFilter
  <2>3. /\ f.kinds = {KindMapping[w.kind] : w \in Words(arg)}
        /\ f.labels = Words(selector)
        /\ f.excludedKinds = {KindMapping[w.kind] : w \in {x \in Excluded(excludes) : IsKind(x)}}
        /\ f.excludedNames = {NameOf(w) : w \in {x \in Excluded(excludes) : IsName(x)}}
        /\ f.excludedLabels = {Lowered[w.label] : w \in {x \in Excluded(excludes) : IsLabel(x)}}
    BY <2>1, <2>2 DEF KindsFilter
  <2> HIDE DEF f
  <2>4. /\ f.kinds = {} \/ item.kind \in f.kinds
        /\ f.labels \subseteq item.labels
        /\ item.kind \notin f.excludedKinds
        /\ <<item.kind, item.name>> \notin f.excludedNames
        /\ f.excludedLabels \cap item.labels = {}
    BY DEF SatisfiedBy, f
  <2>5. arg = <<>> \/ \E w \in Words(arg) : Known(w) /\ Matches(w, item)
    <3>1. CASE f.kinds = {}
      <4>1. Words(arg) = {}
        BY <2>3, <3>1
      <4>2. 1..Len(arg) = {}
        BY <1>1, <4>1 DEF Words
      <4>3. Len(arg) = 0
        BY <1>1, <4>2
      <4>4. QED
        BY <1>1, <4>3
    <3>2. CASE item.kind \in f.kinds
      <4>1. PICK w \in Words(arg) : KindMapping[w.kind] = item.kind
        BY <2>3, <3>2
      <4>2. w.name = "" /\ ~IsLabel(w)
        BY <1>1, <1>3 DEF IsName
      <4>3. QED
        BY <2>2, <4>1, <4>2 DEF Matches
    <3>3. QED
      BY <2>4, <3>1, <3>2
  <2>6. ASSUME NEW w \in ExcludedBy(excludes), Matches(w, item) PROVE FALSE
    <3>1. w \in Excluded(excludes) /\ Known(w)
      <4>1. w \in Words(excludes) /\ ~IsSlashed(w)
        BY <2>6 DEF ExcludedBy, IsSlashed
      <4>2. w \in Excluded(excludes)
        BY <4>1 DEF Excluded
      <4>3. QED
        BY <2>2, <4>2
    <3>2. CASE IsLabel(w)
      <4>1. Lowered[w.label] = w.label /\ w.label \in item.labels
        BY <2>6, <3>2 DEF ExcludedBy, Matches
      <4>2. w.label \in f.excludedLabels
        BY <2>3, <3>1, <3>2, <4>1
      <4>3. QED
        BY <2>4, <4>1, <4>2
    <3>3. CASE ~IsLabel(w)
      <4>1. KindMapping[w.kind] = item.kind /\ w.name \in {"", item.name}
        BY <2>6, <3>3 DEF Matches
      <4>2. w.name # ""
        BY <2>3, <2>4, <3>1, <3>3, <4>1 DEF IsKind
      <4>3. NameOf(w) = <<item.kind, item.name>> /\ IsName(w)
        BY <3>1, <3>3, <4>1, <4>2 DEF NameOf, IsName
      <4>4. QED
        BY <2>3, <2>4, <3>1, <4>3
    <3>4. QED
      BY <3>2, <3>3
  <2>7. QED
    BY <2>3, <2>4, <2>5, <2>6
<1>4. QED
  BY <1>2, <1>3

-----------------------------------------------------------------------------
(* The inductive invariant.                                                 *)

LEMMA InitInvariant == Init => IInv
<1> SUFFICES ASSUME Init PROVE IInv
  OBVIOUS
<1>1. Places /\ TempIsRemoved
  BY InvocationAssumption DEF Init, Places, TempIsRemoved
<1>2. Given /\ SessionType
  BY SessionAssumption DEF Init, Given, SessionType
<1>3. exported = {} /\ DOMAIN given = {} /\ todo = <<>> /\ pc = "start"
  BY DEF Init
<1>4. NothingAsked /\ OptionsRead /\ FilterBuilt /\ AskedAsOptionsSay
  BY <1>3 DEF NothingAsked, OptionsRead, FilterBuilt, AskedAsOptionsSay, Asked
<1>5. QED
  BY <1>1, <1>2, <1>4 DEF IInv

\* A step that leaves the call alone leaves alone what it asks for.
LEMMA SameCall ==
  ASSUME UNCHANGED <<call, disk>>
  PROVE  UNCHANGED <<Comparing, CommandFile>> /\ (UNCHANGED asked => UNCHANGED AskedNamespace)
<1>1. UNCHANGED <<Comparing, CommandFile>>
  BY DEF CommandFile, ResolvedName, ClusterRequired, Comparing
<1>2. UNCHANGED asked => UNCHANGED AskedNamespace
  BY <1>1 DEF AskedNamespace
<1>3. QED
  BY <1>1, <1>2

\* Once the options are read they stay as they are, and so does what they ask for.
LEMMA SameOptions ==
  ASSUME IInv, UNCHANGED <<call, disk, options, asked>>,
         pc' \in {"filter", "fetch", "lists"} \/ Asked' =>
           pc \in {"filter", "fetch", "lists"} \/ Asked
  PROVE  OptionsRead'
BY SameCall DEF IInv, OptionsRead

LEMMA SameFilter ==
  ASSUME IInv, UNCHANGED <<options, filter>>,
         pc' \in {"fetch", "lists"} \/ exported' # {} => pc \in {"fetch", "lists"} \/ exported # {}
  PROVE  FilterBuilt'
BY DEF IInv, FilterBuilt, TheFilter

LEMMA SameQuestions ==
  ASSUME IInv, UNCHANGED <<call, disk, options, filter, exported, given>>
  PROVE  AskedAsOptionsSay'
BY SameCall DEF IInv, AskedAsOptionsSay, Request

LEMMA SameSession ==
  ASSUME IInv, UNCHANGED <<call, disk, oc>>
  PROVE  Given' /\ SessionType'
BY DEF IInv, Given, SessionType

LEMMA NewProject ==
  ASSUME SessionType, NEW p \in oc.projects, oc' = [oc EXCEPT !.project = p]
  PROVE  SessionType'
<1> DEFINE others == [binaries |-> oc.binaries, loggedIn |-> oc.loggedIn,
                      versions |-> oc.versions, projects |-> oc.projects]
<1>1. oc' = [binaries |-> oc.binaries, loggedIn |-> oc.loggedIn, versions |-> oc.versions,
             projects |-> oc.projects, project |-> p]
  BY DEF SessionType
<1>2. QED
  BY <1>1 DEF SessionType

LEMMA ReadGlobalOptionsStep == IInv /\ ReadGlobalOptions => IInv'
<1> SUFFICES ASSUME IInv, ReadGlobalOptions PROVE IInv'
  OBVIOUS
<1>1. /\ pc = "start" /\ pc' \in {"error", "options"}
      /\ UNCHANGED <<call, disk, oc, options, filter, todo, temp, processing, given,
                     exporting, exported, failed, asked, switches>>
  BY DEF ReadGlobalOptions, runVars
<1>2. Places' /\ TempIsRemoved'
  BY <1>1 DEF IInv, Places, TempIsRemoved
<1>3. NothingAsked'
  BY <1>1, SameCall DEF IInv, NothingAsked
<1>4. OptionsRead'
  BY <1>1, SameOptions DEF Asked
<1>5. QED
  BY <1>1, <1>2, <1>3, <1>4, SameSession, SameFilter, SameQuestions DEF IInv

LEMMA ReadOptionsStep == IInv /\ ReadOptions => IInv'
<1> SUFFICES ASSUME IInv, ReadOptions PROVE IInv'
  OBVIOUS
<1>1. /\ pc = "options" /\ asked' = oc.project /\ exported = {} /\ DOMAIN given = {}
      /\ UNCHANGED <<call, disk, filter, todo, temp, processing, given, exporting, exported,
                     failed, switches>>
  BY DEF ReadOptions, runVars, IInv, NothingAsked
<1>2. NothingAsked'
  BY <1>1, SameCall DEF IInv, NothingAsked
<1>3. exported' = {} /\ DOMAIN given' = {} /\ ~Asked'
  BY <1>1 DEF Asked
<1>4. AskedAsOptionsSay'
  BY <1>3 DEF AskedAsOptionsSay
<1>5. CASE pc' \in {"panic", "error", "secrets"} /\ UNCHANGED oc
  <2>1. Places' /\ TempIsRemoved'
    BY <1>1, <1>5 DEF IInv, Places, TempIsRemoved
  <2>2. OptionsRead' /\ FilterBuilt'
    BY <1>3, <1>5 DEF OptionsRead, FilterBuilt
  <2>3. QED
    BY <1>1, <1>2, <1>4, <1>5, <2>1, <2>2, SameSession DEF IInv
<1>6. CASE ClusterRequired /\ SetNamespace(CommandOptions) /\ pc' = "filter"
  <2> DEFINE o == CommandOptions
             ns == IF o["namespace"] = <<>> THEN oc.project ELSE o["namespace"]
  <2>1. /\ o["namespace"] # <<>> => o["namespace"] = AskedNamespace
        /\ o["namespace"] = <<>> <=>
             call.flags["namespace"] = <<>> /\ "namespace" \notin DOMAIN CommandFile
        /\ IsResource(o["resource"])
        /\ Comparing => IsList(o["param"])
    BY <1>6, CommandOptionsType DEF IInv
  <2>2. ns \in oc.projects /\ ns # <<>>
    BY <1>6 DEF SetNamespace, IInv, SessionType
  <2>3. SessionType'
    <3>1. CASE o["namespace"] = <<>>
      BY <1>6, <3>1 DEF SetNamespace, IInv, SessionType
    <3>2. CASE o["namespace"] # <<>>
      <4>1. o["namespace"] \in oc.projects /\ oc' = [oc EXCEPT !.project = o["namespace"]]
        BY <1>6, <3>2 DEF SetNamespace
      <4>2. QED
        BY <4>1, NewProject DEF IInv
    <3>3. QED
      BY <3>1, <3>2
  <2>4. /\ options'["namespace"] = ns /\ options'["resource"] = o["resource"]
        /\ Comparing => options'["param"] = o["param"]
    <3>1. CASE o["namespace"] = <<>>
      <4>1. options' = With(o, "namespace", oc.project)
        BY <1>6, <3>1 DEF SetNamespace
      <4>2. "resource" \in DOMAIN o /\ (Comparing => "param" \in DOMAIN o)
        BY <1>6 DEF CommandOptions, ClusterRequired, CompareOptions, ExportOptions, With, Texts
      <4> HIDE DEF o
      <4>3. QED
        BY <3>1, <4>1, <4>2 DEF With, ns
    <3>2. CASE o["namespace"] # <<>>
      BY <1>6, <3>2 DEF SetNamespace
    <3>3. QED
      BY <3>1, <3>2
  <2>5. AskedNamespace' = ns
    BY <1>1, <2>1, SameCall DEF AskedNamespace
  <2> HIDE DEF ns, o
  <2>6. OptionsRead'
    <3>1. IsResource(options'["resource"])
      BY <2>1, <2>4
    <3>2. Comparing' => IsList(options'["param"])
      BY <1>1, <2>1, <2>4, SameCall
    <3>3. IsResource(options["resource"])' /\ (Comparing' => IsList(options["param"])')
      BY <3>1, <3>2
    <3>4. QED
      BY <2>2, <2>4, <2>5, <3>3 DEF OptionsRead
  <2>7. FilterBuilt'
    BY <1>3, <1>6 DEF FilterBuilt
  <2>8. Places' /\ TempIsRemoved'
    BY <1>1, <1>6, <2>2, <2>4 DEF IInv, Places, TempIsRemoved
  <2>9. Given'
    BY <1>1 DEF IInv, Given
  <2>10. QED
    BY <1>2, <1>4, <2>3, <2>6, <2>7, <2>8, <2>9 DEF IInv
<1>7. QED
  BY <1>5, <1>6 DEF ReadOptions, SetNamespace

LEMMA StartGoroutinesStep == IInv /\ StartGoroutines => IInv'
<1> SUFFICES ASSUME IInv, StartGoroutines PROVE IInv'
  OBVIOUS
<1>1. /\ pc = "filter" /\ filter' = TheFilter /\ exported = {} /\ DOMAIN given = {}
      /\ UNCHANGED <<call, disk, oc, options, temp, processing, given, exported, asked,
                     switches>>
  BY DEF StartGoroutines, IInv, NothingAsked
<1>2. \/ pc' = "error" /\ UNCHANGED <<todo, exporting>>
      \/ pc' = "fetch" /\ TheFilter # InvalidFilter /\ todo' = IF Comparing THEN disk.templates ELSE <<>>
  BY DEF StartGoroutines
<1>3. Places' /\ TempIsRemoved'
  <2>1. processing = "idle" /\ temp = {} /\ ~exporting
    BY <1>1 DEF IInv, Places, TempIsRemoved
  <2>2. QED
    BY <1>1, <1>2, <2>1 DEF IInv, Places, TempIsRemoved
<1>4. NothingAsked'
  BY <1>1, <1>2, SameCall DEF IInv, NothingAsked
<1>5. OptionsRead'
  BY <1>1, SameOptions
<1>6. FilterBuilt'
  BY <1>1, <1>2 DEF FilterBuilt, TheFilter
<1>7. AskedAsOptionsSay'
  BY <1>1 DEF AskedAsOptionsSay
<1>8. QED
  BY <1>1, <1>3, <1>4, <1>5, <1>6, <1>7, SameSession DEF IInv

LEMMA BeginTemplateStep == IInv /\ BeginTemplate => IInv'
<1> SUFFICES ASSUME IInv, BeginTemplate PROVE IInv'
  OBVIOUS
<1>1. /\ pc = "fetch" /\ todo # <<>> /\ processing = "idle"
      /\ UNCHANGED <<call, disk, oc, pc, options, filter, given, exporting, exported, asked,
                     switches>>
  BY DEF BeginTemplate
<1>2. \/ todo' = <<>> /\ UNCHANGED <<temp, processing>>
      \/ processing' = "temp" /\ UNCHANGED todo
  BY DEF BeginTemplate, TemplateGoroutineFails
<1>3. Places' /\ TempIsRemoved'
  BY <1>1, <1>2 DEF IInv, Places, TempIsRemoved
<1>4. NothingAsked'
  BY <1>1, <1>2, SameCall DEF IInv, NothingAsked
<1>5. QED
  BY <1>1, <1>3, <1>4, SameSession, SameOptions, SameFilter, SameQuestions DEF IInv

LEMMA ProcessStep == IInv /\ Process => IInv'
<1> SUFFICES ASSUME IInv, Process PROVE IInv'
  OBVIOUS
<1>1. /\ pc = "fetch" /\ processing = "temp" /\ processing' = "processed"
      /\ UNCHANGED <<call, disk, oc, pc, options, filter, todo, temp, exporting, exported,
                     asked, switches>>
  BY DEF Process
<1>2. Comparing
  BY <1>1 DEF IInv, Places, NothingAsked
<1>3. Places' /\ TempIsRemoved' /\ NothingAsked'
  BY <1>1, SameCall DEF IInv, Places, TempIsRemoved, NothingAsked
<1>4. AskedAsOptionsSay'
  <2>1. \A request \in exported' : request = Request(options["namespace"])'
    BY <1>1 DEF IInv, AskedAsOptionsSay, Request
  <2>2. ASSUME NEW t \in DOMAIN given'
        PROVE  given'[t].arguments = ParamArguments(t, options, UsesNamespace)
    <3>1. CASE t = Head(todo)
      BY <3>1 DEF Process, With, Arguments
    <3>2. CASE t # Head(todo)
      BY <2>2, <3>2 DEF Process, With, IInv, AskedAsOptionsSay
    <3>3. QED
      BY <3>1, <3>2
  <2>3. Comparing'
    BY <1>1, <1>2, SameCall
  <2>4. QED
    BY <1>1, <2>1, <2>2, <2>3 DEF AskedAsOptionsSay
<1>5. QED
  BY <1>1, <1>3, <1>4, SameSession, SameOptions, SameFilter DEF IInv

LEMMA ReturnFromTemplateStep == IInv /\ ReturnFromTemplate => IInv'
<1> SUFFICES ASSUME IInv, ReturnFromTemplate PROVE IInv'
  OBVIOUS
<1>1. /\ pc = "fetch" /\ processing = "processed" /\ processing' = "idle" /\ temp' = {}
      /\ UNCHANGED <<call, disk, oc, pc, options, filter, given, exporting, exported, asked,
                     switches>>
  BY DEF ReturnFromTemplate
<1>2. Comparing
  BY <1>1 DEF IInv, Places, NothingAsked
<1>3. Places' /\ TempIsRemoved' /\ NothingAsked'
  BY <1>1, <1>2, SameCall DEF IInv, Places, TempIsRemoved, NothingAsked
<1>4. QED
  BY <1>1, <1>3, SameSession, SameOptions, SameFilter, SameQuestions DEF IInv

LEMMA ExportKindsStep == IInv /\ ExportKinds => IInv'
<1> SUFFICES ASSUME IInv, ExportKinds PROVE IInv'
  OBVIOUS
<1>1. /\ pc = "fetch" /\ exporting' = FALSE
      /\ exported' = exported \cup {Request(options["namespace"])}
      /\ UNCHANGED <<call, disk, oc, pc, options, filter, todo, temp, processing, given,
                     asked, switches>>
  BY DEF ExportKinds
<1>2. Places' /\ TempIsRemoved' /\ NothingAsked'
  BY <1>1, SameCall DEF IInv, Places, TempIsRemoved, NothingAsked
<1>3. AskedAsOptionsSay'
  BY <1>1, SameCall DEF IInv, AskedAsOptionsSay, Request
<1>4. QED
  BY <1>1, <1>2, <1>3, SameSession, SameOptions, SameFilter DEF IInv

LEMMA WaitStep == IInv /\ Wait => IInv'
<1> SUFFICES ASSUME IInv, Wait PROVE IInv'
  OBVIOUS
<1>1. /\ pc = "fetch" /\ processing = "idle" /\ ~exporting /\ pc' \in {"error", "lists", "done"}
      /\ UNCHANGED <<call, disk, oc, options, filter, todo, temp, processing, given,
                     exporting, exported, asked, switches>>
  BY DEF Wait, runVars
<1>2. Places' /\ TempIsRemoved' /\ NothingAsked'
  BY <1>1, SameCall DEF IInv, Places, TempIsRemoved, NothingAsked
<1>3. QED
  BY <1>1, <1>2, SameSession, SameOptions, SameFilter, SameQuestions DEF IInv

LEMMA SwitchProjectStep == IInv /\ SwitchProject => IInv'
<1> SUFFICES ASSUME IInv, SwitchProject PROVE IInv'
  OBVIOUS
<1>1. /\ switches < MaxSwitches /\ switches' = switches + 1
      /\ UNCHANGED <<call, disk, pc, options, filter, todo, temp, processing, given,
                     exporting, exported, asked>>
  BY DEF SwitchProject, runVars
<1>2. SessionType'
  BY NewProject DEF SwitchProject, IInv
<1>3. Places' /\ TempIsRemoved' /\ NothingAsked'
  BY <1>1, SameCall, InvocationAssumption DEF IInv, Places, TempIsRemoved, NothingAsked
<1>4. Given' /\ OptionsRead' /\ FilterBuilt' /\ AskedAsOptionsSay'
  BY <1>1, SameOptions, SameFilter, SameQuestions DEF IInv, Given, Asked
<1>5. QED
  BY <1>2, <1>3, <1>4 DEF IInv

LEMMA KillStep == IInv /\ Kill => IInv'
<1> SUFFICES ASSUME IInv, Kill PROVE IInv'
  OBVIOUS
<1>1. /\ pc \in {"start", "options", "filter", "fetch"} /\ pc' = "killed"
      /\ UNCHANGED <<call, disk, oc, options, filter, todo, temp, processing, given,
                     exporting, exported, asked, switches>>
  BY DEF Kill, Running, runVars
<1>2. Places' /\ TempIsRemoved' /\ NothingAsked'
  BY <1>1, SameCall DEF IInv, Places, TempIsRemoved, NothingAsked
<1>3. OptionsRead'
  BY <1>1, SameOptions DEF Asked
<1>4. QED
  BY <1>1, <1>2, <1>3, SameSession, SameFilter, SameQuestions DEF IInv

LEMMA StutterStep == IInv /\ UNCHANGED vars => IInv'
<1> SUFFICES ASSUME IInv, UNCHANGED vars PROVE IInv'
  OBVIOUS
<1>1. UNCHANGED <<call, disk, oc, pc, options, filter, todo, temp, processing, given,
                  exporting, exported, asked, switches>>
  BY DEF vars
<1>2. Places' /\ TempIsRemoved' /\ NothingAsked'
  BY <1>1, SameCall DEF IInv, Places, TempIsRemoved, NothingAsked
<1>3. OptionsRead'
  BY <1>1, SameOptions DEF Asked
<1>4. QED
  BY <1>1, <1>2, <1>3, SameSession, SameFilter, SameQuestions DEF IInv

(* Options, filter and what oc was asked fit together in every state of a     *)
(* call, whatever is asked and whoever else uses the session.                 *)
THEOREM InvocationInvariant == Spec => []IInv
<1>1. IInv /\ [Next]_vars => IInv'
  BY ReadGlobalOptionsStep, ReadOptionsStep, StartGoroutinesStep, BeginTemplateStep,
     ProcessStep, ReturnFromTemplateStep, ExportKindsStep, WaitStep, SwitchProjectStep,
     KillStep, StutterStep DEF Next
<1>2. QED
  BY InitInvariant, <1>1, PTL DEF Spec

-----------------------------------------------------------------------------
(* The properties.                                                          *)

LEMMA AppendedIsList ==
  ASSUME NEW params, IsList(params), NEW param
  PROVE  IsList(params \o <<param>>)
<1> DEFINE S == Words(params) \cup {param}
<1>1. params \in Seq(Words(params))
  BY ListOfWords
<1>2. params \in Seq(S)
  BY <1>1, MoreWords
<1>3. params \o <<param>> \in Seq(S)
  BY <1>2
<1>4. QED
  BY <1>3, SeqIsList

LEMMA ResourceFilterType ==
  ASSUME NEW arg, NEW selector, NEW excludes
  PROVE  LET f == NewResourceFilter(arg, selector, excludes)
         IN  f # InvalidFilter =>
               /\ f = [name |-> f.name, kinds |-> f.kinds, labels |-> f.labels,
                       excludedKinds |-> f.excludedKinds, excludedNames |-> f.excludedNames,
                       excludedLabels |-> f.excludedLabels]
               /\ f.name # <<>> =>
                    /\ f.kinds = {} /\ f.excludedKinds = {}
                    /\ f.excludedNames = {} /\ f.excludedLabels = {}
BY DEF NewResourceFilter, NamedFilter, KindsFilter

(* Wherever a call is, its goroutines, the templates left, the options they   *)
(* read, the filter and what oc is asked have the form the next step takes    *)
(* for granted: a namespace and a valid filter before anything is asked,      *)
(* templates only for a command that compares, a filter for one resource      *)
(* without excludes.  (NewResourceFilter, calculateChangeset)                 *)
THEOREM TypeCorrect == Spec => []TypeOK
<1>1. ASSUME IInv PROVE TypeOK
  <2>1. Places
    BY <1>1 DEF IInv
  <2>2. OptionsTyped
    BY <1>1 DEF IInv, OptionsRead, OptionsTyped
  <2>3. FilterTyped
    <3>1. SUFFICES ASSUME pc \in {"fetch", "lists"} \/ exported # {}
                   PROVE  FilterTyped
      BY DEF FilterTyped
    <3>2. /\ filter # InvalidFilter
          /\ filter = NewResourceFilter(options["resource"], options["selector"],
                                       options["exclude"])
      BY <1>1, <3>1 DEF IInv, FilterBuilt, TheFilter
    <3>3. QED
      BY <3>2, ResourceFilterType DEF FilterTyped
  <2>4. QuestionsTyped
    <3>1. todo # <<>> \/ DOMAIN given # {} => Comparing
      BY <1>1 DEF IInv, NothingAsked, AskedAsOptionsSay
    <3>2. exported # {} \/ DOMAIN given # {} => options["namespace"] # <<>>
      BY <1>1 DEF IInv, OptionsRead, Asked
    <3>3. ASSUME NEW request \in exported
          PROVE  request = [namespace |-> request.namespace, kinds |-> request.kinds,
                            labels |-> filter.labels]
      BY <1>1, <3>3 DEF IInv, AskedAsOptionsSay, Request
    <3>4. ASSUME NEW t \in DOMAIN given PROVE IsList(given[t].arguments)
      <4>1. IsList(options["param"]) /\ given[t].arguments = ParamArguments(t, options, UsesNamespace)
        BY <1>1, <3>1, <3>4 DEF IInv, OptionsRead, Asked, AskedAsOptionsSay
      <4>2. options["param"] \o <<>> = options["param"]
        <5>1. options["param"] \in Seq(Words(options["param"]))
          BY <4>1, ListOfWords
        <5>2. QED
          BY <5>1
      <4>3. CASE t \in UsesNamespace
        BY <4>1, <4>3, AppendedIsList DEF ParamArguments
      <4>4. CASE t \notin UsesNamespace
        BY <4>1, <4>2, <4>4 DEF ParamArguments
      <4>5. QED
        BY <4>3, <4>4
    <3>5. QED
      BY <3>1, <3>2, <3>3, <3>4 DEF QuestionsTyped
  <2>5. QED
    BY <2>1, <2>2, <2>3, <2>4 DEF TypeOK
<1>2. QED
  BY <1>1, InvocationInvariant, PTL

(* The file with the clear text of params is removed whichever goroutine      *)
(* fails first; only a killed process leaves it behind.  (ProcessTemplate)    *)
THEOREM TempIsRemovedHolds == Spec => []TempIsRemoved
<1>1. IInv => TempIsRemoved
  BY DEF IInv
<1>2. QED
  BY <1>1, InvocationInvariant, PTL

(* A call stays in one namespace, however often others switch the project of  *)
(* the session.  (setNamespace, Export, ProcessTemplate)                      *)
THEOREM OneNamespaceHolds == Spec => []OneNamespace
<1>1. ASSUME IInv PROVE OneNamespace
  <2>1. ASSUME NEW request \in exported PROVE request.namespace = AskedNamespace
    <3>1. request = Request(options["namespace"])
      BY <1>1 DEF IInv, AskedAsOptionsSay
    <3>2. options["namespace"] = AskedNamespace
      BY <1>1, <2>1 DEF IInv, OptionsRead, Asked
    <3>3. QED
      BY <3>1, <3>2 DEF Request
  <2>2. ASSUME NEW t \in DOMAIN given \cap UsesNamespace
        PROVE  LastOf(given[t].arguments, "TAILOR_NAMESPACE") = AskedNamespace[1]
    <3>1. given[t].arguments = ParamArguments(t, options, UsesNamespace) /\ Comparing
      BY <1>1 DEF IInv, AskedAsOptionsSay
    <3>2. IsList(options["param"]) /\ options["namespace"] = AskedNamespace
      BY <1>1, <3>1 DEF IInv, OptionsRead, Asked
    <3>3. given[t].arguments = options["param"]
            \o <<[key |-> "TAILOR_NAMESPACE", value |-> AskedNamespace[1]]>>
      BY <3>1, <3>2 DEF ParamArguments
    <3>4. QED
      BY <3>2, <3>3, LastOfAppended
  <2>3. QED
    BY <2>1, <2>2 DEF OneNamespace
<1>2. QED
  BY <1>1, InvocationInvariant, PTL

(* Whatever the filter lets through is exported, and no kind that is          *)
(* excluded.  (ConvertToKinds, SatisfiedBy)                                   *)
THEOREM ExportCoversFilterHolds == Spec => []ExportCoversFilter
<1>1. ASSUME IInv PROVE ExportCoversFilter
  <2> SUFFICES ASSUME NEW request \in exported
               PROVE  /\ \A item \in Items :
                           SatisfiedBy(filter, item) /\ item.kind \in AvailableKinds =>
                             item.kind \in request.kinds /\ request.labels \subseteq item.labels
                      /\ request.kinds \cap filter.excludedKinds = {}
    BY DEF ExportCoversFilter
  <2>1. request.kinds = ConvertToKinds(filter) /\ request.labels = filter.labels
    BY <1>1 DEF IInv, AskedAsOptionsSay, Request
  <2>2. filter = TheFilter /\ filter # InvalidFilter
    BY <1>1 DEF IInv, FilterBuilt
  <2>3. filter.name # <<>> => filter.excludedKinds = {}
    BY <2>2, NamedHasNoExcludes DEF TheFilter
  <2>4. ASSUME NEW item \in Items, SatisfiedBy(filter, item), item.kind \in AvailableKinds
        PROVE  item.kind \in request.kinds /\ request.labels \subseteq item.labels
    <3>1. CASE filter.name = <<>>
      BY <2>1, <2>4, <3>1 DEF SatisfiedBy, ConvertToKinds
    <3>2. CASE filter.name # <<>>
      <4>1. filter.name = <<item.kind, item.name>>
        BY <2>4, <3>2 DEF SatisfiedBy
      <4>2. QED
        BY <2>1, <2>4, <3>2, <4>1 DEF SatisfiedBy, ConvertToKinds
    <3>3. QED
      BY <3>1, <3>2
  <2>5. request.kinds \cap filter.excludedKinds = {}
    BY <2>1, <2>3 DEF ConvertToKinds
  <2>6. QED
    BY <2>4, <2>5
<1>2. QED
  BY <1>1, InvocationInvariant, PTL

(* The filter lets through what was asked for and nothing that is excluded,   *)
(* for all words of flags and Tailorfile.  (NewResourceFilter, SatisfiedBy)   *)
THEOREM ScopeIsAsAskedHolds == Spec => []ScopeIsAsAsked
<1>1. ASSUME IInv PROVE ScopeIsAsAsked
  <2> SUFFICES ASSUME pc \in {"fetch", "lists"}, NEW item \in Items, SatisfiedBy(filter, item)
               PROVE  /\ \/ options["resource"] = <<>>
                         \/ \E w \in Words(options["resource"]) : Known(w) /\ Matches(w, item)
                      /\ Words(options["selector"]) \subseteq item.labels
                      /\ ~\E w \in EffectiveExcludes : Matches(w, item)
    BY DEF ScopeIsAsAsked
  <2>1. /\ IsResource(options["resource"]) /\ filter # InvalidFilter
        /\ filter = NewResourceFilter(options["resource"], options["selector"], options["exclude"])
    BY <1>1 DEF IInv, OptionsRead, FilterBuilt, TheFilter
  <2>2. EffectiveExcludes = IF NamesOne(options["resource"]) THEN {}
                            ELSE ExcludedBy(options["exclude"])
    BY DEF EffectiveExcludes, ExcludedBy
  <2>3. QED
    BY <2>1, <2>2, FilterScope
<1>2. QED
  BY <1>1, InvocationInvariant, PTL

=============================================================================
